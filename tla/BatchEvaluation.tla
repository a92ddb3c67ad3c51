---------------------------- MODULE BatchEvaluation ----------------------------
(***************************************************************************)
(* What evaluate_population_hpc promises: one answer to one batch, which   *)
(* is the physics of each layout and depends neither on the schedule, nor  *)
(* on the number of threads, nor on the other layouts of the batch.  No    *)
(* array, stage or thread is visible here.                                 *)
(***************************************************************************)
EXTENDS WakeModel

CONSTANT Jobs  \* calls: [turbines, batch, indices, schedule, detail]

VARIABLES job, answer

Layout(j, row) == [t \in 1 .. j.turbines |-> j.indices[row * j.turbines + t]]

Feasible(j) ==
  /\ j.batch > 0
  /\ Len(j.indices) = j.batch * j.turbines
  /\ \A row \in 0 .. j.batch - 1 :
       /\ \A t \in 1 .. j.turbines :
            Layout(j, row)[t] \in 1 .. GridRows * GridCols
       /\ IsInjective(Layout(j, row))

\* The losses of the turbine at cell l[t]: one for each turbine that the wind
\* meets strictly before it, the farthest upwind first.
WindLosses(l, t, d) ==
  LET upwind == {u \in DOMAIN l : Along(l[u], d) > Along(l[t], d)}
      First(u, v) == \/ Along(l[u], d) > Along(l[v], d)
                     \/ Along(l[u], d) = Along(l[v], d) /\ u < v
      LossTo(u) == Deficiency(Distance(Across(l[t], d), Across(l[u], d)),
                              Along(l[u], d) - Along(l[t], d))
      order == Sorted(upwind, First)
  IN  NonZero([k \in DOMAIN order |-> LossTo(order[k])])

\* Directions outside, speeds inside.
TurbineYield(l, t) ==
  [k \in 1 .. Directions * Speeds |->
     LET d == (k - 1) \div Speeds
     IN  Addend(WindLosses(l, t, d + 1), d, (k - 1) % Speeds)]

\* The turbines of a layout from the weakest to the strongest, equals in the
\* order of the layout.
WeakestFirst(l) ==
  LET Weaker(t, u) ==
        \/ PowerValue(TurbineYield(l, t)) < PowerValue(TurbineYield(l, u))
        \/ PowerValue(TurbineYield(l, t)) = PowerValue(TurbineYield(l, u)) /\ t < u
  IN  Sorted(DOMAIN l, Weaker)

RowAnswer(l, detail) ==
  LET order == WeakestFirst(l)
  IN  [fitness |-> [k \in DOMAIN order |-> PowerValue(TurbineYield(l, order[k]))],
       ranked  |-> IF detail = "TotalAndPerTurbine"
                     THEN [k \in DOMAIN order |->
                             [power |-> TurbineYield(l, order[k]),
                              cell  |-> l[order[k]]]]
                     ELSE <<>>]

Answer(j) ==
  IF Feasible(j)
    THEN [status |-> "returned",
          rows   |-> [r \in 1 .. j.batch |-> RowAnswer(Layout(j, r - 1), j.detail)]]
    ELSE [status |-> "invalid_argument", rows |-> <<>>]

Unanswered == [status |-> "none", rows |-> <<>>]

BEInit == job \in Jobs /\ answer = Unanswered

Reply ==
  /\ answer = Unanswered /\ answer' # Unanswered
  /\ answer' = Answer(job)
  /\ UNCHANGED job

BESpec == BEInit /\ [][Reply]_<<job, answer>>
================================================================================
