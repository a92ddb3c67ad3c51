------------------------------- MODULE Evaluator -------------------------------
(***************************************************************************)
(* evaluate_population_hpc of hpc/fode_cpp/src/evaluator.cpp: one call, on *)
(* an executor shared with the rest of the search.  FullStageParallel runs *)
(* five loops through parallel_for and hands flat arrays from one to the   *)
(* next; GranularityAware runs short loops on the caller and one fused     *)
(* loop, in parallel when every thread would get a state.                  *)
(*                                                                         *)
(* The arrays are one memory of addresses <<array, position>>.  An index   *)
(* of a parallel loop reads when it begins and writes when it ends, so     *)
(* what it read may be overwritten in between if the loops let it.         *)
(***************************************************************************)
EXTENDS WakeModel, Functions

CONSTANTS
  Threads,  \* thread_count of the executor, the caller included
  Jobs      \* calls: [turbines, batch, indices, schedule, detail]

ASSUME EvaluatorAssumption ==
  /\ Threads \in Nat \ {0}
  /\ \A j \in Jobs :
       /\ j.turbines \in Nat \ {0} /\ j.batch \in Int
       /\ j.indices \in Seq(Int)
       /\ j.schedule \in {"FullStageParallel", "GranularityAware"}
       /\ j.detail \in {"TotalOnly", "TotalAndPerTurbine"}

VARIABLES
  job,     \* the arguments
  pc,      \* "called", "stages", "returned" or "invalid_argument"
  stage,   \* the loop the caller is at
  cursor,  \* next index of a loop that runs on the caller
  memory,  \* the arrays of the call and of its result
  busy,    \* what each index in flight will write
  phase, todo, made  \* the executor, as its caller sees it

executor == <<phase, todo, made>>
vars == <<job, pc, stage, cursor, memory, busy, phase, todo, made>>

n == job.turbines
StateCount == job.batch * Directions
DownstreamTasks == StateCount * (n - 1)

\* Positions 0 .. n - 1 of a row or of a state.
Turbines == 0 .. n - 1
Block(k) == {k * n + t : t \in Turbines}

\* The row and the direction of a state.
RowOf(state) == state \div Directions
DirectionOf(state) == state - RowOf(state) * Directions

-----------------------------------------------------------------------------
(* The loops.                                                              *)

Loop(work, size, parallel) == [work |-> work, size |-> size, parallel |-> parallel]

StagedLoops ==
  <<Loop("place", job.batch, TRUE),
    Loop("rotate", StateCount, TRUE),
    Loop("wake", DownstreamTasks, TRUE),
    Loop("power", job.batch * n, TRUE),
    Loop("rank", job.batch, TRUE)>>

FusedLoops ==
  <<Loop("place", job.batch, FALSE),
    Loop("state", StateCount, StateCount >= Threads),
    Loop("reduce", job.batch, FALSE)>>

Loops == IF job.schedule = "GranularityAware" THEN FusedLoops ELSE StagedLoops

Current == Loops[stage]

AtLoop == pc = "stages" /\ stage <= Len(Loops)

\* The executor; a call of the evaluator makes at most five calls of it.
FJ == INSTANCE ForkJoin
        WITH Ranges <- {<<0, size>> : size \in Nat \ {0}}, MaxCalls <- 5

-----------------------------------------------------------------------------
(* What the body of each loop writes, from the memory it reads.            *)

\* One cell written, and some cells written over others.
Writing(address, value) == [a \in {address} |-> value]

Over(writes, cells) ==
  [a \in DOMAIN writes \cup DOMAIN cells |-> IF a \in DOMAIN writes THEN writes[a] ELSE cells[a]]

NoWrites == <<>>

\* A stable sort of 0 .. n - 1 in which key must not decrease.
StableOrder(key) ==
  LET Before(t) ==
        {u \in DOMAIN key : key[u] < key[t] \/ (key[u] = key[t] /\ u < t)}
  IN  [p \in DOMAIN key |->
         CHOOSE t \in DOMAIN key : Cardinality(Before(t)) = p]

Index(row, t) == job.indices[row * n + t + 1]

Place(row) ==
  LET Cell(k) == job.indices[k + 1] - 1
      GridRow(k) == Cell(k) \div GridCols
      GridCol(k) == Cell(k) - GridRow(k) * GridCols
  IN  [a \in {"x", "y"} \X Block(row) |->
         2 * (IF a[1] = "x" THEN GridCol(a[2]) ELSE GridRow(a[2])) + 1]

\* The coordinates of a state seen along its direction.
RotatedX(state) ==
  LET turn == Theta[DirectionOf(state) + 1]
  IN  [t \in Turbines |-> LET k == RowOf(state) * n + t
                          IN  turn[1] * memory[<<"x", k>>] - turn[2] * memory[<<"y", k>>]]
RotatedY(state) ==
  LET turn == Theta[DirectionOf(state) + 1]
  IN  [t \in Turbines |-> LET k == RowOf(state) * n + t
                          IN  turn[2] * memory[<<"x", k>>] + turn[1] * memory[<<"y", k>>]]

\* Downwind first.
DownstreamOrder(ty) == StableOrder(ty)

\* The turbines of a state, the farthest upwind first.
UpstreamOrder(ty) == StableOrder([t \in DOMAIN ty |-> 0 - ty[t]])

Rotate(state) ==
  LET tx == RotatedX(state)
      ty == RotatedY(state)
      order == UpstreamOrder(ty)
      Turbine(k) == k - state * n
  IN  [a \in {"transformed_x", "transformed_y", "upstream_order"} \X Block(state) |->
         CASE a[1] = "transformed_x" -> tx[Turbine(a[2])]
           [] a[1] = "transformed_y" -> ty[Turbine(a[2])]
           [] OTHER -> order[Turbine(a[2])]]

\* The losses of the turbine at a position of the order, which counts itself.
Losses(tx, ty, order, position) ==
  LET down == order[position]
      LossTo(up) == Deficiency(Distance(tx[down], tx[up]), Distance(ty[down], ty[up]))
  IN  NonZero([p \in 1 .. position + 1 |-> LossTo(order[p - 1])])

\* A state is taken to have n downstream tasks.
WakeOfWholeState(task) ==
  LET position == (task % (n - 1)) + 1
      state == task \div n
      Part(array) == [t \in Turbines |-> memory[<<array, state * n + t>>]]
      order == Part("upstream_order")
  IN  Writing(<<"wake", state * n + order[position]>>,
              Losses(Part("transformed_x"), Part("transformed_y"), order, position))

\* A turbine takes over the losses of the next one upwind.
WakeCarriedOn(task) ==
  LET position == (task % (n - 1)) + 1
      state == task \div (n - 1)
      Part(array) == [t \in Turbines |-> memory[<<array, state * n + t>>]]
      order == Part("upstream_order")
      Pair == <<order[position - 1], order[position]>>
  IN  Writing(<<"wake", state * n + order[position]>>,
              memory[<<"wake", state * n + order[position - 1]>>]
                \o Losses(Part("transformed_x"), Part("transformed_y"),
                          [p \in {0, 1} |-> Pair[p + 1]], 1))

Wake(task) ==
  LET position == (task % (n - 1)) + 1
      state == task \div (n - 1)
      Part(array) == [t \in Turbines |-> memory[<<array, state * n + t>>]]
      order == Part("upstream_order")
  IN  Writing(<<"wake", state * n + order[position]>>,
              Losses(Part("transformed_x"), Part("transformed_y"), order, position))

\* The fused loop does Rotate and every Wake of a state in local vectors.
EvaluateState(state) ==
  LET tx == RotatedX(state)
      ty == RotatedY(state)
      order == UpstreamOrder(ty)
  IN  [a \in {"wake"} \X {state * n + order[p] : p \in 1 .. n - 1} |->
         Losses(tx, ty, order,
                CHOOSE p \in 1 .. n - 1 : state * n + order[p] = a[2])]

PowerOf(row, turbine) ==
  [k \in 1 .. Directions * Speeds |->
     LET direction == (k - 1) \div Speeds
     IN  Addend(memory[<<"wake", (row * Directions + direction) * n + turbine>>],
                direction, (k - 1) % Speeds)]

Power(task) ==
  LET row == task \div n
  IN  Writing(<<"accumulated", task>>, PowerOf(row, task - row * n))

\* The results of a row from the power of each of its turbines.
Ranked(row, power) ==
  LET order == StableOrder([t \in Turbines |-> PowerValue(power[t])])
      Ranks == [a \in {"turbine_power", "position_order"} \X Block(row) |->
                  LET turbine == order[a[2] - row * n]
                  IN  IF a[1] = "turbine_power" THEN power[turbine]
                                                ELSE Index(row, turbine)]
  IN  Over(Writing(<<"fitness", row>>, [k \in 1 .. n |-> PowerValue(power[order[k - 1]])]),
           IF job.detail = "TotalAndPerTurbine" THEN Ranks ELSE NoWrites)

Rank(row) == Ranked(row, [t \in Turbines |-> memory[<<"accumulated", row * n + t>>]])

\* The fused schedule adds up and ranks a row in one iteration.
Reduce(row) ==
  LET power == [t \in Turbines |-> PowerOf(row, t)]
  IN  Over([a \in {"accumulated"} \X Block(row) |-> power[a[2] - row * n]],
           Ranked(row, power))

Written(i) ==
  CASE Current.work = "place" -> Place(i)
    [] Current.work = "rotate" -> Rotate(i)
    [] Current.work = "wake" -> Wake(i)
    [] Current.work = "power" -> Power(i)
    [] Current.work = "rank" -> Rank(i)
    [] Current.work = "state" -> EvaluateState(i)
    [] Current.work = "reduce" -> Reduce(i)

-----------------------------------------------------------------------------
(* The call.                                                               *)

Valid ==
  /\ job.batch > 0
  /\ Len(job.indices) = job.batch * n
  /\ \A row \in 0 .. job.batch - 1 :
       /\ \A t \in Turbines : Index(row, t) \in 1 .. GridRows * GridCols
       /\ \A t, u \in Turbines : t # u => Index(row, t) # Index(row, u)

\* The vectors as they are constructed: zeros.
Arrays ==
  LET perTurbine == 0 .. job.batch * n - 1
      perState == 0 .. StateCount * n - 1
      Numbers == ({"x", "y", "position_order"} \X perTurbine)
                   \cup ({"transformed_x", "transformed_y", "upstream_order"} \X perState)
      Sums == ({"wake"} \X perState)
                \cup ({"accumulated", "turbine_power"} \X perTurbine)
                \cup ({"fitness"} \X (0 .. job.batch - 1))
  IN  [a \in Numbers \cup Sums |-> IF a \in Numbers THEN 0 ELSE <<>>]

Init ==
  /\ job \in Jobs
  /\ pc = "called"
  /\ stage = 1 /\ cursor = 0
  /\ memory = <<>> /\ busy = NoWrites
  /\ phase = "idle" /\ todo = {} /\ made = 0

Reject ==
  /\ pc = "called" /\ ~Valid
  /\ pc' = "invalid_argument"
  /\ UNCHANGED <<job, stage, cursor, memory, busy, executor>>

Enter ==
  /\ pc = "called" /\ Valid
  /\ pc' = "stages"
  /\ memory' = Arrays
  /\ UNCHANGED <<job, stage, cursor, busy, executor>>

\* parallel_for: an empty range returns without waking a thread.
CallParallelFor ==
  /\ AtLoop /\ Current.parallel
  /\ IF Current.size > 0
       THEN FJ!Fork(<<0, Current.size>>) /\ UNCHANGED stage
       ELSE phase = "idle" /\ stage' = stage + 1 /\ UNCHANGED executor
  /\ UNCHANGED <<job, pc, cursor, memory, busy>>

Begin(i) ==
  /\ phase = "running"
  /\ i \in todo \ DOMAIN busy
  /\ Cardinality(DOMAIN busy) < Threads
  /\ busy' = Over(Writing(i, Written(i)), busy)
  /\ UNCHANGED <<job, pc, stage, cursor, memory, executor>>

End(i) ==
  /\ i \in DOMAIN busy
  /\ FJ!Finish(i)
  /\ memory' = Over(busy[i], memory)
  /\ busy' = Restrict(busy, DOMAIN busy \ {i})
  /\ UNCHANGED <<job, pc, stage, cursor>>

ReturnFromParallelFor ==
  /\ FJ!Return
  /\ stage' = stage + 1
  /\ UNCHANGED <<job, pc, cursor, memory, busy>>

\* A loop that the caller runs, an index at a time.
SerialIndex ==
  /\ AtLoop /\ ~Current.parallel
  /\ cursor < Current.size
  /\ memory' = Over(Written(cursor), memory)
  /\ cursor' = cursor + 1
  /\ UNCHANGED <<job, pc, stage, busy, executor>>

SerialEnd ==
  /\ AtLoop /\ ~Current.parallel
  /\ cursor = Current.size
  /\ cursor' = 0
  /\ stage' = stage + 1
  /\ UNCHANGED <<job, pc, memory, busy, executor>>

ReturnResult ==
  /\ pc = "stages" /\ stage > Len(Loops)
  /\ pc' = "returned"
  /\ UNCHANGED <<job, stage, cursor, memory, busy, executor>>

\* The only state in which a call may stop.
Ended == pc \in {"returned", "invalid_argument"} /\ UNCHANGED vars

Next ==
  \/ Reject
  \/ Enter
  \/ CallParallelFor
  \/ \E i \in todo : Begin(i)
  \/ \E i \in todo : End(i)
  \/ ReturnFromParallelFor
  \/ SerialIndex
  \/ SerialEnd
  \/ ReturnResult
  \/ Ended

Spec == Init /\ [][Next]_vars

-----------------------------------------------------------------------------
(* Properties.                                                             *)

\* No index of a parallel loop reads a cell that another index of the loop
\* writes while it is in flight: what it computed when it began is what it
\* would compute now.
ReadsAreStable == \A i \in DOMAIN busy : busy[i] = Written(i)

\* No two indices in flight write one cell, and no write falls outside the
\* arrays: the flat positions of rows, states and tasks are decoded so that
\* every cell has one owner in a loop.
WritesApart ==
  /\ \A i \in DOMAIN busy : DOMAIN busy[i] \subseteq DOMAIN memory
  /\ \A i, k \in DOMAIN busy :
       i # k => DOMAIN busy[i] \cap DOMAIN busy[k] = {}

\* What the caller can see of the call.
Result(row) ==
  [fitness |-> memory[<<"fitness", row>>],
   ranked  |-> IF job.detail = "TotalAndPerTurbine"
                 THEN [k \in 1 .. n |->
                         [power |-> memory[<<"turbine_power", row * n + k - 1>>],
                          cell  |-> memory[<<"position_order", row * n + k - 1>>]]]
                 ELSE <<>>]

VisibleAnswer ==
  [status |-> IF pc \in {"returned", "invalid_argument"} THEN pc ELSE "none",
   rows   |-> IF pc = "returned"
                THEN [r \in 1 .. job.batch |-> Result(r - 1)] ELSE <<>>]

BE == INSTANCE BatchEvaluation WITH answer <- VisibleAnswer

\* Either schedule, with any team and any interleaving of it, answers what
\* BatchEvaluation promises: the physics of each layout, every addend in its
\* order, or an error exactly when a layout is not feasible.
ImplementsBatchEvaluation == BE!BESpec
=============================================================================
