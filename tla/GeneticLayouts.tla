--------------------------- MODULE GeneticLayouts ---------------------------
(***************************************************************************)
(* AGA and SUGGA: optimize_ga of hpc/wflop_cpp/src/algorithms.cpp, the     *)
(* only search whose operators must keep a layout feasible by themselves:  *)
(* nothing repairs it before it is evaluated.  A layout is a row of cells  *)
(* in increasing order, none twice, none blocked.                          *)
(*                                                                         *)
(* Which free cell is inserted (at random, or for SUGGA the best of five   *)
(* by the frozen model) is left open.  Every draw repeats until a free     *)
(* cell comes: a case has one.                                             *)
(***************************************************************************)
EXTENDS WflopRuntime

Algorithms == {"aga", "sugga"}

Cells(row) == {row[d] : d \in DOMAIN row}

FeasibleRows(turbines, free) ==
  {row \in [1 .. turbines -> free] : \A d \in 2 .. turbines : row[d - 1] < row[d]}

\* free: cells of the grid that are not blocked; turbines: turbine_count; size: 50 for
\* AGA, 120 for SUGGA; elite: elite_count, 0.2 * population_size; worst:
\* turbine_position_order(row, 0), the least productive cell of a layout.
SettingOK(s) ==
  /\ RuntimeSetting(s)
  /\ s.free \subseteq Nat /\ s.turbines \in 2 .. (Cardinality(s.free) - 1)
  /\ s.size \in Nat /\ s.size >= 2
  /\ s.elite \in 1 .. s.size
  /\ s.layouts = FeasibleRows(s.turbines, s.free)
  /\ \A row \in s.layouts : s.worst[row] \in Cells(row)

Free == Setting[algorithm].free
Turbines == Setting[algorithm].turbines
PopulationSize == Setting[algorithm].size
Elite == Setting[algorithm].elite
Worst == Setting[algorithm].worst

Rows == 1 .. PopulationSize

VARIABLES
  pc,
  population,  \* cells of each row
  worst        \* worst_cell, of each row of the ranked population

vars == <<pc, population, worst, runtimeVars>>

\* The initial population is not evaluated before the loop.
Init ==
  /\ RuntimeInit
  /\ pc = "loop"
  /\ population \in [Rows -> Layouts]
  /\ worst = <<>>

\* Faulty variant of WorstCells: the cells are not reordered with the rows.
WorstUnranked(source) == [r \in Rows |-> Worst[population[r]]]

WorstCells(source) == [k \in Rows |-> Worst[population[source[k]]]]

\* Rows the budget pays for are evaluated; a short batch ends the run, a full one
\* leaves the population ranked.
EvaluateAndRank ==
  /\ pc = "loop" /\ fes < budget
  /\ LET batch == [r \in Prefix(Rows) |-> population[r]]
         source == Ranked([r \in Rows |-> Power[population[r]]])
     IN /\ Evaluate(batch)
        /\ IF DOMAIN batch # Rows
             THEN pc' = "finish" /\ UNCHANGED <<population, worst>>
             ELSE /\ population' = [k \in Rows |-> population[source[k]]]
                  /\ worst' = WorstCells(source)
                  /\ pc' = "replace"

\* std::sort.
Sorted(row) ==
  LET source == Ranked([d \in DOMAIN row |-> 0 - row[d]])
  IN [d \in DOMAIN row |-> row[source[d]]]

\* replace_cell: a cell the row does not have is silently left alone.
ReplaceCell(row, removed, inserted) ==
  Sorted([d \in 1 .. Turbines |-> IF row[d] = removed THEN inserted ELSE row[d]])

\* Each row gives up its least productive cell for a free one.
ReplaceWeakest ==
  /\ pc = "replace"
  /\ \E inserted \in [Rows -> Free] :
       /\ \A r \in Rows : inserted[r] \notin Cells(population[r])
       /\ population' = [r \in Rows |-> ReplaceCell(population[r], worst[r], inserted[r])]
  /\ pc' = "cross"
  /\ UNCHANGED <<worst, runtimeVars>>

\* The cells on both sides of the cut must be in order.
MayCross(male, female, point) == male[point - 1] < female[point]

Crossed(male, female, point) ==
  [d \in 1 .. Turbines |-> IF d < point THEN male[d] ELSE female[d]]

\* The pairs of rows two different entries of the parent list can give: the elite, then
\* drawn rows, where the last elite row may be drawn a second time.
Pairs(drawn) ==
  LET parents == IF Elite + Cardinality(drawn) < 2 THEN {1, 2} ELSE (1 .. Elite) \cup drawn
  IN {p \in parents \X parents : p[1] # p[2] \/ (p[1] = Elite /\ Elite \in drawn)}

\* Two parents and a cut.
Crossings(drawn) ==
  {x \in Pairs(drawn) \X (2 .. Turbines) :
     MayCross(population[x[1][1]], population[x[1][2]], x[2])}

\* What becomes of a row before mutation.
Bred(row, drawn) ==
  {row} \cup {Crossed(population[x[1][1]], population[x[1][2]], x[2]) : x \in Crossings(drawn)}

\* One turbine moves to a free cell, or none does.
Mutated(row) ==
  {row} \cup {Sorted([row EXCEPT ![d] = cell]) :
                d \in 1 .. Turbines, cell \in Free \ Cells(row)}

\* All offspring are made from the population as it was.
CrossAndMutate ==
  /\ pc = "cross"
  /\ \E drawn \in SUBSET (Elite .. PopulationSize) :
       LET offspring == [r \in Rows |-> UNION {Mutated(c) : c \in Bred(population[r], drawn)}]
       IN population' \in {rows \in [Rows -> UNION {offspring[r] : r \in Rows}] :
                             \A r \in Rows : rows[r] \in offspring[r]}
  /\ pc' = "loop"
  /\ UNCHANGED <<worst, runtimeVars>>

LeaveLoop ==
  /\ pc = "loop" /\ fes >= budget
  /\ pc' = "finish"
  /\ UNCHANGED <<population, worst, runtimeVars>>

Finish ==
  /\ pc = "finish"
  /\ pc' = "done"
  /\ UNCHANGED <<population, worst, runtimeVars>>

Step ==
  \/ EvaluateAndRank \/ ReplaceWeakest \/ CrossAndMutate \/ LeaveLoop \/ Finish

-----------------------------------------------------------------------------
(* Properties.                                                             *)

\* Crossover, mutation and replacement keep every row a feasible layout, in order,
\* which is what the next crossover cuts rely on.
StaysFeasible == \A r \in Rows : population[r] \in Layouts

\* The least productive cell of a row, replaced after the ranking has moved the row, is
\* a cell of that row, and gives way to one that was free.
WeakestLeaves ==
  pc = "replace" => \A r \in Rows :
    Cells(population[r]) \ Cells(population'[r]) = {Worst[population[r]]}

=============================================================================
