-------------------------- MODULE NondominatedSorting --------------------------
(***************************************************************************)
(* run_nsga2 of hpc/pbea_cpp/src/main.cpp and optimize_tmoea of            *)
(* hpc/gga_cpp/src/main.cpp: parents and offspring together, the best      *)
(* fronts survive.  The tournaments may let any two members breed (a       *)
(* member drawn against itself wins), so the parents are arbitrary.        *)
(* Offspring of NSGA-II are order crossovers; the repair and the topology  *)
(* mutation of T-MOEA may leave any layout, and its last batch is cut to   *)
(* the budget and takes part in survival all the same.                     *)
(***************************************************************************)
EXTENDS ParetoFronts

Algorithms == {"nsgaii", "tmoea"}

\* NSGA-II: CrossoverSetting and GenerationsSetting as well; T-MOEA: BudgetSetting.
SettingOK(s) == ParetoSetting(s)

VARIABLES
  population,  \* the population
  pool,        \* history variable: cells of the initial population
  report       \* layouts the run prints as its front, {} before

vars == <<runVars, population, pool, report>>

Init ==
  /\ RunInit /\ truncated = FALSE
  /\ population = <<>> /\ pool = {} /\ report = {}

Initialize ==
  /\ pc = "init"
  /\ population' \in Populations(Layouts, PopulationSize)
  /\ Counted(Members(population'), PopulationSize)
  /\ pool' = IF Counting THEN {} ELSE UNION Members(population')
  /\ pc' = "loop"
  /\ UNCHANGED <<generation, truncated, report>>

Lesser(a, b) == IF a <= b THEN a ELSE b

\* The batches a generation may evaluate.
Batches ==
  IF Counting THEN Populations(Layouts, Lesser(PopulationSize, Budget - evaluations))
              ELSE Offspring(Members(population))

Survive(offspring) ==
  population' \in CrowdedFirst(Together(population, offspring))

Generation ==
  /\ NextGeneration
  /\ \E offspring \in Batches :
       LET combined == Together(population, offspring)
       IN /\ Counted(Members(offspring), Count(offspring))
          /\ Survive(offspring)
          /\ truncated' = (truncated \/ Outgrown(combined))
  /\ UNCHANGED <<pc, pool, report>>

Report ==
  /\ Leave
  /\ report' = FirstFront(Members(population))
  /\ UNCHANGED <<population, pool>>

Step == Initialize \/ Generation \/ Report

-----------------------------------------------------------------------------
(* Properties.                                                             *)

\* Crossover and repair introduce no cell.
CellsInherited == InheritedFrom(pool)

\* The minima the summary prints are those of everything the run has evaluated: with
\* room for both ends of a front on each axis no extreme layout is ever crowded out.
MinimaKept ==
  PopulationSize >= 2 * Cardinality(Axes) /\ evaluated # {} =>
    \A k \in Axes : \E l \in Members(population) :
      \A m \in evaluated : Objective[l][k] <= Objective[m][k]
=============================================================================
