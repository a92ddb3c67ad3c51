---------------------------- MODULE WflopRuntime ----------------------------
(***************************************************************************)
(* What the seventeen algorithms of hpc/wflop_cpp/src/algorithms.cpp share:*)
(* struct Runtime, through which every layout is evaluated and which keeps *)
(* the budget and the best of the run, and the ranking of a fitness        *)
(* vector; GGA and GeoGA of hpc/gga_cpp count and rank alike.              *)
(*                                                                         *)
(* One process runs one search: algorithm and budget are the algorithm_id  *)
(* and physical_fes_budget of its configuration and never change.  Setting *)
(* gives each search its budgets, its case and its parameters.             *)
(*                                                                         *)
(* A layout is a value; initialize_population and repair_population may    *)
(* produce any feasible one.  A batch is a function from the rows that are *)
(* paid for to their layouts: evaluate computes the first                  *)
(* min(rows, budget - fes) rows and returns no value for the others.       *)
(***************************************************************************)
EXTENDS Integers, FiniteSets

CONSTANTS
  Setting,   \* for each algorithm_id, its parameters and the case it is run on
  NoLayout   \* best_layout before the first evaluation

VARIABLES
  algorithm,   \* RunConfig.algorithm_id
  budget,      \* RunConfig.physical_fes_budget
  fes,         \* Runtime.fes
  best,        \* Runtime.best, 0 for minus infinity
  bestLayout,  \* Runtime.best_layout
  tracked      \* history variable: layouts evaluated with track_best

runtimeVars == <<algorithm, budget, fes, best, bestLayout, tracked>>

\* The feasible layouts and the expected power of each.
Layouts == Setting[algorithm].layouts
Power == Setting[algorithm].power

RuntimeSetting(s) ==
  /\ s.budgets \subseteq Nat \ {0}
  /\ s.power \in [s.layouts -> Nat \ {0}]
  /\ NoLayout \notin s.layouts

RuntimeInit ==
  /\ budget \in Setting[algorithm].budgets
  /\ fes = 0 /\ best = 0 /\ bestLayout = NoLayout /\ tracked = {}

\* The best a run reports is the best layout evaluated with track_best, with its own
\* power.
ReportsBest ==
  /\ \A l \in tracked : Power[l] <= best
  /\ tracked # {} => bestLayout \in tracked /\ Power[bestLayout] = best
  /\ tracked = {} => best = 0 /\ bestLayout = NoLayout

\* Faulty variant of Prefix: the last batch is not cut.
WholeBatch(rows) == rows

\* The rows of a batch the budget still pays for.
Prefix(rows) == {r \in rows : Cardinality({s \in rows : s < r}) < budget - fes}

\* evaluate throws when nothing is left to spend; the callers never pass an empty
\* batch unless they say so.
Unless(stage) == IF fes >= budget THEN "thrown" ELSE stage

\* The rows in order, each replacing a smaller best: the first of the greatest stays.
Commit(batch) ==
  IF \A r \in DOMAIN batch : Power[batch[r]] <= best
    THEN UNCHANGED <<best, bestLayout>>
    ELSE \E r \in DOMAIN batch :
           /\ \A s \in DOMAIN batch :
                \/ Power[batch[s]] < Power[batch[r]]
                \/ Power[batch[s]] = Power[batch[r]] /\ r <= s
           /\ best' = Power[batch[r]]
           /\ bestLayout' = batch[r]

Evaluate(batch) ==
  /\ fes' = fes + Cardinality(DOMAIN batch)
  /\ Commit(batch)
  /\ tracked' = tracked \cup {batch[r] : r \in DOMAIN batch}
  /\ UNCHANGED <<algorithm, budget>>

\* track_best = false.
EvaluateUntracked(batch) ==
  /\ fes' = fes + Cardinality(DOMAIN batch)
  /\ UNCHANGED <<algorithm, budget, best, bestLayout, tracked>>

\* stable_rank_descending: row i comes before row j.
Before(value, i, j) == value[i] > value[j] \/ (value[i] = value[j] /\ i < j)

\* The row with rank k.
Ranked(value) ==
  [k \in DOMAIN value |-> CHOOSE i \in DOMAIN value :
     Cardinality({j \in DOMAIN value : Before(value, j, i)}) = k - 1]

\* The row a ranking puts first.
First(value) == CHOOSE i \in DOMAIN value :
                  \A j \in DOMAIN value \ {i} : Before(value, i, j)
=============================================================================
