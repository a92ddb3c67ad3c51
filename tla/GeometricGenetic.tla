--------------------------- MODULE GeometricGenetic ---------------------------
(***************************************************************************)
(* optimize and optimize_geoga of hpc/gga_cpp/src/main.cpp: GGA, where a   *)
(* candidate takes the place of the row it is made for, and GeoGA, where   *)
(* parents and candidates are merged and the best stay.  A batch the       *)
(* budget cuts short takes part in both.  Neither keeps a best of the run: *)
(* what is reported is looked up in the last population.                   *)
(*                                                                         *)
(* Power is what is maximized, expected energy for GeoGA, minus the cost   *)
(* of energy for GGA.  Parents, crossover, mutation and repair may produce *)
(* any layout.                                                             *)
(***************************************************************************)
EXTENDS PopulationSearch

Algorithms == {"gga", "geoga"}

\* size: population_size; a budget below it is refused.
SettingOK(s) ==
  /\ RuntimeSetting(s)
  /\ s.size \in Nat \ {0}
  /\ \A b \in s.budgets : b >= s.size

PopulationSize == Setting[algorithm].size

vars == <<pc, runtimeVars, searchVars>>

Init == SearchInit

\* The layouts of a batch are evaluated; nothing is remembered but their values.
Count(batch) ==
  /\ fes' = fes + Cardinality(DOMAIN batch)
  /\ tracked' = tracked \cup {batch[r] : r \in DOMAIN batch}
  /\ UNCHANGED <<algorithm, budget, best, bestLayout>>

Initialize ==
  /\ pc = "init"
  /\ \E batch \in [1 .. PopulationSize -> Layouts] :
       /\ Count(batch)
       /\ population' = batch
       /\ fitness' = PowerOf(batch)
  /\ pc' = "loop"

\* The best rows of parents and candidates, best first; between rows as good as each
\* other the layouts decide, which are not compared here.
Survivors(merged) ==
  {order \in [Rows -> DOMAIN merged] :
     /\ \A j, k \in Rows : j # k => order[j] # order[k]
     /\ \A j, k \in Rows : j < k => Power[merged[order[j]]] >= Power[merged[order[k]]]
     /\ \A i \in DOMAIN merged \ {order[k] : k \in Rows} :
          Power[merged[i]] <= Power[merged[order[Size]]]}

Merge(batch) ==
  LET merged == [i \in 1 .. Size + Cardinality(DOMAIN batch) |->
                   IF i <= Size THEN population[i] ELSE batch[i - Size]]
  IN \E order \in Survivors(merged) :
       /\ population' = [k \in Rows |-> merged[order[k]]]
       /\ fitness' = [k \in Rows |-> Power[merged[order[k]]]]

Generation ==
  /\ pc = "loop" /\ fes < budget
  /\ \E batch \in [Prefix(Rows) -> Layouts] :
       /\ Count(batch)
       /\ IF algorithm = "gga" THEN Replace(batch, Improved(batch)) ELSE Merge(batch)
  /\ UNCHANGED pc

\* The first of the best rows is the result.
Finish ==
  /\ pc = "loop" /\ fes >= budget
  /\ best' = fitness[First(fitness)] /\ bestLayout' = population[First(fitness)]
  /\ pc' = "done"
  /\ UNCHANGED <<algorithm, budget, fes, tracked, searchVars>>

Step == Initialize \/ Generation \/ Finish

-----------------------------------------------------------------------------
(* Properties.                                                             *)

\* The best value found so far, 0 before the first.
BestSoFar == IF population = <<>> THEN 0 ELSE fitness[First(fitness)]

\* No layout evaluated so far is better than the best row, without which it would be lost.
BestHeld == \A l \in tracked : Power[l] <= BestSoFar
=============================================================================
