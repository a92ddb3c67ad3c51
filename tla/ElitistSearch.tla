---------------------------- MODULE ElitistSearch ----------------------------
(***************************************************************************)
(* Five searches of hpc/wflop_cpp/src/algorithms.cpp that keep no archive  *)
(* and a population of fixed size, and differ in who survives:             *)
(*   ISE        a trial replaces its own row if it is better;              *)
(*   BDE        trials for the better half, which they replace if they are *)
(*              no worse, matched by rank;                                 *)
(*   AIGA, CIGA the best of parents and offspring together;                *)
(*   PPGA       the best parents and, for the rest, the best offspring.    *)
(* How a candidate is built (spherical search, fusion of the two halves,   *)
(* adaptive cells, crossover cuts, chaos, power-law steps, diversity) is   *)
(* abstracted to an arbitrary repaired layout.                             *)
(***************************************************************************)
EXTENDS PopulationSearch

Algorithms == {"ise", "bde", "aiga", "ciga", "ppga"}

\* size: 5 for ISE, 50 for BDE, 60 for AIGA and CIGA, 30 for PPGA; half: half_size of
\* BDE, 25; elite: elite_count of PPGA, 3.
SettingOK(s) ==
  /\ RuntimeSetting(s)
  /\ \A b \in s.budgets : s.size \in 1 .. b
  /\ s.half \in 1 .. s.size

\* A budget below four rows leaves ISE a smaller initial population, and nothing more.
SphericalSetting(s) == \A b \in s.budgets : s.size >= 4 \/ s.size = b

\* Parents and offspring both survive.
BreedingSetting(s) == s.elite \in 1 .. s.size - 1

PopulationSize == Setting[algorithm].size
Half == Setting[algorithm].half
Elite == Setting[algorithm].elite

VARIABLE order  \* layout whose turbines turbine_order ranks, for each row (AIGA)

vars == <<pc, searchVars, order, runtimeVars>>

Init == SearchInit /\ order = <<>>

\* A budget below the initial population is refused; ISE takes a smaller one instead.
Initialize ==
  /\ pc = "init"
  /\ InitializeRows(PopulationSize)
  /\ order' = population'
  /\ pc' = "loop"

\* ISE gives up with fewer than four rows.
Spherical ==
  /\ pc = "loop" /\ algorithm = "ise"
  /\ fes < budget /\ Size >= 4
  /\ \E batch \in [Prefix(Rows) -> Layouts] :
       Evaluate(batch) /\ Replace(batch, Improved(batch))
  /\ UNCHANGED <<pc, order>>

\* Trial r is for the row with rank r.
Targeted(batch) ==
  [t \in {Ranked(fitness)[r] : r \in DOMAIN batch} |->
     batch[CHOOSE r \in DOMAIN batch : Ranked(fitness)[r] = t]]

NoWorse(trial) == {t \in DOMAIN trial : Power[trial[t]] >= fitness[t]}

BiPopulation ==
  /\ pc = "loop" /\ algorithm = "bde"
  /\ fes < budget
  /\ \E batch \in [Prefix(1 .. Half) -> Layouts] :
       LET trial == Targeted(batch)
       IN /\ Evaluate(batch)
          /\ Replace(trial, NoWorse(trial))
  /\ UNCHANGED <<pc, order>>

\* Parents, then offspring.
Both(parents, children) ==
  [i \in 1 .. 2 * Size |-> IF i <= Size THEN parents[i] ELSE children[i - Size]]

\* Layout, fitness and turbine order of the best rows of the union.
Merge(batch) ==
  LET layouts == Both(population, batch)
      value == Both(fitness, PowerOf(batch))
      source == Ranked(value)
  IN /\ population' = [k \in Rows |-> layouts[source[k]]]
     /\ fitness' = [k \in Rows |-> value[source[k]]]
     /\ order' = [k \in Rows |-> Both(order, batch)[source[k]]]

\* The best parents, then the best offspring.
Breed(batch) ==
  LET parent == Ranked(fitness)
      child == Ranked(PowerOf(batch))
  IN /\ population' = [k \in Rows |->
          IF k <= Elite THEN population[parent[k]] ELSE batch[child[k - Elite]]]
     /\ fitness' = [k \in Rows |->
          IF k <= Elite THEN fitness[parent[k]] ELSE Power[batch[child[k - Elite]]]]
     /\ UNCHANGED order

\* A batch cut short is evaluated and ends the run before survival.
Generation ==
  /\ pc = "loop" /\ algorithm \in {"aiga", "ciga", "ppga"}
  /\ fes < budget
  /\ \E batch \in [Prefix(Rows) -> Layouts] :
       /\ Evaluate(batch)
       /\ IF DOMAIN batch # Rows
            THEN pc' = "finish" /\ UNCHANGED <<searchVars, order>>
            ELSE /\ pc' = "loop"
                 /\ IF algorithm = "ppga" THEN Breed(batch) ELSE Merge(batch)

LeaveLoop ==
  /\ pc = "loop"
  /\ fes >= budget \/ (algorithm = "ise" /\ Size < 4)
  /\ pc' = "finish"
  /\ UNCHANGED <<searchVars, order, runtimeVars>>

Finish ==
  /\ pc = "finish"
  /\ pc' = "done"
  /\ UNCHANGED <<searchVars, order, runtimeVars>>

Step ==
  \/ Initialize \/ Spherical \/ BiPopulation \/ Generation \/ LeaveLoop \/ Finish

-----------------------------------------------------------------------------
(* Properties.                                                             *)

\* AIGA removes from each parent the turbine its order puts last: layout, fitness and
\* order of a row come from the same evaluation, also after a merge.
OrderAligned == algorithm = "aiga" => order = population

\* The rows a generation may not lose: its best Elite rows for PPGA ("retain the best
\* three parents", shared/contracts/algorithm_parameters.json:548), every row for the
\* others.
Protected == IF algorithm = "ppga" THEN Elite ELSE PopulationSize
=============================================================================
