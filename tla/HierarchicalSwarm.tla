-------------------------- MODULE HierarchicalSwarm --------------------------
(***************************************************************************)
(* HGPSO: optimize_hgpso of hpc/wflop_cpp/src/algorithms.cpp.  A           *)
(* generation evaluates a batch of exemplars, from which each row takes a  *)
(* reference if the exemplar is better than the row, gives stagnating rows *)
(* the reference of a tournament winner, and evaluates a batch of trials   *)
(* that replace the rows they beat.  References last one generation and    *)
(* never enter the population.                                             *)
(*                                                                         *)
(* Where a trial goes (six update cases, cumulative cell power, worst-     *)
(* position replacement) is abstracted to an arbitrary repaired layout; a  *)
(* grid with no free cell, which throws there, is not a state of a case.   *)
(***************************************************************************)
EXTENDS PopulationSearch

Algorithms == {"hgpso"}

\* size: 120; stagnant: 7; drawn: 24.
SettingOK(s) ==
  /\ RuntimeSetting(s)
  /\ \A b \in s.budgets : s.size \in 1 .. b
  /\ s.stagnant \in Nat \ {0}
  /\ s.drawn \in 1 .. s.size

PopulationSize == Setting[algorithm].size
Stagnant == Setting[algorithm].stagnant
Drawn == Setting[algorithm].drawn

VARIABLES
  reference,         \* layout each row is guided by
  referenceFitness,
  stagnation,        \* counted up to Stagnant: only >= 7 is asked
  globalBest         \* layout every row is drawn to

swarmVars == <<searchVars, reference, referenceFitness, stagnation, globalBest>>
vars == <<pc, swarmVars, runtimeVars>>

Init ==
  /\ SearchInit
  /\ reference = <<>> /\ referenceFitness = <<>> /\ stagnation = <<>>
  /\ globalBest = NoLayout

\* refresh_global_best: the best row of the population.
RefreshGlobalBest(layouts, value) == globalBest' = layouts[First(value)]

\* A budget below the population is refused.
Initialize ==
  /\ pc = "init"
  /\ InitializeRows(PopulationSize)
  /\ RefreshGlobalBest(population', fitness')
  /\ stagnation' = [r \in 1 .. PopulationSize |-> 0]
  /\ pc' = "loop"
  /\ UNCHANGED <<reference, referenceFitness>>

\* Exemplars as far as the budget goes.  A short batch, or one that spent the budget,
\* ends the run.
EvaluateExemplars ==
  /\ pc = "loop" /\ fes < budget
  /\ \E batch \in [Prefix(Rows) -> Layouts] :
       LET better == Improved(batch)
       IN /\ Evaluate(batch)
          /\ reference' = [r \in Rows |-> IF r \in better THEN batch[r] ELSE population[r]]
          /\ referenceFitness' = [r \in Rows |->
               IF r \in better THEN Power[batch[r]] ELSE fitness[r]]
          /\ pc' = IF DOMAIN batch # Rows \/ fes' >= budget THEN "finish" ELSE "tournament"
  /\ UNCHANGED <<searchVars, stagnation, globalBest>>

\* One of the greatest references of some Drawn distinct rows.
MayWin(w) == \E drawn \in SUBSET Rows :
               /\ Cardinality(drawn) = Drawn /\ w \in drawn
               /\ \A r \in drawn : referenceFitness[r] <= referenceFitness[w]

Contestants == {r \in Rows : stagnation[r] >= Stagnant}

\* All rows read the references before the tournament.
Tournament ==
  /\ pc = "tournament"
  /\ \E winner \in [Rows -> Rows] :
       /\ \A r \in Rows : IF r \in Contestants THEN MayWin(winner[r]) ELSE winner[r] = r
       /\ reference' = [r \in Rows |-> reference[winner[r]]]
       /\ referenceFitness' = [r \in Rows |-> referenceFitness[winner[r]]]
  /\ stagnation' = [r \in Rows |-> IF r \in Contestants THEN 0 ELSE stagnation[r]]
  /\ pc' = "trial"
  /\ UNCHANGED <<runtimeVars, searchVars, globalBest>>

\* The evaluated rows that did not improve count one generation more.
Stagnated(better) ==
  [r \in Rows |->
     IF r \in better THEN 0
     ELSE IF r \in Prefix(Rows) /\ stagnation[r] < Stagnant THEN stagnation[r] + 1
     ELSE stagnation[r]]

\* Trials as far as the budget goes; after a short batch the run ends with the global
\* best it had.
EvaluateTrials ==
  /\ pc = "trial"
  /\ \E batch \in [Prefix(Rows) -> Layouts] :
       /\ Evaluate(batch)
       /\ Replace(batch, Improved(batch))
       /\ stagnation' = Stagnated(Improved(batch))
       /\ IF DOMAIN batch = Rows
            THEN RefreshGlobalBest(population', fitness') /\ pc' = Unless("loop")
            ELSE UNCHANGED globalBest /\ pc' = Unless("finish")
  /\ UNCHANGED <<reference, referenceFitness>>

LeaveLoop ==
  /\ pc = "loop" /\ fes >= budget
  /\ pc' = "finish"
  /\ UNCHANGED <<swarmVars, runtimeVars>>

Finish ==
  /\ pc = "finish"
  /\ pc' = "done"
  /\ UNCHANGED <<swarmVars, runtimeVars>>

Step ==
  \/ Initialize \/ EvaluateExemplars \/ Tournament \/ EvaluateTrials
  \/ LeaveLoop \/ Finish

-----------------------------------------------------------------------------
(* Properties.                                                             *)

\* Between generations the global best is the best row of the population, and an
\* exemplar never becomes it before it is reached by a trial.
GlobalBestIsOurs ==
  pc \in {"loop", "tournament", "trial"} =>
    /\ \E r \in Rows : population[r] = globalBest
    /\ \A r \in Rows : fitness[r] <= Power[globalBest]

\* While the references of a generation last, each has the power of its own layout; it
\* falls behind its row only when a tournament has just reset that row.
ReferencesSound ==
  pc \in {"tournament", "trial"} =>
    /\ referenceFitness = PowerOf(reference)
    /\ \A r \in Rows : referenceFitness[r] < fitness[r] => pc = "trial" /\ stagnation[r] = 0

\* A row is replaced only by a better one, and a row that was replaced starts counting
\* its stagnation anew.
ProgressResets ==
  pc # "init" => \A r \in Rows : population'[r] # population[r] =>
    fitness'[r] > fitness[r] /\ stagnation'[r] = 0
=============================================================================
