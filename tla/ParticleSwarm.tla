---------------------------- MODULE ParticleSwarm ----------------------------
(***************************************************************************)
(* AGPSO and CGPSO: optimize_pso of hpc/wflop_cpp/src/algorithms.cpp.  A   *)
(* generation evaluates a batch of elites, which may improve the pbest of  *)
(* their rows, runs a tournament for stagnating rows, and moves and        *)
(* evaluates the population; CGPSO starts it with one chaotic candidate    *)
(* around gbest, AGPSO lets a moved row survive only if it is better.      *)
(*                                                                         *)
(* Where a particle goes (velocity, empirical location scores, worst-      *)
(* turbine replacement, chaos maps) is abstracted to an arbitrary repaired *)
(* layout.                                                                 *)
(***************************************************************************)
EXTENDS PopulationSearch

Algorithms == {"agpso", "cgpso"}

\* size: 120; stagnant: generations without success before a tournament, 7; drawn:
\* competitors of a tournament, 24.
SettingOK(s) ==
  /\ RuntimeSetting(s)
  /\ \A b \in s.budgets : s.size \in 1 .. b
  /\ s.stagnant \in Nat \ {0}
  /\ s.drawn \in 1 .. s.size

PopulationSize == Setting[algorithm].size
Stagnant == Setting[algorithm].stagnant
Drawn == Setting[algorithm].drawn

Chaotic == algorithm = "cgpso"

VARIABLES
  order,         \* layout whose turbines current_order ranks (AGPSO)
  pbest,         \* best layout of each row
  pbestFitness,
  stagnation,    \* counted up to Stagnant: only >= 7 is asked
  gbest,
  gbestFitness

swarmVars == <<searchVars, order, pbest, pbestFitness, stagnation,
               gbest, gbestFitness>>
vars == <<pc, swarmVars, runtimeVars>>

\* Until the first batch is evaluated the matrices are empty.
Init ==
  /\ SearchInit
  /\ order = <<>>
  /\ pbest = <<>> /\ pbestFitness = <<>> /\ stagnation = <<>>
  /\ gbest = NoLayout /\ gbestFitness = 0

Initialize ==
  /\ pc = "init"
  /\ InitializeRows(PopulationSize)
  /\ order' = population' /\ pbest' = population' /\ pbestFitness' = fitness'
  /\ gbest' = population'[First(fitness')] /\ gbestFitness' = Power[gbest']
  /\ stagnation' = [r \in 1 .. PopulationSize |-> 0]
  /\ pc' = "loop"

\* CGPSO: one candidate around gbest, which takes it if it is better.
ChaoticLocalSearch ==
  /\ Chaotic
  /\ pc = "loop" /\ fes < budget
  /\ \E layout \in Layouts :
       /\ Evaluate(<<layout>>)
       /\ IF Power[layout] > gbestFitness
            THEN gbest' = layout /\ gbestFitness' = Power[layout]
            ELSE UNCHANGED <<gbest, gbestFitness>>
  /\ pc' = IF fes' >= budget THEN "finish" ELSE "elite"
  /\ UNCHANGED <<population, fitness, order, pbest, pbestFitness, stagnation>>

\* Elites as far as the budget goes; a better one becomes the pbest of its row.
EvaluateElite ==
  /\ IF Chaotic THEN pc = "elite" ELSE pc = "loop" /\ fes < budget
  /\ \E batch \in [Prefix(Rows) -> Layouts] :
       LET better == {r \in DOMAIN batch : Power[batch[r]] > pbestFitness[r]}
       IN /\ Evaluate(batch)
          /\ pbest' = [r \in Rows |-> IF r \in better THEN batch[r] ELSE pbest[r]]
          /\ pbestFitness' = [r \in Rows |->
               IF r \in better THEN Power[batch[r]] ELSE pbestFitness[r]]
  /\ pc' = Unless("tournament")
  /\ UNCHANGED <<population, fitness, order, stagnation, gbest, gbestFitness>>

\* Row w may win a tournament: one of the greatest of some Drawn distinct rows.
MayWin(w) == \E drawn \in SUBSET Rows :
               /\ Cardinality(drawn) = Drawn /\ w \in drawn
               /\ \A r \in drawn : pbestFitness[r] <= pbestFitness[w]

Contestants == {r \in Rows : stagnation[r] >= Stagnant}

\* A short elite batch, or one that spent the budget, ends the run.
AfterElite == IF fes >= budget THEN "finish" ELSE "move"

\* A stagnating row takes over the pbest of the winner, whatever its own is worth.
\* All rows read the state before the tournament.
Tournament ==
  /\ pc = "tournament"
  /\ \E winner \in [Rows -> Rows] :
       /\ \A r \in Rows : IF r \in Contestants THEN MayWin(winner[r]) ELSE winner[r] = r
       /\ pbest' = [r \in Rows |-> pbest[winner[r]]]
       /\ pbestFitness' = [r \in Rows |-> pbestFitness[winner[r]]]
  /\ stagnation' = [r \in Rows |-> IF r \in Contestants THEN 0 ELSE stagnation[r]]
  /\ pc' = AfterElite
  /\ UNCHANGED <<runtimeVars, population, fitness, order, gbest, gbestFitness>>

\* The moved rows that stay in the population: all of them for CGPSO, for AGPSO those
\* better than the row at the entry of the generation.
Surviving(batch) ==
  IF Chaotic THEN Rows ELSE {r \in Rows : Power[batch[r]] > fitness[r]}

\* Layout, fitness and turbine order of a row are replaced or put back together.
Survive(batch) ==
  /\ population' = [r \in Rows |-> IF r \in Surviving(batch) THEN batch[r] ELSE population[r]]
  /\ fitness' = [r \in Rows |-> IF r \in Surviving(batch) THEN Power[batch[r]] ELSE fitness[r]]
  /\ order' = IF Chaotic THEN order ELSE population'

\* gbest follows the best pbest if that is better.
UpdateGbest(value, layouts) ==
  IF value[First(value)] > gbestFitness
    THEN gbest' = layouts[First(value)] /\ gbestFitness' = value[First(value)]
    ELSE UNCHANGED <<gbest, gbestFitness>>

\* The population moves and is evaluated.  A batch cut short leaves the fitness vector
\* as it is and ends the run, after pbest and gbest have seen its rows.
MovePopulation ==
  /\ pc = "move"
  /\ \E batch \in [Rows -> Layouts] :
       LET evaluated == Prefix(Rows)
           accepted == [r \in evaluated |->
             IF evaluated = Rows THEN fitness'[r] ELSE Power[batch[r]]]
           better == {r \in evaluated : accepted[r] > pbestFitness[r]}
       IN /\ Evaluate([r \in evaluated |-> batch[r]])
          /\ IF evaluated = Rows
               THEN Survive(batch)
               ELSE population' = batch /\ UNCHANGED <<fitness, order>>
          /\ pbest' = [r \in Rows |-> IF r \in better THEN population'[r] ELSE pbest[r]]
          /\ pbestFitness' = [r \in Rows |->
               IF r \in better THEN accepted[r] ELSE pbestFitness[r]]
          /\ stagnation' = [r \in Rows |->
               IF r \in better THEN 0
               ELSE IF r \in evaluated /\ stagnation[r] < Stagnant THEN stagnation[r] + 1
               ELSE stagnation[r]]
          /\ UpdateGbest(pbestFitness', pbest')
          /\ pc' = Unless(IF evaluated = Rows THEN "loop" ELSE "finish")

LeaveLoop ==
  /\ pc = "loop" /\ fes >= budget
  /\ pc' = "finish"
  /\ UNCHANGED <<swarmVars, runtimeVars>>

Finish ==
  /\ pc = "finish"
  /\ pc' = "done"
  /\ UNCHANGED <<swarmVars, runtimeVars>>

Step ==
  \/ Initialize \/ ChaoticLocalSearch \/ EvaluateElite \/ Tournament
  \/ MovePopulation \/ LeaveLoop \/ Finish

-----------------------------------------------------------------------------
(* Properties.                                                             *)

\* Parallel vectors stay about the same layouts: pbest with its fitness at all times,
\* and at the start of a generation each row with its fitness and, for AGPSO, which
\* moves the worst turbine of that order, with its turbine order.
SwarmAligned ==
  /\ pc # "init" => pbestFitness = PowerOf(pbest) /\ gbestFitness = Power[gbest]
  /\ pc = "loop" => RowsAligned /\ (Chaotic \/ order = population)

\* gbest attracts elites and chaotic candidates: at the start of a generation no pbest
\* is better, and it never claims more than the run has evaluated.
GbestLeads ==
  /\ pc = "loop" => \A r \in Rows : pbestFitness[r] <= gbestFitness
  /\ gbestFitness <= best

\* gbest never gets worse; the memory of a row only in a tournament, and only for a row
\* that has stagnated long enough and is given a new start; with AGPSO (Algorithm 1) a
\* row of the population never does.
SwarmKept ==
  /\ gbestFitness' >= gbestFitness
  /\ pc # "init" => \A r \in Rows :
       /\ pbestFitness'[r] < pbestFitness[r] => stagnation[r] >= Stagnant /\ stagnation'[r] = 0
       /\ Chaotic \/ fitness'[r] >= fitness[r]
=============================================================================
