--------------------------- MODULE AlgorithmFamily ---------------------------
(***************************************************************************)
(* optimize of hpc/wflop_cpp/src/algorithms.cpp: one process runs the one  *)
(* search its algorithm_id names, and main of hpc/gga_cpp/src/main.cpp one *)
(* of two more.  This module composes the models of the nineteen searches  *)
(* (FODE is FodeOptimizer) as a sum: the first step chooses a search, and  *)
(* only its steps follow.                                                  *)
(***************************************************************************)
EXTENDS PopulationSearch

VARIABLES
  geneticCount, mutated,           \* CompetitiveElimination
  cluster, active,                 \* HierarchicalDE
  order,                           \* ElitistSearch, ParticleSwarm
  pbest, pbestFitness,             \* ParticleSwarm
  gbest, gbestFitness,
  stagnation,                      \* ParticleSwarm, HierarchicalSwarm
  reference, referenceFitness,     \* HierarchicalSwarm
  globalBest,
  worst                            \* GeneticLayouts

History     == INSTANCE SuccessHistory
Competitive == INSTANCE CompetitiveElimination
Clustered   == INSTANCE HierarchicalDE
Elitist     == INSTANCE ElitistSearch
Swarm       == INSTANCE ParticleSwarm
Leveled     == INSTANCE HierarchicalSwarm
Genetic     == INSTANCE GeneticLayouts
Geometric   == INSTANCE GeometricGenetic

Chosen == DOMAIN Setting

ASSUME SettingAssumption ==
  /\ Chosen \subseteq UNION {History!Algorithms, Competitive!Algorithms, Clustered!Algorithms,
                             Elitist!Algorithms, Swarm!Algorithms, Leveled!Algorithms,
                             Genetic!Algorithms, Geometric!Algorithms}
  /\ \A a \in Chosen \cap History!Algorithms : History!SettingOK(Setting[a])
  /\ \A a \in Chosen \cap Competitive!Algorithms : Competitive!SettingOK(Setting[a])
  /\ \A a \in Chosen \cap Clustered!Algorithms : Clustered!SettingOK(Setting[a])
  /\ \A a \in Chosen \cap Elitist!Algorithms : Elitist!SettingOK(Setting[a])
  /\ "ise" \in Chosen => Elitist!SphericalSetting(Setting["ise"])
  /\ "ppga" \in Chosen => Elitist!BreedingSetting(Setting["ppga"])
  /\ \A a \in Chosen \cap Swarm!Algorithms : Swarm!SettingOK(Setting[a])
  /\ \A a \in Chosen \cap Leveled!Algorithms : Leveled!SettingOK(Setting[a])
  /\ \A a \in Chosen \cap Genetic!Algorithms : Genetic!SettingOK(Setting[a])
  /\ \A a \in Chosen \cap Geometric!Algorithms : Geometric!SettingOK(Setting[a])

competitive == <<geneticCount, mutated>>
clustered == <<cluster, active>>
swarm == <<pbest, pbestFitness, gbest, gbestFitness>>
leveled == <<reference, referenceFitness, globalBest>>

vars == <<pc, runtimeVars, searchVars, archive, competitive, clustered, order, swarm,
          stagnation, leveled, worst>>

\* What a search does not declare keeps its first value.
Init ==
  /\ algorithm \in Chosen
  /\ fitness = <<>> /\ archive = {} /\ geneticCount = 0 /\ mutated = {}
  /\ cluster = <<>> /\ active = {} /\ order = <<>> /\ stagnation = <<>>
  /\ pbest = <<>> /\ pbestFitness = <<>> /\ gbest = NoLayout /\ gbestFitness = 0
  /\ reference = <<>> /\ referenceFitness = <<>> /\ globalBest = NoLayout /\ worst = <<>>
  /\ CASE algorithm \in History!Algorithms -> History!Init
       [] algorithm \in Competitive!Algorithms -> Competitive!Init
       [] algorithm \in Clustered!Algorithms -> Clustered!Init
       [] algorithm \in Elitist!Algorithms -> Elitist!Init
       [] algorithm \in Swarm!Algorithms -> Swarm!Init
       [] algorithm \in Leveled!Algorithms -> Leveled!Init
       [] algorithm \in Genetic!Algorithms -> Genetic!Init
       [] algorithm \in Geometric!Algorithms -> Geometric!Init

RunHistory ==
  /\ algorithm \in History!Algorithms /\ History!Step
  /\ UNCHANGED <<competitive, clustered, order, swarm, stagnation, leveled, worst>>

RunCompetitive ==
  /\ algorithm \in Competitive!Algorithms /\ Competitive!Step
  /\ UNCHANGED <<clustered, order, swarm, stagnation, leveled, worst>>

RunClustered ==
  /\ algorithm \in Clustered!Algorithms /\ Clustered!Step
  /\ UNCHANGED <<competitive, order, swarm, stagnation, leveled, worst>>

RunElitist ==
  /\ algorithm \in Elitist!Algorithms /\ Elitist!Step
  /\ UNCHANGED <<archive, competitive, clustered, swarm, stagnation, leveled, worst>>

RunSwarm ==
  /\ algorithm \in Swarm!Algorithms /\ Swarm!Step
  /\ UNCHANGED <<archive, competitive, clustered, leveled, worst>>

RunLeveled ==
  /\ algorithm \in Leveled!Algorithms /\ Leveled!Step
  /\ UNCHANGED <<archive, competitive, clustered, order, swarm, worst>>

RunGenetic ==
  /\ algorithm \in Genetic!Algorithms /\ Genetic!Step
  /\ UNCHANGED <<fitness, archive, competitive, clustered, order, swarm, stagnation, leveled>>

RunGeometric ==
  /\ algorithm \in Geometric!Algorithms /\ Geometric!Step
  /\ UNCHANGED <<archive, competitive, clustered, order, swarm, stagnation, leveled, worst>>

Step ==
  \/ RunHistory \/ RunCompetitive \/ RunClustered \/ RunElitist
  \/ RunSwarm \/ RunLeveled \/ RunGenetic \/ RunGeometric

\* The run has returned, or ended in an exception.
Ended == pc \in {"done", "thrown"} /\ UNCHANGED vars

Next == Step \/ Ended

\* A run is one sequential loop between parallel batches: it goes on.
Spec == Init /\ [][Next]_vars /\ WF_vars(Step)
-----------------------------------------------------------------------------
(* Properties.                                                             *)

\* Parallel vectors stay about the same layouts, through replacement, reordering,
\* reduction, restarts and tournaments: fitness in every search that keeps it, the
\* turbine order of AIGA and AGPSO, personal bests, and the references of HGPSO.
ParallelVectors ==
  /\ algorithm \notin (Swarm!Algorithms \cup Genetic!Algorithms) => RowsAligned
  /\ algorithm \in Elitist!Algorithms => Elitist!OrderAligned
  /\ algorithm \in Swarm!Algorithms => Swarm!SwarmAligned
  /\ algorithm \in Leveled!Algorithms => Leveled!ReferencesSound
  /\ algorithm \in Genetic!Algorithms => Genetic!StaysFeasible

\* What is reported is the best layout evaluated for it, with its own power, and what
\* attracts the next candidates is never behind: the population of the searches that
\* replace one by one or merge still holds that best between generations, gbest leads
\* the personal bests, the global best of HGPSO is the best of its rows.  GGA and GeoGA
\* remember nothing but their population, and report it at the end.
BestKept ==
  /\ algorithm \in Geometric!Algorithms => Geometric!BestHeld
  /\ algorithm \notin Geometric!Algorithms \/ pc = "done" => ReportsBest
  /\ algorithm \in {"lshade", "clshade", "alshade", "msshade", "wfadde", "cede", "ise", "bde"}
       /\ pc \in {"loop", "finish", "done"} => BestInPopulation
  /\ algorithm \in {"aiga", "ciga", "ppga"} /\ pc = "loop" => BestInPopulation
  /\ algorithm \in Swarm!Algorithms => Swarm!GbestLeads
  /\ algorithm \in Leveled!Algorithms => Leveled!GlobalBestIsOurs

\* An archive fits the present population and holds nothing better than the best row,
\* and every batch CEDE still owes a generation is paid for.
MemorySound ==
  /\ algorithm \in History!Algorithms => History!ArchiveSound
  /\ algorithm \in Competitive!Algorithms =>
       Competitive!ArchiveSound /\ Competitive!SharePaidFor
  /\ algorithm \in Clustered!Algorithms => Clustered!ArchiveFits

\* No step gives up what it is meant to keep: no search but LSDE and the swarms ever has
\* fewer rows of some quality than before, up to its elite; LSDE only restarts clusters
\* without success; a swarm's memory only ever gets worse in a tournament.
GroundIsKept ==
  [][/\ algorithm \in History!Algorithms \cup Competitive!Algorithms \cup Geometric!Algorithms =>
          GroundKept(Cardinality(DOMAIN fitness'))
     /\ algorithm \in Elitist!Algorithms => GroundKept(Elitist!Protected)
     /\ algorithm \in Clustered!Algorithms => Clustered!RestartJustified
     /\ algorithm \in Swarm!Algorithms => Swarm!SwarmKept
     /\ algorithm \in Leveled!Algorithms => Leveled!ProgressResets]_vars

\* AGA and SUGGA replace the least productive cell of a row, after the ranking has moved
\* the row, by one that was free.
WeakestLeaves == [][(algorithm \in Genetic!Algorithms) => Genetic!WeakestLeaves]_vars

\* The rule for the last generation (shared/contracts/algorithm_parameters.json:22,
\* "Retain every successfully evaluated candidate, update the best state ..."), for the
\* mutations of CEDE.
TerminalCandidatesRetained ==
  algorithm \in Competitive!Algorithms => Competitive!TerminalCandidatesRetained

Budgets == UNION {Setting[a].budgets : a \in Chosen}

\* Only so many budgets are compared.
ASSUME BudgetAssumption == \E b \in Budgets : \A c \in Budgets : c <= b

LargestBudget == CHOOSE largest \in Budgets : \A b \in Budgets : b <= largest

Powers == UNION {{Setting[a].power[l] : l \in Setting[a].layouts} : a \in Chosen}

\* The best found so far.
BestSoFar == IF algorithm \in Geometric!Algorithms THEN Geometric!BestSoFar ELSE best

\* A run with a smaller budget is one that starts with a part of the largest spent.
FW == INSTANCE FixedWorkSearch WITH
  Budget <- LargestBudget,
  Values <- Powers,
  spent <- LargestBudget - (budget - fes),
  best <- BestSoFar,
  ended <- pc = "done"

\* Every search spends its budget exactly, never worsens its best, and ends.
ImplementsFixedWork == FW!FWFairSpec
=============================================================================
