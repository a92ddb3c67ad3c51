----------------------- MODULE CompetitiveElimination -----------------------
(***************************************************************************)
(* CEDE: optimize_cede of hpc/wflop_cpp/src/algorithms.cpp.  A generation  *)
(* is three batches: trials of differential evolution, random mutations    *)
(* that are evaluated only to choose what the next batch learns from, and  *)
(* genetic candidates whose best competes with the best row.  The last     *)
(* generation divides what the budget has left among the three.            *)
(***************************************************************************)
EXTENDS PopulationSearch

Algorithms == {"cede"}

\* size: max(4, |77 - turbines|); floor: minimum_size, 4; percent: 140.
SettingOK(s) ==
  /\ RuntimeSetting(s)
  /\ s.floor \in Nat /\ s.floor >= 3
  /\ \A b \in s.budgets : s.size \in s.floor .. b
  /\ s.percent \in Nat

InitialSize == Setting[algorithm].size
Floor == Setting[algorithm].floor
ArchivePercent == Setting[algorithm].percent

VARIABLES
  geneticCount,  \* genetic_count of the generation
  mutated        \* history variable: mutations evaluated by the generation

vars == <<pc, deVars, runtimeVars, geneticCount, mutated>>

Capacity(size) == RoundedQuotient(ArchivePercent * size, 100)

Remaining == budget - fes

Lesser(a, b) == IF a <= b THEN a ELSE b

\* Two evaluations for each genetic candidate.
GeneticCount == IF Remaining < 3 * Size THEN Lesser(Size, Remaining \div 2) ELSE Size

\* What is left of the generation's share goes to differential evolution.
DECount ==
  IF Remaining < 3 * Size THEN Lesser(Size, Remaining - 2 * GeneticCount) ELSE Size

Init == DEInit /\ geneticCount = 0 /\ mutated = {}

Initialize ==
  /\ pc = "init"
  /\ InitializeRows(InitialSize)
  /\ pc' = "loop"
  /\ UNCHANGED <<archive, geneticCount, mutated>>

\* Trials, selection and archive for the first rows.
DifferentialStage ==
  /\ pc = "loop"
  /\ fes < budget /\ Size >= Floor
  /\ IF DECount > 0
       THEN \E batch \in [Prefix(1 .. DECount) -> Layouts] :
              /\ Evaluate(batch)
              /\ Replace(batch, Improved(batch))
              /\ Trim(archive \cup Parents(Improved(batch)), Capacity(Size))
       ELSE UNCHANGED <<deVars, runtimeVars>>
  /\ geneticCount' = GeneticCount
  /\ mutated' = {}
  /\ pc' = IF GeneticCount > 0 THEN "mutate" ELSE "reduce"

\* Random mutations are paid for but never enter the best of the run.
MutationStage ==
  /\ pc = "mutate"
  /\ \E batch \in [Prefix(1 .. geneticCount) -> Layouts] :
       /\ EvaluateUntracked(batch)
       /\ mutated' = {batch[r] : r \in DOMAIN batch}
  /\ pc' = Unless("learn")
  /\ UNCHANGED <<deVars, geneticCount>>

\* The best genetic candidate replaces the best row if it is better.
Learn(batch) ==
  LET row == First(fitness)
      elite == [r \in {row} |-> batch[First(PowerOf(batch))]]
  IN Replace(elite, Improved(elite))

GeneticStage ==
  /\ pc = "learn"
  /\ \E batch \in [Prefix(1 .. geneticCount) -> Layouts] :
       /\ Evaluate(batch)
       /\ IF DOMAIN batch = {} THEN UNCHANGED <<population, fitness>> ELSE Learn(batch)
  /\ pc' = Unless("reduce")
  /\ UNCHANGED <<archive, geneticCount, mutated>>

ReducePopulation ==
  /\ pc = "reduce"
  /\ LET size == LinearPlan(InitialSize, Floor) IN Reduce(size, Capacity(size))
  /\ pc' = "loop"
  /\ UNCHANGED <<runtimeVars, geneticCount, mutated>>

LeaveLoop ==
  /\ pc = "loop"
  /\ fes >= budget \/ Size < Floor
  /\ pc' = "finish"
  /\ UNCHANGED <<deVars, runtimeVars, geneticCount, mutated>>

Finish ==
  /\ pc = "finish"
  /\ pc' = "done"
  /\ UNCHANGED <<deVars, runtimeVars, geneticCount, mutated>>

Step ==
  \/ Initialize \/ DifferentialStage \/ MutationStage \/ GeneticStage
  \/ ReducePopulation \/ LeaveLoop \/ Finish

-----------------------------------------------------------------------------
(* Properties.                                                             *)

\* The budget left always pays for the batches a generation still has to evaluate:
\* twice the genetic candidates before the mutations, once after them.
SharePaidFor ==
  /\ pc = "mutate" => fes + 2 * geneticCount <= budget
  /\ pc = "learn" => fes + geneticCount <= budget

\* The archive fits the present population, also right after a reduction, and holds
\* only layouts that the best row beats.
ArchiveSound ==
  /\ Cardinality(archive) <= Capacity(Size)
  /\ \A l \in archive : \E r \in Rows : Power[l] < fitness[r]

\* The rule for the last generation (shared/contracts/algorithm_parameters.json:22,
\* "Retain every successfully evaluated candidate, update the best state ...").
TerminalCandidatesRetained == pc = "done" => \A l \in mutated : Power[l] <= best
=============================================================================
