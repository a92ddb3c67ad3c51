--------------------------- MODULE SuccessHistory ---------------------------
(***************************************************************************)
(* Five searches of hpc/wflop_cpp/src/algorithms.cpp built on a success    *)
(* history: LSHADE, CLSHADE and ALSHADE (optimize_lshade), MS-SHADE        *)
(* (optimize_msshade) and WFADDE (optimize_wfadde).  A generation          *)
(* evaluates one trial per row, replaces the beaten rows and archives      *)
(* them, WFADDE the failed trials instead; CLSHADE tries one chaotic       *)
(* candidate around the best row, and all but MS-SHADE reduce the          *)
(* population along a line in the evaluations spent.                       *)
(*                                                                         *)
(* How a trial is built (success memories, p-best, r1, r2, strategies, the *)
(* best-scale history of ALSHADE, the disturbance of WFADDE, chaos maps    *)
(* and radius) is abstracted to an arbitrary repaired layout.              *)
(***************************************************************************)
EXTENDS PopulationSearch

Algorithms == {"lshade", "clshade", "alshade", "msshade", "wfadde"}

\* size: 18 * turbines, 120 for ALSHADE, turbines / 2 for MS-SHADE; floor: minimum_size,
\* 4; percent: 100 * archive rate, 140.
SettingOK(s) ==
  /\ RuntimeSetting(s)
  /\ s.floor \in Nat /\ s.floor >= 3
  /\ \A b \in s.budgets : s.size \in s.floor .. b
  /\ s.percent \in Nat

InitialSize == Setting[algorithm].size
Floor == Setting[algorithm].floor
ArchivePercent == Setting[algorithm].percent

Chaotic == algorithm = "clshade"

vars == <<pc, deVars, runtimeVars>>

Capacity(size) ==
  IF Chaotic THEN size ELSE RoundedQuotient(ArchivePercent * size, 100)

Init == DEInit

\* A budget below the initial population is refused before it is spent.
Initialize ==
  /\ pc = "init"
  /\ InitializeRows(InitialSize)
  /\ pc' = "loop"
  /\ UNCHANGED archive

AfterSelection ==
  IF fes' >= budget THEN "finish" ELSE IF Chaotic THEN "local" ELSE "reduce"

\* LSHADE and its kin: trials for the rows the budget pays for, selection, beaten
\* parents to the archive, and memories.
Generation ==
  /\ pc = "loop" /\ algorithm \in {"lshade", "clshade", "alshade"}
  /\ fes < budget /\ Size >= Floor
  /\ \E batch \in [Prefix(Rows) -> Layouts] :
       /\ Evaluate(batch)
       /\ Replace(batch, Improved(batch))
       /\ Trim(archive \cup Parents(Improved(batch)), Capacity(Size))
  /\ pc' = AfterSelection

\* MS-SHADE keeps its size, and goes on until the budget is spent.
MultiStrategyGeneration ==
  /\ pc = "loop" /\ algorithm = "msshade"
  /\ fes < budget
  /\ \E batch \in [Prefix(Rows) -> Layouts] :
       /\ Evaluate(batch)
       /\ Replace(batch, Improved(batch))
       /\ Trim(archive \cup Parents(Improved(batch)), Capacity(Size))
  /\ pc' = "loop"

\* Trials that did not improve their row.
Failures(batch) == {batch[r] : r \in DOMAIN batch \ Improved(batch)}

\* WFADDE learns from failures: the archive takes the trials that lost.
FailureGeneration ==
  /\ pc = "loop" /\ algorithm = "wfadde"
  /\ fes < budget /\ Size >= Floor
  /\ \E batch \in [Prefix(Rows) -> Layouts] :
       /\ Evaluate(batch)
       /\ Replace(batch, Improved(batch))
       /\ Trim(archive \cup Failures(batch), Capacity(Size))
  /\ pc' = "reduce"

\* CLSHADE: one candidate around the best row, which it replaces if it is better.
ChaoticLocalSearch ==
  /\ pc = "local"
  /\ \E layout \in Layouts :
       LET row == First(fitness)
           batch == [r \in {row} |-> layout]
       IN Evaluate(batch) /\ Replace(batch, Improved(batch))
  /\ pc' = Unless("reduce")
  /\ UNCHANGED archive

\* The best rows stay, in their ranking, and the archive follows the new size.
ReducePopulation ==
  /\ pc = "reduce"
  /\ LET size == LinearPlan(InitialSize, Floor) IN Reduce(size, Capacity(size))
  /\ pc' = "loop"
  /\ UNCHANGED runtimeVars

LeaveLoop ==
  /\ pc = "loop"
  /\ fes >= budget \/ Size < Floor
  /\ pc' = "finish"
  /\ UNCHANGED <<deVars, runtimeVars>>

Finish ==
  /\ pc = "finish"
  /\ pc' = "done"
  /\ UNCHANGED <<deVars, runtimeVars>>

Step ==
  \/ Initialize
  \/ Generation \/ MultiStrategyGeneration \/ FailureGeneration
  \/ ChaoticLocalSearch \/ ReducePopulation \/ LeaveLoop \/ Finish

-----------------------------------------------------------------------------
(* Properties.                                                             *)

\* The archive fits the present population, also right after a reduction, and holds
\* only layouts that the best row beats, or for WFADDE equals.
ArchiveSound ==
  /\ Cardinality(archive) <= Capacity(Size)
  /\ \A l \in archive : \E r \in Rows :
       Power[l] < fitness[r] \/ (algorithm = "wfadde" /\ Power[l] = fitness[r])
=============================================================================
