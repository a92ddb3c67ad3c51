------------------------- MODULE FormalSuite_proofs -------------------------
(***************************************************************************)
(* Theorems about FormalSuite.tla for any number of runs, controllers,     *)
(* campaigns, seeds and commits.  Everything rests on the lock: because    *)
(* one run at a time is under way, what a run established about the files  *)
(* still holds when it acts on it.                                         *)
(***************************************************************************)
EXTENDS FormalSuite, TLAPS

-----------------------------------------------------------------------------
(* The inductive invariant.                                                *)

\* Nothing starts before the worktree is cloned.
Cloned ==
  head = 0 => /\ \A l \in Runs : launcher[l] = "none" /\ step[l] = "none"
              /\ \A d \in Controllers : controller[d] = "none"

\* A launcher that holds the lock has read the commit.
HeadRead == \A l \in Runs : launcher[l] \in {"starting", "waiting"} => launchHead[l] # 0

AfterBuild == {"rebuild", "environment", "check", "execute", "validate", "publish",
               "manifest", "receipt", "summarize"}

InLoop == {"execute", "validate", "publish"}

AfterLoop == {"manifest", "receipt"}

\* A run that is past its build has programs to run.
Built(l) == step[l] \in AfterBuild => binary # 0

\* The body of the seed loop works on a seed of the contract.
SeedChosen(l) == step[l] \in InLoop => seed[l] <= Seeds

\* The seeds before the present one are accepted.
Counted(l) ==
  step[l] \in {"check"} \cup InLoop \cup AfterLoop =>
    \A s \in SeedSet : s < seed[l] => Accepted(result[Campaign(l)][s])

\* The manifest is written when the loop is over.
LoopOver(l) == step[l] \in AfterLoop => seed[l] > Seeds

\* A seed is only worked on while its result is not accepted.
Missing(l) ==
  (step[l] = "execute" \/ (step[l] \in InLoop /\ Campaign(l) \in Staged)) =>
    ~Accepted(result[Campaign(l)][seed[l]])

\* Only the staged campaign renames its output.
Renamed(l) == step[l] = "publish" => Campaign(l) \in Staged

\* The receipt hashes a manifest that is filled.
Filled(l) == step[l] = "receipt" => manifest[Campaign(l)] \in Digests

\* Every campaign starts with its first seed.
FreshLoop(l) == step[l] \in {"rebuild", "environment"} => seed[l] = 1

RunInv(l) ==
  /\ Built(l) /\ FreshLoop(l) /\ SeedChosen(l) /\ Counted(l) /\ LoopOver(l)
  /\ Missing(l) /\ Renamed(l) /\ Filled(l)

IInv ==
  /\ TypeOK /\ OneSuiteAtATime /\ Cloned /\ HeadRead
  /\ \A l \in Runs : RunInv(l)

-----------------------------------------------------------------------------
\* A run that is not under way owes nothing.
LEMMA IdleRun ==
  ASSUME NEW l \in Runs, step[l] \in {"none", "build", "passed", "failed"}
  PROVE  RunInv(l)
BY DEF RunInv, Built, FreshLoop, SeedChosen, Counted, LoopOver, Missing, Renamed, Filled,
       AfterBuild, InLoop, AfterLoop

\* The start: nothing runs and nothing is on disk.
LEMMA InitIInv == Init => IInv
<1> SUFFICES ASSUME Init PROVE IInv
  OBVIOUS
<1> USE SuiteAssumption DEF Init, RunInit
<1>1. TypeOK
  BY DEF TypeOK, RunSteps
<1>2. OneSuiteAtATime
  BY DEF OneSuiteAtATime, HoldsLock, Active
<1>3. Cloned /\ HeadRead
  BY DEF Cloned, HeadRead
<1>4. \A l \in Runs : RunInv(l)
  BY IdleRun
<1>5. QED
  BY <1>1, <1>2, <1>3, <1>4 DEF IInv

\* The campaign of a run is one of the suite's.
LEMMA CampaignKnown ==
  ASSUME TypeOK, NEW l \in Runs
  PROVE  Campaign(l) \in CampaignSet
BY DEF TypeOK, Campaign, CampaignSet

\* While a run is active no other one is.
LEMMA OnlyRun ==
  ASSUME OneSuiteAtATime, NEW l \in Runs, Active(l), NEW k \in Runs, Active(k)
  PROVE  k = l
BY DEF OneSuiteAtATime, HoldsLock

\* A runner acts while it is active, and touches its own control state only.
LEMMA RunShape ==
  ASSUME TypeOK, NEW l \in Runs, RunStep(l)
  PROVE  /\ Active(l) /\ head' = head
         /\ \A k \in Runs \ {l} : step'[k] = step[k]
<1> USE DEF TypeOK, Active, Goto, Enter, FirstStep, NextSeed
<1>1. CASE BuildAll(l) \/ Rebuild(l) \/ RecordEnvironment(l)
  BY <1>1 DEF BuildAll, Rebuild, RecordEnvironment
<1>2. CASE ReuseSeed(l) \/ MissSeed(l) \/ Execute(l)
  BY <1>2 DEF ReuseSeed, MissSeed, Execute
<1>3. CASE ValidateStaged(l) \/ ValidateDirect(l) \/ Publish(l)
  BY <1>3 DEF ValidateStaged, ValidateDirect, Publish
<1>4. CASE OpenManifest(l) \/ FillManifest(l) \/ WriteReceipt(l)
  BY <1>4 DEF OpenManifest, FillManifest, WriteReceipt
<1>5. CASE Summarize(l) \/ RunFails(l)
  BY <1>5 DEF Summarize, RunFails
<1>6. QED
  BY <1>1, <1>2, <1>3, <1>4, <1>5 DEF RunStep

\* What is left to show of a runner's step: its types and its own run.
LEMMA RunFrame ==
  ASSUME IInv, NEW l \in Runs, RunnerStep(l), TypeOK', RunInv(l)'
  PROVE  IInv'
<1>1. /\ Active(l) /\ head' = head
      /\ \A k \in Runs \ {l} : step'[k] = step[k]
  BY RunShape DEF IInv, RunnerStep
<1>2. UNCHANGED <<launcher, launchHead, controller>>
  BY DEF RunnerStep, lvars, cvars
<1>3. \A k \in Runs \ {l} : ~Active(k)
  BY <1>1, OnlyRun DEF IInv
<1>4. \A k \in Runs \ {l} : RunInv(k)'
  <2> SUFFICES ASSUME NEW k \in Runs \ {l} PROVE RunInv(k)'
    OBVIOUS
  <2>1. step'[k] \in {"none", "passed", "failed"}
    BY <1>1, <1>3 DEF Active
  <2>2. QED
    BY <2>1 DEF RunInv, Built, FreshLoop, SeedChosen, Counted, LoopOver, Missing, Renamed, Filled,
                AfterBuild, InLoop, AfterLoop
<1>5. OneSuiteAtATime'
  BY <1>1, <1>2, <1>3 DEF OneSuiteAtATime, HoldsLock, Active, IInv
<1>6. Cloned' /\ HeadRead'
  <2>1. head # 0
    BY <1>1 DEF IInv, Cloned, Active
  <2>2. QED
    BY <2>1, <1>1, <1>2 DEF IInv, Cloned, HeadRead
<1>7. QED
  BY <1>4, <1>5, <1>6 DEF IInv

-----------------------------------------------------------------------------
(* The control of a run.                                                   *)

ControlOK ==
  /\ step \in [Runs -> RunSteps]
  /\ stage \in [Runs -> 1 .. Len(Campaigns)]
  /\ seed \in [Runs -> 1 .. (Seeds + 1)]

FilesOK ==
  /\ environment \in [CampaignSet -> Environments \cup {NoFile}]
  /\ partial \in [CampaignSet -> [SeedSet -> Outputs \cup {NoFile}]]
  /\ result \in [CampaignSet -> [SeedSet -> Outputs \cup {NoFile, Empty}]]
  /\ manifest \in [CampaignSet -> Digests \cup {NoFile, Empty}]
  /\ receipt \in [CampaignSet -> Digests \cup {NoFile}]

\* The types a runner's step can disturb.
LEMMA RunTypes ==
  ASSUME TypeOK, ControlOK', FilesOK', head' = head, binary' \in {binary, head},
         UNCHANGED <<lvars, status, cvars>>
  PROVE  TypeOK'
BY DEF TypeOK, ControlOK, FilesOK, lvars, cvars

LEMMA SplitTypes == TypeOK => ControlOK /\ FilesOK
BY DEF TypeOK, ControlOK, FilesOK

LEMMA GotoTypes ==
  ASSUME ControlOK, NEW l \in Runs, NEW next \in RunSteps, Goto(l, next)
  PROVE  ControlOK' /\ step'[l] = next /\ stage'[l] = stage[l] /\ seed'[l] = seed[l]
BY DEF ControlOK, Goto

LEMMA NextTypes ==
  ASSUME ControlOK, NEW l \in Runs, NextSeed(l), seed[l] <= Seeds
  PROVE  ControlOK' /\ step'[l] = "check" /\ stage'[l] = stage[l] /\ seed'[l] = seed[l] + 1
BY SuiteAssumption DEF ControlOK, NextSeed, RunSteps

LEMMA EnterTypes ==
  ASSUME ControlOK, NEW l \in Runs, NEW i \in Nat \ {0}, Enter(l, i)
  PROVE  ControlOK' /\ step'[l] \in {"summarize", "rebuild", "environment"} /\ seed'[l] = 1
<1>1. FirstStep(i) \in {"summarize", "rebuild", "environment"}
  BY DEF FirstStep
<1>2. stage' \in [Runs -> 1 .. Len(Campaigns)]
  BY SuiteAssumption DEF ControlOK, Enter
<1>3. QED
  BY <1>1, <1>2, SuiteAssumption DEF ControlOK, Enter, RunSteps

\* A file of the present seed exists in the result functions.
LEMMA SeedKnown ==
  ASSUME IInv, NEW l \in Runs, step[l] \in InLoop \/ (step[l] = "check" /\ seed[l] <= Seeds)
  PROVE  seed[l] \in SeedSet /\ Campaign(l) \in CampaignSet
BY SuiteAssumption, CampaignKnown
   DEF IInv, TypeOK, SeedSet, RunInv, SeedChosen

\* Whatever a run writes names a commit.
LEMMA OutputKnown ==
  ASSUME IInv, NEW l \in Runs, step[l] \in AfterBuild
  PROVE  [bin |-> binary, by |-> l] \in Outputs /\ [head |-> head, bin |-> binary] \in Environments
<1>1. head # 0 /\ binary # 0
  BY DEF IInv, RunInv, Built, Cloned, AfterBuild
<1>2. QED
  BY <1>1, SuiteAssumption DEF IInv, TypeOK, Outputs, Environments

LEMMA DigestKnown ==
  ASSUME TypeOK, NEW c \in CampaignSet
  PROVE  Digest(c) \in Digests
BY DEF TypeOK, Digest, Digests

-----------------------------------------------------------------------------
(* One lemma per action of a runner.                                       *)

LEMMA BuildAllStep ==
  ASSUME IInv, NEW l \in Runs, BuildAll(l), UNCHANGED <<lvars, status, cvars>>
  PROVE  TypeOK' /\ RunInv(l)'
<1>1. ControlOK /\ FilesOK /\ Campaign(l) \in CampaignSet
  BY SplitTypes, CampaignKnown DEF IInv
<1>2. ControlOK' /\ step'[l] \in {"summarize", "rebuild", "environment"} /\ seed'[l] = 1
  BY <1>1, EnterTypes, SuiteAssumption DEF BuildAll, ControlOK
<1>3. FilesOK'
  BY <1>1 DEF FilesOK, dirvars, BuildAll
<1>4. TypeOK'
  BY <1>2, <1>3, RunTypes DEF IInv, BuildAll
<1>5. RunInv(l)'
  <2>1. binary' # 0
    BY DEF IInv, Cloned, BuildAll
  <2>2. QED
    BY <2>1, <1>2 DEF RunInv, Built, FreshLoop, SeedChosen, Counted, LoopOver, Missing, Renamed, Filled,
         AfterBuild, InLoop, AfterLoop
<1>6. QED
  BY <1>4, <1>5

LEMMA RebuildStep ==
  ASSUME IInv, NEW l \in Runs, Rebuild(l), UNCHANGED <<lvars, status, cvars>>
  PROVE  TypeOK' /\ RunInv(l)'
<1>1. ControlOK /\ FilesOK /\ Campaign(l) \in CampaignSet
  BY SplitTypes, CampaignKnown DEF IInv
<1>2. ControlOK' /\ step'[l] = "environment" /\ stage'[l] = stage[l] /\ seed'[l] = seed[l]
  BY <1>1, GotoTypes DEF Rebuild, RunSteps
<1>3. FilesOK'
  BY <1>1 DEF FilesOK, dirvars, Rebuild
<1>4. TypeOK'
  BY <1>2, <1>3, RunTypes DEF IInv, Rebuild
<1>5. RunInv(l)'
  <2>1. binary' # 0 /\ seed[l] = 1
    BY DEF IInv, Cloned, RunInv, FreshLoop, Rebuild
  <2>2. QED
    BY <2>1, <1>2 DEF RunInv, Built, FreshLoop, SeedChosen, Counted, LoopOver, Missing, Renamed, Filled,
         AfterBuild, InLoop, AfterLoop
<1>6. QED
  BY <1>4, <1>5

LEMMA RecordEnvironmentStep ==
  ASSUME IInv, NEW l \in Runs, RecordEnvironment(l), UNCHANGED <<lvars, status, cvars>>
  PROVE  TypeOK' /\ RunInv(l)'
<1>1. ControlOK /\ FilesOK /\ Campaign(l) \in CampaignSet
  BY SplitTypes, CampaignKnown DEF IInv
<1>2. ControlOK' /\ step'[l] = "check" /\ stage'[l] = stage[l] /\ seed'[l] = seed[l]
  BY <1>1, GotoTypes DEF RecordEnvironment, RunSteps
<1>3. FilesOK'
  <2>1. [head |-> head, bin |-> binary] \in Environments
    BY OutputKnown DEF RecordEnvironment, AfterBuild
  <2>2. QED
    BY <2>1, <1>1 DEF FilesOK, RecordEnvironment
<1>4. TypeOK'
  BY <1>2, <1>3, RunTypes DEF IInv, RecordEnvironment
<1>5. RunInv(l)'
  <2>1. seed[l] = 1 /\ binary' # 0
    BY DEF IInv, RunInv, FreshLoop, Built, AfterBuild, RecordEnvironment
  <2>2. QED
    BY <2>1, <1>2, SuiteAssumption DEF SeedSet, RunInv, Built, FreshLoop, SeedChosen, Counted, LoopOver, Missing, Renamed, Filled,
         AfterBuild, InLoop, AfterLoop
<1>6. QED
  BY <1>4, <1>5

LEMMA ReuseSeedStep ==
  ASSUME IInv, NEW l \in Runs, ReuseSeed(l), UNCHANGED <<lvars, status, cvars>>
  PROVE  TypeOK' /\ RunInv(l)'
<1>1. ControlOK /\ FilesOK /\ Campaign(l) \in CampaignSet
  BY SplitTypes, CampaignKnown DEF IInv
<1>2. ControlOK' /\ step'[l] = "check" /\ stage'[l] = stage[l] /\ seed'[l] = seed[l] + 1
  BY <1>1, NextTypes DEF ReuseSeed, IInv, RunInv, SeedChosen, InLoop
<1>3. FilesOK'
  BY <1>1 DEF FilesOK, dirvars, ReuseSeed
<1>4. TypeOK'
  BY <1>2, <1>3, RunTypes DEF IInv, ReuseSeed
<1>5. RunInv(l)'
  <2>1. seed[l] \in SeedSet /\ UNCHANGED result
    BY SeedKnown DEF ReuseSeed, dirvars, InLoop
  <2>2. Campaign(l)' = Campaign(l)
    BY <1>2 DEF Campaign
  <2>3. ASSUME NEW s \in SeedSet, s < seed[l] + 1
        PROVE  Accepted(result'[Campaign(l)][s])
    <3>1. s < seed[l] => Accepted(result[Campaign(l)][s])
      BY DEF IInv, RunInv, Counted, InLoop, ReuseSeed
    <3>2. s < seed[l] \/ s = seed[l]
      BY <2>1, <2>3, SuiteAssumption DEF SeedSet
    <3>3. QED
      BY <3>1, <3>2, <2>1 DEF ReuseSeed
  <2>4. Counted(l)'
    BY <1>2, <2>2, <2>3 DEF Counted, SeedSet
  <2>5. Built(l)'
    BY <1>2 DEF IInv, RunInv, Built, AfterBuild, InLoop, ReuseSeed
  <2>6. QED
    BY <2>4, <2>5, <1>2 DEF RunInv, FreshLoop, SeedChosen, LoopOver, Missing, Renamed, Filled, InLoop, AfterLoop
<1>6. QED
  BY <1>4, <1>5

LEMMA MissSeedStep ==
  ASSUME IInv, NEW l \in Runs, MissSeed(l), UNCHANGED <<lvars, status, cvars>>
  PROVE  TypeOK' /\ RunInv(l)'
<1>1. ControlOK /\ FilesOK /\ Campaign(l) \in CampaignSet
  BY SplitTypes, CampaignKnown DEF IInv
<1>2. ControlOK' /\ step'[l] = "execute" /\ stage'[l] = stage[l] /\ seed'[l] = seed[l]
  BY <1>1, GotoTypes DEF MissSeed, RunSteps
<1>3. FilesOK'
  <2>1. seed[l] \in SeedSet
    BY SeedKnown DEF MissSeed
  <2>2. QED
    BY <2>1, <1>1 DEF FilesOK, MissSeed
<1>4. TypeOK'
  BY <1>2, <1>3, RunTypes DEF IInv, MissSeed
<1>5. RunInv(l)'
  BY <1>1, <1>2, SuiteAssumption
     DEF IInv, MissSeed, dirvars, Campaign, RunInv, Built, FreshLoop, SeedChosen, Counted, LoopOver, Missing, Renamed, Filled,
         AfterBuild, InLoop, AfterLoop
<1>6. QED
  BY <1>4, <1>5

LEMMA ExecuteStep ==
  ASSUME IInv, NEW l \in Runs, Execute(l), UNCHANGED <<lvars, status, cvars>>
  PROVE  TypeOK' /\ RunInv(l)'
<1>1. ControlOK /\ FilesOK /\ Campaign(l) \in CampaignSet
  BY SplitTypes, CampaignKnown DEF IInv
<1>2. ControlOK' /\ step'[l] = "validate" /\ stage'[l] = stage[l] /\ seed'[l] = seed[l]
  BY <1>1, GotoTypes DEF Execute, RunSteps
<1>3. FilesOK'
  <2>1. seed[l] \in SeedSet /\ [bin |-> binary, by |-> l] \in Outputs
    BY SeedKnown, OutputKnown DEF Execute, AfterBuild, InLoop
  <2>2. CASE Campaign(l) \in Staged
    <3>1. UNCHANGED <<environment, result, manifest, receipt>>
      BY <2>2 DEF Execute
    <3>2. partial' = [partial EXCEPT ![Campaign(l)][seed[l]] = [bin |-> binary, by |-> l]]
      BY <2>2 DEF Execute
    <3>3. QED
      BY <3>1, <3>2, <2>1, <1>1 DEF FilesOK
  <2>3. CASE Campaign(l) \notin Staged
    <3>1. UNCHANGED <<environment, partial, manifest, receipt>>
      BY <2>3 DEF Execute
    <3>2. result' = [result EXCEPT ![Campaign(l)][seed[l]] = [bin |-> binary, by |-> l]]
      BY <2>3 DEF Execute
    <3>3. QED
      BY <3>1, <3>2, <2>1, <1>1 DEF FilesOK
  <2>4. QED
    BY <2>2, <2>3
<1>4. TypeOK'
  BY <1>2, <1>3, RunTypes DEF IInv, Execute
<1>5. RunInv(l)'
  <2>1. Campaign(l)' = Campaign(l) /\ seed[l] \in SeedSet
    BY <1>2, SeedKnown DEF Campaign, Execute, InLoop
  <2>2. ASSUME NEW s \in SeedSet, s < seed[l]
        PROVE  Accepted(result'[Campaign(l)][s])
    <3>1. Accepted(result[Campaign(l)][s])
      BY <2>2 DEF IInv, RunInv, Counted, InLoop, Execute
    <3>2. s # seed[l]
      BY <2>2, <2>1 DEF SeedSet
    <3>3. result'[Campaign(l)][s] = result[Campaign(l)][s]
      <4>1. CASE Campaign(l) \in Staged
        BY <4>1 DEF Execute
      <4>2. CASE Campaign(l) \notin Staged
        <5>1. result' = [result EXCEPT ![Campaign(l)][seed[l]] = [bin |-> binary, by |-> l]]
          BY <4>2 DEF Execute
        <5>2. QED
          BY <5>1, <3>2, <2>1, <1>1 DEF FilesOK
      <4>3. QED
        BY <4>1, <4>2
    <3>4. QED
      BY <3>1, <3>3
  <2>3. Counted(l)'
    BY <1>2, <2>1, <2>2 DEF Counted
  <2>4. Missing(l)'
    <3>1. SUFFICES ASSUME Campaign(l) \in Staged PROVE ~Accepted(result'[Campaign(l)][seed[l]])
      BY <1>2, <2>1 DEF Missing
    <3>2. QED
      BY <3>1 DEF IInv, RunInv, Missing, Execute
  <2>5. Built(l)' /\ SeedChosen(l)'
    BY <1>2 DEF IInv, RunInv, Built, SeedChosen, AfterBuild, InLoop, Execute
  <2>6. QED
    BY <2>3, <2>4, <2>5, <1>2 DEF RunInv, FreshLoop, LoopOver, Renamed, Filled, InLoop, AfterLoop
<1>6. QED
  BY <1>4, <1>5

LEMMA ValidateStagedStep ==
  ASSUME IInv, NEW l \in Runs, ValidateStaged(l), UNCHANGED <<lvars, status, cvars>>
  PROVE  TypeOK' /\ RunInv(l)'
<1>1. ControlOK /\ FilesOK /\ Campaign(l) \in CampaignSet
  BY SplitTypes, CampaignKnown DEF IInv
<1>2. ControlOK' /\ step'[l] = "publish" /\ stage'[l] = stage[l] /\ seed'[l] = seed[l]
  BY <1>1, GotoTypes DEF ValidateStaged, RunSteps
<1>3. FilesOK'
  BY <1>1 DEF FilesOK, dirvars, ValidateStaged
<1>4. TypeOK'
  BY <1>2, <1>3, RunTypes DEF IInv, ValidateStaged
<1>5. RunInv(l)'
  BY <1>1, <1>2, SuiteAssumption
     DEF IInv, ValidateStaged, dirvars, Campaign, RunInv, Built, FreshLoop, SeedChosen, Counted, LoopOver, Missing, Renamed, Filled,
         AfterBuild, InLoop, AfterLoop
<1>6. QED
  BY <1>4, <1>5

LEMMA ValidateDirectStep ==
  ASSUME IInv, NEW l \in Runs, ValidateDirect(l), UNCHANGED <<lvars, status, cvars>>
  PROVE  TypeOK' /\ RunInv(l)'
<1>1. ControlOK /\ FilesOK /\ Campaign(l) \in CampaignSet
  BY SplitTypes, CampaignKnown DEF IInv
<1>2. ControlOK' /\ step'[l] = "check" /\ stage'[l] = stage[l] /\ seed'[l] = seed[l] + 1
  BY <1>1, NextTypes DEF ValidateDirect, IInv, RunInv, SeedChosen, InLoop
<1>3. FilesOK'
  BY <1>1 DEF FilesOK, dirvars, ValidateDirect
<1>4. TypeOK'
  BY <1>2, <1>3, RunTypes DEF IInv, ValidateDirect
<1>5. RunInv(l)'
  <2>1. seed[l] \in SeedSet /\ UNCHANGED result
    BY SeedKnown DEF ValidateDirect, dirvars, InLoop
  <2>2. Campaign(l)' = Campaign(l)
    BY <1>2 DEF Campaign
  <2>3. ASSUME NEW s \in SeedSet, s < seed[l] + 1
        PROVE  Accepted(result'[Campaign(l)][s])
    <3>1. s < seed[l] => Accepted(result[Campaign(l)][s])
      BY DEF IInv, RunInv, Counted, InLoop, ValidateDirect
    <3>2. s < seed[l] \/ s = seed[l]
      BY <2>1, <2>3, SuiteAssumption DEF SeedSet
    <3>3. QED
      BY <3>1, <3>2, <2>1 DEF ValidateDirect
  <2>4. Counted(l)'
    BY <1>2, <2>2, <2>3 DEF Counted, SeedSet
  <2>5. Built(l)'
    BY <1>2 DEF IInv, RunInv, Built, AfterBuild, InLoop, ValidateDirect
  <2>6. QED
    BY <2>4, <2>5, <1>2 DEF RunInv, FreshLoop, SeedChosen, LoopOver, Missing, Renamed, Filled, InLoop, AfterLoop
<1>6. QED
  BY <1>4, <1>5

LEMMA PublishStep ==
  ASSUME IInv, NEW l \in Runs, Publish(l), UNCHANGED <<lvars, status, cvars>>
  PROVE  TypeOK' /\ RunInv(l)'
<1>1. ControlOK /\ FilesOK /\ Campaign(l) \in CampaignSet
  BY SplitTypes, CampaignKnown DEF IInv
<1>2. ControlOK' /\ step'[l] = "check" /\ stage'[l] = stage[l] /\ seed'[l] = seed[l] + 1
  BY <1>1, NextTypes DEF Publish, IInv, RunInv, SeedChosen, InLoop
<1>3. FilesOK'
  <2>1. seed[l] \in SeedSet
    BY SeedKnown DEF Publish, InLoop
  <2>2. partial[Campaign(l)][seed[l]] \in Outputs
    BY <2>1, <1>1 DEF FilesOK, Publish
  <2>3. QED
    BY <2>1, <2>2, <1>1 DEF FilesOK, Publish
<1>4. TypeOK'
  BY <1>2, <1>3, RunTypes DEF IInv, Publish
<1>5. RunInv(l)'
  <2>1. seed[l] \in SeedSet
    BY SeedKnown DEF Publish, InLoop
  <2>2. Campaign(l)' = Campaign(l)
    BY <1>2 DEF Campaign
  <2>3. partial[Campaign(l)][seed[l]] \in Outputs
    BY <2>1, <1>1 DEF FilesOK, Publish
  <2>4. Accepted(result'[Campaign(l)][seed[l]])
    BY <2>1, <2>3, <1>1, FilesAssumption DEF FilesOK, Publish, Accepted
  <2>5. ASSUME NEW s \in SeedSet, s < seed[l] + 1
        PROVE  Accepted(result'[Campaign(l)][s])
    <3>1. s < seed[l] => Accepted(result[Campaign(l)][s])
      BY DEF IInv, RunInv, Counted, InLoop, Publish
    <3>2. s < seed[l] \/ s = seed[l]
      BY <2>1, <2>5, SuiteAssumption DEF SeedSet
    <3>3. s # seed[l] => result'[Campaign(l)][s] = result[Campaign(l)][s]
      BY <2>1, <1>1 DEF FilesOK, Publish
    <3>4. QED
      BY <3>1, <3>2, <3>3, <2>4
  <2>6. Counted(l)'
    BY <1>2, <2>2, <2>5 DEF Counted, SeedSet
  <2>7. Built(l)'
    BY <1>2 DEF IInv, RunInv, Built, AfterBuild, InLoop, Publish
  <2>8. QED
    BY <2>6, <2>7, <1>2 DEF RunInv, FreshLoop, SeedChosen, LoopOver, Missing, Renamed, Filled, InLoop, AfterLoop
<1>6. QED
  BY <1>4, <1>5

LEMMA OpenManifestStep ==
  ASSUME IInv, NEW l \in Runs, OpenManifest(l), UNCHANGED <<lvars, status, cvars>>
  PROVE  TypeOK' /\ RunInv(l)'
<1>1. ControlOK /\ FilesOK /\ Campaign(l) \in CampaignSet
  BY SplitTypes, CampaignKnown DEF IInv
<1>2. ControlOK' /\ step'[l] = "manifest" /\ stage'[l] = stage[l] /\ seed'[l] = seed[l]
  BY <1>1, GotoTypes DEF OpenManifest, RunSteps
<1>3. FilesOK'
  BY <1>1 DEF FilesOK, OpenManifest
<1>4. TypeOK'
  BY <1>2, <1>3, RunTypes DEF IInv, OpenManifest
<1>5. RunInv(l)'
  BY <1>1, <1>2, SuiteAssumption
     DEF IInv, OpenManifest, dirvars, Campaign, RunInv, Built, FreshLoop, SeedChosen, Counted, LoopOver, Missing, Renamed, Filled,
         AfterBuild, InLoop, AfterLoop
<1>6. QED
  BY <1>4, <1>5

LEMMA FillManifestStep ==
  ASSUME IInv, NEW l \in Runs, FillManifest(l), UNCHANGED <<lvars, status, cvars>>
  PROVE  TypeOK' /\ RunInv(l)'
<1>1. ControlOK /\ FilesOK /\ Campaign(l) \in CampaignSet
  BY SplitTypes, CampaignKnown DEF IInv
<1>2. ControlOK' /\ step'[l] = "receipt" /\ stage'[l] = stage[l] /\ seed'[l] = seed[l]
  BY <1>1, GotoTypes DEF FillManifest, RunSteps
<1>3. FilesOK'
  BY <1>1, DigestKnown DEF IInv, FilesOK, FillManifest
<1>4. TypeOK'
  BY <1>2, <1>3, RunTypes DEF IInv, FillManifest
<1>5. RunInv(l)'
  BY <1>1, <1>2, DigestKnown, SuiteAssumption
     DEF IInv, FillManifest, dirvars, Campaign, FilesOK, RunInv, Built, FreshLoop, SeedChosen, Counted, LoopOver, Missing, Renamed, Filled,
         AfterBuild, InLoop, AfterLoop
<1>6. QED
  BY <1>4, <1>5

LEMMA WriteReceiptStep ==
  ASSUME IInv, NEW l \in Runs, WriteReceipt(l), UNCHANGED <<lvars, status, cvars>>
  PROVE  TypeOK' /\ RunInv(l)'
<1>1. ControlOK /\ FilesOK /\ Campaign(l) \in CampaignSet
  BY SplitTypes, CampaignKnown DEF IInv
<1>2. ControlOK' /\ step'[l] \in {"summarize", "rebuild", "environment"} /\ seed'[l] = 1
  BY <1>1, EnterTypes, SuiteAssumption DEF WriteReceipt, ControlOK
<1>3. FilesOK'
  <2>1. manifest[Campaign(l)] \in Digests
    BY DEF IInv, RunInv, Filled, WriteReceipt
  <2>2. QED
    BY <2>1, <1>1 DEF FilesOK, WriteReceipt
<1>4. TypeOK'
  BY <1>2, <1>3, RunTypes DEF IInv, WriteReceipt
<1>5. RunInv(l)'
  BY <1>1, <1>2, SuiteAssumption
     DEF IInv, WriteReceipt, dirvars, Campaign, RunInv, Built, FreshLoop, SeedChosen, Counted, LoopOver, Missing, Renamed, Filled,
         AfterBuild, InLoop, AfterLoop
<1>6. QED
  BY <1>4, <1>5

LEMMA SummarizeStep ==
  ASSUME IInv, NEW l \in Runs, Summarize(l), UNCHANGED <<lvars, status, cvars>>
  PROVE  TypeOK' /\ RunInv(l)'
<1>1. ControlOK /\ FilesOK /\ Campaign(l) \in CampaignSet
  BY SplitTypes, CampaignKnown DEF IInv
<1>2. ControlOK' /\ step'[l] = "passed" /\ stage'[l] = stage[l] /\ seed'[l] = seed[l]
  BY <1>1, GotoTypes DEF Summarize, RunSteps
<1>3. FilesOK'
  BY <1>1 DEF FilesOK, dirvars, Summarize
<1>4. TypeOK'
  BY <1>2, <1>3, RunTypes DEF IInv, Summarize
<1>5. RunInv(l)'
  BY <1>1, <1>2, SuiteAssumption
     DEF IInv, Summarize, dirvars, Campaign, RunInv, Built, FreshLoop, SeedChosen, Counted, LoopOver, Missing, Renamed, Filled,
         AfterBuild, InLoop, AfterLoop
<1>6. QED
  BY <1>4, <1>5

LEMMA RunFailsStep ==
  ASSUME IInv, NEW l \in Runs, RunFails(l), UNCHANGED <<lvars, status, cvars>>
  PROVE  TypeOK' /\ RunInv(l)'
<1>1. ControlOK /\ FilesOK /\ Campaign(l) \in CampaignSet
  BY SplitTypes, CampaignKnown DEF IInv
<1>2. ControlOK' /\ step'[l] = "failed" /\ stage'[l] = stage[l] /\ seed'[l] = seed[l]
  BY <1>1, GotoTypes DEF RunFails, RunSteps
<1>3. FilesOK'
  BY <1>1 DEF FilesOK, dirvars, RunFails
<1>4. TypeOK'
  BY <1>2, <1>3, RunTypes DEF IInv, RunFails
<1>5. RunInv(l)'
  BY <1>1, <1>2, SuiteAssumption
     DEF IInv, RunFails, dirvars, Campaign, RunInv, Built, FreshLoop, SeedChosen, Counted, LoopOver, Missing, Renamed, Filled,
         AfterBuild, InLoop, AfterLoop
<1>6. QED
  BY <1>4, <1>5

\* Every step of a runner.
LEMMA RunnerInv ==
  ASSUME IInv, NEW l \in Runs, RunnerStep(l)
  PROVE  IInv'
<1>1. UNCHANGED <<lvars, status, cvars>> /\ RunStep(l)
  BY DEF RunnerStep
<1>2. TypeOK' /\ RunInv(l)'
  BY <1>1, BuildAllStep, RebuildStep, RecordEnvironmentStep, ReuseSeedStep, MissSeedStep,
     ExecuteStep, ValidateStagedStep, ValidateDirectStep, PublishStep, OpenManifestStep,
     FillManifestStep, WriteReceiptStep, SummarizeStep, RunFailsStep DEF RunStep
<1>3. QED
  BY <1>2, RunFrame

-----------------------------------------------------------------------------
(* The launcher, the controller and the failures.                          *)

\* Steps that leave the runs and their files alone keep what the runs rely on,
\* as long as the programs do not disappear.
LEMMA RunsUntouched ==
  ASSUME IInv, UNCHANGED <<rvars, dirvars>>, binary # 0 => binary' # 0
  PROVE  \A l \in Runs : RunInv(l)'
<1> SUFFICES ASSUME NEW l \in Runs PROVE RunInv(l)'
  OBVIOUS
<1>1. Campaign(l)' = Campaign(l)
  BY DEF Campaign, rvars
<1>2. RunInv(l)
  BY DEF IInv
<1>3. Built(l)' /\ FreshLoop(l)' /\ SeedChosen(l)' /\ LoopOver(l)'
  BY <1>2 DEF RunInv, Built, FreshLoop, SeedChosen, LoopOver, rvars
<1>4. Counted(l)' /\ Missing(l)'
  BY <1>1, <1>2 DEF RunInv, Counted, Missing, rvars, dirvars
<1>5. Renamed(l)' /\ Filled(l)'
  BY <1>1, <1>2 DEF RunInv, Renamed, Filled, rvars, dirvars
<1>6. QED
  BY <1>3, <1>4, <1>5 DEF RunInv

\* Taking, refusing and losing the lock.
LEMMA LauncherInv ==
  ASSUME IInv, NEW l \in Runs,
         LaunchByHand(l) \/ TakeLock(l) \/ RefuseLock(l) \/ End(l) \/ KillLauncher(l)
  PROVE  IInv'
<1>1. UNCHANGED <<rvars, dirvars, head, binary, cvars>>
  BY DEF LaunchByHand, TakeLock, RefuseLock, End, KillLauncher
<1>2. \A k \in Runs : RunInv(k)'
  BY <1>1, RunsUntouched
<1>3. TypeOK'
  <2>1. CASE LaunchByHand(l) \/ RefuseLock(l) \/ KillLauncher(l)
    BY <2>1 DEF IInv, TypeOK, LaunchByHand, RefuseLock, KillLauncher, Move, rvars, dirvars, cvars
  <2>2. CASE TakeLock(l)
    BY <2>2 DEF IInv, TypeOK, TakeLock, Move, rvars, dirvars, cvars
  <2>3. CASE End(l)
    <3>1. launchHead[l] \in 1 .. Heads
      BY <2>3 DEF IInv, TypeOK, HeadRead, End
    <3>2. status' \in States
      BY <2>3, <3>1 DEF End, FinalState, States
    <3>3. QED
      BY <2>3, <3>2 DEF IInv, TypeOK, End, Move, rvars, dirvars, cvars
  <2>4. QED
    BY <2>1, <2>2, <2>3
<1>4. OneSuiteAtATime'
  <2>1. CASE TakeLock(l)
    <3>1. \A k \in Runs : ~HoldsLock(k)
      BY <2>1 DEF TakeLock
    <3>2. \A k \in Runs \ {l} : ~HoldsLock(k)'
      BY <1>1, <2>1, <3>1 DEF IInv, TypeOK, HoldsLock, Active, TakeLock, Move, rvars
    <3>3. QED
      BY <3>2 DEF OneSuiteAtATime
  <2>2. CASE LaunchByHand(l) \/ RefuseLock(l) \/ End(l) \/ KillLauncher(l)
    <3>1. \A k \in Runs : HoldsLock(k)' => HoldsLock(k)
      BY <1>1, <2>2 DEF IInv, TypeOK, HoldsLock, Active, LaunchByHand, RefuseLock, End,
                        KillLauncher, Alive, Move, rvars
    <3>2. QED
      BY <3>1 DEF IInv, OneSuiteAtATime
  <2>3. QED
    BY <2>1, <2>2
<1>5. head # 0
  BY DEF IInv, Cloned, LaunchByHand, TakeLock, RefuseLock, End, KillLauncher, Alive
<1>6. Cloned' /\ HeadRead'
  BY <1>1, <1>5 DEF IInv, TypeOK, Cloned, HeadRead, LaunchByHand, TakeLock, RefuseLock, End,
                    KillLauncher, Alive, Move
<1>7. QED
  BY <1>2, <1>3, <1>4, <1>6 DEF IInv

\* The launcher hands the lock on to its run.
LEMMA BeginInv ==
  ASSUME IInv, NEW l \in Runs, Begin(l)
  PROVE  IInv'
<1>1. step' = [step EXCEPT ![l] = "build"] /\ UNCHANGED <<stage, seed, dirvars, head, binary>>
  BY DEF Begin, StartRun
<1>2. launcher[l] = "starting" /\ launcher' = [launcher EXCEPT ![l] = "waiting"]
  BY DEF Begin, Move
<1>3. UNCHANGED <<launchHead, controller, wanted>>
  BY DEF Begin, cvars
<1>4. TypeOK'
  <2>1. launchHead[l] \in 1 .. Heads
    BY <1>2 DEF IInv, TypeOK, HeadRead
  <2>2. status' \in States
    BY <2>1 DEF Begin, States
  <2>3. QED
    BY <1>1, <1>2, <1>3, <2>2 DEF IInv, TypeOK, RunSteps, dirvars
<1>5. HoldsLock(l) /\ \A k \in Runs \ {l} : ~HoldsLock(k)
  BY <1>2 DEF IInv, OneSuiteAtATime, HoldsLock
<1>6. OneSuiteAtATime'
  BY <1>1, <1>2, <1>5 DEF IInv, TypeOK, OneSuiteAtATime, HoldsLock, Active
<1>7. Cloned' /\ HeadRead'
  BY <1>1, <1>2, <1>3 DEF IInv, TypeOK, Cloned, HeadRead
<1>8. \A k \in Runs : RunInv(k)'
  <2>1. \A k \in Runs : step'[k] \in {"none", "build", "passed", "failed"}
    BY <1>1, <1>5 DEF IInv, TypeOK, HoldsLock, Active
  <2>2. QED
    BY <2>1 DEF RunInv, Built, FreshLoop, SeedChosen, Counted, LoopOver, Missing, Renamed,
                Filled, AfterBuild, InLoop, AfterLoop
<1>9. QED
  BY <1>4, <1>6, <1>7, <1>8 DEF IInv

\* A controller moves HEAD forward, rebuilds, and adds a launcher that has yet to
\* ask for the lock.
LEMMA ControllerInv ==
  ASSUME IInv, NEW d \in Controllers, ControllerStep(d)
  PROVE  IInv'
<1>1. UNCHANGED <<rvars, dirvars, launchHead, status>>
  BY DEF ControllerStep, Merge, CheckIdentity, Gate, ReadStatus, Launch, ControllerFails, lvars
<1>2. CASE \E h \in 1 .. Heads : Merge(d, h)
  <2>1. PICK h \in 1 .. Heads : Merge(d, h)
    BY <1>2
  <2>2. head' \in 1 .. Heads /\ UNCHANGED <<binary, launcher>>
    BY <2>1, SuiteAssumption DEF IInv, TypeOK, Merge, lvars
  <2>3. TypeOK'
    BY <1>1, <2>1, <2>2 DEF IInv, TypeOK, Merge, Stop, rvars, dirvars
  <2>4. OneSuiteAtATime' /\ HeadRead' /\ Cloned'
    BY <1>1, <2>2 DEF IInv, OneSuiteAtATime, HoldsLock, Active, HeadRead, Cloned, rvars
  <2>5. QED
    BY <1>1, <2>2, <2>3, <2>4, RunsUntouched DEF IInv
<1>3. ASSUME ~\E h \in 1 .. Heads : Merge(d, h)
      PROVE  IInv'
  <2>1. head' = head /\ head # 0 /\ binary' \in {binary, head}
    BY <1>3 DEF IInv, Cloned, ControllerStep, CheckIdentity, Gate, ReadStatus, Launch, ControllerFails
  <2>2. TypeOK'
    BY <1>1, <1>3, <2>1 DEF IInv, TypeOK, ControllerStep, CheckIdentity, Gate, ReadStatus, Launch,
                     ControllerFails, Stop, Move, rvars, dirvars, lvars
  <2>3. \A k \in Runs : launcher'[k] # launcher[k] => launcher'[k] = "lock"
    BY <1>3 DEF IInv, TypeOK, ControllerStep, CheckIdentity, Gate, ReadStatus, Launch,
                ControllerFails, Move, lvars
  <2>4. OneSuiteAtATime' /\ HeadRead' /\ Cloned'
    BY <1>1, <2>1, <2>3 DEF IInv, OneSuiteAtATime, HoldsLock, Active, HeadRead, Cloned, rvars
  <2>5. QED
    BY <1>1, <2>1, <2>2, <2>4, RunsUntouched DEF IInv
<1>4. QED
  BY <1>2, <1>3

\* The host goes down: nothing is active any more.
LEMMA CrashInv == ASSUME IInv, HostCrash PROVE IInv'
<1>1. \A l \in Runs : /\ step'[l] \in {"none", "passed", "failed"}
                      /\ launcher'[l] \in {"none", "exited", "killed"}
  BY DEF IInv, TypeOK, HostCrash, Active, Alive
<1>2. head # 0 /\ UNCHANGED <<head, binary, launchHead>>
  BY DEF IInv, Cloned, HostCrash, Active, Alive
<1>3. TypeOK'
  <2>1. result' \in [CampaignSet -> [SeedSet -> Outputs \cup {NoFile, Empty}]]
    BY DEF IInv, TypeOK, HostCrash
  <2>2. /\ launcher' \in [Runs -> {"none", "lock", "starting", "waiting", "exited", "killed"}]
        /\ step' \in [Runs -> RunSteps]
    BY DEF IInv, TypeOK, HostCrash, RunSteps
  <2>3. controller' \in [Controllers -> {"none", "merged", "identified", "gated",
                                         "launching", "stopped"}]
    BY DEF IInv, TypeOK, HostCrash
  <2>4. QED
    BY <2>1, <2>2, <2>3 DEF IInv, TypeOK, HostCrash
<1>4. OneSuiteAtATime' /\ HeadRead' /\ Cloned'
  BY <1>1, <1>2 DEF OneSuiteAtATime, HoldsLock, Active, HeadRead, Cloned
<1>5. \A l \in Runs : RunInv(l)'
  BY <1>1 DEF RunInv, Built, FreshLoop, SeedChosen, Counted, LoopOver, Missing, Renamed, Filled,
              AfterBuild, InLoop, AfterLoop
<1>6. QED
  BY <1>3, <1>4, <1>5 DEF IInv

LEMMA NextIInv == IInv /\ [Next]_vars => IInv'
<1> SUFFICES ASSUME IInv, [Next]_vars PROVE IInv'
  OBVIOUS
<1>1. ASSUME NEW l \in Runs, LaunchByHand(l) \/ LauncherStep(l) \/ KillLauncher(l)
      PROVE  IInv'
  BY <1>1, LauncherInv, BeginInv DEF LauncherStep
<1>2. CASE HostCrash
  BY <1>2, CrashInv
<1>3. CASE UNCHANGED vars
  <2>1. UNCHANGED <<rvars, dirvars, head, binary, lvars, status, cvars>>
    BY <1>3 DEF vars
  <2>2. \A l \in Runs : RunInv(l)'
    BY <2>1, RunsUntouched
  <2>3. TypeOK'
    BY <2>1 DEF IInv, TypeOK, rvars, dirvars, lvars, cvars
  <2>4. OneSuiteAtATime' /\ HeadRead' /\ Cloned'
    BY <2>1 DEF IInv, OneSuiteAtATime, HoldsLock, Active, HeadRead, Cloned, rvars, lvars, cvars
  <2>5. QED
    BY <2>2, <2>3, <2>4 DEF IInv
<1>4. QED
  BY <1>1, <1>2, <1>3, RunnerInv, ControllerInv DEF Next

-----------------------------------------------------------------------------
(* The theorems.                                                           *)

\* The invariant every theorem below rests on.
THEOREM Invariance == Spec => []IInv
  BY InitIInv, NextIInv, PTL DEF Spec

\* Types.
THEOREM TypeCorrect == Spec => []TypeOK
<1>1. IInv => TypeOK
  BY DEF IInv
<1>2. QED
  BY <1>1, Invariance, PTL

\* One suite is under way at a time, whatever is launched, killed or deployed:
\* the flock of launch_formal_suite.sh, inherited by the run, is enough.
THEOREM OneAtATime == Spec => []OneSuiteAtATime
<1>1. IInv => OneSuiteAtATime
  BY DEF IInv
<1>2. QED
  BY <1>1, Invariance, PTL

\* Steps that leave the result files alone.
LEMMA ResultShape ==
  ASSUME [Next]_vars
  PROVE  \/ UNCHANGED result
         \/ \E l \in Runs : Execute(l) \/ Publish(l)
         \/ HostCrash
<1> USE DEF dirvars
<1>1. ASSUME NEW l \in Runs, RunStep(l), ~Execute(l), ~Publish(l)
      PROVE  UNCHANGED result
  BY <1>1 DEF RunStep, BuildAll, Rebuild, RecordEnvironment, ReuseSeed, MissSeed, ValidateStaged,
              ValidateDirect, OpenManifest, FillManifest, WriteReceipt, Summarize, RunFails
<1>2. ASSUME NEW l \in Runs, LaunchByHand(l) \/ LauncherStep(l) \/ KillLauncher(l)
      PROVE  UNCHANGED result
  BY <1>2 DEF LaunchByHand, LauncherStep, TakeLock, RefuseLock, Begin, End, KillLauncher
<1>3. ASSUME NEW d \in Controllers, ControllerStep(d)
      PROVE  UNCHANGED result
  BY <1>3 DEF ControllerStep, Merge, CheckIdentity, Gate, ReadStatus, Launch, ControllerFails
<1>4. QED
  BY <1>1, <1>2, <1>3 DEF Next, RunnerStep, vars

\* A seed is executed, or its output renamed, only while it has no accepted result.
LEMMA WorkKept ==
  ASSUME IInv, [Next]_vars, NEW c \in CampaignSet, NEW s \in SeedSet, Accepted(result[c][s])
  PROVE  result'[c][s] \in {result[c][s], Empty}
<1>1. ASSUME NEW l \in Runs, Execute(l) \/ Publish(l)
      PROVE  result'[c][s] = result[c][s]
  <2>1. seed[l] \in SeedSet /\ Campaign(l) \in CampaignSet
    BY <1>1, SeedKnown DEF Execute, Publish, InLoop
  <2>2. \/ UNCHANGED result
        \/ \E file : result' = [result EXCEPT ![Campaign(l)][seed[l]] = file]
    BY <1>1 DEF Execute, Publish
  <2>3. ~Accepted(result[Campaign(l)][seed[l]])
    BY <1>1 DEF IInv, RunInv, Missing, Renamed, InLoop, Execute, Publish
  <2>4. result[c][s] # result[Campaign(l)][seed[l]]
    BY <2>3
  <2>5. CASE UNCHANGED result
    BY <2>5
  <2>6. ASSUME NEW file, result' = [result EXCEPT ![Campaign(l)][seed[l]] = file]
        PROVE  result'[c][s] = result[c][s]
    <3>1. result \in [CampaignSet -> [SeedSet -> Outputs \cup {NoFile, Empty}]]
      BY DEF IInv, TypeOK
    <3>2. CASE c = Campaign(l)
      BY <3>1, <3>2, <2>1, <2>4, <2>6
    <3>3. CASE c # Campaign(l)
      BY <3>1, <3>3, <2>1, <2>6
    <3>4. QED
      BY <3>2, <3>3
  <2>7. QED
    BY <2>2, <2>5, <2>6
<1>2. CASE HostCrash
  BY <1>2 DEF HostCrash
<1>3. QED
  BY <1>1, <1>2, ResultShape

\* Accepted results are kept by every step of every process: what README.md says
\* of resuming holds for any number of runs, failures and deployments.
THEOREM WorkIsKept == Spec => AcceptedWorkKept
<1>1. IInv /\ [Next]_vars =>
        [\A c \in CampaignSet, s \in SeedSet :
           Accepted(result[c][s]) => result'[c][s] \in {result[c][s], Empty}]_vars
  BY WorkKept
<1>2. QED
  BY <1>1, Invariance, PTL DEF Spec, AcceptedWorkKept

-----------------------------------------------------------------------------
(* The result tree is resumable work.                                      *)

AcceptedOf == [c \in CampaignSet |-> {s \in SeedSet : Accepted(result[c][s])}]

SealedOf == {c \in CampaignSet : receipt[c] # NoFile}

\* One more result is a job accepted, or nothing new.
LEMMA OneResult ==
  ASSUME IInv, NEW l \in Runs, NEW file \in Outputs \cup {NoFile, Empty},
         seed[l] \in SeedSet, Campaign(l) \in CampaignSet,
         ~Accepted(result[Campaign(l)][seed[l]]),
         result' = [result EXCEPT ![Campaign(l)][seed[l]] = file],
         UNCHANGED receipt
  PROVE  [Work!RWNext]_(Work!rwvars)
<1> DEFINE c == Campaign(l)
           j == seed[l]
<1>1. result \in [CampaignSet -> [SeedSet -> Outputs \cup {NoFile, Empty}]]
  BY DEF IInv, TypeOK
<1>2. \A d \in CampaignSet, s \in SeedSet :
        result'[d][s] = IF d = c /\ s = j THEN file ELSE result[d][s]
  BY <1>1
<1>3. AcceptedOf' = [d \in CampaignSet |-> {s \in SeedSet : Accepted(result'[d][s])}]
  BY DEF AcceptedOf
<1>4. SealedOf' = SealedOf
  BY DEF SealedOf
<1>5. CASE ~Accepted(file)
  <2>1. \A d \in CampaignSet, s \in SeedSet : Accepted(result'[d][s]) <=> Accepted(result[d][s])
    BY <1>2, <1>5
  <2>2. AcceptedOf' = AcceptedOf
    BY <2>1, <1>3 DEF AcceptedOf
  <2>3. QED
    BY <2>2, <1>4 DEF Work!rwvars, AcceptedOf, SealedOf
<1>6. CASE Accepted(file)
  <2>1. j \notin AcceptedOf[c]
    BY DEF AcceptedOf
  <2>2. AcceptedOf' = [AcceptedOf EXCEPT ![c] = @ \cup {j}]
    <3>1. \A d \in CampaignSet : d # c =>
            {s \in SeedSet : Accepted(result'[d][s])} = {s \in SeedSet : Accepted(result[d][s])}
      BY <1>2
    <3>2. {s \in SeedSet : Accepted(result'[c][s])}
            = {s \in SeedSet : Accepted(result[c][s])} \cup {j}
      BY <1>2, <1>6
    <3>3. QED
      BY <3>1, <3>2, <1>3 DEF AcceptedOf
  <2>3. Work!Accept(c, j)
    BY <2>1, <2>2, <1>4 DEF Work!Accept, AcceptedOf, SealedOf
  <2>4. QED
    BY <2>3 DEF Work!RWNext
<1>7. QED
  BY <1>5, <1>6

\* Writing a receipt seals the campaign: all its seeds are accepted by then.
LEMMA OneReceipt ==
  ASSUME IInv, NEW l \in Runs, WriteReceipt(l)
  PROVE  Work!RWNext
<1>1. PICK c \in CampaignSet : c = Campaign(l)
  BY CampaignKnown DEF IInv
<1>2. \A s \in SeedSet : Accepted(result[c][s])
  <2>1. seed[l] > Seeds
    BY DEF IInv, RunInv, LoopOver, AfterLoop, WriteReceipt
  <2>2. \A s \in SeedSet : s < seed[l]
    BY <2>1, SuiteAssumption DEF SeedSet, IInv, TypeOK
  <2>3. QED
    BY <1>1, <2>2 DEF IInv, RunInv, Counted, AfterLoop, WriteReceipt
<1>3. receipt' = [receipt EXCEPT ![c] = manifest[c]] /\ UNCHANGED result
  BY <1>1 DEF WriteReceipt
<1>4. manifest[c] # NoFile
  BY <1>1, DigestAssumption DEF IInv, RunInv, Filled, WriteReceipt
<1>5. SealedOf' = SealedOf \cup {c}
  BY <1>1, <1>3, <1>4 DEF IInv, TypeOK, SealedOf
<1>6. AcceptedOf' = AcceptedOf /\ AcceptedOf[c] = SeedSet
  BY <1>1, <1>2, <1>3 DEF AcceptedOf
<1>7. Work!Seal(c)
  BY <1>5, <1>6 DEF Work!Seal, AcceptedOf, SealedOf
<1>8. QED
  BY <1>7 DEF Work!RWNext

\* A crash only loses results.
LEMMA CrashLoses ==
  ASSUME IInv, HostCrash
  PROVE  Work!RWNext
<1>1. UNCHANGED receipt
  BY DEF HostCrash
<1>2. \A c \in CampaignSet, s \in SeedSet : result'[c][s] \in {result[c][s], Empty}
  BY DEF HostCrash
<1>3. \A c \in CampaignSet, s \in SeedSet : Accepted(result'[c][s]) => Accepted(result[c][s])
  BY <1>2 DEF Accepted
<1>4. AcceptedOf' \in [CampaignSet -> SUBSET SeedSet]
  BY DEF AcceptedOf
<1>5. \A c \in CampaignSet : AcceptedOf'[c] \subseteq AcceptedOf[c]
  BY <1>3 DEF AcceptedOf
<1>6. SealedOf' = SealedOf
  BY <1>1 DEF SealedOf
<1>7. Work!Lose
  BY <1>4, <1>5, <1>6 DEF Work!Lose, AcceptedOf, SealedOf
<1>8. QED
  BY <1>7 DEF Work!RWNext

\* Every other step leaves results and receipts as they are.
LEMMA FilesShape ==
  ASSUME [Next]_vars, ~HostCrash,
         \A l \in Runs : ~Execute(l) /\ ~Publish(l) /\ ~WriteReceipt(l)
  PROVE  UNCHANGED <<result, receipt>>
<1> USE DEF dirvars
<1>1. ASSUME NEW l \in Runs, RunStep(l)
      PROVE  UNCHANGED receipt
  BY <1>1 DEF RunStep, BuildAll, Rebuild, RecordEnvironment, ReuseSeed, MissSeed, ValidateStaged,
              ValidateDirect, OpenManifest, FillManifest, Summarize, RunFails
<1>2. ASSUME NEW l \in Runs, LaunchByHand(l) \/ LauncherStep(l) \/ KillLauncher(l)
      PROVE  UNCHANGED receipt
  BY <1>2 DEF LaunchByHand, LauncherStep, TakeLock, RefuseLock, Begin, End, KillLauncher
<1>3. ASSUME NEW d \in Controllers, ControllerStep(d)
      PROVE  UNCHANGED receipt
  BY <1>3 DEF ControllerStep, Merge, CheckIdentity, Gate, ReadStatus, Launch, ControllerFails
<1>4. UNCHANGED receipt
  BY <1>1, <1>2, <1>3 DEF Next, RunnerStep, vars
<1>5. QED
  BY <1>4, ResultShape

LEMMA InitWork == Init => Work!RWInit
<1> SUFFICES ASSUME Init PROVE Work!RWInit
  OBVIOUS
<1>1. AcceptedOf = [c \in CampaignSet |-> {}]
  BY DEF Init, RunInit, AcceptedOf, Accepted
<1>2. SealedOf = {}
  BY DEF Init, RunInit, SealedOf
<1>3. QED
  BY <1>1, <1>2 DEF Work!RWInit, AcceptedOf, SealedOf

LEMMA StepWork == IInv /\ [Next]_vars => [Work!RWNext]_(Work!rwvars)
<1> SUFFICES ASSUME IInv, [Next]_vars PROVE [Work!RWNext]_(Work!rwvars)
  OBVIOUS
<1>1. ASSUME NEW l \in Runs, Execute(l), Campaign(l) \notin Staged
      PROVE  [Work!RWNext]_(Work!rwvars)
  <2>1. [bin |-> binary, by |-> l] \in Outputs
    BY <1>1, OutputKnown DEF Execute, AfterBuild
  <2>2. seed[l] \in SeedSet /\ Campaign(l) \in CampaignSet
    BY <1>1, SeedKnown DEF Execute, InLoop
  <2>3. ~Accepted(result[Campaign(l)][seed[l]])
    BY <1>1 DEF IInv, RunInv, Missing, Execute
  <2>4. result' = [result EXCEPT ![Campaign(l)][seed[l]] = [bin |-> binary, by |-> l]]
        /\ UNCHANGED receipt
    BY <1>1 DEF Execute
  <2>5. QED
    BY <2>1, <2>2, <2>3, <2>4, OneResult
<1>2. ASSUME NEW l \in Runs, Execute(l), Campaign(l) \in Staged
      PROVE  [Work!RWNext]_(Work!rwvars)
  BY <1>2 DEF Execute, Work!rwvars
<1>3. ASSUME NEW l \in Runs, Publish(l)
      PROVE  [Work!RWNext]_(Work!rwvars)
  <2>1. seed[l] \in SeedSet /\ Campaign(l) \in CampaignSet
    BY <1>3, SeedKnown DEF Publish, InLoop
  <2>2. ~Accepted(result[Campaign(l)][seed[l]])
    BY <1>3 DEF IInv, RunInv, Missing, Renamed, InLoop, Publish
  <2>3. partial[Campaign(l)][seed[l]] \in Outputs \cup {NoFile, Empty}
    BY <2>1 DEF IInv, TypeOK
  <2>4. result' = [result EXCEPT ![Campaign(l)][seed[l]] = partial[Campaign(l)][seed[l]]]
        /\ UNCHANGED receipt
    BY <1>3 DEF Publish
  <2>5. QED
    BY <2>1, <2>2, <2>3, <2>4, OneResult
<1>4. ASSUME UNCHANGED <<result, receipt>>
      PROVE  [Work!RWNext]_(Work!rwvars)
  BY <1>4 DEF Work!rwvars
<1>5. QED
  BY <1>1, <1>2, <1>3, <1>4, OneReceipt, CrashLoses, FilesShape

\* The launcher, the runs and the controllers together implement resumable work: a
\* job is accepted once, and a receipt is written only while all jobs are accepted.
THEOREM SuiteIsResumable == Spec => ImplementsResumableWork
<1>1. QED
  BY InitWork, StepWork, Invariance, PTL DEF Spec, ImplementsResumableWork, Work!RWSpec

-----------------------------------------------------------------------------
(* What a completed status stands for.                                     *)

\* The receipt of a campaign describes the files that are there.
Backed(c) ==
  /\ receipt[c] = manifest[c] /\ manifest[c] = Digest(c)
  /\ \A s \in SeedSet : Accepted(result[c][s])

AllBacked == \A c \in CampaignSet : Backed(c)

OneHead == \A c, k \in CampaignSet : environment[c].head = environment[k].head

\* A run leaves every campaign behind it backed.
Behind(l) ==
  /\ step[l] \in AfterBuild => \A j \in 1 .. (stage[l] - 1) : Backed(Campaigns[j])
  /\ step[l] = "receipt" => manifest[Campaign(l)] = Digest(Campaign(l))
  /\ step[l] = "summarize" => AllBacked

\* A run that passed and whose launcher has not yet said so.
Unreported(l) == step[l] = "passed" /\ launcher[l] = "waiting" => AllBacked /\ OneHead

Completed == status # NoStatus /\ status.state = "completed"

\* Nothing writes while the status says completed.
Settled == Completed => AllBacked /\ OneHead /\ \A l \in Runs : ~Active(l)

CInv == (\A l \in Runs : Behind(l) /\ Unreported(l)) /\ Settled

LEMMA InitCInv == Init => CInv
BY DEF Init, RunInit, CInv, Behind, Unreported, Settled, Completed, AfterBuild

\* What is said of the files depends on the files only.
LEMMA FilesSame ==
  ASSUME UNCHANGED <<environment, result, manifest, receipt>>
  PROVE  /\ \A c : Backed(c)' <=> Backed(c)
         /\ AllBacked' <=> AllBacked
         /\ OneHead' <=> OneHead
BY DEF AllBacked, OneHead, Backed, Digest

\* A step of a launcher or a controller.
LEMMA OutsideCInv ==
  ASSUME IInv, CInv, UNCHANGED <<environment, result, manifest, receipt, stage>>,
         \A k \in Runs : step'[k] = step[k] \/ step'[k] = "build",
         \A k \in Runs : step'[k] = "passed" /\ launcher'[k] = "waiting" => launcher[k] = "waiting",
         Completed' => \/ Completed /\ UNCHANGED step
                       \/ AllBacked /\ OneHead /\ \A k \in Runs : ~Active(k)'
  PROVE  CInv'
<1>1. Settled'
  BY FilesSame DEF CInv, Settled, Active
<1>2. ASSUME NEW k \in Runs PROVE Behind(k)' /\ Unreported(k)'
  <2>1. CASE step'[k] = "build"
    BY <2>1 DEF Behind, Unreported, AfterBuild
  <2>2. CASE step'[k] = step[k]
    <3>1. Campaign(k)' = Campaign(k) /\ stage'[k] = stage[k]
      BY DEF Campaign
    <3>2. \A c : Digest(c)' = Digest(c) /\ manifest'[c] = manifest[c]
      BY DEF Digest
    <3>3. Behind(k)'
      BY <2>2, <3>1, <3>2, FilesSame DEF CInv, Behind
    <3>4. Unreported(k)'
      BY <2>2, FilesSame DEF CInv, Unreported
    <3>5. QED
      BY <3>3, <3>4
  <2>3. QED
    BY <2>1, <2>2
<1>3. QED
  BY <1>1, <1>2 DEF CInv

\* A runner writes to the directory of its campaign only.
LEMMA OneDirectory ==
  ASSUME IInv, NEW l \in Runs, RunStep(l), NEW c \in CampaignSet, c # Campaign(l)
  PROVE  Backed(c)' <=> Backed(c)
<1>1. /\ environment'[c] = environment[c] /\ result'[c] = result[c]
      /\ manifest'[c] = manifest[c] /\ receipt'[c] = receipt[c]
  <2> USE DEF IInv, TypeOK, dirvars
  <2>1. CASE BuildAll(l) \/ Rebuild(l) \/ RecordEnvironment(l)
    BY <2>1 DEF BuildAll, Rebuild, RecordEnvironment
  <2>2. CASE ReuseSeed(l) \/ MissSeed(l) \/ Execute(l)
    BY <2>2 DEF ReuseSeed, MissSeed, Execute
  <2>3. CASE ValidateStaged(l) \/ ValidateDirect(l) \/ Publish(l)
    BY <2>3 DEF ValidateStaged, ValidateDirect, Publish
  <2>4. CASE OpenManifest(l) \/ FillManifest(l) \/ WriteReceipt(l)
    BY <2>4 DEF OpenManifest, FillManifest, WriteReceipt
  <2>5. CASE Summarize(l) \/ RunFails(l)
    BY <2>5 DEF Summarize, RunFails
  <2>6. QED
    BY <2>1, <2>2, <2>3, <2>4, <2>5 DEF RunStep
<1>2. QED
  BY <1>1 DEF Backed, Digest

\* The campaigns behind a run stay as they are.
LEMMA BehindKept ==
  ASSUME IInv, NEW l \in Runs, RunStep(l), NEW j \in 1 .. (stage[l] - 1), Backed(Campaigns[j])
  PROVE  Backed(Campaigns[j])'
<1>1. j \in 1 .. Len(Campaigns) /\ j # stage[l] /\ stage[l] \in 1 .. Len(Campaigns)
  BY SuiteAssumption DEF IInv, TypeOK
<1>2. Campaigns[j] \in CampaignSet /\ Campaigns[j] # Campaign(l)
  BY <1>1, SuiteAssumption DEF CampaignSet, Campaign
<1>3. QED
  BY <1>2, OneDirectory

\* The receipt makes the campaign of a run backed.
LEMMA ReceiptBacks ==
  ASSUME IInv, NEW l \in Runs, WriteReceipt(l), Behind(l),
         NEW c \in CampaignSet, c = Campaign(l)
  PROVE  Backed(c)'
<1>1. c = Campaign(l)
  OBVIOUS
<1>2. \A s \in SeedSet : Accepted(result[c][s])
  <2>1. seed[l] > Seeds
    BY DEF IInv, RunInv, LoopOver, AfterLoop, WriteReceipt
  <2>2. \A s \in SeedSet : s < seed[l]
    BY <2>1, SuiteAssumption DEF SeedSet, IInv, TypeOK
  <2>3. QED
    BY <1>1, <2>2 DEF IInv, RunInv, Counted, AfterLoop, WriteReceipt
<1>3. manifest[c] = Digest(c)
  BY <1>1 DEF Behind, WriteReceipt
<1>4. receipt'[c] = manifest[c] /\ UNCHANGED <<environment, result, manifest>>
  BY <1>1 DEF WriteReceipt, IInv, TypeOK
<1>5. QED
  BY <1>2, <1>3, <1>4 DEF Backed, Digest

\* Every step of a runner keeps what it has finished.
LEMMA RunnerBehind ==
  ASSUME IInv, NEW l \in Runs, RunStep(l), Behind(l)
  PROVE  Behind(l)'
<1>1. stage[l] \in 1 .. Len(Campaigns) /\ Len(Campaigns) \in Nat \ {0}
  BY SuiteAssumption DEF IInv, TypeOK
<1>2. CASE BuildAll(l)
  <2>1. stage'[l] = 1 /\ step'[l] \in {"rebuild", "environment"}
    BY <1>1, <1>2 DEF IInv, TypeOK, BuildAll, Enter, FirstStep
  <2>2. QED
    BY <2>1 DEF Behind
<1>3. CASE WriteReceipt(l)
  <2>1. \A j \in 1 .. (stage[l] - 1) : Backed(Campaigns[j])'
    BY <1>3, BehindKept DEF Behind, WriteReceipt, AfterBuild
  <2>2. PICK i \in 1 .. Len(Campaigns) : i = stage[l]
    BY <1>1
  <2>3. Backed(Campaigns[i])'
    BY <1>3, <2>2, ReceiptBacks DEF CampaignSet, Campaign
  <2>4. \A j \in 1 .. i : Backed(Campaigns[j])'
    <3>1. \A j \in 1 .. i : j = i \/ j \in 1 .. (stage[l] - 1)
      BY <2>2, <1>1
    <3>2. QED
      BY <2>1, <2>3, <3>1
  <2>5. CASE i = Len(Campaigns)
    <3>1. stage'[l] = i /\ step'[l] = "summarize"
      BY <1>1, <1>3, <2>2, <2>5 DEF IInv, TypeOK, WriteReceipt, Enter, FirstStep
    <3>2. AllBacked'
      BY <2>4, <2>5 DEF AllBacked, CampaignSet
    <3>3. \A j \in 1 .. (i - 1) : Backed(Campaigns[j])'
      BY <2>4
    <3>4. QED
      BY <3>1, <3>2, <3>3 DEF Behind
  <2>6. CASE i < Len(Campaigns)
    <3>1. stage'[l] = i + 1 /\ step'[l] \in {"rebuild", "environment"}
      BY <1>1, <1>3, <2>2, <2>6 DEF IInv, TypeOK, WriteReceipt, Enter, FirstStep
    <3>2. \A j \in 1 .. (stage'[l] - 1) : Backed(Campaigns[j])'
      BY <3>1, <2>4
    <3>3. QED
      BY <3>1, <3>2 DEF Behind
  <2>7. QED
    BY <1>1, <2>2, <2>5, <2>6
<1>4. CASE RunFails(l) \/ Summarize(l)
  <2>1. step'[l] \in {"failed", "passed"}
    BY <1>4 DEF IInv, TypeOK, RunFails, Summarize, Goto
  <2>2. QED
    BY <2>1 DEF Behind, AfterBuild
<1>5. ASSUME ~BuildAll(l), ~WriteReceipt(l), ~RunFails(l), ~Summarize(l)
      PROVE  Behind(l)'
  <2>1. /\ stage'[l] = stage[l] /\ step[l] \in AfterBuild
        /\ step'[l] # "summarize" /\ (step'[l] = "receipt" => FillManifest(l))
    BY <1>5 DEF IInv, TypeOK, RunStep, Rebuild, RecordEnvironment, ReuseSeed, MissSeed, Execute,
                ValidateStaged, ValidateDirect, Publish, OpenManifest, FillManifest, Goto,
                NextSeed, AfterBuild
  <2>2. \A j \in 1 .. (stage[l] - 1) : Backed(Campaigns[j])'
    BY <2>1, BehindKept DEF Behind
  <2>3. ASSUME FillManifest(l) PROVE (manifest[Campaign(l)] = Digest(Campaign(l)))'
    <3>1. PICK c \in CampaignSet : c = Campaign(l)
      BY CampaignKnown DEF IInv
    <3>2. Campaign(l)' = Campaign(l)
      BY <2>1 DEF Campaign
    <3>3. manifest'[c] = Digest(c) /\ UNCHANGED <<environment, result>>
      BY <2>3, <3>1 DEF FillManifest, IInv, TypeOK
    <3>4. QED
      BY <3>1, <3>2, <3>3 DEF Digest
  <2>4. QED
    BY <2>1, <2>2, <2>3 DEF Behind
<1>6. QED
  BY <1>2, <1>3, <1>4, <1>5

LEMMA RunnerCInv ==
  ASSUME IInv, CInv, NEW l \in Runs, RunnerStep(l)
  PROVE  CInv'
<1>1. RunStep(l) /\ UNCHANGED <<launcher, status>>
  BY DEF RunnerStep, lvars
<1>2. Active(l) /\ \A k \in Runs \ {l} : step'[k] = step[k]
  BY <1>1, RunShape DEF IInv
<1>3. \A k \in Runs \ {l} : ~Active(k) /\ launcher[k] # "waiting"
  BY <1>2 DEF IInv, OneSuiteAtATime, HoldsLock
<1>4. ~Completed'
  BY <1>1, <1>2 DEF CInv, Settled, Completed
<1>5. \A k \in Runs \ {l} : Behind(k)' /\ Unreported(k)'
  <2> SUFFICES ASSUME NEW k \in Runs \ {l} PROVE Behind(k)' /\ Unreported(k)'
    OBVIOUS
  <2>1. step'[k] \in {"none", "passed", "failed"} /\ launcher'[k] # "waiting"
    BY <1>1, <1>2, <1>3 DEF Active
  <2>2. QED
    BY <2>1 DEF Behind, Unreported, AfterBuild
<1>6. Behind(l)'
  BY <1>1, RunnerBehind DEF CInv
<1>7. Unreported(l)'
  <2>1. CASE Summarize(l)
    <3>1. AllBacked /\ OneHead
      BY <2>1 DEF CInv, Behind, Summarize, OneHead
    <3>2. UNCHANGED <<environment, result, manifest, receipt>>
      BY <2>1 DEF Summarize, dirvars
    <3>3. QED
      BY <3>1, <3>2, FilesSame DEF Unreported
  <2>2. CASE ~Summarize(l)
    <3>1. step'[l] # "passed"
      <4> USE DEF IInv, TypeOK, Goto, NextSeed, Enter, FirstStep
      <4>1. CASE BuildAll(l) \/ Rebuild(l) \/ RecordEnvironment(l) \/ ReuseSeed(l) \/ MissSeed(l)
        BY <4>1 DEF BuildAll, Rebuild, RecordEnvironment, ReuseSeed, MissSeed
      <4>2. CASE Execute(l) \/ ValidateStaged(l) \/ ValidateDirect(l) \/ Publish(l)
        BY <4>2 DEF Execute, ValidateStaged, ValidateDirect, Publish
      <4>3. CASE OpenManifest(l) \/ FillManifest(l) \/ WriteReceipt(l) \/ RunFails(l)
        BY <4>3 DEF OpenManifest, FillManifest, WriteReceipt, RunFails
      <4>4. QED
        BY <1>1, <2>2, <4>1, <4>2, <4>3 DEF RunStep
    <3>2. QED
      BY <3>1 DEF Unreported
  <2>3. QED
    BY <2>1, <2>2
<1>8. QED
  BY <1>4, <1>5, <1>6, <1>7 DEF CInv, Settled

\* A launcher reports the run it waited for, and only then says completed.
LEMMA LauncherCInv ==
  ASSUME IInv, CInv, NEW l \in Runs, LaunchByHand(l) \/ LauncherStep(l) \/ KillLauncher(l)
  PROVE  CInv'
<1> USE DEF rvars, dirvars, Move
<1>1. CASE LaunchByHand(l) \/ TakeLock(l) \/ RefuseLock(l) \/ KillLauncher(l)
  <2>1. UNCHANGED <<environment, result, manifest, receipt, stage, step, status>>
    BY <1>1 DEF LaunchByHand, TakeLock, RefuseLock, KillLauncher
  <2>2. \A k \in Runs : launcher'[k] = "waiting" => launcher[k] = "waiting"
    BY <1>1 DEF IInv, TypeOK, LaunchByHand, TakeLock, RefuseLock, KillLauncher
  <2>3. Completed' => Completed
    BY <2>1 DEF Completed
  <2>4. QED
    BY <2>1, <2>2, <2>3, OutsideCInv
<1>2. CASE Begin(l)
  <2>1. UNCHANGED <<environment, result, manifest, receipt, stage>> /\ ~Completed'
    BY <1>2 DEF Begin, StartRun, Completed
  <2>2. \A k \in Runs : step'[k] = step[k] \/ step'[k] = "build"
    BY <1>2 DEF IInv, TypeOK, Begin, StartRun
  <2>3. \A k \in Runs :
          step'[k] = "passed" /\ launcher'[k] = "waiting" => launcher[k] = "waiting"
    BY <1>2 DEF IInv, TypeOK, Begin, StartRun
  <2>4. QED
    BY <2>1, <2>2, <2>3, OutsideCInv
<1>3. CASE End(l)
  <2>1. UNCHANGED <<environment, result, manifest, receipt, stage, step>>
    BY <1>3 DEF End
  <2>2. \A k \in Runs : launcher'[k] = "waiting" => launcher[k] = "waiting"
    BY <1>3 DEF IInv, TypeOK, End
  <2>3. \A k \in Runs : ~Active(k)'
    BY <1>3, <2>1 DEF IInv, OneSuiteAtATime, HoldsLock, Active, End
  <2>4. Completed' => AllBacked /\ OneHead
    BY <1>3 DEF CInv, Unreported, Completed, End, FinalState
  <2>5. QED
    BY <2>1, <2>2, <2>3, <2>4, OutsideCInv
<1>4. QED
  BY <1>1, <1>2, <1>3 DEF LauncherStep

\* A controller writes no file of a campaign.
LEMMA ControllerCInv ==
  ASSUME IInv, CInv, NEW d \in Controllers, ControllerStep(d)
  PROVE  CInv'
<1> USE DEF rvars, dirvars, lvars, Move
<1>1. UNCHANGED <<environment, result, manifest, receipt, stage, step, status>>
  BY DEF ControllerStep, Merge, CheckIdentity, Gate, ReadStatus, Launch, ControllerFails
<1>2. \A k \in Runs : launcher'[k] = "waiting" => launcher[k] = "waiting"
  BY DEF IInv, TypeOK, ControllerStep, Merge, CheckIdentity, Gate, ReadStatus, Launch,
         ControllerFails
<1>3. Completed' => Completed
  BY <1>1 DEF Completed
<1>4. QED
  BY <1>1, <1>2, <1>3, OutsideCInv

\* What a crash can lose was written by a run that was under way: nothing of a
\* completed suite.
LEMMA CrashCInv ==
  ASSUME IInv, CInv, HostCrash
  PROVE  CInv'
<1>1. ASSUME NEW k \in Runs PROVE Behind(k)' /\ Unreported(k)'
  <2>1. step'[k] \in {"none", "passed", "failed"} /\ launcher'[k] # "waiting"
    BY DEF HostCrash, Active, Alive
  <2>2. QED
    BY <2>1 DEF Behind, Unreported, AfterBuild
<1>2. ASSUME Completed PROVE AllBacked' /\ OneHead' /\ \A k \in Runs : ~Active(k)'
  <2>1. AllBacked /\ OneHead /\ \A k \in Runs : ~Active(k)
    BY <1>2 DEF CInv, Settled
  <2>2. \A c \in CampaignSet, s \in SeedSet : ~Unsettled(result[c][s])
    BY <2>1 DEF IInv, TypeOK, Unsettled, Accepted, Outputs
  <2>3. PICK lost \in SUBSET {f \in CampaignSet \X SeedSet : Unsettled(result[f[1]][f[2]])} :
          result' = [c \in CampaignSet |-> [s \in SeedSet |->
                       IF <<c, s>> \in lost THEN Empty ELSE result[c][s]]]
    BY DEF HostCrash
  <2>4. \A c \in CampaignSet, s \in SeedSet : <<c, s>> \notin lost
    BY <2>2
  <2>5. \A c \in CampaignSet : result'[c] = [s \in SeedSet |-> result[c][s]]
    BY <2>3, <2>4
  <2>6. \A c \in CampaignSet : result'[c] = result[c]
    BY <2>5 DEF IInv, TypeOK
  <2>7. UNCHANGED <<environment, manifest, receipt>>
    BY DEF HostCrash
  <2>8. AllBacked' /\ OneHead'
    BY <2>1, <2>6, <2>7 DEF AllBacked, OneHead, Backed, Digest
  <2>9. \A k \in Runs : ~Active(k)'
    BY DEF HostCrash, Active
  <2>10. QED
    BY <2>8, <2>9
<1>3. Completed' => Completed
  BY DEF HostCrash, Completed
<1>4. QED
  BY <1>1, <1>2, <1>3 DEF CInv, Settled

LEMMA NextCInv == IInv /\ CInv /\ [Next]_vars => CInv'
<1> SUFFICES ASSUME IInv, CInv, [Next]_vars PROVE CInv'
  OBVIOUS
<1>1. CASE UNCHANGED vars
  <2>1. /\ UNCHANGED <<environment, result, manifest, receipt, stage, step, status>>
        /\ UNCHANGED launcher
    BY <1>1 DEF vars, rvars, dirvars, lvars
  <2>2. Completed' => Completed
    BY <2>1 DEF Completed
  <2>3. QED
    BY <2>1, <2>2, OutsideCInv
<1>2. CASE Next
  BY <1>2, LauncherCInv, RunnerCInv, ControllerCInv, CrashCInv DEF Next
<1>3. QED
  BY <1>1, <1>2

\* What a run has finished stays as it left it until the launcher has reported it.
THEOREM CInvariance == Spec => []CInv
<1>1. QED
  BY InitCInv, NextCInv, Invariance, PTL DEF Spec

\* A status.json that says completed is backed by the files of every campaign, also
\* after a crash of the host or a later launch that failed at its lock.
THEOREM CompletedBacked == Spec => []CompletedIsBacked
<1>1. CInv => CompletedIsBacked
  BY DEF CInv, Settled, Completed, CompletedIsBacked, AllBacked, Backed
<1>2. QED
  BY <1>1, CInvariance, PTL

\* summarize_formal_suite.py passes no suite whose campaigns recorded two commits,
\* and no run changes what they recorded before the launcher reports it.
THEOREM OneHeadAnalysed == Spec => []OneHeadPerAnalysis
<1>1. CInv => OneHeadPerAnalysis
  BY DEF CInv, Settled, Completed, OneHeadPerAnalysis, OneHead
<1>2. QED
  BY <1>1, CInvariance, PTL
=============================================================================
