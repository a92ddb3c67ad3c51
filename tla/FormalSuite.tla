---------------------------- MODULE FormalSuite -----------------------------
(***************************************************************************)
(* The formal suite on its host: scripts/launch_formal_suite.sh, the runs  *)
(* it starts (CampaignRunner.tla), the controller                          *)
(* scripts/deploy_and_launch_formal_suite.sh that merges a commit into the *)
(* same worktree, builds it in the same build directory and decides        *)
(* whether to launch, and the failures the files have to survive: a        *)
(* command that fails, a launcher killed alone, the host going down.       *)
(*                                                                         *)
(* A launcher and its run have the same name, the launcher's PID.  PIDs    *)
(* are not reused.                                                         *)
(***************************************************************************)
EXTENDS CampaignRunner

CONSTANTS
  Controllers,  \* executions of the deploy script
  NoStatus      \* there is no status.json

VARIABLES
  launcher,    \* launcher[l]: where launcher l is
  launchHead,  \* launchHead[l]: HEAD when it started, 0 before
  status,      \* control/status.json
  controller,  \* controller[d]: where controller d is
  wanted       \* wanted[d]: the commit it deploys, 0 before it started

lvars == <<launcher, launchHead>>
cvars == <<controller, wanted>>
vars == <<head, binary, rvars, dirvars, lvars, status, cvars>>

Init ==
  /\ RunInit
  /\ launcher = [l \in Runs |-> "none"] /\ launchHead = [l \in Runs |-> 0]
  /\ status = NoStatus
  /\ controller = [d \in Controllers |-> "none"]
  /\ wanted = [d \in Controllers |-> 0]

-----------------------------------------------------------------------------
\* kill -0 of the launcher's PID.
Alive(l) == launcher[l] \in {"lock", "starting", "waiting"}

\* flock is on the open file behind descriptor 9: it lasts while the launcher
\* or the run that inherited the descriptor has it open.
HoldsLock(l) == launcher[l] \in {"starting", "waiting"} \/ Active(l)

Move(l, next) == launcher' = [launcher EXCEPT ![l] = next]

\* launch_*_formal_suite.sh is started by hand.
LaunchByHand(l) ==
  /\ launcher[l] = "none" /\ head # 0
  /\ Move(l, "lock")
  /\ UNCHANGED <<head, binary, rvars, dirvars, launchHead, status, cvars>>

\* Mutant of TakeLock: the run closes descriptor 9.
TakeLockOfLauncher(l) ==
  /\ launcher[l] = "lock"
  /\ \A k \in Runs : launcher[k] \notin {"starting", "waiting"}
  /\ Move(l, "starting")
  /\ launchHead' = [launchHead EXCEPT ![l] = head]
  /\ UNCHANGED <<head, binary, rvars, dirvars, status, cvars>>

TakeLock(l) ==
  /\ launcher[l] = "lock"
  /\ \A k \in Runs : ~HoldsLock(k)
  /\ Move(l, "starting")
  /\ launchHead' = [launchHead EXCEPT ![l] = head]
  /\ UNCHANGED <<head, binary, rvars, dirvars, status, cvars>>

\* Exit 3.
RefuseLock(l) ==
  /\ launcher[l] = "lock"
  /\ \E k \in Runs : HoldsLock(k)
  /\ Move(l, "exited")
  /\ UNCHANGED <<head, binary, rvars, dirvars, launchHead, status, cvars>>

\* write_status "running", then the runner.
Begin(l) ==
  /\ launcher[l] = "starting"
  /\ status' = [state |-> "running", pid |-> l, head |-> launchHead[l]]
  /\ StartRun(l)
  /\ Move(l, "waiting")
  /\ UNCHANGED <<head, binary, dirvars, launchHead, cvars>>

\* Mutant of FinalState: the exit code is not looked at.
FinalStateOfAnyExit(l) == "completed"

FinalState(l) == IF step[l] = "passed" THEN "completed" ELSE "failed"

\* write_status with the runner's exit code.
End(l) ==
  /\ launcher[l] = "waiting" /\ ~Active(l)
  /\ status' = [state |-> FinalState(l), pid |-> l, head |-> launchHead[l]]
  /\ Move(l, "exited")
  /\ UNCHANGED <<head, binary, rvars, dirvars, launchHead, cvars>>

\* The launcher alone is killed: its run goes on.
KillLauncher(l) ==
  /\ Alive(l)
  /\ Move(l, "killed")
  /\ UNCHANGED <<head, binary, rvars, dirvars, launchHead, status, cvars>>

LauncherStep(l) == TakeLock(l) \/ RefuseLock(l) \/ Begin(l) \/ End(l)

-----------------------------------------------------------------------------
Stop(d, next) == controller' = [controller EXCEPT ![d] = next]

\* The bundle is cloned, or fetched and merged fast-forward only: a commit
\* HEAD already contains changes nothing and is refused.
Merge(d, h) ==
  /\ controller[d] = "none"
  /\ wanted' = [wanted EXCEPT ![d] = h]
  /\ head' = IF h > head THEN h ELSE head
  /\ Stop(d, IF h >= head THEN "merged" ELSE "stopped")
  /\ UNCHANGED <<binary, rvars, dirvars, lvars, status>>

\* "Formal execution Git identity changed."
CheckIdentity(d) ==
  /\ controller[d] = "merged"
  /\ Stop(d, IF head = wanted[d] THEN "identified" ELSE "stopped")
  /\ UNCHANGED <<head, binary, rvars, dirvars, lvars, status, wanted>>

\* The runner with WFLOP_VALIDATE_ONLY=1: it builds and tests in the suite's
\* build directory and launches nothing.
Gate(d) ==
  /\ controller[d] = "identified"
  /\ binary' = head
  /\ Stop(d, "gated")
  /\ UNCHANGED <<head, rvars, dirvars, lvars, status, wanted>>

CompletedAt(h) == status # NoStatus /\ status.state = "completed" /\ status.head = h

SuiteRunning == status # NoStatus /\ status.state = "running" /\ Alive(status.pid)

ReadStatus(d) ==
  /\ controller[d] = "gated"
  /\ Stop(d, IF CompletedAt(wanted[d]) \/ SuiteRunning THEN "stopped" ELSE "launching")
  /\ UNCHANGED <<head, binary, rvars, dirvars, lvars, status, wanted>>

\* nohup bash "${launcher}" &
Launch(d, l) ==
  /\ controller[d] = "launching" /\ launcher[l] = "none"
  /\ Move(l, "lock")
  /\ Stop(d, "stopped")
  /\ UNCHANGED <<head, binary, rvars, dirvars, launchHead, status, wanted>>

\* A command of the script, or the connection, fails.
ControllerFails(d) ==
  /\ controller[d] \in {"merged", "identified", "gated", "launching"}
  /\ Stop(d, "stopped")
  /\ UNCHANGED <<head, binary, rvars, dirvars, lvars, status, wanted>>

ControllerStep(d) ==
  \/ \E h \in 1 .. Heads : Merge(d, h)
  \/ CheckIdentity(d) \/ Gate(d) \/ ReadStatus(d) \/ ControllerFails(d)
  \/ \E l \in Runs : Launch(d, l)

-----------------------------------------------------------------------------
\* The rename may have reached the disk before the content did: after a crash
\* [[ -s file ]] finds the file empty.
Unsettled(file) == Accepted(file) /\ Active(file.by)

\* Every process ends; any of the files the live run wrote may be lost.
HostCrash ==
  /\ \E l \in Runs : Active(l) \/ Alive(l)
  /\ launcher' = [l \in Runs |-> IF Alive(l) THEN "killed" ELSE launcher[l]]
  /\ step' = [l \in Runs |-> IF Active(l) THEN "failed" ELSE step[l]]
  /\ controller' = [d \in Controllers |->
       IF controller[d] = "none" THEN "none" ELSE "stopped"]
  /\ \E lost \in SUBSET {f \in CampaignSet \X SeedSet : Unsettled(result[f[1]][f[2]])} :
       result' = [c \in CampaignSet |-> [s \in SeedSet |->
                    IF <<c, s>> \in lost THEN Empty ELSE result[c][s]]]
  /\ UNCHANGED <<head, binary, stage, seed, environment, partial, manifest, receipt,
                 launchHead, status, wanted>>

RunnerStep(l) == RunStep(l) /\ UNCHANGED <<lvars, status, cvars>>

Next ==
  \/ \E l \in Runs :
       LaunchByHand(l) \/ LauncherStep(l) \/ KillLauncher(l) \/ RunnerStep(l)
  \/ \E d \in Controllers : ControllerStep(d)
  \/ HostCrash

Spec == Init /\ [][Next]_vars

\* The host schedules every process that is alive.  That a command fails counts
\* as a step of its script; nothing obliges the operator to start or kill.
FairSpec ==
  /\ Spec
  /\ \A l \in Runs : WF_vars(RunnerStep(l)) /\ WF_vars(LauncherStep(l))

-----------------------------------------------------------------------------
RunSteps == {"none", "build", "rebuild", "environment", "check", "execute", "validate",
             "publish", "manifest", "receipt", "summarize", "passed", "failed"}
Digests == [results : [SeedSet -> Outputs \cup {NoFile, Empty}],
            environment : Environments \cup {NoFile}]
ASSUME DigestAssumption == NoFile \notin Digests

States == [state : {"running", "completed", "failed"}, pid : Runs, head : 1 .. Heads]

\* Types.
TypeOK ==
  /\ head \in 0 .. Heads /\ binary \in 0 .. Heads
  /\ step \in [Runs -> RunSteps]
  /\ stage \in [Runs -> 1 .. Len(Campaigns)]
  /\ seed \in [Runs -> 1 .. (Seeds + 1)]
  /\ environment \in [CampaignSet -> Environments \cup {NoFile}]
  /\ partial \in [CampaignSet -> [SeedSet -> Outputs \cup {NoFile}]]
  /\ result \in [CampaignSet -> [SeedSet -> Outputs \cup {NoFile, Empty}]]
  /\ manifest \in [CampaignSet -> Digests \cup {NoFile, Empty}]
  /\ receipt \in [CampaignSet -> Digests \cup {NoFile}]
  /\ launcher \in [Runs -> {"none", "lock", "starting", "waiting", "exited", "killed"}]
  /\ launchHead \in [Runs -> 0 .. Heads]
  /\ status \in States \cup {NoStatus}
  /\ controller \in [Controllers -> {"none", "merged", "identified", "gated",
                                     "launching", "stopped"}]
  /\ wanted \in [Controllers -> 0 .. Heads]

\* At most one suite is under way on the host, whoever launched it: the lock of
\* launch_formal_suite.sh outlives a launcher that is killed while its run goes
\* on, so neither the controller nor the operator can start a second run.
OneSuiteAtATime == \A l, k \in Runs : HoldsLock(l) /\ HoldsLock(k) => l = k

\* A result that passes validation is never written again, by its own run or by
\* a later one (README.md, "without rerunning accepted work"); only a crash of
\* the host can take it away.
AcceptedWorkKept ==
  [][\A c \in CampaignSet, s \in SeedSet :
       Accepted(result[c][s]) => result'[c][s] \in {result[c][s], Empty}]_vars

\* A status that says completed is backed by the files as they are now: every
\* receipt hashes the manifest that is there, the manifest describes the results
\* that are there, and every result passes.
CompletedIsBacked ==
  (status # NoStatus /\ status.state = "completed") =>
    \A c \in CampaignSet :
      /\ receipt[c] = manifest[c] /\ manifest[c] = Digest(c)
      /\ \A s \in SeedSet : Accepted(result[c][s])

\* The campaigns of a completed suite name one and the same commit: a deployment
\* that merges a new one between two campaigns makes the analysis refuse.
OneHeadPerAnalysis ==
  (status # NoStatus /\ status.state = "completed") =>
    \A c, k \in CampaignSet : environment[c].head = environment[k].head

\* The lock is always released in the end, also when nobody waits for the run.
LockFreed == \A l \in Runs : HoldsLock(l) ~> ~HoldsLock(l)

\* The result tree is resumable work: see ResumableWork.tla.
Work == INSTANCE ResumableWork WITH
  Families <- CampaignSet,
  Jobs <- SeedSet,
  accepted <- [c \in CampaignSet |-> {s \in SeedSet : Accepted(result[c][s])}],
  sealed <- {c \in CampaignSet : receipt[c] # NoFile}

ImplementsResumableWork == Work!RWSpec

\* summarize_formal_suite.py:472 compares the HEAD environment.json records with
\* the HEAD of the analysis and reports a difference as "result HEAD differs from
\* analysis HEAD": the recorded HEAD is taken for the one the results come from.
ResultsFromRecordedHead ==
  (status # NoStatus /\ status.state = "completed") =>
    \A c \in CampaignSet, s \in SeedSet : result[c][s].bin = environment[c].head
=============================================================================
