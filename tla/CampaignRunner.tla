--------------------------- MODULE CampaignRunner ---------------------------
(***************************************************************************)
(* The runner of a formal suite: scripts/run_all_*_formal_campaigns.sh and *)
(* the campaign scripts it calls one after the other, writing into the     *)
(* result directory of each campaign.  Every step of the script that       *)
(* another process, or a later run, can observe is an action; the worktree *)
(* and the build directory they read are shared with the deployments of    *)
(* FormalSuite.tla, which composes this module.                            *)
(*                                                                         *)
(* A result file is abstracted to the binary and the run that wrote it.    *)
(***************************************************************************)
EXTENDS Integers, Sequences, FiniteSets

CONSTANTS
  Runs,               \* the runs of the suite, each named by its launcher
  Campaigns,          \* the campaigns in the order run_all_* calls them
  Seeds,              \* how many seeds a contract lists
  Heads,              \* how many commits there are, in fast-forward order
  Staged,             \* campaigns that write a .partial file and rename it
  HashesEnvironment,  \* campaigns whose manifest covers environment.json
  RebuildsItself,     \* campaigns that call cmake and ctest again
  NoFile,             \* the file does not exist
  Empty               \* the file exists and has no content

ASSUME SuiteAssumption ==
  /\ Seeds \in Nat \ {0} /\ Heads \in Nat \ {0}
  /\ Len(Campaigns) \in Nat \ {0}
  /\ \A i, j \in 1 .. Len(Campaigns) : Campaigns[i] = Campaigns[j] => i = j

VARIABLES
  head,         \* HEAD of the worktree on the formal host, 0 before the clone
  binary,       \* the commit the programs in the build directory are built from
  step,         \* step[l]: where run l is
  stage,        \* stage[l]: the campaign it works on, an index of Campaigns
  seed,         \* seed[l]: the seed it works on
  environment,  \* environment[c]: environment.json of campaign c
  partial,      \* partial[c][s]: the .partial file of a seed
  result,       \* result[c][s]: the result file of a seed
  manifest,     \* manifest[c]: manifest.sha256
  receipt       \* receipt[c]: campaign_receipt.json, the manifest it hashes

dirvars == <<environment, partial, result, manifest, receipt>>
rvars == <<step, stage, seed>>

CampaignSet == {Campaigns[i] : i \in 1 .. Len(Campaigns)}
SeedSet == 1 .. Seeds
Outputs == [bin : 1 .. Heads, by : Runs]
ASSUME FilesAssumption == NoFile # Empty /\ NoFile \notin Outputs /\ Empty \notin Outputs

Environments == [head : 1 .. Heads, bin : 1 .. Heads]

\* The worktree has not been cloned yet, or holds the first commit.
RunInit ==
  /\ head \in {0, 1} /\ binary = 0
  /\ step = [l \in Runs |-> "none"]
  /\ stage = [l \in Runs |-> 1] /\ seed = [l \in Runs |-> 1]
  /\ environment = [c \in CampaignSet |-> NoFile]
  /\ partial = [c \in CampaignSet |-> [s \in SeedSet |-> NoFile]]
  /\ result = [c \in CampaignSet |-> [s \in SeedSet |-> NoFile]]
  /\ manifest = [c \in CampaignSet |-> NoFile]
  /\ receipt = [c \in CampaignSet |-> NoFile]

-----------------------------------------------------------------------------
\* The process is between its start and its exit.
Active(l) == step[l] \notin {"none", "passed", "failed"}

Campaign(l) == Campaigns[stage[l]]

\* [[ -s file ]] && validate: the programs write their output under a
\* temporary name and rename it, so a file that has content has all of it.
Accepted(file) == file \notin {NoFile, Empty}

AllPresent(c) == \A s \in SeedSet : result[c][s] # NoFile

\* What the lines of manifest.sha256 pin down.
Digest(c) ==
  [results |-> result[c],
   environment |-> IF c \in HashesEnvironment THEN environment[c] ELSE NoFile]

\* bash "${runner}" reaches its first command.
StartRun(l) == step' = [step EXCEPT ![l] = "build"] /\ UNCHANGED <<stage, seed>>

\* The first command of campaign i, or the summary after the last one.
FirstStep(i) ==
  IF i > Len(Campaigns) THEN "summarize"
  ELSE IF Campaigns[i] \in RebuildsItself THEN "rebuild" ELSE "environment"

Enter(l, i) ==
  /\ stage' = [stage EXCEPT ![l] = IF i > Len(Campaigns) THEN @ ELSE i]
  /\ seed' = [seed EXCEPT ![l] = 1]
  /\ step' = [step EXCEPT ![l] = FirstStep(i)]

Goto(l, next) == step' = [step EXCEPT ![l] = next] /\ UNCHANGED <<stage, seed>>

\* The end of the loop body.
NextSeed(l) ==
  /\ seed' = [seed EXCEPT ![l] = @ + 1]
  /\ step' = [step EXCEPT ![l] = "check"]
  /\ UNCHANGED stage

\* cmake, cmake --build, ctest: whatever HEAD is now, into the one build
\* directory of the suite.
BuildAll(l) ==
  /\ step[l] = "build"
  /\ binary' = head
  /\ Enter(l, 1)
  /\ UNCHANGED <<head, dirvars>>

Rebuild(l) ==
  /\ step[l] = "rebuild"
  /\ binary' = head
  /\ Goto(l, "environment")
  /\ UNCHANGED <<head, dirvars>>

\* environment.json.tmp is renamed over the environment of an earlier run.
RecordEnvironment(l) ==
  /\ step[l] = "environment"
  /\ environment' = [environment EXCEPT ![Campaign(l)] = [head |-> head, bin |-> binary]]
  /\ Goto(l, "check")
  /\ UNCHANGED <<head, binary, partial, result, manifest, receipt>>

\* Mutant of ReuseSeed: a file that exists is reused.
ReuseIfPresent(l) ==
  /\ step[l] = "check" /\ seed[l] <= Seeds
  /\ result[Campaign(l)][seed[l]] # NoFile
  /\ NextSeed(l)
  /\ UNCHANGED <<head, binary, dirvars>>

\* A result that an earlier run left and that passes is kept.
ReuseSeed(l) ==
  /\ step[l] = "check" /\ seed[l] <= Seeds
  /\ Accepted(result[Campaign(l)][seed[l]])
  /\ NextSeed(l)
  /\ UNCHANGED <<head, binary, dirvars>>

\* Mutant of MissSeed: an accepted result is run again.
RunAnyway(l) ==
  /\ step[l] = "check" /\ seed[l] <= Seeds
  /\ Goto(l, "execute")
  /\ UNCHANGED <<head, binary, dirvars>>

MissSeed(l) ==
  /\ step[l] = "check" /\ seed[l] <= Seeds
  /\ ~Accepted(result[Campaign(l)][seed[l]])
  /\ partial' = IF Campaign(l) \in Staged
                THEN [partial EXCEPT ![Campaign(l)][seed[l]] = NoFile]
                ELSE partial
  /\ Goto(l, "execute")
  /\ UNCHANGED <<head, binary, environment, result, manifest, receipt>>

\* One optimizer process per seed: it runs the program that is in the build
\* directory at that moment.
Execute(l) ==
  /\ step[l] = "execute"
  /\ LET output == [bin |-> binary, by |-> l]
     IN  IF Campaign(l) \in Staged
         THEN /\ partial' = [partial EXCEPT ![Campaign(l)][seed[l]] = output]
              /\ UNCHANGED result
         ELSE /\ result' = [result EXCEPT ![Campaign(l)][seed[l]] = output]
              /\ UNCHANGED partial
  /\ Goto(l, "validate")
  /\ UNCHANGED <<head, binary, environment, manifest, receipt>>

\* The output is validated again before it counts; if that fails the script
\* stops (RunFails).
ValidateStaged(l) ==
  /\ step[l] = "validate" /\ Campaign(l) \in Staged
  /\ Accepted(partial[Campaign(l)][seed[l]])
  /\ Goto(l, "publish")
  /\ UNCHANGED <<head, binary, dirvars>>

ValidateDirect(l) ==
  /\ step[l] = "validate" /\ Campaign(l) \notin Staged
  /\ Accepted(result[Campaign(l)][seed[l]])
  /\ NextSeed(l)
  /\ UNCHANGED <<head, binary, dirvars>>

\* Mutant of Publish: a failed validation is retried, and so is a passed one.
PublishAndRepeat(l) ==
  /\ step[l] = "publish"
  /\ partial[Campaign(l)][seed[l]] # NoFile
  /\ Goto(l, "execute")
  /\ UNCHANGED <<head, binary, dirvars>>

\* mv "${temporary}" "${output}"
Publish(l) ==
  /\ step[l] = "publish"
  /\ partial[Campaign(l)][seed[l]] # NoFile
  /\ result' = [result EXCEPT ![Campaign(l)][seed[l]] = partial[Campaign(l)][seed[l]]]
  /\ partial' = [partial EXCEPT ![Campaign(l)][seed[l]] = NoFile]
  /\ NextSeed(l)
  /\ UNCHANGED <<head, binary, environment, manifest, receipt>>

\* The redirection truncates the manifest before sha256sum fills it.  The
\* campaigns that are not staged have counted their files first.
OpenManifest(l) ==
  /\ step[l] = "check" /\ seed[l] > Seeds
  /\ Campaign(l) \notin Staged => AllPresent(Campaign(l))
  /\ manifest' = [manifest EXCEPT ![Campaign(l)] = Empty]
  /\ Goto(l, "manifest")
  /\ UNCHANGED <<head, binary, environment, partial, result, receipt>>

FillManifest(l) ==
  /\ step[l] = "manifest"
  /\ manifest' = [manifest EXCEPT ![Campaign(l)] = Digest(Campaign(l))]
  /\ Goto(l, "receipt")
  /\ UNCHANGED <<head, binary, environment, partial, result, receipt>>

\* The staged campaign counts its files now; the receipt is renamed into place.
WriteReceipt(l) ==
  /\ step[l] = "receipt"
  /\ Campaign(l) \in Staged => AllPresent(Campaign(l))
  /\ receipt' = [receipt EXCEPT ![Campaign(l)] = manifest[Campaign(l)]]
  /\ Enter(l, stage[l] + 1)
  /\ UNCHANGED <<head, binary, environment, partial, result, manifest>>

\* Mutant of Summarize: the recorded commits are not compared.
SummarizeAnyHead(l) ==
  /\ step[l] = "summarize"
  /\ \A c \in CampaignSet :
       /\ environment[c] # NoFile /\ receipt[c] # NoFile
       /\ \A s \in SeedSet : Accepted(result[c][s])
  /\ Goto(l, "passed")
  /\ UNCHANGED <<head, binary, dirvars>>

\* summarize_formal_suite.py: every environment must name the present HEAD,
\* every campaign must have a receipt and all its results.
Summarize(l) ==
  /\ step[l] = "summarize"
  /\ \A c \in CampaignSet :
       /\ environment[c] # NoFile /\ environment[c].head = head
       /\ receipt[c] # NoFile
       /\ \A s \in SeedSet : Accepted(result[c][s])
  /\ Goto(l, "passed")
  /\ UNCHANGED <<head, binary, dirvars>>

\* A command of the script fails, or the script is killed: set -e ends it.
RunFails(l) ==
  /\ Active(l)
  /\ Goto(l, "failed")
  /\ UNCHANGED <<head, binary, dirvars>>

RunStep(l) ==
  \/ BuildAll(l) \/ Rebuild(l) \/ RecordEnvironment(l)
  \/ ReuseSeed(l) \/ MissSeed(l) \/ Execute(l)
  \/ ValidateStaged(l) \/ ValidateDirect(l) \/ Publish(l)
  \/ OpenManifest(l) \/ FillManifest(l) \/ WriteReceipt(l) \/ Summarize(l)
  \/ RunFails(l)
=============================================================================
