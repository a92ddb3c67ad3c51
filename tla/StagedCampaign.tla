--------------------------- MODULE StagedCampaign ---------------------------
(***************************************************************************)
(* The archived four-stage campaign, hpc/wflop_cpp/spark2/campaign.sh:     *)
(* build, admission, performance and formal, each a command of its own.    *)
(* A gate asks the receipts of the earlier ones whether they were earned   *)
(* by the present binary under the present freeze, and stamps its results  *)
(* with both.  One command runs at a time (the campaign contract has       *)
(* processes_at_once 1); it may fail or be killed between any two steps,   *)
(* and the worktree and the freeze may change at any time.                 *)
(*                                                                         *)
(* A version stands for all the inputs the freeze pins down, and for the   *)
(* binary built from them; a result file is the binary that computed it    *)
(* and its stamp.                                                          *)
(***************************************************************************)
EXTENDS Integers

CONSTANTS
  Versions,          \* of the frozen inputs
  AdmissionFiles,    \* how many result files the gates have
  PerformanceFiles,
  FormalFiles,
  Changes,           \* bound on the changes of the worktree and of the freeze
  NoFile,            \* the file does not exist
  Empty              \* the file exists and has no content

Gates == {"admission", "performance", "formal"}
Identities == [binary : Versions, freeze : Versions]
Results == [by : Versions, stamp : Identities]
Receipts == [status : BOOLEAN, stamp : Identities, host : BOOLEAN]

ASSUME StagesAssumption ==
  /\ {AdmissionFiles, PerformanceFiles, FormalFiles} \subseteq Nat \ {0}
  /\ Changes \in Nat
  /\ NoFile # Empty
  /\ {NoFile, Empty} \cap (Versions \cup Identities \cup Results \cup Receipts) = {}

VARIABLES
  worktree,  \* the version of the files in the worktree
  freeze,    \* the version the freeze names
  changes,   \* changes of the two so far
  binary,    \* the version in the build directory
  built,     \* spark2_build_receipt.txt: binary_sha256 and source_freeze_sha256
  command,   \* the running command: "none", "build" or a gate
  at,        \* where it is
  item,      \* the result file it is at
  identity,  \* binary_sha and freeze_sha, read when the gate started
  raw,       \* the .raw file of that item
  partial,   \* its .partial file
  file,      \* file[g][i]: result file i of gate g
  receipt,   \* receipt[g]
  earned     \* history variable: earned[g], the identities that computed all of gate g

inputs == <<worktree, freeze, changes>>
process == <<command, at, item, identity>>
scratch == <<raw, partial>>
vars == <<inputs, binary, built, process, scratch, file, receipt, earned>>

Items(g) ==
  1 .. CASE g = "admission" -> AdmissionFiles
         [] g = "performance" -> PerformanceFiles
         [] g = "formal" -> FormalFiles

Init ==
  /\ worktree \in Versions /\ freeze = worktree /\ changes = 0
  /\ binary = NoFile /\ built = NoFile
  /\ command = "none" /\ at = "idle" /\ item = 1 /\ identity = NoFile
  /\ raw = NoFile /\ partial = NoFile
  /\ file = [g \in Gates |-> [i \in Items(g) |-> NoFile]]
  /\ receipt = [g \in Gates |-> NoFile]
  /\ earned = [g \in Gates |-> {}]

-----------------------------------------------------------------------------
\* A commit is checked out, or another freeze is copied beside it.
Change ==
  /\ changes < Changes
  /\ changes' = changes + 1
  /\ worktree' \in Versions /\ freeze' \in Versions
  /\ UNCHANGED <<binary, built, process, scratch, file, receipt, earned>>

Start(c) ==
  /\ command = "none"
  /\ command' = c /\ at' = "inputs"
  /\ UNCHANGED <<inputs, binary, built, item, identity, scratch, file, receipt, earned>>

Goto(step) == at' = step /\ UNCHANGED <<command, item, identity>>

\* The variables of the shell go with it.  A .raw or .partial file it leaves is written
\* anew before any command reads it, and counts as gone.
Exit ==
  /\ command' = "none" /\ at' = "idle" /\ item' = 1 /\ identity' = NoFile
  /\ raw' = NoFile /\ partial' = NoFile

\* require_frozen_inputs: every digest is that of the freeze.
RequireFrozenInputs ==
  /\ at = "inputs"
  /\ worktree = freeze
  /\ Goto(IF command = "build" THEN "compile" ELSE "build_identity")
  /\ UNCHANGED <<inputs, binary, built, scratch, file, receipt, earned>>

\* cmake --build, whatever the worktree holds now.
Compile ==
  /\ at = "compile"
  /\ binary' = worktree
  /\ Goto("tested")
  /\ UNCHANGED <<inputs, built, scratch, file, receipt, earned>>

\* Both builds have passed ctest: the redirection empties the build receipt.
OpenBuildReceipt ==
  /\ at = "tested"
  /\ built' = Empty
  /\ Goto("build_receipt")
  /\ UNCHANGED <<inputs, binary, scratch, file, receipt, earned>>

FillBuildReceipt ==
  /\ at = "build_receipt"
  /\ built' = [binary |-> binary, freeze |-> freeze]
  /\ Exit
  /\ UNCHANGED <<inputs, binary, file, receipt, earned>>

-----------------------------------------------------------------------------
\* require_build_identity
RequireBuildIdentity ==
  /\ at = "build_identity"
  /\ binary # NoFile /\ built # NoFile
  /\ built = [binary |-> binary, freeze |-> freeze]
  /\ Goto("digests")
  /\ UNCHANGED <<inputs, binary, built, scratch, file, receipt, earned>>

\* Faulty variant of Passed: the receipt is not compared with the present binary.
PassedByAny(g, id) ==
  /\ receipt[g] \notin {NoFile, Empty}
  /\ receipt[g].status /\ receipt[g].host
  /\ receipt[g].stamp.freeze = id.freeze

\* The jq condition on the receipt of an earlier gate.
Passed(g, id) == receipt[g] = [status |-> TRUE, stamp |-> id, host |-> TRUE]

Before(g) ==
  CASE g = "admission" -> {}
    [] g = "performance" -> {"admission"}
    [] g = "formal" -> {"admission", "performance"}

\* binary_sha and freeze_sha are read, and the earlier receipts compared with them.
EnterGate ==
  /\ at = "digests"
  /\ identity' = [binary |-> binary, freeze |-> freeze]
  /\ \A g \in Before(command) : Passed(g, identity')
  /\ at' = "item" /\ item' = 1
  /\ UNCHANGED <<inputs, binary, built, command, scratch, file, receipt, earned>>

NextItem == at' = "item" /\ item' = item + 1 /\ UNCHANGED <<command, identity>>

\* A file with content and the present stamp is reused.
Accepted(result) == result # NoFile /\ result.stamp = identity

Reuse ==
  /\ at = "item" /\ item \in Items(command)
  /\ Accepted(file[command][item])
  /\ NextItem
  /\ UNCHANGED <<inputs, binary, built, scratch, file, receipt, earned>>

\* The program replaces the raw file (WflopCommand.tla), never
\* appending to one an interrupted command has left.
Execute ==
  /\ at = "item" /\ item \in Items(command)
  /\ ~Accepted(file[command][item])
  /\ raw' = binary
  /\ Goto("augment")
  /\ UNCHANGED <<inputs, binary, built, partial, file, receipt, earned>>

\* augment_result, and the raw file goes.
Augment ==
  /\ at = "augment"
  /\ partial' = [by |-> raw, stamp |-> identity]
  /\ raw' = NoFile
  /\ Goto("publish")
  /\ UNCHANGED <<inputs, binary, built, file, receipt, earned>>

\* The records have been validated, except in the performance gate; mv.
Publish ==
  /\ at = "publish"
  /\ file' = [file EXCEPT ![command][item] = partial]
  /\ partial' = NoFile
  /\ NextItem
  /\ UNCHANGED <<inputs, binary, built, raw, receipt, earned>>

\* The redirection empties the receipt of an earlier run.
OpenReceipt ==
  /\ at = "item" /\ item \notin Items(command)
  /\ receipt' = [receipt EXCEPT ![command] = Empty]
  /\ Goto("receipt")
  /\ UNCHANGED <<inputs, binary, built, scratch, file, earned>>

\* The status is computed from the files, whose stamps it does not look at.  In the
\* performance gate it depends on the timings as well, and the host is added later.
FillReceipt ==
  /\ at = "receipt"
  /\ \E good \in IF command = "performance" THEN BOOLEAN ELSE {TRUE} :
       receipt' = [receipt EXCEPT ![command] =
         [status |-> good /\ \A i \in Items(command) : file[command][i] # NoFile,
          stamp |-> identity,
          host |-> command # "performance"]]
  /\ earned' = [earned EXCEPT ![command] = @ \cup
       {id \in {identity} :
          \A i \in Items(command) :
            file[command][i] = [by |-> id.binary, stamp |-> id]}]
  /\ Goto(IF command = "performance" THEN "add_host" ELSE "status")
  /\ UNCHANGED <<inputs, binary, built, scratch, file>>

\* The amended receipt of the performance gate is renamed over the first one.
AddHost ==
  /\ at = "add_host"
  /\ receipt' = [receipt EXCEPT !["performance"] =
                   [status |-> @.status, stamp |-> @.stamp, host |-> TRUE]]
  /\ Goto("status")
  /\ UNCHANGED <<inputs, binary, built, scratch, file, earned>>

\* jq -e '.status == true' and the list of digests, which no gate reads.
CheckStatus ==
  /\ at = "status"
  /\ receipt[command].status
  /\ Exit
  /\ UNCHANGED <<inputs, binary, built, file, receipt, earned>>

\* A command of the script fails, a condition does not hold, or the script is killed.
Stop ==
  /\ command # "none"
  /\ Exit
  /\ UNCHANGED <<inputs, binary, built, file, receipt, earned>>

Next ==
  \/ Change
  \/ \E c \in Gates \cup {"build"} : Start(c)
  \/ RequireFrozenInputs \/ Compile \/ OpenBuildReceipt \/ FillBuildReceipt
  \/ RequireBuildIdentity \/ EnterGate
  \/ Reuse \/ Execute \/ Augment \/ Publish
  \/ OpenReceipt \/ FillReceipt \/ AddHost \/ CheckStatus
  \/ Stop

Spec == Init /\ [][Next]_vars
-----------------------------------------------------------------------------
(* Properties.                                                             *)

\* The identities that earned all of gates.
EarnedAll(gates) == {id \in Identities : \A g \in gates : id \in earned[g]}

\* What the contract asks of the formal results (must_pass_before_performance,
\* must_pass_before_formal, same_release_binary): each one was computed by the binary its
\* stamp names, after that binary had computed every result of both earlier gates under
\* the same freeze; and a formal receipt that says so was made of such results only.
\* Rebuilds, reverts, new freezes and kills between any two steps make no difference.
FormalFollowsGates ==
  /\ \A i \in Items("formal") :
       LET result == file["formal"][i] IN
       result # NoFile =>
         /\ result.by = result.stamp.binary
         /\ result.stamp \in EarnedAll(Before("formal"))
  /\ \A id \in Identities :
       receipt["formal"] = [status |-> TRUE, stamp |-> id, host |-> TRUE] =>
         id \in EarnedAll(Gates)
=============================================================================
