--------------------------- MODULE Campaign_proofs ---------------------------
(***************************************************************************)
(* The files of a campaign, from the records of one command to the gates   *)
(* over them: WflopCommand for any list of requests and of cases and any   *)
(* number of invocations, StagedCampaign for any number of versions, of    *)
(* result files and of changes.                                            *)
(*                                                                         *)
(* The invariant of WflopCommand follows the records from the work of the  *)
(* request to the temporary file: what is done and what is left make up    *)
(* the whole work, and the file holds the first of what is done.           *)
(*                                                                         *)
(* The invariant of StagedCampaign says what a gate has already done when  *)
(* it is somewhere in its loop: what it skipped was accepted under its own *)
(* identity, what it wrote bears it, and the identity had earned the gates *)
(* before; earned only grows.                                              *)
(***************************************************************************)
EXTENDS WflopCommand, StagedCampaign, SequenceTheorems, TLAPS

-----------------------------------------------------------------------------
(* The output of one command.                                              *)

\* Anything a record can be.
Pairs == UNION {{Work(asked)[i] : i \in 1 .. Len(Work(asked))} : asked \in Requests}
Records == {<<pair[1], pair[2], k>> : pair \in Pairs, k \in Nat}

\* The record of a pair in the running invocation.
RecordOf(pair) == <<pair[1], pair[2], invoked>>

CommandTypes ==
  /\ stage \in {"idle", "run", "write"}
  /\ invoked \in Nat
  /\ todo \in Seq(Pairs) /\ records \in Seq(Records)
  /\ invoked > 0 => request \in Requests
  /\ stage # "idle" => invoked > 0
  /\ stage = "write" => temporary \in Seq(Records)

\* What is done and what is left make up the work of the request.
WorkSplit ==
  stage # "idle" =>
    /\ Len(records) + Len(todo) = Len(Work(request))
    /\ \A i \in 1 .. Len(records) : records[i] = RecordOf(Work(request)[i])
    /\ \A i \in 1 .. Len(todo) : todo[i] = Work(request)[Len(records) + i]

\* The temporary file holds the first records.
FileGrows ==
  stage = "write" =>
    /\ todo = <<>>
    /\ Len(temporary) <= Len(records)
    /\ \A i \in 1 .. Len(temporary) : temporary[i] = records[i]

\* contents are the records of a whole request, all of one invocation.
WholeOf(contents, asked, k) ==
  /\ contents \in Seq(Records)
  /\ Len(contents) = Len(Work(asked))
  /\ \A i \in 1 .. Len(contents) :
       contents[i] = <<Work(asked)[i][1], Work(asked)[i][2], k>>

OutputKept ==
  /\ output # Absent => \E asked \in Requests, k \in Nat : WholeOf(output, asked, k)
  /\ stage = "idle" /\ invoked > 0 /\ status = 0 =>
       output = records /\ Len(records) = Len(Work(request))

CommandInv == CommandTypes /\ WorkSplit /\ FileGrows /\ OutputKept

-----------------------------------------------------------------------------
\* The work of a request is a sequence of pairs, and never empty.
LEMMA WorkIsASequence ==
  ASSUME NEW asked \in Requests
  PROVE  /\ Work(asked) \in Seq(Pairs)
         /\ Len(Work(asked)) \in Nat \ {0}
         /\ \A i \in 1 .. Len(Work(asked)) :
              Work(asked)[i] = <<Work(asked)[i][1], Work(asked)[i][2]>>
<1> DEFINE count == IF asked.all THEN Len(Cases) ELSE 1
           n == Len(asked.algorithms) * count
           S == {Work(asked)[i] : i \in 1 .. n}
<1>1. count \in Nat \ {0} /\ Len(asked.algorithms) \in Nat \ {0}
  BY CommandAssumption
<1>2. n \in Nat \ {0}
  <2>1. \A a, c \in Nat \ {0} : a * c \in Nat \ {0}
    OBVIOUS
  <2> HIDE DEF count
  <2> QED BY <1>1, <2>1
<1>3. /\ DOMAIN Work(asked) = 1 .. n /\ Work(asked) \in [1 .. n -> S]
      /\ \A i \in 1 .. n : Work(asked)[i] = <<Work(asked)[i][1], Work(asked)[i][2]>>
  <2>1. CASE asked.all
    BY <2>1 DEF Work
  <2>2. CASE ~asked.all
    <3>1. Len(<<Cases[1]>>) = 1
      OBVIOUS
    <3> QED BY <2>2, <3>1 DEF Work
  <2> QED BY <2>1, <2>2
<1> HIDE DEF n, S
<1>4. Work(asked) \in Seq(S)
  BY <1>2, <1>3, SeqDef
<1>5. Len(Work(asked)) = n
  BY <1>2, <1>3, <1>4, LenProperties
<1>6. S \subseteq Pairs
  BY <1>5 DEF Pairs, S
<1> QED BY <1>2, <1>3, <1>4, <1>5, <1>6, SeqMonotonic

\* A record of a pair is a record.
LEMMA RecordOfAPair ==
  ASSUME NEW pair \in Pairs, invoked \in Nat
  PROVE  RecordOf(pair) \in Records
  BY DEF RecordOf, Records

LEMMA CommandInitInv == CommandInit => CommandInv
  BY EmptySeq DEF CommandInit, CommandInv, CommandTypes, WorkSplit, FileGrows, OutputKept

\* A new invocation has everything to do.
LEMMA InvokeInv ==
  ASSUME CommandInv, NEW asked \in Requests, Invoke(asked)
  PROVE  CommandInv'
<1> USE DEF CommandInv, Invoke
<1>1. Work(asked) \in Seq(Pairs) /\ Len(Work(asked)) \in Nat \ {0}
  BY WorkIsASequence
<1>2. CommandTypes'
  BY <1>1, EmptySeq DEF CommandTypes
<1>3. WorkSplit'
  BY <1>1, EmptySeq DEF WorkSplit
<1>4. FileGrows' /\ OutputKept'
  BY DEF FileGrows, OutputKept, CommandTypes
<1> QED BY <1>2, <1>3, <1>4

\* One more record.
LEMMA RunOneInv ==
  ASSUME CommandInv, RunOne
  PROVE  CommandInv'
<1> USE DEF CommandInv, RunOne
<1>1. /\ todo \in Seq(Pairs) /\ todo # <<>> /\ records \in Seq(Records)
      /\ Len(todo) \in Nat \ {0} /\ Len(records) \in Nat
      /\ invoked \in Nat /\ request \in Requests
  BY EmptySeq, LenProperties DEF CommandTypes
<1>2. /\ Head(todo) = todo[1] /\ Head(todo) \in Pairs
      /\ todo' \in Seq(Pairs) /\ Len(todo') = Len(todo) - 1
      /\ \A i \in 1 .. Len(todo') : todo'[i] = todo[i + 1]
  BY <1>1, HeadTailProperties
<1>3. RecordOf(Head(todo)) \in Records
  BY <1>1, <1>2, RecordOfAPair
<1>4. /\ records' \in Seq(Records) /\ Len(records') = Len(records) + 1
      /\ \A i \in 1 .. Len(records) : records'[i] = records[i]
      /\ records'[Len(records) + 1] = RecordOf(Head(todo))
  BY <1>1, <1>3, AppendProperties DEF RecordOf
<1>5. CommandTypes'
  BY <1>2, <1>4 DEF CommandTypes
<1>6. WorkSplit'
  <2>1. Len(records') + Len(todo') = Len(Work(request))
    BY <1>1, <1>2, <1>4 DEF WorkSplit
  <2>2. \A i \in 1 .. Len(records') : records'[i] = RecordOf(Work(request)[i])
    <3>1. Head(todo) = Work(request)[Len(records) + 1]
      BY <1>1, <1>2 DEF WorkSplit
    <3>2. \A i \in 1 .. Len(records) : records'[i] = RecordOf(Work(request)[i])
      BY <1>1, <1>4 DEF WorkSplit
    <3>3. records'[Len(records) + 1] = RecordOf(Work(request)[Len(records) + 1])
      BY <1>4, <3>1
    <3>4. \A i \in 1 .. Len(records') : i \in 1 .. Len(records) \/ i = Len(records) + 1
      BY <1>1, <1>4
    <3> HIDE DEF CommandInv, RunOne
    <3> QED BY <3>2, <3>3, <3>4
  <2>3. \A i \in 1 .. Len(todo') : todo'[i] = Work(request)[Len(records') + i]
    BY <1>1, <1>2, <1>4 DEF WorkSplit
  <2> QED BY <2>1, <2>2, <2>3 DEF WorkSplit, RecordOf
<1>7. FileGrows' /\ OutputKept'
  BY DEF FileGrows, OutputKept
<1> QED BY <1>5, <1>6, <1>7

\* The temporary file is emptied and grows.
LEMMA WriteInv ==
  ASSUME CommandInv, OpenTemporary \/ WriteSome
  PROVE  CommandInv'
<1> USE DEF CommandInv, OpenTemporary, WriteSome
<1>1. records \in Seq(Records) /\ Len(records) \in Nat
  BY LenProperties DEF CommandTypes
<1>2. WorkSplit' /\ OutputKept'
  BY DEF WorkSplit, OutputKept, RecordOf
<1>3. CASE OpenTemporary
  BY <1>1, <1>2, <1>3, EmptySeq DEF CommandTypes, FileGrows
<1>4. CASE WriteSome
  <2>1. temporary \in Seq(Records) /\ Len(temporary) \in Nat
    BY <1>4, LenProperties DEF CommandTypes
  <2>2. records[Len(temporary) + 1] \in Records
    BY <1>1, <1>4, <2>1, ElementOfSeq
  <2>3. /\ temporary' \in Seq(Records) /\ Len(temporary') = Len(temporary) + 1
        /\ \A i \in 1 .. Len(temporary) : temporary'[i] = temporary[i]
        /\ temporary'[Len(temporary) + 1] = records[Len(temporary) + 1]
    BY <1>4, <2>1, <2>2, AppendProperties
  <2>4. CommandTypes'
    BY <1>4, <2>3 DEF CommandTypes
  <2>5. FileGrows'
    BY <1>1, <1>4, <2>1, <2>3 DEF FileGrows
  <2> QED BY <1>2, <2>4, <2>5
<1> QED BY <1>3, <1>4

\* The whole temporary file becomes the output.
LEMMA RenameInv ==
  ASSUME CommandInv, Rename
  PROVE  CommandInv'
<1> USE DEF CommandInv, Rename, Ends
<1>1. /\ records \in Seq(Records) /\ temporary \in Seq(Records) /\ request \in Requests
      /\ Len(records) \in Nat /\ invoked \in Nat
  BY LenProperties DEF CommandTypes
<1>2. temporary = records
  BY <1>1, SeqEqual DEF FileGrows, Written
<1>3. Len(records) = Len(Work(request))
  BY <1>1, EmptySeq DEF FileGrows, WorkSplit
<1>4. WholeOf(records, request, invoked)
  BY <1>1, <1>3 DEF WholeOf, WorkSplit, RecordOf
<1>5. CommandTypes' /\ WorkSplit' /\ FileGrows'
  BY DEF CommandTypes, WorkSplit, FileGrows
<1>6. OutputKept'
  BY <1>1, <1>2, <1>3, <1>4 DEF OutputKept, WholeOf
<1> QED BY <1>5, <1>6

\* An invocation fails or is killed.
LEMMA StopInv ==
  ASSUME CommandInv, RunFails \/ WriteFails \/ Kill
  PROVE  CommandInv'
  BY DEF CommandInv, RunFails, WriteFails, Kill, Fail, Ends, CommandTypes, WorkSplit,
         FileGrows, OutputKept

LEMMA CommandNextInv == CommandInv /\ [CommandNext]_commandVars => CommandInv'
<1> SUFFICES ASSUME CommandInv, [CommandNext]_commandVars PROVE CommandInv'
  OBVIOUS
<1>1. CASE UNCHANGED commandVars
  BY <1>1 DEF commandVars, CommandInv, CommandTypes, WorkSplit, FileGrows, OutputKept,
              RecordOf, WholeOf
<1>2. CASE CommandNext
  BY <1>1, <1>2, InvokeInv, RunOneInv, WriteInv, RenameInv, StopInv DEF CommandNext, Step
<1> QED BY <1>1, <1>2

LEMMA CommandInvImplies == CommandInv => OutputWhole
<1> SUFFICES ASSUME CommandInv PROVE OutputWhole
  OBVIOUS
<1>1. ASSUME output # Absent
      PROVE  /\ output # <<>>
             /\ \A i \in 1 .. Len(output) : output[i][3] = output[1][3]
             /\ \E asked \in Requests :
                  /\ Len(output) = Len(Work(asked))
                  /\ \A i \in 1 .. Len(output) :
                       <<output[i][1], output[i][2]>> = Work(asked)[i]
  <2>1. PICK asked \in Requests, k \in Nat : WholeOf(output, asked, k)
    BY <1>1 DEF CommandInv, OutputKept
  <2>2. Len(output) = Len(Work(asked)) /\ Len(output) \in Nat \ {0} /\ output # <<>>
    BY <2>1, WorkIsASequence, EmptySeq DEF WholeOf
  <2>3. \A i \in 1 .. Len(output) :
          output[i] = <<Work(asked)[i][1], Work(asked)[i][2], k>>
    BY <2>1 DEF WholeOf
  <2>4. \A i \in 1 .. Len(output) : <<output[i][1], output[i][2]>> = Work(asked)[i]
    BY <2>2, <2>3, WorkIsASequence
  <2> QED BY <2>2, <2>3, <2>4
<1> QED BY <1>1 DEF CommandInv, OutputKept, OutputWhole

-----------------------------------------------------------------------------
\* The names of the registry, as far as their search is concerned.
LEMMA EveryIdHasASearch == \A id \in Ids : id \notin Retired /\ Implementation(id) # "none"
<1>1. Ids = {"fode", "aga", "sugga", "ise", "agpso", "cgpso", "lshade", "clshade", "cede",
             "msshade", "bde", "hgpso", "aiga", "ciga", "lsde", "wfadde", "alshade", "ppga"}
  BY DEF Ids, Registered
<1>2. \A id \in Ids : id \notin Retired
  BY <1>1 DEF Retired
<1>3. \A id \in Ids : Implementation(id) # "none"
  BY <1>1 DEF Implementation
<1> QED BY <1>2, <1>3

\* The registry and the choice of the search agree.
LEMMA SupportedRuns ==
  \A id, problem : Supports(id, problem) <=> ~Refused(id, problem)
  BY EveryIdHasASearch DEF Supports, Refused, Problems

\* Whoever fails or is killed wherever, the output is missing or holds one whole request.
THEOREM OutputAlwaysWhole == CommandSpec => []OutputWhole
<1>1. CommandInit => CommandInv
  BY CommandInitInv
<1>2. CommandInv /\ [CommandNext]_commandVars => CommandInv'
  BY CommandNextInv
<1>3. CommandInv => OutputWhole
  BY CommandInvImplies
<1> QED BY <1>1, <1>2, <1>3, PTL DEF CommandSpec

\* Every pair recorded is one that the registry admits.
PairsAdmitted == \A i \in 1 .. Len(records) : Supports(records[i][1], request.problem)

LEMMA AdmittedInv == CommandInv /\ PairsAdmitted /\ [CommandNext]_commandVars => PairsAdmitted'
<1> SUFFICES ASSUME CommandInv, PairsAdmitted, [CommandNext]_commandVars PROVE PairsAdmitted'
  OBVIOUS
<1>1. CASE UNCHANGED <<records, request>>
  BY <1>1 DEF PairsAdmitted
<1>2. ASSUME NEW asked \in Requests, Invoke(asked) PROVE PairsAdmitted'
  BY <1>2, EmptySeq DEF Invoke, PairsAdmitted
<1>3. CASE RunOne
  <2>1. records \in Seq(Records) /\ Len(records) \in Nat
    BY LenProperties DEF CommandInv, CommandTypes
  <2>2. todo \in Seq(Pairs) /\ todo # <<>> /\ invoked \in Nat
    BY <1>3 DEF RunOne, CommandInv, CommandTypes
  <2>3. RecordOf(Head(todo)) \in Records
    BY <2>2, HeadTailProperties, RecordOfAPair
  <2>4. /\ Len(records') = Len(records) + 1
        /\ \A i \in 1 .. Len(records) : records'[i] = records[i]
        /\ records'[Len(records) + 1] = RecordOf(Head(todo))
    BY <1>3, <2>1, <2>3, AppendProperties DEF RunOne, RecordOf
  <2>5. Supports(RecordOf(Head(todo))[1], request.problem)
    BY <1>3, SupportedRuns DEF RunOne, RecordOf
  <2>6. \A i \in 1 .. Len(records') : i \in 1 .. Len(records) \/ i = Len(records) + 1
    BY <2>1, <2>4
  <2>7. request' = request
    BY <1>3 DEF RunOne
  <2> QED BY <2>4, <2>5, <2>6, <2>7 DEF PairsAdmitted
<1> QED BY <1>1, <1>2, <1>3 DEF CommandNext, Step, RunFails, WriteFails, Fail, Ends, OpenTemporary,
           WriteSome, Rename, Kill, commandVars

\* The registry and the dispatch agree, whatever is asked for and however it ends.
THEOREM PairsStayRegistered == CommandSpec => []PairsAsRegistered
<1>1. CommandInit => CommandInv /\ PairsAdmitted
  BY CommandInitInv, EmptySeq DEF CommandInit, PairsAdmitted
<1>2. CommandInv /\ PairsAdmitted /\ [CommandNext]_commandVars => (CommandInv /\ PairsAdmitted)'
  BY CommandNextInv, AdmittedInv
<1>3. PairsAdmitted => PairsAsRegistered
  BY SupportedRuns DEF PairsAdmitted, PairsAsRegistered
<1> QED BY <1>1, <1>2, <1>3, PTL DEF CommandSpec

-----------------------------------------------------------------------------
(* The results of the gates.                                               *)

\* Where a gate is once it has entered.
Working == {"item", "augment", "publish", "receipt", "add_host", "status"}

\* A result of the binary that its stamp names.
Own(id) == [by |-> id.binary, stamp |-> id]

Types ==
  /\ worktree \in Versions /\ freeze \in Versions
  /\ binary \in Versions \cup {NoFile}
  /\ built \in Identities \cup {NoFile, Empty}
  /\ command \in Gates \cup {"none", "build"}
  /\ item \in Nat \ {0}
  /\ file = [g \in Gates |-> [i \in Items(g) |-> file[g][i]]]
  /\ receipt \in [Gates -> Receipts \cup {NoFile, Empty}]
  /\ earned \in [Gates -> SUBSET Identities]

\* The command that is at a step, and what it has read.
Located ==
  /\ at = "inputs" => command # "none"
  /\ at \in Working \cup {"build_identity", "digests"} => command \in Gates
  /\ at \in {"tested", "build_receipt", "digests"} => binary \in Versions
  /\ at = "add_host" => command = "performance" /\ receipt["performance"] \in Receipts
  /\ at \in Working => identity \in Identities /\ identity.binary = binary

\* The files at hand are those of the running gate.
AtHand ==
  /\ at = "augment" => raw = binary
  /\ at = "publish" => partial = Own(identity)
  /\ at \in Working =>
       \A j \in Items(command) : j < item => file[command][j] = Own(identity)
  /\ at \in {"receipt", "add_host", "status"} => item \notin Items(command)
  /\ at \in {"augment", "publish"} => item \in Items(command)

Admitted == at \in Working => identity \in EarnedAll(Before(command))

\* The result files of every gate are of identities that earned the gates before.
ResultsSound ==
  \A g \in Gates : \A i \in Items(g) :
    file[g][i] # NoFile =>
      \E id \in EarnedAll(Before(g)) : file[g][i] = Own(id)

\* A receipt that says so was earned, as were the gates before.
ReceiptsSound ==
  \A g \in Gates : \A id \in Identities, h \in BOOLEAN :
    receipt[g] = [status |-> TRUE, stamp |-> id, host |-> h] =>
      id \in earned[g] /\ id \in EarnedAll(Before(g))

IInv == Types /\ Located /\ AtHand /\ Admitted /\ ResultsSound /\ ReceiptsSound

-----------------------------------------------------------------------------
\* The values of the state are told apart from the two that stand for files without.
LEMMA Apart ==
  /\ NoFile # Empty
  /\ NoFile \notin Versions /\ Empty \notin Versions
  /\ \A id \in Identities : id # NoFile /\ id # Empty
  /\ \A r \in Results : r # NoFile
  /\ \A r \in Receipts : r # NoFile /\ r # Empty
  BY StagesAssumption

\* A result file is never the absent one.
LEMMA OwnIsAResult == \A id \in Identities : Own(id) \in Results /\ Own(id) # NoFile
  BY Apart DEF Own, Results, Identities

\* What was earned stays earned.
LEMMA EarnedGrows ==
  ASSUME NEW gates, \A g \in gates : earned[g] \subseteq earned'[g]
  PROVE  EarnedAll(gates) \subseteq EarnedAll(gates)'
  BY DEF EarnedAll

\* The gates before a gate are gates.
LEMMA BeforeAreGates == \A g \in Gates : Before(g) \subseteq Gates
  BY DEF Before, Gates

\* The result files of a gate are numbered from one.
LEMMA ItemsNumbered == \A g \in Gates : \E n \in Nat \ {0} : Items(g) = 1 .. n
<1> SUFFICES ASSUME NEW g \in Gates PROVE \E n \in Nat \ {0} : Items(g) = 1 .. n
  OBVIOUS
<1>1. CASE g = "admission"
  BY <1>1, StagesAssumption DEF Items
<1>2. CASE g = "performance"
  BY <1>2, StagesAssumption DEF Items
<1>3. CASE g = "formal"
  BY <1>3, StagesAssumption DEF Items
<1> QED BY <1>1, <1>2, <1>3 DEF Gates

LEMMA InitInv == Init => IInv
<1> SUFFICES ASSUME Init PROVE IInv
  OBVIOUS
<1> USE DEF Init
<1>1. Types
  BY Apart DEF Types, Gates
<1>2. Located /\ AtHand /\ Admitted
  BY DEF Located, AtHand, Admitted, Working
<1>3. ResultsSound
  BY DEF ResultsSound
<1>4. ReceiptsSound
  <2> SUFFICES ASSUME NEW g \in Gates, NEW id \in Identities, NEW h \in BOOLEAN
               PROVE receipt[g] # [status |-> TRUE, stamp |-> id, host |-> h]
    BY DEF ReceiptsSound
  <2>1. [status |-> TRUE, stamp |-> id, host |-> h] \in Receipts
    BY DEF Receipts
  <2> QED BY <2>1, Apart
<1> QED BY <1>1, <1>2, <1>3, <1>4 DEF IInv

-----------------------------------------------------------------------------
\* A step that touches no result and no receipt keeps both sound.
LEMMA NothingWritten ==
  ASSUME ResultsSound, ReceiptsSound, UNCHANGED <<file, receipt, earned>>
  PROVE  ResultsSound' /\ ReceiptsSound'
  BY DEF ResultsSound, ReceiptsSound, EarnedAll

\* A command that is not at work in a gate has nothing to answer for.
LEMMA NotWorking ==
  ASSUME at' \notin Working
  PROVE  AtHand' /\ Admitted'
  BY DEF AtHand, Admitted, Working

\* Changes of the inputs, the start of a command, its checks and its end.
LEMMA OutsideInv ==
  ASSUME IInv,
         \/ Change
         \/ \E c \in Gates \cup {"build"} : Start(c)
         \/ RequireFrozenInputs \/ RequireBuildIdentity
         \/ CheckStatus \/ Stop
  PROVE  IInv'
<1> USE DEF IInv, inputs, process, scratch
<1>0. ResultsSound' /\ ReceiptsSound'
  BY NothingWritten DEF Change, Start, RequireFrozenInputs, RequireBuildIdentity, CheckStatus, Stop
<1>1. CASE Change
  <2>1. Types'
    BY <1>1 DEF Change, Types
  <2>2. Located' /\ AtHand' /\ Admitted'
    BY <1>1 DEF Change, Located, AtHand, Admitted, EarnedAll
  <2> QED BY <1>0, <2>1, <2>2
<1>2. ASSUME NEW c \in Gates \cup {"build"}, Start(c) PROVE IInv'
  <2>1. Types'
    BY <1>2 DEF Start, Types
  <2>2. Located'
    BY <1>2 DEF Start, Located, Working, Gates
  <2>3. AtHand' /\ Admitted'
    BY <1>2, NotWorking DEF Start, Working
  <2> QED BY <1>0, <2>1, <2>2, <2>3
<1>3. CASE RequireFrozenInputs
  <2>1. Types'
    BY <1>3 DEF RequireFrozenInputs, Goto, Types
  <2>2. Located'
    BY <1>3 DEF RequireFrozenInputs, Goto, Located, Working, Types
  <2>3. AtHand' /\ Admitted'
    BY <1>3, NotWorking DEF RequireFrozenInputs, Goto, Working
  <2> QED BY <1>0, <2>1, <2>2, <2>3
<1>4. CASE RequireBuildIdentity
  <2>1. Types'
    BY <1>4 DEF RequireBuildIdentity, Goto, Types
  <2>2. binary \in Versions
    BY <1>4, Apart DEF RequireBuildIdentity, Types, Identities
  <2>3. Located'
    BY <1>4, <2>2 DEF RequireBuildIdentity, Goto, Located, Working
  <2>4. AtHand' /\ Admitted'
    BY <1>4, NotWorking DEF RequireBuildIdentity, Goto, Working
  <2> QED BY <1>0, <2>1, <2>3, <2>4
<1>5. CASE CheckStatus \/ Stop
  <2>1. Types'
    BY <1>5 DEF CheckStatus, Stop, Exit, Types
  <2>2. Located'
    BY <1>5 DEF CheckStatus, Stop, Exit, Located, Working
  <2>3. AtHand' /\ Admitted'
    BY <1>5, NotWorking DEF CheckStatus, Stop, Exit, Working
  <2> QED BY <1>0, <2>1, <2>2, <2>3
<1> QED BY <1>1, <1>2, <1>3, <1>4, <1>5

\* The build command.
LEMMA BuildInv ==
  ASSUME IInv, Compile \/ OpenBuildReceipt \/ FillBuildReceipt
  PROVE  IInv'
<1> USE DEF IInv, inputs, process, scratch
<1>0. ResultsSound' /\ ReceiptsSound'
  BY NothingWritten DEF Compile, OpenBuildReceipt, FillBuildReceipt
<1>1. Types'
  BY DEF Compile, OpenBuildReceipt, FillBuildReceipt, Goto, Exit, Types, Located, Identities
<1>2. Located'
  BY DEF Compile, OpenBuildReceipt, FillBuildReceipt, Goto, Exit, Types, Located, Working
<1>3. AtHand' /\ Admitted'
  BY NotWorking DEF Compile, OpenBuildReceipt, FillBuildReceipt, Goto, Exit, Working
<1> QED BY <1>0, <1>1, <1>2, <1>3

-----------------------------------------------------------------------------
\* A gate enters its loop with an identity that has earned the gates before.
LEMMA EnterInv ==
  ASSUME IInv, EnterGate
  PROVE  IInv'
<1> USE DEF IInv, EnterGate, inputs, process, scratch
<1>0. ResultsSound' /\ ReceiptsSound'
  BY NothingWritten
<1>1. command \in Gates /\ identity' \in Identities /\ identity'.binary = binary
  BY DEF Located, Types, Identities
<1>2. Types'
  BY DEF Types
<1>3. Located'
  BY <1>1 DEF Located, Working
<1>4. AtHand'
  <2>1. \A j \in Items(command) : ~(j < 1)
    BY <1>1, ItemsNumbered
  <2> QED BY <2>1 DEF AtHand, Working
<1>5. Admitted'
  <2>1. \A g \in Before(command) : identity' \in earned[g]
    BY <1>1, BeforeAreGates DEF ReceiptsSound, Passed
  <2> QED BY <1>1, <2>1 DEF Admitted, EarnedAll
<1> QED BY <1>0, <1>2, <1>3, <1>4, <1>5

\* The loop body up to the new file.
LEMMA ItemInv ==
  ASSUME IInv, Reuse \/ Execute \/ Augment
  PROVE  IInv'
<1> USE DEF IInv, inputs, process, scratch
<1>0. ResultsSound' /\ ReceiptsSound'
  BY NothingWritten DEF Reuse, Execute, Augment
<1>1. command \in Gates /\ identity \in Identities /\ identity.binary = binary
  BY DEF Reuse, Execute, Augment, Located, Working
<1>2. Types'
  BY DEF Reuse, Execute, Augment, Goto, NextItem, Types
<1>3. Located'
  BY <1>1 DEF Reuse, Execute, Augment, Goto, NextItem, Located, Working
<1>4. AtHand'
  <2>1. CASE Reuse
    <3>1. PICK id \in EarnedAll(Before(command)) : file[command][item] = Own(id)
      BY <1>1, <2>1 DEF Reuse, Accepted, ResultsSound
    <3>2. file[command][item] = Own(identity)
      BY <2>1, <3>1 DEF Reuse, Accepted, Own
    <3>3. \A j \in Items(command) : j < item + 1 => j < item \/ j = item
      BY <1>1, ItemsNumbered DEF Types
    <3> QED BY <2>1, <3>2, <3>3 DEF Reuse, NextItem, AtHand, Working
  <2>2. CASE Execute
    BY <2>2 DEF Execute, Goto, AtHand, Working
  <2>3. CASE Augment
    BY <1>1, <2>3 DEF Augment, Goto, AtHand, Working, Own
  <2> QED BY <2>1, <2>2, <2>3
<1>5. Admitted'
  BY DEF Reuse, Execute, Augment, Goto, NextItem, Admitted, Working, EarnedAll
<1> QED BY <1>0, <1>2, <1>3, <1>4, <1>5

\* The new file is renamed into place.
LEMMA PublishInv ==
  ASSUME IInv, Publish
  PROVE  IInv'
<1> USE DEF IInv, Publish, inputs, process, scratch
<1>1. /\ command \in Gates /\ item \in Items(command)
      /\ identity \in Identities /\ partial = Own(identity)
      /\ identity \in EarnedAll(Before(command))
  BY DEF Located, AtHand, Admitted, Working
<1>2. /\ file'[command][item] = Own(identity)
      /\ \A g \in Gates : \A i \in Items(g) :
           g # command \/ i # item => file'[g][i] = file[g][i]
  BY <1>1 DEF Types
<1>3. Types'
  <2>1. file' = [g \in Gates |-> [i \in Items(g) |-> file'[g][i]]]
    BY <1>1 DEF Types
  <2> QED BY <2>1 DEF NextItem, Types
<1>4. Located'
  BY DEF NextItem, Located, Working
<1>5. AtHand'
  <2>1. \A j \in Items(command) : j < item + 1 => j < item \/ j = item
    BY <1>1, ItemsNumbered DEF Types
  <2>2. \A j \in Items(command) : j < item => file[command][j] = Own(identity)
    BY DEF AtHand, Working
  <2>3. \A j \in Items(command) : j < item + 1 => file'[command][j] = Own(identity)
    BY <1>1, <1>2, <2>1, <2>2
  <2> QED BY <2>3 DEF NextItem, AtHand, Working
<1>6. Admitted'
  BY DEF NextItem, Admitted, Working, EarnedAll
<1>7. ResultsSound'
  BY <1>1, <1>2 DEF ResultsSound, EarnedAll
<1>8. ReceiptsSound'
  BY DEF ReceiptsSound, EarnedAll
<1> QED BY <1>3, <1>4, <1>5, <1>6, <1>7, <1>8

\* The receipt is emptied, filled from the files and, in one gate, amended.
LEMMA ReceiptInv ==
  ASSUME IInv, OpenReceipt \/ FillReceipt \/ AddHost
  PROVE  IInv'
<1> USE DEF IInv, inputs, process, scratch
<1>1. /\ command \in Gates /\ identity \in Identities
      /\ identity \in EarnedAll(Before(command))
  BY DEF OpenReceipt, FillReceipt, AddHost, Located, Admitted, Working
<1>2. \A g \in Gates : earned[g] \subseteq earned'[g]
  BY <1>1 DEF OpenReceipt, FillReceipt, AddHost, Types
<1>3. \A g \in Gates : EarnedAll(Before(g)) \subseteq EarnedAll(Before(g))'
  BY <1>2, BeforeAreGates DEF EarnedAll
<1>4. Types'
  <2>1. CASE OpenReceipt
    BY <1>1, <2>1 DEF OpenReceipt, Goto, Types
  <2>2. CASE FillReceipt
    BY <1>1, <2>2 DEF FillReceipt, Goto, Types, Receipts
  <2>3. CASE AddHost
    <3>1. receipt["performance"] \in Receipts /\ "performance" \in Gates
      BY <2>3 DEF AddHost, Located, Gates
    <3>2. receipt'["performance"] \in Receipts
      BY <2>3, <3>1 DEF AddHost, Types, Receipts
    <3>3. receipt' \in [Gates -> Receipts \cup {NoFile, Empty}]
      BY <2>3, <3>2 DEF AddHost, Types
    <3> QED BY <2>3, <3>3 DEF AddHost, Goto, Types
  <2> QED BY <2>1, <2>2, <2>3
<1>5. Located'
  <2>1. FillReceipt => receipt'[command] \in Receipts
    BY <1>1 DEF FillReceipt, Types, Receipts
  <2> QED BY <2>1 DEF OpenReceipt, FillReceipt, AddHost, Goto, Located, Working
<1>6. AtHand'
  BY DEF OpenReceipt, FillReceipt, AddHost, Goto, AtHand, Working
<1>7. Admitted'
  BY <1>1, <1>3 DEF OpenReceipt, FillReceipt, AddHost, Goto, Admitted, Working
<1>8. ResultsSound'
  BY <1>3 DEF OpenReceipt, FillReceipt, AddHost, ResultsSound
<1>9. ReceiptsSound'
  <2> SUFFICES ASSUME NEW g \in Gates, NEW id \in Identities, NEW h \in BOOLEAN,
                      receipt'[g] = [status |-> TRUE, stamp |-> id, host |-> h]
               PROVE  id \in earned'[g] /\ id \in EarnedAll(Before(g))'
    BY DEF ReceiptsSound
  <2>1. ASSUME \E k \in BOOLEAN : receipt[g] = [status |-> TRUE, stamp |-> id, host |-> k]
        PROVE  id \in earned'[g] /\ id \in EarnedAll(Before(g))'
    BY <1>2, <1>3, <2>1 DEF ReceiptsSound
  <2>2. CASE g # command
    <3>1. OpenReceipt => receipt'[g] = receipt[g]
      BY <2>2 DEF OpenReceipt, Types
    <3>2. FillReceipt => receipt'[g] = receipt[g]
      BY <2>2 DEF FillReceipt, Types
    <3>3. AddHost => receipt'[g] = receipt[g]
      BY <2>2 DEF AddHost, Types, Located
    <3> QED BY <2>1, <3>1, <3>2, <3>3
  <2>3. CASE g = command /\ OpenReceipt
    <3>1. receipt'[g] = Empty
      BY <2>3 DEF OpenReceipt, Types
    <3>2. [status |-> TRUE, stamp |-> id, host |-> h] \in Receipts
      BY DEF Receipts
    <3> QED BY <3>1, <3>2, Apart
  <2>4. CASE g = command /\ FillReceipt
    <3>1. \A j \in Items(command) : file[command][j] = Own(identity)
      BY <2>4, <1>1, ItemsNumbered DEF FillReceipt, AtHand, Working, Types
    <3>2. identity \in earned'[g]
      BY <2>4, <1>1, <3>1 DEF FillReceipt, Types, Own
    <3>3. id = identity
      BY <2>4 DEF FillReceipt, Types
    <3> QED BY <1>1, <1>3, <2>4, <3>2, <3>3
  <2>5. CASE g = command /\ AddHost
    <3>1. receipt[g] \in Receipts /\ g = "performance"
      BY <2>5 DEF AddHost, Located
    <3>2. receipt'[g] = [status |-> receipt[g].status, stamp |-> receipt[g].stamp,
                         host |-> TRUE]
      BY <2>5, <3>1 DEF AddHost, Types
    <3>3. PICK b \in BOOLEAN, s \in Identities, k \in BOOLEAN :
            receipt[g] = [status |-> b, stamp |-> s, host |-> k]
      BY <3>1 DEF Receipts
    <3>4. receipt'[g] = [status |-> b, stamp |-> s, host |-> TRUE]
      BY <3>2, <3>3
    <3>5. b = TRUE /\ s = id
      <4>1. receipt'[g].status = TRUE /\ receipt'[g].stamp = id
        OBVIOUS
      <4>2. receipt'[g].status = b /\ receipt'[g].stamp = s
        BY ONLY <3>4
      <4> QED BY <4>1, <4>2
    <3>6. \E x \in BOOLEAN : receipt[g] = [status |-> TRUE, stamp |-> id, host |-> x]
      BY <3>3, <3>5
    <3> QED BY <2>1, <3>6
  <2> QED BY <2>2, <2>3, <2>4, <2>5
<1> QED BY <1>4, <1>5, <1>6, <1>7, <1>8, <1>9

-----------------------------------------------------------------------------
LEMMA NextInv == IInv /\ [Next]_vars => IInv'
<1> SUFFICES ASSUME IInv, [Next]_vars PROVE IInv'
  OBVIOUS
<1>1. CASE UNCHANGED vars
  <2> USE <1>1 DEF vars, inputs, process, scratch, IInv
  <2>1. Types' /\ Located'
    BY DEF Types, Located
  <2>2. AtHand' /\ Admitted'
    BY DEF AtHand, Admitted, EarnedAll
  <2>3. ResultsSound' /\ ReceiptsSound'
    BY NothingWritten
  <2> QED BY <2>1, <2>2, <2>3
<1>2. CASE Next
  BY <1>2, OutsideInv, BuildInv, EnterInv, ItemInv, PublishInv, ReceiptInv DEF Next
<1> QED BY <1>1, <1>2

LEMMA InvImplies == IInv => FormalFollowsGates
<1> SUFFICES ASSUME IInv PROVE FormalFollowsGates
  OBVIOUS
<1>1. \A i \in Items("formal") :
        file["formal"][i] # NoFile =>
          /\ file["formal"][i].by = file["formal"][i].stamp.binary
          /\ file["formal"][i].stamp \in EarnedAll(Before("formal"))
  <2> SUFFICES ASSUME NEW i \in Items("formal"), file["formal"][i] # NoFile
               PROVE  /\ file["formal"][i].by = file["formal"][i].stamp.binary
                      /\ file["formal"][i].stamp \in EarnedAll(Before("formal"))
    OBVIOUS
  <2>1. PICK id \in EarnedAll(Before("formal")) : file["formal"][i] = Own(id)
    BY DEF IInv, ResultsSound, Gates
  <2>2. file["formal"][i].by = id.binary /\ file["formal"][i].stamp = id
    BY <2>1 DEF Own
  <2> QED BY <2>2
<1>2. \A id \in Identities :
        receipt["formal"] = [status |-> TRUE, stamp |-> id, host |-> TRUE] =>
          id \in EarnedAll(Gates)
  <2> SUFFICES ASSUME NEW id \in Identities,
                      receipt["formal"] = [status |-> TRUE, stamp |-> id, host |-> TRUE],
                      NEW g \in Gates
               PROVE  id \in earned[g]
    BY DEF EarnedAll
  <2>1. id \in earned["formal"] /\ id \in EarnedAll(Before("formal"))
    BY DEF IInv, ReceiptsSound, Gates
  <2>2. Before("formal") = {"admission", "performance"}
    BY DEF Before
  <2> QED BY <2>1, <2>2 DEF Gates, EarnedAll
<1> QED BY <1>1, <1>2 DEF FormalFollowsGates

\* Whatever is rebuilt, refrozen, failed or killed, formal results and a passing formal
\* receipt are of one binary and freeze that had earned admission and performance before.
THEOREM GatesHold == Spec => []FormalFollowsGates
<1>1. Init => IInv
  BY InitInv
<1>2. IInv /\ [Next]_vars => IInv'
  BY NextInv
<1>3. IInv => FormalFollowsGates
  BY InvImplies
<1> QED BY <1>1, <1>2, <1>3, PTL DEF Spec
=============================================================================
