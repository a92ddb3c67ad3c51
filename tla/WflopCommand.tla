---------------------------- MODULE WflopCommand ----------------------------
(***************************************************************************)
(* The command line of the eighteen searches: main of                      *)
(* hpc/wflop_cpp/src/main.cpp, optimize of algorithms.cpp, which chooses   *)
(* the search, and the identities of registry.cpp.  One invocation runs    *)
(* every requested algorithm on every requested case, one after the other, *)
(* keeps the records in memory and replaces the output file at the end.    *)
(* It may be killed at any point, and invoked again for the same output.   *)
(*                                                                         *)
(* A record is the algorithm, the case and the invocation it comes from.   *)
(***************************************************************************)
EXTENDS Integers, Sequences

CONSTANTS
  Cases,        \* the cases of the manifest, in order
  Requests,     \* what an invocation may ask for: [algorithms, all, problem]
  Invocations,  \* bound on the invocations
  Absent

\* load_cases throws for an empty manifest, and a list of algorithms is never empty.
ASSUME CommandAssumption ==
  /\ Len(Cases) \in Nat \ {0}
  /\ \A asked \in Requests :
       /\ Len(asked.algorithms) \in Nat \ {0}
       /\ asked.all \in BOOLEAN
  /\ Invocations \in Nat

Common == "fode_e0_common"

\* registry.cpp, in its order.
Registered ==
  <<"fode", "aga", "sugga", "ise", "agpso", "cgpso", "lshade", "clshade", "cede",
    "msshade", "bde", "hgpso", "aiga", "ciga", "lsde", "wfadde", "alshade", "ppga">>

Elsewhere ==
  {<<"bde", "bde2025_source_replay_ws1_ws4">>, <<"cgpso", "rpso2024_source_problem_ws1_ws4">>}

Ids == {Registered[i] : i \in 1 .. Len(Registered)}

Problems == {Common} \cup {pair[2] : pair \in Elsewhere}

\* Names optimize refuses before it asks the registry.
Retired == {"lse", "alga", "taae", "rlpso", "rlfode"}

\* algorithm_supports_problem
Supports(algorithm, problem) ==
  algorithm \in Ids /\ (problem = Common \/ <<algorithm, problem>> \in Elsewhere)

\* The search a name leads to.
Implementation(algorithm) ==
  CASE algorithm \in {"aga", "sugga"} -> "optimize_ga"
    [] algorithm \in {"agpso", "cgpso"} -> "optimize_pso"
    [] algorithm \in {"lshade", "clshade", "alshade"} -> "optimize_lshade"
    [] algorithm \in {"fode", "ise", "cede", "msshade", "bde", "hgpso", "aiga", "ciga",
                      "lsde", "wfadde", "ppga"} -> algorithm
    [] OTHER -> "none"

\* Faulty variant of Refused: the problem is not checked.
RefusedByName(algorithm, problem) ==
  algorithm \in Retired \/ Implementation(algorithm) = "none"

\* optimize throws before any evaluation.
Refused(algorithm, problem) ==
  \/ algorithm \in Retired
  \/ problem \notin Problems
  \/ ~Supports(algorithm, problem)
  \/ Implementation(algorithm) = "none"

VARIABLES
  stage,      \* of the running invocation; "idle" when there is none
  request,    \* what it was asked for
  invoked,    \* invocations so far
  todo,       \* pairs still to run
  records,    \* records
  temporary,  \* the .tmp file: Absent or the records it holds
  output,     \* the output file
  status      \* exit status of the last invocation that exited by itself

commandVars == <<stage, request, invoked, todo, records, temporary, output, status>>

\* The pairs of an invocation, algorithm by algorithm.
Work(asked) ==
  LET cases == IF asked.all THEN Cases ELSE <<Cases[1]>>
      count == Len(cases)
  IN [i \in 1 .. Len(asked.algorithms) * count |->
        <<asked.algorithms[((i - 1) \div count) + 1], cases[((i - 1) % count) + 1]>>]

CommandInit ==
  /\ stage = "idle" /\ invoked = 0 /\ request = Absent
  /\ todo = <<>> /\ records = <<>>
  /\ temporary = Absent /\ output = Absent /\ status = 0

\* parse_arguments and load_cases.
Invoke(asked) ==
  /\ stage = "idle" /\ invoked < Invocations
  /\ invoked' = invoked + 1
  /\ request' = asked
  /\ todo' = Work(asked) /\ records' = <<>>
  /\ stage' = "run"
  /\ UNCHANGED <<temporary, output, status>>

Ends(code) == stage' = "idle" /\ status' = code

\* Any exception ends the invocation with status 1 and writes nothing.
Fail == Ends(1) /\ UNCHANGED <<request, invoked, todo, records, temporary, output>>

\* A name, a pair, a budget below the initial population or a missing surrogate model.
RunFails ==
  /\ stage = "run" /\ todo # <<>>
  /\ Fail

\* One result, validated.
RunOne ==
  /\ stage = "run" /\ todo # <<>>
  /\ ~Refused(Head(todo)[1], request.problem)
  /\ records' = Append(records, <<Head(todo)[1], Head(todo)[2], invoked>>)
  /\ todo' = Tail(todo)
  /\ UNCHANGED <<stage, request, invoked, temporary, output, status>>

\* Faulty variant of OpenTemporary: the output file itself is opened and emptied.
OpenOutput ==
  /\ stage = "run" /\ todo = <<>>
  /\ output' = <<>> /\ temporary' = <<>>
  /\ stage' = "write"
  /\ UNCHANGED <<request, invoked, todo, records, status>>

\* write_output: what an earlier invocation left in the temporary file is lost.
OpenTemporary ==
  /\ stage = "run" /\ todo = <<>>
  /\ temporary' = <<>>
  /\ stage' = "write"
  /\ UNCHANGED <<request, invoked, todo, records, output, status>>

\* A part of the contents reaches the file.
WriteSome ==
  /\ stage = "write" /\ Len(temporary) < Len(records)
  /\ temporary' = Append(temporary, records[Len(temporary) + 1])
  /\ UNCHANGED <<stage, request, invoked, todo, records, output, status>>

\* The stream is not good after the flush.
WriteFails == stage = "write" /\ Fail

Written == Len(temporary) = Len(records)

Rename ==
  /\ stage = "write" /\ Written
  /\ output' = temporary /\ temporary' = Absent
  /\ Ends(0)
  /\ UNCHANGED <<request, invoked, todo, records>>

\* Killed: the files stay as they are.
Kill ==
  /\ stage # "idle"
  /\ stage' = "idle" /\ status' = 137
  /\ UNCHANGED <<request, invoked, todo, records, temporary, output>>

Step == RunOne \/ RunFails \/ OpenTemporary \/ WriteSome \/ WriteFails \/ Rename

CommandNext ==
  \/ \E asked \in Requests : Invoke(asked)
  \/ Step
  \/ Kill
  \/ (stage = "idle" /\ invoked = Invocations /\ UNCHANGED commandVars)

CommandSpec == CommandInit /\ [][CommandNext]_commandVars
-----------------------------------------------------------------------------
(* Properties.                                                             *)

\* The output file is missing or holds every record of one invocation, in order: never
\* a part of a campaign, whoever was killed or failed at which algorithm; and an exit
\* status of zero tells that the output is that of this invocation.
OutputWhole ==
  /\ output # Absent =>
       /\ output # <<>>
       /\ \A i \in 1 .. Len(output) : output[i][3] = output[1][3]
       /\ \E asked \in Requests :
            /\ Len(output) = Len(Work(asked))
            /\ \A i \in 1 .. Len(output) : <<output[i][1], output[i][2]>> = Work(asked)[i]
  /\ stage = "idle" /\ invoked > 0 /\ status = 0 =>
       /\ output = records
       /\ Len(records) = Len(Work(request))

\* Every pair of a search and a problem that is registered leads to a search, and no other
\* pair is ever recorded: registry.cpp and the choice in optimize are two lists kept apart.
PairsAsRegistered ==
  /\ stage = "run" /\ todo # <<>> /\ Supports(Head(todo)[1], request.problem) =>
       ~Refused(Head(todo)[1], request.problem)
  /\ \A i \in 1 .. Len(records) : Supports(records[i][1], request.problem)
=============================================================================
