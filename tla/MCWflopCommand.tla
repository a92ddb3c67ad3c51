---------------------------- MODULE MCWflopCommand ----------------------------
\* Instances of WflopCommand for TLC.
EXTENDS WflopCommand

TwoCases == <<"WS1tn10", "WS5tn30">>

\* All algorithms, one list over both cases, and every name alone, on every problem.
AllRequests ==
  [algorithms : {Registered} \cup {<<id>> : id \in Ids \cup Retired \cup {"typo"}},
   all : {FALSE}, problem : Problems \cup {"unknown"}]
  \cup {[algorithms |-> <<"cgpso", "bde", "cgpso">>, all |-> TRUE, problem |-> p] :
          p \in Problems}
=============================================================================
