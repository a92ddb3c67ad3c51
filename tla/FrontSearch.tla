----------------------------- MODULE FrontSearch -----------------------------
(***************************************************************************)
(* What a three-objective run promises: it evaluates a fixed number of     *)
(* layouts before it ends, and the front it holds is a set of mutually     *)
(* nondominated points it has evaluated: all of them as long as it never   *)
(* had to leave one out for want of room.                                  *)
(***************************************************************************)
EXTENDS Integers

CONSTANTS
  Budget,  \* complete layout evaluations of a run
  Points   \* objective vectors a layout can have

VARIABLES
  spent,      \* evaluations so far
  seen,       \* points evaluated so far
  front,      \* points held
  truncated,  \* some nondominated point has been left out
  ended       \* the run has returned its result

fsvars == <<spent, seen, front, truncated, ended>>

Below(p, q) == p # q /\ \A k \in DOMAIN p : p[k] <= q[k]

Minimal(S) == {q \in S : \A p \in S : ~Below(p, q)}

\* A run that is smaller than others starts with the difference spent.
FSInit ==
  /\ spent \in 0 .. Budget /\ seen = {} /\ front = {} /\ ended = FALSE
  /\ truncated \in BOOLEAN

\* A batch of evaluations.
Batch ==
  /\ ~ended
  /\ spent' \in (spent + 1) .. Budget
  /\ seen' \in SUBSET Points /\ seen \subseteq seen'
  /\ truncated' \in {truncated, TRUE}
  /\ IF truncated'
       THEN front' \in SUBSET seen' /\ front' = Minimal(front')
       ELSE front' = Minimal(seen')
  /\ UNCHANGED ended

\* The points held are settled without a further evaluation.
Settle ==
  /\ ~ended /\ truncated
  /\ front' \in SUBSET seen /\ front' = Minimal(front')
  /\ UNCHANGED <<spent, seen, truncated, ended>>

Finish ==
  /\ ~ended
  /\ spent = Budget
  /\ ended' = TRUE
  /\ UNCHANGED <<spent, seen, front, truncated>>

FSNext == Batch \/ Settle \/ Finish

FSSpec == FSInit /\ [][FSNext]_fsvars
=============================================================================
