------------------------------ MODULE ForkJoin ------------------------------
(***************************************************************************)
(* What PersistentExecutor::parallel_for promises its caller               *)
(* (hpc/fode_cpp/include/fode/executor.hpp): a call runs every index of    *)
(* its range exactly once, in any order, and returns only when all of them *)
(* have finished.  No thread, epoch or counter is visible here.            *)
(***************************************************************************)
EXTENDS Integers

CONSTANTS Ranges, MaxCalls

VARIABLES
  phase,  \* "idle" between calls, "running" in one, "destroyed" at the end
  todo,   \* indices of the current call that have not finished
  made    \* calls made so far

fjvars == <<phase, todo, made>>

FJInit == phase = "idle" /\ todo = {} /\ made = 0

Fork(r) ==
  /\ phase = "idle"
  /\ made < MaxCalls
  /\ r[2] > r[1]
  /\ phase' = "running"
  /\ todo' = r[1] .. (r[2] - 1)
  /\ made' = made + 1

Finish(i) ==
  /\ phase = "running"
  /\ i \in todo
  /\ todo' = todo \ {i}
  /\ UNCHANGED <<phase, made>>

Return ==
  /\ phase = "running"
  /\ todo = {}
  /\ phase' = "idle"
  /\ UNCHANGED <<todo, made>>

Delete ==
  /\ phase = "idle"
  /\ phase' = "destroyed"
  /\ UNCHANGED <<todo, made>>

FJNext ==
  \/ \E r \in Ranges : Fork(r)
  \/ \E i \in todo : Finish(i)
  \/ Return
  \/ Delete

FJSpec == FJInit /\ [][FJNext]_fjvars

\* A call that was entered returns.
FJFairSpec == FJSpec /\ WF_fjvars(Return \/ \E i \in todo : Finish(i))
=============================================================================
