--------------------------- MODULE FixedWorkSearch ---------------------------
(***************************************************************************)
(* What one optimization run of the benchmark promises (README.md, "exact  *)
(* physical-FES accounting"): it spends a fixed budget of complete layout  *)
(* evaluations, all of it and nothing beyond it, and the best value it     *)
(* reports never gets worse on the way.  How candidates are produced is    *)
(* not visible here.                                                       *)
(***************************************************************************)
EXTENDS Integers

CONSTANTS
  Budget,  \* physical_fes_budget
  Values   \* the objective values a layout can have, larger is better

VARIABLES
  spent,  \* complete layout evaluations so far
  best,   \* best value found by the search, 0 before it found one
  ended   \* the run has returned its result

fwvars == <<spent, best, ended>>

\* A search that keeps its initial candidates out of its best has paid for them, any
\* other has paid for nothing yet.
FWInit == spent \in 0 .. Budget /\ best = 0 /\ ended = FALSE

\* A batch of evaluations.
Evaluate ==
  /\ ~ended
  /\ spent' \in (spent + 1) .. Budget
  /\ best' \in {best} \cup {v \in Values : v > best}
  /\ UNCHANGED ended

Finish ==
  /\ ~ended
  /\ spent = Budget
  /\ ended' = TRUE
  /\ UNCHANGED <<spent, best>>

FWNext == Evaluate \/ Finish

FWSpec == FWInit /\ [][FWNext]_fwvars

\* A run ends, as it does if it goes on: only a finite number of batches can be paid for.
FWFairSpec == FWSpec /\ <>ended
=============================================================================
