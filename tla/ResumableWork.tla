--------------------------- MODULE ResumableWork ----------------------------
(***************************************************************************)
(* What the campaign scripts promise of a result tree (README.md, "the     *)
(* script validates and reuses completed per-seed files, so an interrupted *)
(* campaign resumes without rerunning accepted work"): a job is accepted   *)
(* at most once unless the host itself loses the file, and a campaign gets *)
(* its receipt only while every job of it is accepted.  Processes, locks   *)
(* and file names are not visible here.                                    *)
(***************************************************************************)
CONSTANTS
  Families,  \* the campaigns of a suite
  Jobs       \* the seeds of a campaign

VARIABLES
  accepted,  \* accepted[c]: the jobs whose result file passes validation
  sealed     \* the campaigns that have a receipt

rwvars == <<accepted, sealed>>

RWInit == accepted = [c \in Families |-> {}] /\ sealed = {}

Accept(c, j) ==
  /\ j \notin accepted[c]
  /\ accepted' = [accepted EXCEPT ![c] = @ \cup {j}]
  /\ UNCHANGED sealed

Seal(c) ==
  /\ accepted[c] = Jobs
  /\ sealed' = sealed \cup {c}
  /\ UNCHANGED accepted

\* The host goes down before the newest files have reached the disk.
Lose ==
  /\ accepted' \in [Families -> SUBSET Jobs]
  /\ \A c \in Families : accepted'[c] \subseteq accepted[c]
  /\ UNCHANGED sealed

RWNext ==
  \/ \E c \in Families : Seal(c) \/ \E j \in Jobs : Accept(c, j)
  \/ Lose

RWSpec == RWInit /\ [][RWNext]_rwvars
=============================================================================
