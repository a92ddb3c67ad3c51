----------------------------- MODULE ArchiveSwarm -----------------------------
(***************************************************************************)
(* run_mopso and run_morime of hpc/pbea_cpp/src/main.cpp: every member     *)
(* moves in every generation, drawn to a leader from an archive.  MOPSO    *)
(* keeps an archive of nondominated layouts and a personal best for each   *)
(* member; MORIME keeps the best of everything by rank and crowding.       *)
(* Velocities, the grid and the rime formulas are abstracted: the repair   *)
(* may leave any layout.                                                   *)
(***************************************************************************)
EXTENDS ParetoFronts

Algorithms == {"mopso", "morime"}

SettingOK(s) == ParetoSetting(s) /\ GenerationsSetting(s)

VARIABLES
  archive,       \* the archive
  personalBest,  \* personal_best, the population itself for MORIME
  report         \* layouts print_run_summary writes, {} before

vars == <<runVars, archive, personalBest, report>>

Init ==
  /\ RunInit /\ truncated = FALSE
  /\ archive = Nobody /\ personalBest = <<>> /\ report = {}

\* Everything, or what thinning member by member to the capacity leaves.
LeftOf(front) ==
  IF Count(front) <= PopulationSize THEN {front} ELSE Samples(front, PopulationSize)

\* Faulty variant of NondominatedArchive: the candidates are filtered among themselves.
CandidatesFiltered(moved) == LeftOf(Together(archive, Part(moved, FirstFront(Members(moved)))))

\* update_mopso_archive: what is not dominated, thinned member by member to the capacity.
NondominatedArchive(moved) ==
  LET all == Together(archive, moved) IN LeftOf(Part(all, FirstFront(Members(all))))

\* update_crowding_archive: filled up with dominated layouts.
CrowdingArchive(moved) == CrowdedFirst(Together(archive, moved))

UpdateArchive(moved) ==
  LET all == Together(archive, moved)
  IN /\ archive' \in IF algorithm = "mopso" THEN NondominatedArchive(moved)
                                            ELSE CrowdingArchive(moved)
     /\ truncated' = (truncated \/ Outgrown(all))

\* select_mopso_leaders: a member of some occupied grid cell; every member may be drawn.
Leaders == Members(archive)

Initialize ==
  /\ pc = "init"
  /\ \E rows \in [Slots -> Layouts] :
       /\ Counted({rows[i] : i \in Slots}, PopulationSize)
       /\ UpdateArchive(PopulationOf(rows))
       /\ personalBest' = rows
  /\ pc' = "loop"
  /\ UNCHANGED <<generation, report>>

\* A better position replaces the personal best, a worse one does not, a coin decides
\* between the others.
NewPersonalBests(rows) ==
  {new \in [Slots -> Layouts] : \A i \in Slots :
     /\ new[i] \in {rows[i], personalBest[i]}
     /\ Dominates(rows[i], personalBest[i]) => new[i] = rows[i]
     /\ Dominates(personalBest[i], rows[i]) => new[i] = personalBest[i]}

\* The archive is updated before the personal bests.
Generation ==
  /\ NextGeneration
  /\ \E rows \in [Slots -> Layouts] :
       /\ Counted({rows[i] : i \in Slots}, PopulationSize)
       /\ UpdateArchive(PopulationOf(rows))
       /\ IF algorithm = "mopso" THEN personalBest' \in NewPersonalBests(rows)
                                 ELSE personalBest' = rows
  /\ UNCHANGED <<pc, report>>

\* The front reported is that of the personal bests, or of the last population: not of
\* the archive.
Report ==
  /\ Leave
  /\ report' = FirstFront({personalBest[i] : i \in Slots})
  /\ UNCHANGED <<archive, personalBest>>

Step == Initialize \/ Generation \/ Report

-----------------------------------------------------------------------------
(* Properties.                                                             *)

\* A leader can always be drawn, and the archive never outgrows the population.
LeadersAvailable ==
  pc = "loop" => Leaders # {} /\ Count(archive) \in 1 .. PopulationSize

\* Leaders come from a nondominated archive.
LeadersNondominated == pc = "loop" => FirstFront(Leaders) = Leaders

\* A personal best is never given up for a layout it dominates.
PersonalBestKept ==
  pc = "loop" => \A i \in Slots : ~Dominates(personalBest[i], personalBest'[i])

\* What MOPSO reports is nothing its archive does not know better or as good, as long as
\* the archive did not have to forget.
ReportKnown ==
  ~truncated => \A l \in report : \E m \in Members(archive) :
    \A k \in Axes : Objective[m][k] <= Objective[l][k]
=============================================================================
