----------------------------- MODULE FrontFamily -----------------------------
(***************************************************************************)
(* The multi-objective searches as one specification: main of              *)
(* hpc/pbea_cpp/src/main.cpp runs the search its --algorithm names, and    *)
(* main of hpc/gga_cpp/src/main.cpp has one more, T-MOEA.  The first step  *)
(* chooses a search, and only its steps follow.                            *)
(***************************************************************************)
EXTENDS ParetoFronts, Sequences

VARIABLES
  population,         \* NondominatedSorting, AdaptiveReference, Decomposition
  pool,               \* NondominatedSorting, AdaptiveReference
  report,             \* NondominatedSorting, ArchiveSwarm
  archive,            \* AdaptiveReference, ArchiveSwarm
  rangeMin, rangeMax, \* AdaptiveReference
  personalBest,       \* ArchiveSwarm
  ideal, offspring,   \* Decomposition
  turn

Sorting    == INSTANCE NondominatedSorting
References == INSTANCE AdaptiveReference
Swarm      == INSTANCE ArchiveSwarm
Decomposed == INSTANCE Decomposition

Chosen == DOMAIN Setting

ASSUME SettingAssumption ==
  /\ Chosen \subseteq UNION {Sorting!Algorithms, References!Algorithms, Swarm!Algorithms,
                             Decomposed!Algorithms}
  /\ \A a \in Chosen \cap Sorting!Algorithms : Sorting!SettingOK(Setting[a])
  /\ "nsgaii" \in Chosen =>
       CrossoverSetting(Setting["nsgaii"]) /\ GenerationsSetting(Setting["nsgaii"])
  /\ "tmoea" \in Chosen => BudgetSetting(Setting["tmoea"])
  /\ \A a \in Chosen \cap References!Algorithms : References!SettingOK(Setting[a])
  /\ \A a \in Chosen \cap Swarm!Algorithms : Swarm!SettingOK(Setting[a])
  /\ \A a \in Chosen \cap Decomposed!Algorithms : Decomposed!SettingOK(Setting[a])

references == <<rangeMin, rangeMax>>
decomposed == <<ideal, offspring, turn>>

vars == <<runVars, population, pool, report, archive, references, personalBest, decomposed>>

\* What a search does not declare keeps its first value.
Init ==
  /\ algorithm \in Chosen
  /\ population = <<>> /\ pool = {} /\ report = {} /\ personalBest = <<>>
  /\ rangeMin = <<>> /\ rangeMax = <<>> /\ offspring = <<>> /\ turn = 0
  /\ CASE algorithm \in Sorting!Algorithms -> Sorting!Init /\ archive = {} /\ ideal = <<>>
       [] algorithm \in References!Algorithms -> References!Init /\ ideal = <<>>
       [] algorithm \in Swarm!Algorithms -> Swarm!Init /\ ideal = <<>>
       [] algorithm \in Decomposed!Algorithms -> Decomposed!Init /\ archive = {}

RunSorting ==
  /\ algorithm \in Sorting!Algorithms /\ Sorting!Step
  /\ UNCHANGED <<archive, references, personalBest, decomposed>>

RunReferences ==
  /\ algorithm \in References!Algorithms /\ References!Step
  /\ UNCHANGED <<report, personalBest, decomposed>>

RunSwarm ==
  /\ algorithm \in Swarm!Algorithms /\ Swarm!Step
  /\ UNCHANGED <<population, pool, references, decomposed>>

RunDecomposed ==
  /\ algorithm \in Decomposed!Algorithms /\ Decomposed!Step
  /\ UNCHANGED <<pool, report, archive, references, personalBest>>

Step == RunSorting \/ RunReferences \/ RunSwarm \/ RunDecomposed

\* The run has returned.
Ended == pc = "done" /\ UNCHANGED vars

Next == Step \/ Ended

Spec == Init /\ [][Next]_vars
-----------------------------------------------------------------------------
(* Properties.                                                             *)

\* A leader can always be drawn, from an archive that never outgrows the population; for
\* MOPSO every leader is nondominated.
LeadersSound ==
  algorithm \in Swarm!Algorithms =>
    /\ Swarm!LeadersAvailable
    /\ algorithm = "mopso" => Swarm!LeadersNondominated

\* The points by which others are scaled and compared stay those of everything
\* evaluated: the ideal point of MOEA/D and both corners of AR-MOEA.
IdealRemembered ==
  /\ algorithm \in Decomposed!Algorithms => Decomposed!IdealRemembered
  /\ algorithm \in References!Algorithms =>
       References!IdealRemembered /\ References!RangeEncloses

\* What a run prints knows the best it has evaluated: each least objective for NSGA-II
\* and T-MOEA; for MOPSO nothing its archive does not know.
ReportSound ==
  /\ algorithm \in Sorting!Algorithms => Sorting!MinimaKept
  /\ algorithm = "mopso" => Swarm!ReportKnown

\* The order crossover never leaves the cells of the initial population.
CellsInherited ==
  /\ algorithm = "nsgaii" => Sorting!CellsInherited
  /\ algorithm = "armoea" => References!CellsInherited

\* No step gives up what it holds for something worse: a subproblem its layout, to an
\* offspring that takes at most two of them, or a member its personal best.
HoldsWhatItHas ==
  [][/\ algorithm \in Decomposed!Algorithms =>
          Decomposed!SubproblemKept /\ Decomposed!TakesAtMostTwo
     /\ algorithm = "mopso" => Swarm!PersonalBestKept]_vars

\* The layouts each search holds: its archive where it keeps one.
Held ==
  CASE pc = "init" -> {}
    [] pc # "init" /\ algorithm \in Sorting!Algorithms -> Members(population)
    [] pc # "init" /\ algorithm \in Swarm!Algorithms -> Members(archive)
    [] pc # "init" /\ algorithm \in Decomposed!Algorithms -> {population[i] : i \in Slots}

Front ==
  IF algorithm \in References!Algorithms THEN archive ELSE PointsOf(FirstFront(Held))

\* Only so many runs are compared.
ASSUME WorkAssumption == \E a \in Chosen : \A b \in Chosen : WorkOf(b) <= WorkOf(a)

LargestWork == Max({WorkOf(a) : a \in Chosen})

AllPoints == UNION {{Setting[a].objective[l] : l \in Setting[a].layouts} : a \in Chosen}

\* A smaller run is one that starts with a part of the largest spent.
FS == INSTANCE FrontSearch WITH
  Budget <- LargestWork, Points <- AllPoints,
  spent <- LargestWork - (Work - evaluations), seen <- PointsOf(evaluated),
  front <- Front, ended <- pc = "done"

\* The front a search holds is the front of everything it has evaluated until that
\* outgrows its room, and a set of evaluated, mutually nondominated points afterwards
\* (MOEA/D, without an archive, from the start); a run ends with its budget spent.
ImplementsFrontSearch == FS!FSSpec
=============================================================================
