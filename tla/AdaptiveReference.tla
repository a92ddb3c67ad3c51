--------------------------- MODULE AdaptiveReference ---------------------------
(***************************************************************************)
(* run_armoea of hpc/pbea_cpp/src/main.cpp: beside the population, an      *)
(* archive of distinct nondominated points adapts the reference points,    *)
(* and two corners translate and scale the objectives.  Which points adapt *)
(* the references and which layouts of the last front survive is decided   *)
(* by distances and angles, abstracted to a free choice.                   *)
(***************************************************************************)
EXTENDS ParetoFronts

Algorithms == {"armoea"}

\* perWeight: archived points per weight vector, 3; narrow and unit: 1e-6 and 1.0 in the
\* unit of the objectives.
SettingOK(s) ==
  /\ ParetoSetting(s) /\ GenerationsSetting(s) /\ CrossoverSetting(s)
  /\ s.perWeight \in Nat \ {0}
  /\ s.unit \in Nat \ {0} /\ s.narrow \in 1 .. s.unit

PointsPerWeight == Setting[algorithm].perWeight
Narrow == Setting[algorithm].narrow
Unit == Setting[algorithm].unit

VARIABLES
  population,  \* the population
  pool,        \* history variable: cells of the initial population
  archive,     \* ArReferenceState.archive
  rangeMin,    \* ArReferenceState.range_min
  rangeMax     \* ArReferenceState.range_max

vars == <<runVars, population, pool, archive, rangeMin, rangeMax>>

Init ==
  /\ RunInit /\ truncated = FALSE
  /\ population = <<>> /\ pool = {}
  /\ archive = {} /\ rangeMin = <<>> /\ rangeMax = <<>>

Nondominated(points) ==
  {q \in points : \A p \in points : p = q \/ \E k \in Axes : p[k] > q[k]}

MinOf(points) == [k \in Axes |-> Min({p[k] : p \in points})]

MaxOf(points) == [k \in Axes |-> Max({p[k] : p \in points})]

Capacity == PointsPerWeight * PopulationSize

\* Faulty variant of Widened: the corner follows the points kept, not those seen.
WidenedByKept(front) == rangeMin' = MinOf(archive')

Widened(front) ==
  rangeMin' = MinOf(front \cup (IF pc = "init" THEN {} ELSE {rangeMin}))

\* Faulty variant of UniqueNondominated: the additions are filtered alone.
AdditionsFiltered(additions) == archive \cup Nondominated(additions)

UniqueNondominated(additions) == Nondominated(archive \cup additions)

\* update_ar_reference: the lower corner is taken from the whole front, the archive may
\* then be thinned to its capacity.
UpdateReference(additions) ==
  LET front == UniqueNondominated(additions)
  IN /\ archive' \in {kept \in SUBSET front :
                        Cardinality(kept) = Min({Capacity, Cardinality(front)})}
     /\ Widened(front)
     /\ truncated' = (truncated \/ archive' # front)

Initialize ==
  /\ pc = "init"
  /\ population' \in Populations(Layouts, PopulationSize)
  /\ Counted(Members(population'), PopulationSize)
  /\ pool' = UNION Members(population')
  /\ UpdateReference(PointsOf(Members(population')))
  /\ rangeMax' = MaxOf(Nondominated(PointsOf(Members(population'))))
  /\ pc' = "loop"
  /\ UNCHANGED generation

\* An axis of almost no extent is given extent one.
Separated(upper, lower) ==
  [k \in Axes |-> IF upper[k] - lower[k] < Narrow THEN lower[k] + Unit ELSE upper[k]]

Generation ==
  /\ NextGeneration
  /\ \E offspring \in Offspring(Members(population)) :
       /\ Counted(Members(offspring), PopulationSize)
       /\ UpdateReference(PointsOf(Members(offspring)))
       /\ population' \in RankClosed(Together(population, offspring))
  /\ rangeMax' = Separated(MaxOf(PointsOf(Members(population'))), rangeMin')
  /\ UNCHANGED <<pc, pool>>

Report ==
  /\ Leave
  /\ UNCHANGED <<population, pool, archive, rangeMin, rangeMax>>

Step == Initialize \/ Generation \/ Report

-----------------------------------------------------------------------------
(* Properties.                                                             *)

\* Crossover and repair introduce no cell.
CellsInherited == InheritedFrom(pool)

\* The lower corner is the ideal point of everything evaluated, although the archive it
\* is computed from forgets points and the population forgets layouts: no translated
\* objective is negative.
IdealRemembered == pc # "init" => rangeMin = MinOf(PointsOf(evaluated))

\* Between generations the corners enclose the population, the lower one by the history of
\* the run and the upper one by the population alone, and are at least 1e-6 apart on every
\* axis, so that no weight vector is scaled by the floor in place of an extent.
RangeEncloses ==
  pc # "init" /\ generation > 0 => \A k \in Axes :
    /\ rangeMin[k] + Narrow <= rangeMax[k]
    /\ \A l \in Members(population) : Objective[l][k] \in rangeMin[k] .. rangeMax[k]
=============================================================================
