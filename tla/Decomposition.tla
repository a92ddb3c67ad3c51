----------------------------- MODULE Decomposition -----------------------------
(***************************************************************************)
(* run_optimizer of hpc/pbea_cpp/src/main.cpp, MOEA/D and MOEA/D-P: slot   *)
(* i holds the layout of the subproblem with weight vector i, and every    *)
(* offspring may replace at most two neighbors it is at least as good for. *)
(* The donors, the mutation and, for MOEA/D-P, the probability map only    *)
(* shape a candidate, which the repair may turn into any layout.           *)
(***************************************************************************)
EXTENDS ParetoFronts, Sequences

Algorithms == {"moead", "moead_p"}

\* neighborhood: of each slot, nearest first, max(2, population / 10) of them; weight:
\* weight vector of each slot, with the floor of 1e-6 as one unit.
SettingOK(s) ==
  LET slots == 1 .. s.size
      Distance(i, j) ==
        MapThenSumSet(LAMBDA k : (s.weight[i][k] - s.weight[j][k]) ^ 2, 1 .. s.axes)
      Nearer(i, j, m) ==
        Distance(i, j) < Distance(i, m) \/ (Distance(i, j) = Distance(i, m) /\ j < m)
  IN /\ ParetoSetting(s) /\ GenerationsSetting(s)
     /\ s.weight \in [slots -> [1 .. s.axes -> Nat \ {0}]]
     /\ s.neighborhood \in [slots -> Seq(slots)]
     /\ \A i \in slots : Len(s.neighborhood[i]) \in 2 .. s.size
     /\ \A i \in slots : \A n \in DOMAIN s.neighborhood[i] :
          Cardinality({m \in slots : Nearer(i, m, s.neighborhood[i][n])}) = n - 1

Weight == Setting[algorithm].weight
Neighborhood == Setting[algorithm].neighborhood

VARIABLES
  population,  \* layout of each slot
  ideal,       \* the ideal point
  offspring,   \* the evaluated offspring of a generation
  turn         \* the offspring whose neighborhood is visited next

vars == <<runVars, population, ideal, offspring, turn>>

\* weighted_tchebycheff of a layout for the subproblem of a slot.
Tchebycheff(layout, point, slot) ==
  Max({Weight[slot][k] * (Objective[layout][k] - point[k]) : k \in Axes})

Lowered(point, layouts) ==
  [k \in Axes |-> Min({point[k]} \cup {Objective[l][k] : l \in layouts})]

Infinity == Max(UNION {{Objective[l][k] : k \in Axes} : l \in Layouts}) + 1

Init ==
  /\ RunInit /\ truncated = TRUE
  /\ population = <<>> /\ offspring = <<>> /\ turn = 0
  /\ ideal = [k \in Axes |-> Infinity]

Initialize ==
  /\ pc = "init"
  /\ \E rows \in [Slots -> Layouts] :
       /\ population' = rows
       /\ Counted({rows[i] : i \in Slots}, PopulationSize)
       /\ ideal' = Lowered(ideal, {rows[i] : i \in Slots})
  /\ pc' = "loop"
  /\ UNCHANGED <<generation, truncated, offspring, turn>>

\* The whole batch lowers the ideal point before the first replacement.
Generation ==
  /\ NextGeneration
  /\ \E rows \in [Slots -> Layouts] :
       /\ offspring' = rows
       /\ Counted({rows[i] : i \in Slots}, PopulationSize)
       /\ ideal' = Lowered(ideal, {rows[i] : i \in Slots})
  /\ turn' = 1
  /\ pc' = "replace"
  /\ UNCHANGED <<truncated, population>>

\* Faulty variant of Accepts: the comparison of the published source (PBEA-005).
AcceptsWorse(layout, slot) ==
  Tchebycheff(layout, ideal, slot) > Tchebycheff(population[slot], ideal, slot)

Accepts(layout, slot) ==
  Tchebycheff(layout, ideal, slot) <= Tchebycheff(population[slot], ideal, slot)

\* The first two neighbors that accept the offspring.
Replaced(layout, hood) ==
  LET accepting == {n \in DOMAIN hood : Accepts(layout, hood[n])}
  IN {hood[n] : n \in {m \in accepting : Cardinality({o \in accepting : o < m}) < 2}}

Replace ==
  /\ pc = "replace" /\ turn \in Slots
  /\ LET replaced == Replaced(offspring[turn], Neighborhood[turn])
     IN population' = [i \in Slots |->
          IF i \in replaced THEN offspring[turn] ELSE population[i]]
  /\ turn' = turn + 1
  /\ UNCHANGED <<runVars, ideal, offspring>>

EndGeneration ==
  /\ pc = "replace" /\ turn \notin Slots
  /\ pc' = "loop"
  /\ turn' = 0 /\ offspring' = <<>>
  /\ UNCHANGED <<algorithm, generation, evaluations, evaluated, truncated, population, ideal>>

Report ==
  /\ Leave
  /\ UNCHANGED <<population, ideal, offspring, turn>>

Step == Initialize \/ Generation \/ Replace \/ EndGeneration \/ Report

-----------------------------------------------------------------------------
(* Properties.                                                             *)

\* The ideal point is that of everything evaluated, also while slots are being replaced
\* and after the layouts it stems from have left the population.
IdealRemembered ==
  evaluated # {} => ideal = [k \in Axes |-> Min({Objective[l][k] : l \in evaluated})]

\* No subproblem is ever handed a layout worse for it, measured from the ideal point
\* in force: the replacements of one generation may hit a slot several times.
SubproblemKept ==
  pc # "init" => \A i \in Slots :
    Tchebycheff(population'[i], ideal', i) <= Tchebycheff(population[i], ideal', i)

\* No offspring takes over the population: it replaces at most two layouts (PBEA-006).
TakesAtMostTwo ==
  pc = "replace" => Cardinality({i \in Slots : population'[i] # population[i]}) <= 2
=============================================================================
