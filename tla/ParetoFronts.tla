---------------------------- MODULE ParetoFronts ----------------------------
(***************************************************************************)
(* What the multi-objective searches of hpc/pbea_cpp/src/main.cpp and the  *)
(* T-MOEA of hpc/gga_cpp/src/main.cpp share: layouts, dominance, the       *)
(* ranking by fronts, the choice of the survivors, the order crossover,    *)
(* and the counting of evaluations.  One process runs one search, named by *)
(* algorithm.                                                              *)
(*                                                                         *)
(* A layout is a value: initialization and repair leave its cells without  *)
(* duplicates.  Objective is a table, three objectives for PBEA, two for   *)
(* T-MOEA.  A population whose order matters only to ties is the number of *)
(* copies of each layout.  The crowding distance, the grid of the archive  *)
(* and the reference indicator are abstracted to a free choice, except     *)
(* that the layouts at the ends of a front come first.                     *)
(***************************************************************************)
EXTENDS Integers, FiniteSets, FiniteSetsExt

CONSTANT Setting  \* for each algorithm, its parameters and the case it is run on

VARIABLES
  algorithm,    \* config.algorithm
  pc,           \* "init", "loop", "replace" or "done"
  generation,   \* generations completed
  evaluations,  \* complete layout evaluations so far
  evaluated,    \* history variable: layouts evaluated so far
  truncated     \* history variable: a nondominated layout was left out for want of room

runVars == <<algorithm, pc, generation, evaluations, evaluated, truncated>>

\* layouts: the feasible ones; objective: the objectives of each, all minimized; size:
\* config.population.
ParetoSetting(s) ==
  /\ IsFiniteSet(s.layouts) /\ s.layouts # {}
  /\ s.axes \in Nat \ {0}
  /\ s.objective \in [s.layouts -> [1 .. s.axes -> Nat]]
  /\ s.size \in Nat \ {0}

\* PBEA counts generations: config.generations, which may be 0.
GenerationsSetting(s) == s.generations \in Nat

\* T-MOEA counts evaluations: physical_fes; a budget below the population is refused.
BudgetSetting(s) == s.budget \in Nat /\ s.size <= s.budget

Layouts == Setting[algorithm].layouts
Objective == Setting[algorithm].objective
PopulationSize == Setting[algorithm].size
Generations == Setting[algorithm].generations
Budget == Setting[algorithm].budget

Counting == algorithm = "tmoea"

\* The evaluations of a run of a search.
WorkOf(a) ==
  IF a = "tmoea" THEN Setting[a].budget ELSE Setting[a].size * (Setting[a].generations + 1)

Work == WorkOf(algorithm)

Axes == 1 .. Setting[algorithm].axes

Slots == 1 .. PopulationSize

Dominates(l, m) ==
  /\ \A k \in Axes : Objective[l][k] <= Objective[m][k]
  /\ \E k \in Axes : Objective[l][k] < Objective[m][k]

FirstFront(S) == {l \in S : \A m \in S : ~Dominates(m, l)}

\* The chains of layouts of S that dominate l and each other.
ChainsAbove(S, l) ==
  {C \in SUBSET {m \in S : Dominates(m, l)} :
     \A p, q \in C : p = q \/ Dominates(p, q) \/ Dominates(q, p)}

\* rank: the number of fronts to be taken off S before l is on the first.
Rank(S, l) == Max({Cardinality(C) : C \in ChainsAbove(S, l)})

PointsOf(S) == {Objective[l] : l \in S}

\* The layouts of a population, all copies, and how many they are.
Members(pop) == {l \in Layouts : pop[l] > 0}

Copies(pop) == UNION {{l} \X (1 .. pop[l]) : l \in Layouts}

Count(pop) == Cardinality(Copies(pop))

Nobody == [l \in Layouts |-> 0]

Together(pop, others) == [l \in Layouts |-> pop[l] + others[l]]

\* The copies of the layouts of a set.
Part(pop, S) == [l \in Layouts |-> IF l \in S THEN pop[l] ELSE 0]

\* The populations of n layouts from a set, and n of a population.
Populations(S, n) == {pop \in [Layouts -> 0 .. n] : Members(pop) \subseteq S /\ Count(pop) = n}

Samples(pop, n) ==
  {kept \in [Layouts -> 0 .. n] : (\A l \in Layouts : kept[l] <= pop[l]) /\ Count(kept) = n}

PopulationOf(rows) == [l \in Layouts |-> Cardinality({i \in DOMAIN rows : rows[i] = l})]

\* The first PopulationSize of a population by rank: a layout that is kept leaves none of
\* smaller rank behind; of the front that is cut any may go.
RankClosed(pop) ==
  LET rank == [l \in Members(pop) |-> Rank(Members(pop), l)]
  IN {kept \in Samples(pop, PopulationSize) :
        \A l \in Members(pop), m \in Members(kept) : rank[l] < rank[m] => kept[l] = pop[l]}

Least(S, k) == {l \in S : \A m \in S : Objective[l][k] <= Objective[m][k]}

Greatest(S, k) == {l \in S : \A m \in S : Objective[l][k] >= Objective[m][k]}

\* Faulty variant of CrowdedFirst: the ends of a front have no infinite distance.
CrowdedAnyhow(pop) == RankClosed(pop)

\* As RankClosed by rank and crowding: both ends of a front on each axis have infinite
\* distance, so that they are kept when so many of the front are.
CrowdedFirst(pop) ==
  LET rank == [l \in Members(pop) |-> Rank(Members(pop), l)]
      ends == 2 * Cardinality(Axes)
      fronts == {{l \in Members(pop) : rank[l] = n} : n \in {rank[l] : l \in Members(pop)}}
  IN {kept \in RankClosed(pop) :
        \A front \in fronts : Count(Part(kept, front)) >= ends =>
          \A k \in Axes : /\ Least(front, k) \cap Members(kept) # {}
                          /\ Greatest(front, k) \cap Members(kept) # {}}

\* The first front of a population is larger than what may survive.
Outgrown(pop) == Count(Part(pop, FirstFront(Members(pop)))) > PopulationSize

-----------------------------------------------------------------------------
(* permutation_offspring, the crossover of NSGA-II and AR-MOEA, by what it *)
(* does to sorted layouts: here a layout is the set of its cells.          *)

\* turbines: config.turbines; cells: the grid cells.
CrossoverSetting(s) ==
  /\ s.cells \subseteq Nat
  /\ s.layouts = {S \in SUBSET s.cells : Cardinality(S) = s.turbines}

Cells == Setting[algorithm].cells
Turbines == Setting[algorithm].turbines

\* The n smallest cells: the first n coordinates of a sorted layout.
Lowest(layout, n) == {c \in layout : Cardinality({d \in layout : d < c}) < n}

\* Faulty variant of Child: the tail is drawn from the grid.
ChildSampled(first, second, cut) ==
  LET head == Lowest(first, cut)
  IN head \cup Lowest(Cells \ head, Turbines - cut)

\* The head of one parent filled up from the other; moving one coordinate afterwards is
\* undone by the sort at the end of the repair.
Child(first, second, cut) ==
  LET head == Lowest(first, cut)
  IN head \cup Lowest(second \ head, Turbines - cut)

Children(parents) ==
  {Child(p, q, cut) : p \in parents, q \in parents, cut \in 1 .. Turbines}

\* The populations crossover can produce.
Offspring(parents) == Populations(Children(parents), PopulationSize)

\* Every layout evaluated consists of cells of the initial population: crossover and
\* repair introduce no other.
InheritedFrom(pool) == \A l \in evaluated : l \subseteq pool

-----------------------------------------------------------------------------
(* The run.                                                                *)

RunInit ==
  /\ pc = "init"
  /\ generation = 0 /\ evaluations = 0
  /\ evaluated = {}

\* Every member of a batch of n is evaluated.
Counted(layouts, n) ==
  /\ evaluations' = evaluations + n
  /\ evaluated' = evaluated \cup layouts
  /\ UNCHANGED algorithm

GenerationsLeft == IF Counting THEN evaluations < Budget ELSE generation < Generations

NextGeneration ==
  /\ pc = "loop" /\ GenerationsLeft
  /\ generation' = generation + 1

\* The loop is left; the result is printed.
Leave ==
  /\ pc = "loop" /\ ~GenerationsLeft
  /\ pc' = "done"
  /\ UNCHANGED <<algorithm, generation, evaluations, evaluated, truncated>>
=============================================================================
