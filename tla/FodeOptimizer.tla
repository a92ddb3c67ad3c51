---------------------------- MODULE FodeOptimizer ----------------------------
(***************************************************************************)
(* The FODE state machine of hpc/fode_cpp/src/optimizer.cpp: differential  *)
(* evolution with an archive of replaced parents, fractional histories of  *)
(* the last four generations, linear population reduction (LPSR) and an    *)
(* optional local search, all under one budget of layout evaluations.      *)
(*                                                                         *)
(* A layout is a value; the operators that build one (mutation, crossover, *)
(* repair) may produce any, so the parameters they read (memory_sf,        *)
(* memory_cr, r1, r2, the fractional weights and iteration, which scales   *)
(* them) are not kept.  A row of the population keeps the name of the slot *)
(* it started in: retain_rows preserves the order of the rows, so a row's  *)
(* index is the rank of its name, and every matrix with one row per        *)
(* individual is a function (or, where only its rows matter, a set) of     *)
(* names.                                                                  *)
(***************************************************************************)
EXTENDS Integers, FiniteSets

CONSTANTS
  InitialSize,     \* initial_population_size, |77 - turbines| and at least 3
  Floor,           \* the 4 of minimum_population
  Budget,          \* physical_fes_budget, legacy_fes_budget as well
  ArchivePercent,  \* 100 * kArchiveRate
  Depth,           \* number of earlier generations the histories keep, 4
  Layouts,         \* feasible layouts
  Power            \* expected power of a layout, what a FES computes

ASSUME FodeAssumption ==
  /\ InitialSize \in Nat /\ InitialSize >= 3
  /\ Floor \in Nat /\ Floor >= 3
  /\ Budget \in Nat /\ Budget >= InitialSize
  /\ ArchivePercent \in Nat
  /\ Depth \in Nat /\ Depth >= 1
  /\ Power \in [Layouts -> Nat \ {0}]

Slots == 1 .. InitialSize

\* The two fractional differences with a history of their own.
Families == {"dp", "da"}

MinimumPopulation == IF Floor <= InitialSize THEN Floor ELSE InitialSize

\* std::llround(n / d) for n >= 0.
RoundedQuotient(n, d) == (2 * n + d) \div (2 * d)

ArchiveCapacity(size) == RoundedQuotient(ArchivePercent * size, 100)

VARIABLES
  pc,          \* the stage the run is at
  fes,         \* physical_fes
  legacy,      \* legacy_fes
  population,  \* layout of each row
  fitness,     \* fitness of each row
  child,       \* evaluated candidate of each row (children)
  promising,   \* pfit < 0.05
  archive,     \* the layouts of the archive
  history,     \* rows of each matrix dp_h1 .. da_h4, {} while it is empty
  best,        \* best_fitness
  bestLayout,  \* best_layout
  searched     \* history variable: layouts evaluated after the initial ones

vars == <<pc, fes, legacy, population, fitness, child, promising, archive,
          history, best, bestLayout, searched>>

Rows == DOMAIN population

Size == Cardinality(Rows)

Restricted(f, rows) == [r \in rows |-> f[r]]

-----------------------------------------------------------------------------
(* initialize_population and the initial evaluation.  Initial candidates   *)
(* do not enter the best of the search, only the layout reported with it.  *)

Init ==
  /\ pc = "loop"
  /\ population \in [Slots -> Layouts]
  /\ fitness = [r \in Slots |-> Power[population[r]]]
  /\ fes = InitialSize
  /\ legacy = 0
  /\ child = <<>>
  /\ promising = FALSE
  /\ archive = {}
  /\ history = [f \in Families |-> [k \in 1 .. Depth |-> {}]]
  /\ best = 0
  /\ \E r \in Slots :
       /\ \A s \in Slots : fitness[s] < fitness[r] \/ (fitness[s] = fitness[r] /\ r <= s)
       /\ bestLayout = population[r]
  /\ searched = {}

-----------------------------------------------------------------------------
(* What a generation is built from.                                        *)

\* Row i is ranked before row j by the stable sort on descending fitness.
RankedBefore(i, j) ==
  fitness[i] > fitness[j] \/ (fitness[i] = fitness[j] /\ i < j)

\* The best of the latest batch is taken as the best of the run.
CommitLatest(batch) ==
  \E r \in DOMAIN batch :
    /\ \A s \in DOMAIN batch : Power[batch[s]] <= Power[batch[r]]
    /\ best' = Power[batch[r]]
    /\ bestLayout' = batch[r]

\* Commit of the best of a batch: the first of the greatest replaces a
\* smaller best.
CommitBest(batch) ==
  IF \A r \in DOMAIN batch : Power[batch[r]] <= best
    THEN UNCHANGED <<best, bestLayout>>
    ELSE \E r \in DOMAIN batch :
           /\ \A s \in DOMAIN batch :
                \/ Power[batch[s]] < Power[batch[r]]
                \/ Power[batch[s]] = Power[batch[r]] /\ r <= s
           /\ best' = Power[batch[r]]
           /\ bestLayout' = batch[r]

\* pfit < 0.05, where pfit is minus infinity until the search has a best.
Promising(batch) ==
  \/ best = 0
  \/ \E r \in DOMAIN batch : 20 * (best - Power[batch[r]]) < best

\* The rows whose candidate is still paid for: the first ones.
Affordable(n) == {r \in Rows : Cardinality({s \in Rows : s < r}) < n}

\* Rows whose child is strictly better than the parent.
Accepted == {r \in Rows : Power[child[r]] > fitness[r]}

\* update_archive: what exceeds the capacity is dropped at random.
Trim(layouts, capacity) ==
  IF Cardinality(layouts) <= capacity
    THEN archive' = layouts
    ELSE \E kept \in SUBSET layouts :
           Cardinality(kept) = capacity /\ archive' = kept

\* The plan without the minimum it should end at, driven by the physical count.
PlannedToNothing ==
  RoundedQuotient(InitialSize * (IF fes < Budget THEN Budget - fes ELSE 0), Budget)

\* The LPSR plan, linear in legacy_fes.
PlannedPopulation ==
  LET plan == RoundedQuotient(
                InitialSize * Budget - (InitialSize - MinimumPopulation) * legacy,
                Budget)
  IN IF plan < MinimumPopulation THEN MinimumPopulation ELSE plan

\* The reduction sorts upwards and keeps the worst rows.
IsDregs(keep, target) ==
  /\ Cardinality(keep) = target
  /\ \A i \in keep : \A j \in Rows \ keep : RankedBefore(j, i)

\* survivor_rows: the best rows.
IsElite(keep, target) ==
  /\ Cardinality(keep) = target
  /\ \A i \in keep : \A j \in Rows \ keep : RankedBefore(i, j)

\* retain_rows throws for a matrix that does not have one row per individual.
Drifted == \E f \in Families, k \in 1 .. Depth :
             history[f][k] # {} /\ Cardinality(history[f][k]) # Size

-----------------------------------------------------------------------------
(* Faulty variants of single steps, each a bug this code could have had;   *)
(* PlannedToNothing, IsDregs and CommitLatest above are of the same kind.  *)
(* No specification below uses them.                                       *)

\* A reduction, given what it makes of fitness, of each history and of the archive.
ReduceBut(NewFitness(_), NewHistory(_, _, _), NewArchive) ==
  /\ pc = "reduce"
  /\ Size > PlannedPopulation
  /\ \E keep \in SUBSET Rows :
       /\ IsElite(keep, PlannedPopulation)
       /\ population' = Restricted(population, keep)
       /\ fitness' = NewFitness(keep)
       /\ history' = [f \in Families |->
                         [k \in 1 .. Depth |-> NewHistory(f, k, keep)]]
  /\ NewArchive
  /\ pc' = IF Drifted THEN "drifted" ELSE "count"
  /\ UNCHANGED <<fes, legacy, child, promising, best, bestLayout, searched>>

\* Only the dp matrices are reduced.
ReduceOneFamily ==
  LET Reduced(keep) == Restricted(fitness, keep)
      Kept(f, k, keep) == IF f = "dp" THEN history[f][k] \cap keep ELSE history[f][k]
  IN ReduceBut(Reduced, Kept, Trim(archive, ArchiveCapacity(PlannedPopulation)))

\* The archive waits for the next generation to be trimmed.
ReduceArchiveLater ==
  LET Reduced(keep) == Restricted(fitness, keep)
      Kept(f, k, keep) == history[f][k] \cap keep
  IN ReduceBut(Reduced, Kept, UNCHANGED archive)

\* The latest matrices miss the last row.
SelectOneRowShort ==
  /\ pc = "select"
  /\ Trim(archive \cup {population[r] : r \in Accepted}, ArchiveCapacity(Size))
  /\ population' = [r \in Rows |-> IF r \in Accepted THEN child[r] ELSE population[r]]
  /\ fitness' = [r \in Rows |-> IF r \in Accepted THEN Power[child[r]] ELSE fitness[r]]
  /\ history' = [f \in Families |-> [k \in 1 .. Depth |->
                   IF k = 1 THEN {r \in Rows : \E s \in Rows : r < s}
                            ELSE history[f][k - 1]]]
  /\ pc' = "reduce"
  /\ child' = <<>>
  /\ UNCHANGED <<fes, legacy, promising, best, bestLayout, searched>>

\* The local candidate is not compared with the best.
LocalForgotten ==
  /\ pc = "local"
  /\ \E layout \in Layouts : searched' = searched \cup {layout}
  /\ fes' = fes + 1
  /\ legacy' = legacy + 1
  /\ pc' = "loop"
  /\ UNCHANGED <<population, fitness, child, promising, archive, history, best,
                 bestLayout>>

-----------------------------------------------------------------------------
(* One generation.                                                         *)

\* Candidates for every row, evaluated as far as the budget goes.  A batch cut
\* short ends the run.
EvaluateChildren ==
  /\ pc = "loop"
  /\ legacy < Budget /\ fes < Budget
  /\ LET completed == IF Size <= Budget - fes THEN Size ELSE Budget - fes
     IN \E batch \in [Affordable(completed) -> Layouts] :
          /\ child' = batch
          /\ fes' = fes + completed
          /\ promising' = Promising(batch)
          /\ searched' = searched \cup {batch[r] : r \in DOMAIN batch}
          /\ CommitBest(batch)
          /\ pc' = IF completed < Size THEN "finish" ELSE "select"
  /\ UNCHANGED <<legacy, population, fitness, archive, history>>

\* Archive the beaten parents, replace them, and shift the histories.
SelectSurvivors ==
  /\ pc = "select"
  /\ Trim(archive \cup {population[r] : r \in Accepted}, ArchiveCapacity(Size))
  /\ population' = [r \in Rows |-> IF r \in Accepted THEN child[r] ELSE population[r]]
  /\ fitness' = [r \in Rows |-> IF r \in Accepted THEN Power[child[r]] ELSE fitness[r]]
  /\ history' = [f \in Families |-> [k \in 1 .. Depth |->
                   IF k = 1 THEN Rows ELSE history[f][k - 1]]]
  /\ pc' = "reduce"
  /\ child' = <<>>
  /\ UNCHANGED <<fes, legacy, promising, best, bestLayout, searched>>

\* Linear population reduction, and the archive with it.  The run is lost ("row-
\* aligned FODE state has drifted") when a matrix does not have the rows to retain.
Reduce ==
  /\ pc = "reduce"
  /\ Size > PlannedPopulation
  /\ \E keep \in SUBSET Rows :
       /\ IsElite(keep, PlannedPopulation)
       /\ population' = Restricted(population, keep)
       /\ fitness' = Restricted(fitness, keep)
       /\ history' = [f \in Families |->
                         [k \in 1 .. Depth |-> history[f][k] \cap keep]]
  /\ Trim(archive, ArchiveCapacity(PlannedPopulation))
  /\ pc' = IF Drifted THEN "drifted" ELSE "count"
  /\ UNCHANGED <<fes, legacy, child, promising, best, bestLayout, searched>>

KeepPopulation ==
  /\ pc = "reduce"
  /\ Size <= PlannedPopulation
  /\ pc' = "count"
  /\ UNCHANGED <<fes, legacy, population, fitness, child, promising, archive,
                 history, best, bestLayout, searched>>

\* The progress ledger: legacy_fes counts the reduced population.
CountLegacy ==
  /\ pc = "count"
  /\ legacy' = legacy + Size
  /\ pc' = IF fes >= Budget THEN "finish" ELSE IF promising THEN "local" ELSE "loop"
  /\ UNCHANGED <<fes, population, fitness, child, promising, archive, history,
                 best, bestLayout, searched>>

\* One more candidate around the best; it never enters the population.
LocalSearch ==
  /\ pc = "local"
  /\ \E layout \in Layouts :
       /\ CommitBest(<<layout>>)
       /\ searched' = searched \cup {layout}
  /\ fes' = fes + 1
  /\ legacy' = legacy + 1
  /\ pc' = "loop"
  /\ UNCHANGED <<population, fitness, child, promising, archive, history>>

\* The while condition fails.
LeaveLoop ==
  /\ pc = "loop"
  /\ legacy >= Budget \/ fes >= Budget
  /\ pc' = "finish"
  /\ UNCHANGED <<fes, legacy, population, fitness, child, promising, archive,
                 history, best, bestLayout, searched>>

\* The result is assembled and returned.
Finalize ==
  /\ pc = "finish"
  /\ pc' = "done"
  /\ UNCHANGED <<fes, legacy, population, fitness, child, promising, archive,
                 history, best, bestLayout, searched>>

\* The run has returned, or ended in an exception.
Ended == pc \in {"done", "drifted"} /\ UNCHANGED vars

-----------------------------------------------------------------------------
Generation ==
  \/ EvaluateChildren \/ SelectSurvivors
  \/ Reduce \/ KeepPopulation
  \/ CountLegacy \/ LocalSearch \/ LeaveLoop \/ Finalize

Next == Generation \/ Ended

Spec == Init /\ [][Next]_vars

\* The run is one sequential loop that the operating system keeps scheduling.
FairSpec == Spec /\ WF_vars(Generation)
-----------------------------------------------------------------------------
(* Properties.                                                             *)

Stages == {"loop", "select", "reduce", "count", "local", "finish", "done",
           "drifted"}

TypeOK ==
  /\ pc \in Stages
  /\ fes \in Nat /\ legacy \in Nat
  /\ Rows \subseteq Slots
  /\ population \in [Rows -> Layouts]
  /\ fitness \in [Rows -> Nat]
  /\ promising \in BOOLEAN
  /\ archive \subseteq Layouts
  /\ history \in [Families -> [1 .. Depth -> SUBSET Slots]]
  /\ best \in Nat
  /\ bestLayout \in Layouts
  /\ searched \subseteq Layouts
  /\ pc = "select" => child \in [Rows -> Layouts]

\* The matrices that hold one row per individual never drift apart, through
\* replacement and reduction: every fitness is that of its row's layout, and each
\* history matrix has exactly the population's rows or is still empty, the older
\* ones filling last.  retain_rows therefore never throws.
RowsAligned ==
  /\ pc # "drifted"
  /\ \A r \in Rows : fitness[r] = Power[population[r]]
  /\ \A f \in Families, k \in 1 .. Depth : history[f][k] \in {{}, Rows}
  /\ \A f \in Families, k \in 2 .. Depth :
       history[f][k] # {} => history[f][k - 1] # {}

\* A run never exceeds its budget and ends with all of it spent.  The loop has a
\* second counter, legacy_fes, which leaves the initial population out and counts
\* a generation by its reduced size: it can never end the run early.
ExactBudget ==
  /\ fes <= Budget
  /\ pc = "loop" => legacy + InitialSize <= fes
  /\ pc \in {"finish", "done"} => fes = Budget

\* The result is the best layout evaluated after the initial population, with its
\* own power, local candidates and the last, partial batch included; a row that
\* is better can only be an initial candidate (the source's rule).
BestCoversSearch ==
  /\ \A l \in searched : Power[l] <= best
  /\ searched # {} => bestLayout \in searched /\ Power[bestLayout] = best
  /\ searched = {} => best = 0

\* The archive fits the current population size, also right after a reduction,
\* and holds no layout as good as the best row of the population.
ArchiveSound ==
  /\ Cardinality(archive) <= ArchiveCapacity(Size)
  /\ \A l \in archive : \E r \in Rows : Power[l] < fitness[r]

\* The redraw loops for r1 and r2 end: they need three rows to choose from, and
\* the p-best draw two.
DrawsPossible == Size >= 3

\* No generation loses ground: a row that stays never gets worse, a row that goes
\* is no better than any that stays, and nobody joins.
EliteKept ==
  [][/\ Rows' \subseteq Rows
     /\ \A r \in Rows' : fitness'[r] >= fitness[r]
     /\ \A r \in Rows', q \in Rows \ Rows' : fitness'[r] >= fitness[q]]_vars

\* Every run ends with a result.
RunEnds == <>(pc = "done")

FW == INSTANCE FixedWorkSearch WITH
  Values <- {Power[l] : l \in Layouts},
  spent <- fes,
  ended <- pc = "done"

\* A FODE run is a fixed-work search: whatever its stages do in between, it spends
\* its budget in batches, improves its best or leaves it, and returns when spent.
ImplementsFixedWork == FW!FWSpec
=============================================================================
