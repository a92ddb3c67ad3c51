-------------------------- MODULE PopulationSearch --------------------------
(***************************************************************************)
(* What the searches of hpc/wflop_cpp/src/algorithms.cpp that keep a       *)
(* population and its fitness vector have in common: the first evaluation, *)
(* the replacement of beaten rows, and the choice of the best rows, which  *)
(* leaves them in the order of their ranking.  Those of differential       *)
(* evolution have an archive as well, which is trimmed at random, and      *)
(* reduce population and archive along a line in the evaluations spent.    *)
(* The archive is a set: every search removes its duplicates before it is  *)
(* read.                                                                   *)
(***************************************************************************)
EXTENDS WflopRuntime

VARIABLES
  pc,          \* the stage the run is at
  population,  \* layout of each row
  fitness,     \* fitness of each row
  archive      \* layouts of the archive, for differential evolution

searchVars == <<population, fitness>>

deVars == <<population, fitness, archive>>

Size == Cardinality(DOMAIN population)

Rows == 1 .. Size

PowerOf(layouts) == [r \in DOMAIN layouts |-> Power[layouts[r]]]

SearchInit ==
  /\ RuntimeInit
  /\ pc = "init"
  /\ population = <<>> /\ fitness = <<>>

\* The initial population of n rows is evaluated.
InitializeRows(n) ==
  \E batch \in [1 .. n -> Layouts] :
    /\ Evaluate(batch)
    /\ population' = batch
    /\ fitness' = PowerOf(batch)

\* Faulty variant of Improved: every candidate is accepted.
AcceptAll(batch) == DOMAIN batch

\* Rows whose candidate is strictly better.
Improved(batch) == {r \in DOMAIN batch : Power[batch[r]] > fitness[r]}

\* Faulty variant of Replace: the fitness is taken over for every candidate.
ReplaceFitness(batch, rows) ==
  /\ population' = [r \in Rows |-> IF r \in rows THEN batch[r] ELSE population[r]]
  /\ fitness' = [r \in Rows |-> IF r \in DOMAIN batch THEN Power[batch[r]] ELSE fitness[r]]

\* The given rows take over their candidate, layout and fitness.
Replace(batch, rows) ==
  /\ population' = [r \in Rows |-> IF r \in rows THEN batch[r] ELSE population[r]]
  /\ fitness' = [r \in Rows |-> IF r \in rows THEN Power[batch[r]] ELSE fitness[r]]

\* Faulty variant of KeepTop: the first rows are kept, not the best.
KeepFirst(target) ==
  /\ population' = [k \in 1 .. target |-> population[k]]
  /\ fitness' = [k \in 1 .. target |-> fitness[k]]

\* The best target rows, best first.
KeepTop(target) ==
  /\ population' = [k \in 1 .. target |-> population[Ranked(fitness)[k]]]
  /\ fitness' = [k \in 1 .. target |-> fitness[Ranked(fitness)[k]]]

-----------------------------------------------------------------------------
(* Differential evolution.                                                 *)

DEInit == SearchInit /\ archive = {}

Parents(rows) == {population[r] : r \in rows}

\* std::llround(n / d) for n >= 0.
RoundedQuotient(n, d) == (2 * n + d) \div (2 * d)

\* trim_archive: what exceeds the capacity is dropped at random.
Trim(layouts, capacity) ==
  IF Cardinality(layouts) <= capacity
    THEN archive' = layouts
    ELSE \E kept \in SUBSET layouts :
           Cardinality(kept) = capacity /\ archive' = kept

\* Faulty variant of Reduce: the archive waits for the next generation to be trimmed.
ReduceArchiveLater(target, capacity) ==
  IF target < Size THEN KeepTop(target) /\ UNCHANGED archive ELSE UNCHANGED deVars

\* The population shrinks to the planned size, and the archive with it.
Reduce(target, capacity) ==
  IF target < Size THEN KeepTop(target) /\ Trim(archive, capacity) ELSE UNCHANGED deVars

\* Linear population size reduction, along the evaluations spent.
LinearPlan(initial, floor) ==
  LET plan == RoundedQuotient(initial * budget - (initial - floor) * fes, budget)
  IN IF plan < floor THEN floor ELSE plan

-----------------------------------------------------------------------------
(* Properties.                                                             *)

\* Every row keeps the fitness of its own layout, through replacement and reordering.
RowsAligned == fitness = PowerOf(population)

\* The population holds a row as good as anything evaluated: the best of the run is not
\* only remembered by the run.
BestInPopulation == \E r \in Rows : fitness[r] = best

\* No step loses ground: whatever the reordering, at every power the population keeps
\* as many rows at least that good as it had, as far as kept of them are protected.
GroundKept(kept) ==
  \A l \in Layouts :
    LET before == Cardinality({r \in Rows : fitness[r] >= Power[l]})
        after == Cardinality({r \in DOMAIN fitness' : fitness'[r] >= Power[l]})
    IN after >= before \/ after >= kept
=============================================================================
