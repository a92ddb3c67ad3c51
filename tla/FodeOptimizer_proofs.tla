------------------------ MODULE FodeOptimizer_proofs -------------------------
(***************************************************************************)
(* The safety of the FODE state machine for every population size, budget, *)
(* archive rate, history depth, set of layouts and objective.              *)
(***************************************************************************)
EXTENDS FodeOptimizer, FiniteSetTheorems, TLAPS

\* The ledger at every stage: a generation in flight has paid for its batch and
\* is not yet in legacy_fes.
Ledger ==
  /\ fes <= Budget
  /\ pc = "loop" => legacy + InitialSize <= fes
  /\ pc \in {"select", "reduce", "count"} => legacy + Size + InitialSize <= fes
  /\ pc = "local" => legacy + InitialSize <= fes /\ fes < Budget
  /\ pc \in {"finish", "done"} => fes = Budget

IInv ==
  /\ TypeOK
  /\ RowsAligned
  /\ Ledger
  /\ BestCoversSearch
  /\ ArchiveSound
  /\ DrawsPossible

-----------------------------------------------------------------------------
(* Facts about the operators of a generation.                              *)

\* llround of a quotient of integers is an integer.
LEMMA RoundedInt ==
  ASSUME NEW n \in Int, NEW d \in Nat, d > 0
  PROVE  RoundedQuotient(n, d) \in Int
BY DEF RoundedQuotient

\* The population never has more rows than it started with, and its size is a
\* number.
LEMMA SizeType == TypeOK => IsFiniteSet(Rows) /\ Size \in Nat
<1> SUFFICES ASSUME TypeOK PROVE IsFiniteSet(Rows)
  BY FS_CardinalityType DEF Size
<1>1. IsFiniteSet(Slots)
  BY FS_Interval, FodeAssumption DEF Slots
<1>2. Rows \subseteq Slots
  BY DEF TypeOK
<1>3. QED
  BY <1>1, <1>2, FS_Subset

\* A population that can draw r2 has a row.
LEMMA SomeRow == DrawsPossible => Rows # {}
BY FS_EmptySet DEF DrawsPossible, Size

\* The planned population leaves the redraw loops enough rows.
LEMMA PlanFloor ==
  TypeOK => PlannedPopulation \in Int /\ PlannedPopulation >= 3
<1> SUFFICES ASSUME TypeOK PROVE PlannedPopulation \in Int /\ PlannedPopulation >= 3
  OBVIOUS
<1> DEFINE n == InitialSize * Budget - (InitialSize - MinimumPopulation) * legacy
<1>1. MinimumPopulation \in Int /\ MinimumPopulation >= 3
  BY FodeAssumption DEF MinimumPopulation
<1>2. n \in Int
  BY <1>1, FodeAssumption DEF TypeOK
<1>3. Budget \in Nat /\ Budget > 0
  BY FodeAssumption
<1> HIDE DEF n
<1>4. RoundedQuotient(n, Budget) \in Int
  BY <1>2, <1>3, RoundedInt
<1>5. QED
  BY <1>1, <1>4 DEF PlannedPopulation, n

\* Committing a batch keeps best the greatest power seen and bestLayout its owner.
LEMMA CommitCovers ==
  ASSUME NEW S, NEW batch \in [S -> Layouts], BestCoversSearch, TypeOK,
         CommitBest(batch),
         searched' = searched \cup {batch[r] : r \in S}
  PROVE  BestCoversSearch' /\ best' \in Nat /\ bestLayout' \in Layouts
<1>1. \A r \in S : Power[batch[r]] \in Nat /\ Power[batch[r]] > 0
  BY FodeAssumption
<1>2. CASE \A r \in S : Power[batch[r]] <= best
  BY <1>1, <1>2 DEF CommitBest, BestCoversSearch, TypeOK
<1>3. CASE \E r \in S : ~(Power[batch[r]] <= best)
  <2>1. PICK r \in S : /\ \A s \in S : \/ Power[batch[s]] < Power[batch[r]]
                                       \/ Power[batch[s]] = Power[batch[r]]
                       /\ best' = Power[batch[r]]
                       /\ bestLayout' = batch[r]
    BY <1>3 DEF CommitBest
  <2>2. best' > best
    BY <1>1, <1>3, <2>1 DEF TypeOK
  <2>3. \A l \in searched : Power[l] \in Nat
    BY FodeAssumption DEF TypeOK
  <2>4. QED
    BY <1>1, <2>1, <2>2, <2>3 DEF BestCoversSearch, TypeOK
<1>4. QED
  BY <1>2, <1>3
-----------------------------------------------------------------------------
(* The invariant, one lemma per stage of a generation.                     *)

\* The initial population satisfies the invariant.
LEMMA InitIInv == Init => IInv
<1> SUFFICES ASSUME Init PROVE IInv
  OBVIOUS
<1> USE FodeAssumption
<1>1. Rows = Slots /\ Size = InitialSize
  <2>1. Rows = Slots
    BY DEF Init, Rows
  <2>2. Cardinality(1 .. InitialSize) = InitialSize
    BY FS_Interval
  <2>3. QED
    BY <2>1, <2>2 DEF Size, Slots
<1>2. TypeOK
  <2>1. fitness \in [Rows -> Nat] /\ population \in [Rows -> Layouts]
    BY <1>1 DEF Init
  <2>2. history \in [Families -> [1 .. Depth -> SUBSET Slots]]
    BY DEF Init
  <2>3. bestLayout \in Layouts
    BY DEF Init
  <2>4. QED
    BY <1>1, <2>1, <2>2, <2>3 DEF TypeOK, Init, Stages
<1>3. RowsAligned
  <2>1. \A f \in Families, k \in 1 .. Depth : history[f][k] = {}
    BY DEF Init
  <2>2. \A f \in Families, k \in 2 .. Depth : history[f][k] = {}
    BY <2>1
  <2>3. QED
    BY <1>1, <2>1, <2>2 DEF RowsAligned, Init
<1>4. Ledger /\ DrawsPossible
  BY <1>1 DEF Init, Ledger, DrawsPossible
<1>5. BestCoversSearch
  BY DEF Init, BestCoversSearch
<1>6. ArchiveSound
  <2>1. ArchiveCapacity(Size) >= 0
    BY <1>1 DEF ArchiveCapacity, RoundedQuotient
  <2>2. QED
    BY <2>1, FS_EmptySet DEF Init, ArchiveSound
<1>7. QED
  BY <1>2, <1>3, <1>4, <1>5, <1>6 DEF IInv

\* A batch, whole or cut short by the budget, preserves the invariant.
LEMMA EvaluateStep == IInv /\ EvaluateChildren => IInv'
<1> SUFFICES ASSUME IInv, EvaluateChildren PROVE IInv'
  OBVIOUS
<1> USE FodeAssumption DEF IInv
<1> DEFINE completed == IF Size <= Budget - fes THEN Size ELSE Budget - fes
<1>1. PICK batch \in [Affordable(completed) -> Layouts] :
        /\ child' = batch
        /\ fes' = fes + completed
        /\ promising' = Promising(batch)
        /\ searched' = searched \cup {batch[r] : r \in DOMAIN batch}
        /\ CommitBest(batch)
        /\ pc' = IF completed < Size THEN "finish" ELSE "select"
  BY DEF EvaluateChildren
<1>2. /\ pc = "loop" /\ fes < Budget
      /\ UNCHANGED <<legacy, population, fitness, archive, history>>
  BY DEF EvaluateChildren
<1>3. Size \in Nat /\ UNCHANGED <<Rows, Size>>
  BY <1>2, SizeType DEF Rows, Size
<1>4. BestCoversSearch' /\ best' \in Nat /\ bestLayout' \in Layouts
  BY <1>1, CommitCovers
<1>5. Affordable(completed) = Rows \/ pc' # "select"
  <2>1. ASSUME NEW r \in Rows, completed = Size PROVE r \in Affordable(completed)
    <3>1. {q \in Rows : q < r} \in SUBSET Rows /\ {q \in Rows : q < r} # Rows
      BY DEF TypeOK, Slots
    <3>2. Cardinality({q \in Rows : q < r}) < Size
      BY <3>1, SizeType, FS_Subset, FS_CardinalityType DEF Size
    <3>3. QED
      BY <2>1, <3>2 DEF Affordable
  <2>2. completed < Size \/ completed = Size
    BY <1>3 DEF TypeOK
  <2>3. completed < Size => pc' # "select"
    BY <1>1
  <2>4. Affordable(completed) \subseteq Rows
    BY DEF Affordable
  <2>5. QED
    BY <2>1, <2>2, <2>3, <2>4
<1>6. TypeOK'
  <2>1. promising' \in BOOLEAN /\ searched' \subseteq Layouts
    BY <1>1 DEF TypeOK, Promising
  <2>2. fes' \in Nat
    BY <1>1, <1>2, <1>3 DEF TypeOK
  <2>3. pc' \in Stages /\ (pc' = "select" => child' \in [Rows' -> Layouts])
    BY <1>1, <1>3, <1>5 DEF Stages
  <2>4. QED
    BY <1>2, <1>3, <1>4, <2>1, <2>2, <2>3 DEF TypeOK
<1>7. RowsAligned'
  BY <1>1, <1>2, <1>3 DEF RowsAligned
<1>8. Ledger'
  <2>1. /\ legacy \in Nat /\ fes \in Nat /\ legacy + InitialSize <= fes
        /\ legacy' = legacy /\ Size' = Size /\ fes' = fes + completed
        /\ pc' = IF completed < Size THEN "finish" ELSE "select"
    BY <1>1, <1>2, <1>3 DEF Ledger, TypeOK
  <2>2. CASE completed < Size
    <3>1. fes' = Budget /\ pc' = "finish"
      BY <1>2, <1>3, <2>1, <2>2
    <3>2. QED
      BY <3>1 DEF Ledger
  <2>3. CASE ~(completed < Size)
    <3>1. fes' = fes + Size /\ fes' <= Budget /\ pc' = "select"
      BY <1>2, <1>3, <2>1, <2>3
    <3>2. legacy' + Size' + InitialSize <= fes'
      BY <1>3, <2>1, <3>1
    <3>3. QED
      BY <3>1, <3>2 DEF Ledger
  <2>4. QED
    BY <2>2, <2>3
<1>9. ArchiveSound' /\ DrawsPossible'
  BY <1>2, <1>3 DEF ArchiveSound, DrawsPossible
<1>10. QED
  BY <1>4, <1>6, <1>7, <1>8, <1>9

\* Trimming keeps a part of the layouts that fits the capacity.
LEMMA TrimBounds ==
  ASSUME NEW layouts, NEW capacity, Trim(layouts, capacity)
  PROVE  /\ archive' \subseteq layouts
         /\ Cardinality(archive') <= capacity \/ Cardinality(archive') = capacity
BY DEF Trim

\* Replacing the beaten parents preserves the invariant.
LEMMA SelectStep == IInv /\ SelectSurvivors => IInv'
<1> SUFFICES ASSUME IInv, SelectSurvivors PROVE IInv'
  OBVIOUS
<1> USE FodeAssumption DEF IInv, SelectSurvivors
<1>1. Size \in Nat /\ UNCHANGED <<Rows, Size>>
  BY SizeType DEF Rows, Size
<1>2. child \in [Rows -> Layouts] /\ \A r \in Rows : Power[child[r]] \in Nat \ {0}
  BY DEF TypeOK
<1>3. /\ population' \in [Rows -> Layouts] /\ fitness' \in [Rows -> Nat]
      /\ \A r \in Rows : fitness'[r] = Power[population'[r]] /\ fitness'[r] >= fitness[r]
  <2>1. \A r \in Rows : fitness[r] = Power[population[r]] /\ fitness[r] \in Nat
    BY DEF RowsAligned, TypeOK
  <2>2. \A r \in Rows : population[r] \in Layouts
    BY DEF TypeOK
  <2>3. QED
    BY <1>2, <2>1, <2>2 DEF Accepted
<1>4. history' \in [Families -> [1 .. Depth -> SUBSET Slots]]
  <2>1. ASSUME NEW f \in Families, NEW k \in 1 .. Depth
        PROVE  (IF k = 1 THEN Rows ELSE history[f][k - 1]) \in SUBSET Slots
    <3>1. CASE k = 1
      BY <3>1 DEF TypeOK
    <3>2. CASE k # 1
      <4>1. k - 1 \in 1 .. Depth
        BY <3>2
      <4>2. QED
        BY <3>2, <4>1 DEF TypeOK
    <3>3. QED
      BY <3>1, <3>2
  <2>2. QED
    BY <2>1
<1>5. archive' \subseteq archive \cup {population[r] : r \in Accepted}
  BY TrimBounds
<1>6. TypeOK'
  <2>1. archive' \subseteq Layouts
    BY <1>5 DEF TypeOK, Accepted
  <2>2. QED
    BY <1>1, <1>3, <1>4, <2>1 DEF TypeOK, Stages
<1>7. RowsAligned'
  <2>1. ASSUME NEW f \in Families, NEW k \in 1 .. Depth
        PROVE  /\ history'[f][k] = IF k = 1 THEN Rows ELSE history[f][k - 1]
               /\ k # 1 => k - 1 \in 1 .. Depth
    BY DEF TypeOK
  <2>2. \A f \in Families, k \in 1 .. Depth : history'[f][k] \in {{}, Rows}
    BY <2>1 DEF RowsAligned
  <2>3. ASSUME NEW f \in Families, NEW k \in 2 .. Depth, history'[f][k] # {}
        PROVE  history'[f][k - 1] # {}
    <3>1. CASE k = 2
      <4>1. Rows # {}
        BY SomeRow
      <4>2. QED
        BY <2>1, <3>1, <4>1
    <3>2. CASE k # 2
      <4>1. k - 1 \in 2 .. Depth /\ k - 1 - 1 \in 1 .. Depth
        BY <3>2
      <4>2. history[f][k - 1] # {} => history[f][k - 1 - 1] # {}
        BY <4>1 DEF RowsAligned
      <4>3. k \in 1 .. Depth /\ k - 1 \in 1 .. Depth /\ k - 1 # 1 /\ k # 1
        BY <3>2
      <4>4. history'[f][k] = history[f][k - 1]
        BY <2>1, <4>3
      <4>5. history'[f][k - 1] = history[f][k - 1 - 1]
        BY <2>1, <4>3
      <4>6. QED
        BY <2>3, <4>2, <4>4, <4>5
    <3>3. QED
      BY <3>1, <3>2
  <2>4. QED
    BY <1>1, <1>3, <2>2, <2>3 DEF RowsAligned
<1>8. Ledger' /\ DrawsPossible'
  BY <1>1 DEF Ledger, DrawsPossible
<1>9. ArchiveSound'
  <2>1. ASSUME NEW l \in archive' PROVE \E r \in Rows : Power[l] < fitness'[r]
    <3>1. CASE l \in archive
      <4>1. PICK r \in Rows : Power[l] < fitness[r]
        BY <3>1 DEF ArchiveSound
      <4>2. Power[l] \in Nat /\ fitness[r] \in Nat /\ fitness'[r] \in Nat
        BY <1>3, <3>1 DEF TypeOK
      <4>3. QED
        BY <1>3, <4>1, <4>2
    <3>2. CASE \E r \in Accepted : l = population[r]
      <4>1. PICK r \in Accepted : l = population[r]
        BY <3>2
      <4>2. fitness'[r] = Power[child[r]] /\ fitness[r] = Power[l]
        BY <4>1 DEF Accepted, RowsAligned
      <4>3. QED
        BY <4>1, <4>2, <1>2 DEF Accepted, TypeOK
    <3>3. QED
      BY <1>5, <3>1, <3>2
  <2>2. Cardinality(archive') <= ArchiveCapacity(Size)
    <3>1. ArchiveCapacity(Size) \in Int
      BY <1>1, RoundedInt DEF ArchiveCapacity
    <3>2. QED
      BY <3>1, TrimBounds
  <2>3. QED
    BY <1>1, <2>1, <2>2 DEF ArchiveSound
<1>10. BestCoversSearch'
  BY DEF BestCoversSearch
<1>11. QED
  BY <1>6, <1>7, <1>8, <1>9, <1>10
\* Reducing the population, and everything aligned with it, preserves the invariant.
LEMMA ReduceStep == IInv /\ Reduce => IInv'
<1> SUFFICES ASSUME IInv, Reduce PROVE IInv'
  OBVIOUS
<1> USE FodeAssumption DEF IInv
<1>1. PICK keep \in SUBSET Rows :
        /\ IsElite(keep, PlannedPopulation)
        /\ population' = Restricted(population, keep)
        /\ fitness' = Restricted(fitness, keep)
        /\ history' = [f \in Families |->
                         [k \in 1 .. Depth |-> history[f][k] \cap keep]]
  BY DEF Reduce
<1>2. /\ pc = "reduce" /\ Size > PlannedPopulation
      /\ Trim(archive, ArchiveCapacity(PlannedPopulation))
      /\ pc' = IF Drifted THEN "drifted" ELSE "count"
      /\ UNCHANGED <<fes, legacy, child, promising, best, bestLayout, searched>>
  BY DEF Reduce
<1>3. Size \in Nat /\ PlannedPopulation \in Int /\ PlannedPopulation >= 3
  BY SizeType, PlanFloor
<1>4. Rows' = keep /\ Size' = PlannedPopulation /\ keep \subseteq Slots
  BY <1>1 DEF Rows, Size, IsElite, Restricted, TypeOK
<1>5. ~Drifted
  BY DEF Drifted, RowsAligned, Size
<1>6. TypeOK'
  <2>1. population' \in [keep -> Layouts] /\ fitness' \in [keep -> Nat]
    BY <1>1 DEF TypeOK, Restricted
  <2>2. history' \in [Families -> [1 .. Depth -> SUBSET Slots]]
    BY <1>1, <1>4
  <2>3. archive' \subseteq Layouts
    BY <1>2, TrimBounds DEF TypeOK
  <2>4. QED
    BY <1>2, <1>4, <1>5, <2>1, <2>2, <2>3 DEF TypeOK, Stages
<1>7. RowsAligned'
  <2>1. \A r \in keep : fitness'[r] = Power[population'[r]]
    BY <1>1 DEF RowsAligned, Restricted
  <2>2. \A f \in Families, k \in 1 .. Depth :
          history'[f][k] = history[f][k] \cap keep
    BY <1>1
  <2>3. ASSUME NEW f \in Families, NEW k \in 1 .. Depth
        PROVE  history'[f][k] \in {{}, keep}
    <3>1. history[f][k] = {} \/ history[f][k] = Rows
      BY DEF RowsAligned
    <3>2. history'[f][k] = history[f][k] \cap keep
      BY <2>2
    <3>3. QED
      BY <3>1, <3>2
  <2>4. ASSUME NEW f \in Families, NEW k \in 2 .. Depth, history'[f][k] # {}
        PROVE  history'[f][k - 1] # {}
    <3>1. k \in 1 .. Depth /\ k - 1 \in 1 .. Depth
      OBVIOUS
    <3>2. history[f][k] # {}
      BY <2>2, <2>4, <3>1
    <3>3. history[f][k - 1] # {}
      BY <3>2 DEF RowsAligned
    <3>4. history[f][k - 1] = Rows
      BY <3>1, <3>3 DEF RowsAligned
    <3>5. keep # {}
      BY <2>2, <2>4, <3>1
    <3>6. QED
      BY <2>2, <3>1, <3>4, <3>5
  <2>5. QED
    BY <1>2, <1>4, <1>5, <2>1, <2>3, <2>4 DEF RowsAligned
<1>8. Ledger' /\ DrawsPossible'
  BY <1>2, <1>3, <1>4, <1>5 DEF Ledger, DrawsPossible, TypeOK
<1>9. ArchiveSound'
  <2>1. archive' \subseteq archive
    BY <1>2, TrimBounds
  <2>2. ASSUME NEW l \in archive' PROVE \E r \in keep : Power[l] < fitness'[r]
    <3>1. PICK q \in Rows : Power[l] < fitness[q]
      BY <2>1 DEF ArchiveSound
    <3>2. CASE q \in keep
      BY <1>1, <3>1, <3>2 DEF Restricted
    <3>3. CASE q \notin keep
      <4>1. PICK r \in keep : TRUE
        BY <1>3, <1>4, FS_EmptySet DEF Size
      <4>2. RankedBefore(r, q)
        BY <1>1, <3>3 DEF IsElite
      <4>3. fitness[r] \in Nat /\ fitness[q] \in Nat /\ Power[l] \in Nat
        BY <2>1 DEF TypeOK
      <4>4. fitness[r] >= fitness[q]
        BY <4>2, <4>3 DEF RankedBefore
      <4>5. fitness'[r] = fitness[r]
        BY <1>1 DEF Restricted
      <4>6. QED
        BY <3>1, <4>3, <4>4, <4>5
    <3>4. QED
      BY <3>2, <3>3
  <2>3. Cardinality(archive') <= ArchiveCapacity(PlannedPopulation)
    <3>1. ArchiveCapacity(PlannedPopulation) \in Int
      BY <1>3, RoundedInt DEF ArchiveCapacity
    <3>2. QED
      BY <1>2, <3>1, TrimBounds
  <2>4. QED
    BY <1>4, <2>2, <2>3 DEF ArchiveSound
<1>10. BestCoversSearch'
  BY <1>2 DEF BestCoversSearch
<1>11. QED
  BY <1>6, <1>7, <1>8, <1>9, <1>10

\* One local candidate preserves the invariant.
LEMMA LocalStep == IInv /\ LocalSearch => IInv'
<1> SUFFICES ASSUME IInv, LocalSearch PROVE IInv'
  OBVIOUS
<1> USE FodeAssumption DEF IInv, LocalSearch
<1>1. PICK layout \in Layouts :
        CommitBest(<<layout>>) /\ searched' = searched \cup {layout}
  OBVIOUS
<1>2. Size \in Nat /\ UNCHANGED <<Rows, Size>>
  BY SizeType DEF Rows, Size
<1>3. BestCoversSearch' /\ best' \in Nat /\ bestLayout' \in Layouts
  <2>1. <<layout>> \in [1 .. 1 -> Layouts]
    OBVIOUS
  <2>2. {<<layout>>[r] : r \in 1 .. 1} = {layout}
    OBVIOUS
  <2>3. QED
    BY <1>1, <2>1, <2>2, CommitCovers
<1>4. TypeOK'
  BY <1>1, <1>2, <1>3 DEF TypeOK, Stages
<1>5. Ledger' /\ DrawsPossible' /\ RowsAligned' /\ ArchiveSound'
  BY <1>2 DEF Ledger, DrawsPossible, RowsAligned, ArchiveSound, TypeOK
<1>6. QED
  BY <1>3, <1>4, <1>5

\* The steps that only move the run on preserve the invariant.
LEMMA MoveOnStep ==
  IInv /\ (KeepPopulation \/ CountLegacy \/ LeaveLoop \/ Finalize \/ UNCHANGED vars)
    => IInv'
<1> SUFFICES ASSUME IInv,
                    KeepPopulation \/ CountLegacy \/ LeaveLoop \/ Finalize \/ UNCHANGED vars
             PROVE  IInv'
  OBVIOUS
<1> USE FodeAssumption
        DEF IInv, KeepPopulation, CountLegacy, LeaveLoop, Finalize, vars
<1>1. Size \in Nat /\ UNCHANGED <<Rows, Size>>
  BY SizeType DEF Rows, Size
<1>2. TypeOK'
  BY <1>1 DEF TypeOK, Stages
<1>3. Ledger'
  BY <1>1 DEF Ledger, TypeOK
<1>4. RowsAligned' /\ DrawsPossible' /\ ArchiveSound'
  BY <1>1 DEF RowsAligned, DrawsPossible, ArchiveSound
<1>5. BestCoversSearch'
  BY DEF BestCoversSearch
<1>6. QED
  BY <1>2, <1>3, <1>4, <1>5

-----------------------------------------------------------------------------
(* What the invariant says of every run.                                   *)

\* The inductive invariant holds in every state of every run.
THEOREM Invariance == Spec => []IInv
<1>1. IInv /\ [Next]_vars => IInv'
  BY EvaluateStep, SelectStep, ReduceStep, LocalStep, MoveOnStep
     DEF Next, Generation, Ended
<1>2. QED
  BY InitIInv, <1>1, PTL DEF Spec

\* Every matrix keeps one row per individual, so retain_rows never throws.
THEOREM NeverDrifts == Spec => [](TypeOK /\ RowsAligned)
<1>1. IInv => TypeOK /\ RowsAligned
  BY DEF IInv
<1>2. QED
  BY <1>1, Invariance, PTL

\* For every budget that pays for the initial population, a run spends exactly it.
THEOREM BudgetSpentExactly == Spec => []ExactBudget
<1>1. IInv => ExactBudget
  BY DEF IInv, Ledger, ExactBudget
<1>2. QED
  BY <1>1, Invariance, PTL

\* The reported layout is the best the search evaluated, with its own power.
THEOREM BestIsBest == Spec => []BestCoversSearch
<1>1. IInv => BestCoversSearch
  BY DEF IInv
<1>2. QED
  BY <1>1, Invariance, PTL

\* The archive respects its capacity and stays behind the population's best.
THEOREM ArchiveStaysSound == Spec => []ArchiveSound
<1>1. IInv => ArchiveSound
  BY DEF IInv
<1>2. QED
  BY <1>1, Invariance, PTL

\* The redraw loops always have a row left to find.
THEOREM DrawsStayPossible == Spec => []DrawsPossible
<1>1. IInv => DrawsPossible
  BY DEF IInv
<1>2. QED
  BY <1>1, Invariance, PTL
\* No generation loses ground: rows never get worse, and LPSR drops the worst.
THEOREM EliteIsKept == Spec => EliteKept
<1> DEFINE Kept == /\ Rows' \subseteq Rows
                   /\ \A r \in Rows' : fitness'[r] >= fitness[r]
                   /\ \A r \in Rows', q \in Rows \ Rows' : fitness'[r] >= fitness[q]
<1>1. IInv /\ [Next]_vars => [Kept]_vars
  <2> SUFFICES ASSUME IInv, Next PROVE Kept
    OBVIOUS
  <2> USE DEF IInv
  <2>1. \A r \in Rows : fitness[r] \in Nat
    BY DEF TypeOK
  <2>2. CASE UNCHANGED <<population, fitness>>
    BY <2>1, <2>2 DEF Rows
  <2>3. CASE SelectSurvivors
    <3>1. child \in [Rows -> Layouts] /\ \A r \in Rows : Power[child[r]] \in Nat
      BY <2>3, FodeAssumption DEF SelectSurvivors, TypeOK
    <3>2. Rows' = Rows
      BY <2>3 DEF SelectSurvivors, Rows
    <3>3. \A r \in Rows : fitness'[r] >= fitness[r]
      BY <2>1, <2>3, <3>1 DEF SelectSurvivors, Accepted
    <3>4. QED
      BY <3>2, <3>3
  <2>4. CASE Reduce
    <3>1. PICK keep \in SUBSET Rows :
            /\ IsElite(keep, PlannedPopulation)
            /\ population' = Restricted(population, keep)
            /\ fitness' = Restricted(fitness, keep)
      BY <2>4 DEF Reduce
    <3>2. Rows' = keep
      BY <3>1 DEF Rows, Restricted
    <3>3. \A r \in keep : fitness'[r] = fitness[r]
      BY <3>1 DEF Restricted
    <3>4. \A r \in keep, q \in Rows \ keep : fitness[r] >= fitness[q]
      BY <2>1, <3>1 DEF IsElite, RankedBefore
    <3>5. QED
      BY <2>1, <3>2, <3>3, <3>4
  <2>5. QED
    BY <2>2, <2>3, <2>4 DEF Next, Generation, Ended, EvaluateChildren, KeepPopulation,
       CountLegacy, LocalSearch, LeaveLoop, Finalize, vars
<1>2. QED
  BY <1>1, Invariance, PTL DEF Spec, EliteKept

-----------------------------------------------------------------------------
(* FODE implements the abstract fixed-work search.                         *)

\* Committing a batch leaves best alone or raises it to the power of a layout.
LEMMA CommitImproves ==
  ASSUME NEW S, NEW batch \in [S -> Layouts], TypeOK, CommitBest(batch)
  PROVE  best' \in {best} \cup {v \in {Power[l] : l \in Layouts} : v > best}
<1>1. \A r \in S : Power[batch[r]] \in Nat /\ batch[r] \in Layouts
  BY FodeAssumption
<1>2. CASE \A r \in S : Power[batch[r]] <= best
  BY <1>2 DEF CommitBest
<1>3. CASE \E r \in S : ~(Power[batch[r]] <= best)
  <2>1. PICK r \in S : /\ \A s \in S : \/ Power[batch[s]] < Power[batch[r]]
                                       \/ Power[batch[s]] = Power[batch[r]]
                       /\ best' = Power[batch[r]]
    BY <1>3 DEF CommitBest
  <2>2. best' > best
    BY <1>1, <1>3, <2>1 DEF TypeOK
  <2>3. QED
    BY <1>1, <2>1, <2>2
<1>4. QED
  BY <1>2, <1>3

\* Every step of a FODE run is a step of the fixed-work search or invisible to it.
THEOREM FodeIsFixedWork == Spec => ImplementsFixedWork
<1>1. Init => FW!FWInit
  BY FodeAssumption DEF Init, FW!FWInit
<1>2. IInv /\ [Next]_vars => [FW!FWNext]_FW!fwvars
  <2> SUFFICES ASSUME IInv, [Next]_vars PROVE FW!FWNext \/ UNCHANGED FW!fwvars
    OBVIOUS
  <2> USE FodeAssumption DEF IInv
  <2>1. fes \in Nat /\ legacy \in Nat /\ best \in Nat /\ Size \in Nat /\ Size >= 3
    BY SizeType DEF TypeOK, DrawsPossible
  <2>2. CASE EvaluateChildren
    <3> DEFINE completed == IF Size <= Budget - fes THEN Size ELSE Budget - fes
    <3>1. PICK batch \in [Affordable(completed) -> Layouts] :
            /\ fes' = fes + completed
            /\ CommitBest(batch)
            /\ pc' = IF completed < Size THEN "finish" ELSE "select"
      BY <2>2 DEF EvaluateChildren
    <3>2. pc = "loop" /\ fes < Budget
      BY <2>2 DEF EvaluateChildren
    <3>3. fes' \in (fes + 1) .. Budget
      BY <2>1, <3>1, <3>2
    <3>4. best' \in {best} \cup {v \in {Power[l] : l \in Layouts} : v > best}
      BY <3>1, CommitImproves
    <3>5. pc # "done" /\ pc' # "done"
      BY <3>1, <3>2
    <3>6. QED
      BY <3>3, <3>4, <3>5 DEF FW!FWNext, FW!Evaluate
  <2>3. CASE LocalSearch
    <3>1. PICK layout \in Layouts : CommitBest(<<layout>>)
      BY <2>3 DEF LocalSearch
    <3>2. <<layout>> \in [1 .. 1 -> Layouts]
      OBVIOUS
    <3>3. best' \in {best} \cup {v \in {Power[l] : l \in Layouts} : v > best}
      BY <3>1, <3>2, CommitImproves
    <3>4. fes' \in (fes + 1) .. Budget
      BY <2>1, <2>3 DEF LocalSearch, Ledger
    <3>5. pc # "done" /\ pc' # "done"
      BY <2>3 DEF LocalSearch
    <3>6. QED
      BY <3>3, <3>4, <3>5 DEF FW!FWNext, FW!Evaluate
  <2>4. CASE Finalize
    BY <2>4 DEF Finalize, Ledger, FW!FWNext, FW!Finish
  <2>5. CASE SelectSurvivors \/ Reduce \/ KeepPopulation \/ CountLegacy \/ LeaveLoop
    <3>1. UNCHANGED <<fes, best>> /\ pc # "done" /\ pc' # "done"
      BY <2>5 DEF SelectSurvivors, Reduce, KeepPopulation, CountLegacy, LeaveLoop
    <3>2. QED
      BY <3>1 DEF FW!fwvars
  <2>6. CASE UNCHANGED vars
    BY <2>6 DEF vars, FW!fwvars
  <2>7. QED
    BY <2>2, <2>3, <2>4, <2>5, <2>6 DEF Next, Generation, Ended
<1>3. QED
  BY <1>1, <1>2, Invariance, PTL DEF Spec, ImplementsFixedWork, FW!FWSpec
=============================================================================
