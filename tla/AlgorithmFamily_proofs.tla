----------------------- MODULE AlgorithmFamily_proofs -----------------------
(***************************************************************************)
(* Proofs about AlgorithmFamily: what the searches compute at each step    *)
(* keeps their vectors parallel, their best and their archives, and every  *)
(* search is a FixedWorkSearch.                                            *)
(*                                                                         *)
(* First come the runtime, rankings, the choice of the best rows, batches  *)
(* of trials and archives, for any population; then each of the eight      *)
(* modules, with the invariant of its searches and the lemma that a step   *)
(* keeps it; then their sum, FamilyInv, and the theorems.                  *)
(***************************************************************************)
EXTENDS AlgorithmFamily, FunctionTheorems, FiniteSetTheorems, TLAPS

-----------------------------------------------------------------------------
(* The runtime.                                                            *)

\* The count of a run.
Counting ==
  /\ RuntimeSetting(Setting[algorithm])
  /\ budget \in Setting[algorithm].budgets
  /\ fes \in 0 .. budget

\* What holds of struct Runtime between any two calls.
RunSound ==
  /\ RuntimeSetting(Setting[algorithm])
  /\ budget \in Setting[algorithm].budgets
  /\ fes \in 0 .. budget
  /\ best \in Nat
  /\ tracked \subseteq Layouts
  /\ ReportsBest

\* What a step of a run never changes.
SameCase == algorithm' = algorithm /\ budget' = budget

\* The count and the powers are numbers.
LEMMA CountTypes ==
  ASSUME Counting
  PROVE  /\ budget \in Nat /\ budget > 0 /\ fes \in Nat /\ fes <= budget
         /\ Power \in [Layouts -> Nat]
         /\ \A l \in Layouts : Power[l] \in Nat /\ Power[l] > 0
BY DEF Counting, RuntimeSetting, Layouts, Power

\* And so they are for the runtime.
LEMMA CaseTypes ==
  ASSUME RunSound
  PROVE  /\ budget \in Nat /\ budget > 0 /\ fes \in Nat /\ fes <= budget
         /\ Power \in [Layouts -> Nat]
         /\ \A l \in Layouts : Power[l] \in Nat /\ Power[l] > 0
BY CountTypes DEF RunSound, Counting

\* evaluate keeps what the runtime holds, and its best is the greatest seen.
LEMMA EvaluateSound ==
  ASSUME RunSound, NEW S, IsFiniteSet(S), NEW batch \in [S -> Layouts],
         fes + Cardinality(S) <= budget, Evaluate(batch)
  PROVE  /\ RunSound' /\ SameCase
         /\ fes' = fes + Cardinality(S)
         /\ best' \in Nat /\ best' >= best
         /\ best' = best \/ \E r \in S : best' = Power[batch[r]]
         /\ \A r \in S : Power[batch[r]] <= best'
         /\ tracked' = tracked \cup {batch[r] : r \in S}
<1>1. /\ SameCase
      /\ Setting[algorithm]' = Setting[algorithm]
      /\ Layouts' = Layouts /\ Power' = Power
      /\ fes' = fes + Cardinality(S)
      /\ tracked' = tracked \cup {batch[r] : r \in S}
  BY DEF Evaluate, SameCase, Layouts, Power
<1>2. Cardinality(S) \in Nat
  BY FS_CardinalityType
<1>3. /\ \A l \in Layouts : Power[l] \in Nat /\ Power[l] > 0
      /\ \A r \in S : batch[r] \in Layouts /\ Power[batch[r]] \in Nat /\ Power[batch[r]] > 0
  BY CaseTypes
<1>4. tracked' \subseteq Layouts
  BY <1>1, <1>3 DEF RunSound
<1>5. fes' \in 0 .. budget
  BY <1>1, <1>2, CaseTypes
<1>6. best \in Nat /\ ReportsBest /\ tracked \subseteq Layouts
  BY DEF RunSound
<1>7. CASE \A r \in S : Power[batch[r]] <= best
  <2>1. best' = best /\ bestLayout' = bestLayout
    BY <1>7 DEF Evaluate, Commit
  <2>2. tracked = {} => S = {}
    BY <1>3, <1>6, <1>7 DEF ReportsBest
  <2>3. ReportsBest'
    BY <1>1, <1>3, <1>6, <1>7, <2>1, <2>2 DEF ReportsBest
  <2> QED
    BY <1>1, <1>4, <1>5, <1>6, <1>7, <2>1, <2>3 DEF RunSound, SameCase
<1>8. CASE ~(\A r \in S : Power[batch[r]] <= best)
  <2>1. PICK r \in S :
          /\ \A s \in S : Power[batch[s]] <= Power[batch[r]]
          /\ best' = Power[batch[r]] /\ bestLayout' = batch[r]
    BY <1>3, <1>8 DEF Evaluate, Commit
  <2>2. best' > best /\ best' \in Nat
    BY <1>3, <1>6, <1>8, <2>1
  <2>3. \A l \in tracked : Power[l] <= best'
    BY <1>3, <1>6, <2>2 DEF ReportsBest
  <2>4. ReportsBest'
    BY <1>1, <1>3, <2>1, <2>2, <2>3 DEF ReportsBest
  <2> QED
    BY <1>1, <1>4, <1>5, <2>1, <2>2, <2>4 DEF RunSound, SameCase
<1> QED
  BY <1>7, <1>8

\* A batch that is not tracked is counted, and nothing else.
LEMMA UntrackedSound ==
  ASSUME RunSound, NEW S, IsFiniteSet(S), NEW batch \in [S -> Layouts],
         fes + Cardinality(S) <= budget, EvaluateUntracked(batch)
  PROVE  /\ RunSound' /\ SameCase
         /\ fes' = fes + Cardinality(S)
         /\ best' = best
<1>1. Cardinality(S) \in Nat
  BY FS_CardinalityType
<1>2. fes' = fes + Cardinality(S) /\ fes' \in 0 .. budget
  BY <1>1, CaseTypes DEF EvaluateUntracked
<1> QED
  BY <1>1, <1>2 DEF EvaluateUntracked, RunSound, SameCase, ReportsBest, Layouts, Power

\* Steps that evaluate nothing.
LEMMA UnchangedSound ==
  ASSUME RunSound, UNCHANGED runtimeVars
  PROVE  RunSound' /\ SameCase /\ best' = best /\ fes' = fes
BY DEF runtimeVars, RunSound, SameCase, ReportsBest, Layouts, Power

\* The rows of a batch the budget pays for: the first ones, all or what is left.
LEMMA PrefixCounts ==
  ASSUME Counting, NEW n \in Nat
  PROVE  /\ Prefix(1 .. n) = 1 .. (IF n <= budget - fes THEN n ELSE budget - fes)
         /\ IsFiniteSet(Prefix(1 .. n))
         /\ Cardinality(Prefix(1 .. n)) =
              IF n <= budget - fes THEN n ELSE budget - fes
         /\ fes + Cardinality(Prefix(1 .. n)) <= budget
<1> DEFINE left == budget - fes
           paid == IF n <= left THEN n ELSE left
<1>1. left \in Nat /\ paid \in Nat
  BY CountTypes
<1>2. ASSUME NEW r \in 1 .. n PROVE Cardinality({s \in 1 .. n : s < r}) = r - 1
  <2>1. {s \in 1 .. n : s < r} = 1 .. r - 1
    OBVIOUS
  <2>2. Cardinality(1 .. r - 1) = r - 1
    BY FS_Interval
  <2> QED
    BY <2>1, <2>2
<1>3. Prefix(1 .. n) = {r \in 1 .. n : r - 1 < left}
  BY <1>2 DEF Prefix
<1>4. Prefix(1 .. n) = 1 .. paid
  <2>1. \A r \in 1 .. n : r - 1 < left <=> r <= paid
    BY <1>1
  <2>2. paid <= n
    BY <1>1
  <2> HIDE DEF left, paid
  <2>3. {r \in 1 .. n : r - 1 < left} = {r \in 1 .. n : r <= paid}
    BY <2>1
  <2>4. {r \in 1 .. n : r <= paid} = 1 .. paid
    BY <1>1, <2>2
  <2> QED
    BY <1>3, <2>3, <2>4
<1>5. IsFiniteSet(1 .. paid) /\ Cardinality(1 .. paid) = paid
  <2> HIDE DEF paid
  <2> QED
    BY <1>1, FS_Interval, SMTT(30)
<1> QED
  BY <1>1, <1>4, <1>5, CountTypes

\* The same for the runtime.
LEMMA PrefixOfRows ==
  ASSUME RunSound, NEW n \in Nat
  PROVE  /\ Prefix(1 .. n) = 1 .. (IF n <= budget - fes THEN n ELSE budget - fes)
         /\ IsFiniteSet(Prefix(1 .. n))
         /\ Cardinality(Prefix(1 .. n)) =
              IF n <= budget - fes THEN n ELSE budget - fes
         /\ fes + Cardinality(Prefix(1 .. n)) <= budget
BY PrefixCounts DEF RunSound, Counting

-----------------------------------------------------------------------------
(* Rankings.                                                               *)

\* An interval of rows is finite.
LEMMA FiniteRows ==
  ASSUME NEW n \in Nat
  PROVE  IsFiniteSet(1 .. n) /\ Cardinality(1 .. n) = n
BY FS_Interval

\* The rows a ranking puts before a row.
Ahead(value, i) == {j \in DOMAIN value : Before(value, j, i)}

\* A ranking is a strict total order: rows further back have more rows ahead of them.
LEMMA AheadGrows ==
  ASSUME NEW n \in Nat, NEW value \in [1 .. n -> Int]
  PROVE  /\ \A i \in 1 .. n : Cardinality(Ahead(value, i)) \in 0 .. n - 1
         /\ \A i, j \in 1 .. n : Before(value, i, j) =>
              Cardinality(Ahead(value, i)) < Cardinality(Ahead(value, j))
<1>1. IsFiniteSet(1 .. n) /\ Cardinality(1 .. n) = n
  BY FS_Interval
<1>2. ASSUME NEW i \in 1 .. n
      PROVE  /\ IsFiniteSet(Ahead(value, i)) /\ Cardinality(Ahead(value, i)) \in Nat
             /\ IsFiniteSet(Ahead(value, i) \cup {i})
             /\ Cardinality(Ahead(value, i) \cup {i}) = Cardinality(Ahead(value, i)) + 1
  <2>1. Ahead(value, i) \in SUBSET (1 .. n)
    BY DEF Ahead
  <2>2. IsFiniteSet(Ahead(value, i))
    BY <1>1, <2>1, FS_Subset
  <2>3. i \notin Ahead(value, i)
    BY DEF Ahead, Before
  <2> QED
    BY <2>2, <2>3, FS_AddElement, FS_CardinalityType
<1>3. ASSUME NEW i \in 1 .. n PROVE Cardinality(Ahead(value, i)) \in 0 .. n - 1
  <2>1. Ahead(value, i) \cup {i} \in SUBSET (1 .. n)
    BY DEF Ahead
  <2>2. Cardinality(Ahead(value, i) \cup {i}) <= n
    BY <1>1, <2>1, FS_Subset
  <2>3. /\ Cardinality(Ahead(value, i)) \in Nat
        /\ Cardinality(Ahead(value, i) \cup {i}) = Cardinality(Ahead(value, i)) + 1
    BY <1>2
  <2> QED
    BY <2>2, <2>3
<1>4. ASSUME NEW i \in 1 .. n, NEW j \in 1 .. n, Before(value, i, j)
      PROVE  Cardinality(Ahead(value, i)) < Cardinality(Ahead(value, j))
  <2>1. Ahead(value, i) \cup {i} \in SUBSET Ahead(value, j)
    BY <1>4 DEF Ahead, Before
  <2>2. Cardinality(Ahead(value, i) \cup {i}) <= Cardinality(Ahead(value, j))
    BY <1>2, <2>1, FS_Subset
  <2>3. /\ Cardinality(Ahead(value, i)) \in Nat /\ Cardinality(Ahead(value, j)) \in Nat
        /\ Cardinality(Ahead(value, i) \cup {i}) = Cardinality(Ahead(value, i)) + 1
    BY <1>2
  <2> QED
    BY <2>2, <2>3
<1> QED
  BY <1>3, <1>4

\* Ranked puts every row at one place, the greater before the smaller.
LEMMA RankedSound ==
  ASSUME NEW n \in Nat, NEW value \in [1 .. n -> Int]
  PROVE  /\ Ranked(value) \in [1 .. n -> 1 .. n]
         /\ \A j, k \in 1 .. n : j < k => Before(value, Ranked(value)[j], Ranked(value)[k])
         /\ \A i \in 1 .. n : \E k \in 1 .. n : Ranked(value)[k] = i
<1> DEFINE place == [i \in 1 .. n |-> Cardinality(Ahead(value, i))]
<1>1. ASSUME NEW i \in 1 .. n, NEW j \in 1 .. n, i # j
      PROVE  Before(value, i, j) \/ Before(value, j, i)
  BY <1>1 DEF Before
<1>2. place \in Injection(1 .. n, 0 .. n - 1)
  <2>1. place \in [1 .. n -> 0 .. n - 1]
    BY AheadGrows
  <2>2. ASSUME NEW i \in 1 .. n, NEW j \in 1 .. n, place[i] = place[j] PROVE i = j
    <3>1. Cardinality(Ahead(value, i)) = Cardinality(Ahead(value, j))
          /\ Cardinality(Ahead(value, i)) \in Int
      BY <2>2, AheadGrows
    <3>2. ~Before(value, i, j) /\ ~Before(value, j, i)
      BY <3>1, AheadGrows
    <3> QED
      BY <1>1, <3>2
  <2> QED
    BY <2>1, <2>2 DEF Injection, IsInjective
<1>3. IsFiniteSet(0 .. n - 1) /\ Cardinality(0 .. n - 1) = n
  BY FS_Interval
<1>4. IsFiniteSet(1 .. n) /\ Cardinality(1 .. n) = n
  BY FS_Interval
<1>5. place \in Surjection(1 .. n, 0 .. n - 1)
  BY <1>2, <1>3, <1>4, FS_Injection
<1>6. ASSUME NEW k \in 1 .. n
      PROVE  Ranked(value)[k] \in 1 .. n /\ place[Ranked(value)[k]] = k - 1
  <2>1. \E i \in 1 .. n : place[i] = k - 1
    <3>1. k - 1 \in 0 .. n - 1
      OBVIOUS
    <3> HIDE DEF place
    <3> QED
      BY <1>5, <3>1 DEF Surjection
  <2>2. \E i \in 1 .. n : Cardinality(Ahead(value, i)) = k - 1
    BY <2>1
  <2>3. Ranked(value)[k] = CHOOSE i \in 1 .. n : Cardinality(Ahead(value, i)) = k - 1
    BY DEF Ranked, Ahead
  <2> QED
    BY <2>2, <2>3
<1>7. Ranked(value) \in [1 .. n -> 1 .. n]
  BY <1>6 DEF Ranked
<1>8. ASSUME NEW j \in 1 .. n, NEW k \in 1 .. n, j < k
      PROVE  Before(value, Ranked(value)[j], Ranked(value)[k])
  <2>1. place[Ranked(value)[j]] = j - 1 /\ place[Ranked(value)[k]] = k - 1
    BY <1>6
  <2>2. Ranked(value)[j] # Ranked(value)[k]
    BY <1>8, <2>1
  <2>3. ~Before(value, Ranked(value)[k], Ranked(value)[j])
    <3>1. Ranked(value)[j] \in 1 .. n /\ Ranked(value)[k] \in 1 .. n
      BY <1>6
    <3>2. Cardinality(Ahead(value, Ranked(value)[j])) = j - 1
          /\ Cardinality(Ahead(value, Ranked(value)[k])) = k - 1
      BY <2>1, <3>1
    <3>3. Before(value, Ranked(value)[k], Ranked(value)[j]) => k - 1 < j - 1
      BY <3>1, <3>2, AheadGrows
    <3> QED
      BY <1>8, <3>3
  <2> QED
    BY <1>1, <1>6, <2>2, <2>3
<1>9. ASSUME NEW i \in 1 .. n PROVE \E k \in 1 .. n : Ranked(value)[k] = i
  <2> DEFINE k == place[i] + 1
  <2>1. place[i] \in 0 .. n - 1
    BY <1>2 DEF Injection
  <2>2. k \in 1 .. n /\ k - 1 = place[i]
    BY <2>1
  <2>3. place[Ranked(value)[k]] = place[i] /\ Ranked(value)[k] \in 1 .. n
    BY <1>6, <2>2
  <2>4. Ranked(value)[k] = i
    BY <1>2, <2>3 DEF Injection, IsInjective
  <2> QED
    BY <2>2, <2>4
<1> QED
  BY <1>7, <1>8, <1>9

\* The ranked values come in decreasing order.
LEMMA RankedOrder ==
  ASSUME NEW n \in Nat, NEW value \in [1 .. n -> Int]
  PROVE  /\ \A k \in 1 .. n : Ranked(value)[k] \in 1 .. n
         /\ \A j, k \in 1 .. n : j <= k => value[Ranked(value)[j]] >= value[Ranked(value)[k]]
         /\ \A j, k \in 1 .. n : j # k => Ranked(value)[j] # Ranked(value)[k]
<1>1. \A k \in 1 .. n : Ranked(value)[k] \in 1 .. n
  BY RankedSound
<1>2. ASSUME NEW j \in 1 .. n, NEW k \in 1 .. n, j < k
      PROVE  /\ value[Ranked(value)[j]] >= value[Ranked(value)[k]]
             /\ Ranked(value)[j] # Ranked(value)[k]
  <2>1. Before(value, Ranked(value)[j], Ranked(value)[k])
    BY <1>2, RankedSound
  <2>2. /\ Ranked(value)[j] \in 1 .. n /\ Ranked(value)[k] \in 1 .. n
        /\ value[Ranked(value)[j]] \in Int /\ value[Ranked(value)[k]] \in Int
    BY <1>1
  <2> QED
    BY <2>1, <2>2 DEF Before
<1>3. ASSUME NEW j \in 1 .. n, NEW k \in 1 .. n, j <= k
      PROVE  value[Ranked(value)[j]] >= value[Ranked(value)[k]]
  <2>1. j = k \/ j < k
    BY <1>3
  <2>2. value[Ranked(value)[j]] \in Int
    BY <1>1
  <2> QED
    BY <1>2, <2>1, <2>2
<1>4. ASSUME NEW j \in 1 .. n, NEW k \in 1 .. n, j # k
      PROVE  Ranked(value)[j] # Ranked(value)[k]
  BY <1>2, <1>4
<1> QED
  BY <1>1, <1>3, <1>4

\* First is the first of the greatest rows.
LEMMA FirstIsBest ==
  ASSUME NEW n \in Nat \ {0}, NEW value \in [1 .. n -> Int]
  PROVE  /\ First(value) \in 1 .. n
         /\ \A j \in 1 .. n : value[j] <= value[First(value)]
         /\ \A j \in 1 .. n : value[j] = value[First(value)] => First(value) <= j
<1> DEFINE i == Ranked(value)[1]
<1>1. i \in 1 .. n
  BY RankedSound
<1>2. ASSUME NEW j \in 1 .. n, j # i PROVE Before(value, i, j)
  <2>1. PICK k \in 1 .. n : Ranked(value)[k] = j
    BY RankedSound
  <2>2. 1 \in 1 .. n /\ 1 < k
    BY <1>2, <2>1
  <2>3. Before(value, Ranked(value)[1], Ranked(value)[k])
    BY <2>2, RankedSound
  <2> QED
    BY <2>1, <2>3
<1>3. \E f \in 1 .. n : \A j \in 1 .. n \ {f} : Before(value, f, j)
  BY <1>1, <1>2
<1>4. First(value) = CHOOSE f \in 1 .. n : \A j \in 1 .. n \ {f} : Before(value, f, j)
  BY DEF First
<1>5. /\ First(value) \in 1 .. n
      /\ \A j \in 1 .. n \ {First(value)} : Before(value, First(value), j)
  BY <1>3, <1>4
<1>6. \A j \in 1 .. n : value[j] \in Int
  OBVIOUS
<1> QED
  BY <1>5, <1>6 DEF Before

\* The rows of some quality.
AtLeast(value, p) == {i \in DOMAIN value : value[i] >= p}

\* A selection that leaves out nothing better than what it takes: at every quality as
\* many remain as there were, or all that were taken are that good.
LEMMA TopKeeps ==
  ASSUME NEW m \in Nat, NEW value \in [1 .. m -> Int],
         NEW k \in Nat, NEW taken \in [1 .. k -> Int],
         NEW from \in [1 .. k -> 1 .. m], \A j \in 1 .. k : taken[j] = value[from[j]],
         \A i \in 1 .. m : (\E j \in 1 .. k : from[j] = i)
                             \/ \A j \in 1 .. k : value[i] <= value[from[j]],
         NEW p \in Int
  PROVE  /\ IsFiniteSet(AtLeast(value, p)) /\ IsFiniteSet(AtLeast(taken, p))
         /\ \/ Cardinality(AtLeast(taken, p)) >= Cardinality(AtLeast(value, p))
            \/ Cardinality(AtLeast(taken, p)) = k
<1> DEFINE A == AtLeast(value, p)
           B == AtLeast(taken, p)
<1>1. /\ A = {i \in 1 .. m : value[i] >= p}
      /\ B = {j \in 1 .. k : taken[j] >= p}
  BY DEF AtLeast
<1> HIDE DEF A, B
<1>2. /\ IsFiniteSet(A) /\ IsFiniteSet(B)
      /\ Cardinality(A) \in Nat /\ Cardinality(B) \in Nat
  <2>1. A \in SUBSET (1 .. m) /\ B \in SUBSET (1 .. k)
    BY <1>1
  <2> QED
    BY <2>1, FiniteRows, FS_Subset, FS_CardinalityType
<1>3. CASE B = 1 .. k
  BY <1>2, <1>3, FiniteRows DEF A, B
<1>4. CASE B # 1 .. k
  <2>1. PICK j0 \in 1 .. k : ~(taken[j0] >= p)
    BY <1>1, <1>4
  <2>2. ASSUME NEW i \in A PROVE \E j \in B : from[j] = i
    <3>1. /\ i \in 1 .. m /\ value[i] >= p /\ value[i] \in Int
          /\ from[j0] \in 1 .. m /\ value[from[j0]] = taken[j0] /\ taken[j0] \in Int
      BY <1>1
    <3>2. ~(value[i] <= value[from[j0]])
      BY <2>1, <3>1
    <3>3. PICK j \in 1 .. k : from[j] = i
      BY <3>1, <3>2
    <3>4. j \in B
      BY <1>1, <3>1, <3>3
    <3> QED
      BY <3>3, <3>4
  <2> DEFINE f == [i \in A |-> CHOOSE j \in B : from[j] = i]
  <2>3. \A i \in A : f[i] \in B /\ from[f[i]] = i
    BY <2>2
  <2>4. f \in [A -> B]
    BY <2>3
  <2> HIDE DEF f
  <2>5. f \in Injection(A, B)
    BY <2>3, <2>4 DEF Injection, IsInjective
  <2>6. Cardinality(A) <= Cardinality(B)
    BY <1>2, <2>5, FS_Injection
  <2> QED
    BY <1>2, <2>6 DEF A, B
<1> QED
  BY <1>3, <1>4

-----------------------------------------------------------------------------
(* Populations.                                                            *)

\* n rows, each with the power of its layout, none better than the best of the run.
HoldsRows(n) ==
  /\ n \in Nat \ {0}
  /\ population \in [1 .. n -> Layouts]
  /\ fitness = PowerOf(population)
  /\ \A r \in 1 .. n : fitness[r] <= best

\* A step after which some row is at least as good as any row before.
NothingLost == \A r \in Rows : \E s \in DOMAIN fitness' : fitness'[s] >= fitness[r]

\* The powers of a batch are numbers above zero.
LEMMA PowerOfRows ==
  ASSUME RunSound, NEW S, NEW batch \in [S -> Layouts]
  PROVE  /\ PowerOf(batch) \in [S -> Nat]
         /\ \A r \in S : PowerOf(batch)[r] = Power[batch[r]] /\ Power[batch[r]] > 0
BY CaseTypes DEF PowerOf

\* n rows are of size n.
LEMMA RowsHeld ==
  ASSUME NEW n \in Nat, population \in [1 .. n -> Layouts]
  PROVE  Size = n /\ Rows = 1 .. n
BY FS_Interval DEF Size, Rows

\* What HoldsRows gives its user.
LEMMA HeldTypes ==
  ASSUME RunSound, NEW n, HoldsRows(n)
  PROVE  /\ n \in Nat /\ n > 0
         /\ Size = n /\ Rows = 1 .. n
         /\ population \in [1 .. n -> Layouts]
         /\ fitness \in [1 .. n -> Nat]
         /\ \A r \in 1 .. n : fitness[r] = Power[population[r]] /\ fitness[r] <= best
         /\ best \in Nat
BY RowsHeld, PowerOfRows DEF HoldsRows, RunSound

\* What HoldsRows means after a step.
LEMMA HeldNext ==
  ASSUME SameCase, NEW n \in Nat \ {0},
         population' \in [1 .. n -> Layouts], fitness' \in [1 .. n -> Nat],
         \A r \in 1 .. n : fitness'[r] = Power[population'[r]] /\ fitness'[r] <= best'
  PROVE  /\ HoldsRows(n)'
         /\ Rows' = 1 .. n /\ Size' = n
         /\ RowsAligned'
<1>1. Layouts' = Layouts /\ Power' = Power
  BY DEF SameCase, Layouts, Power
<1>2. DOMAIN population' = 1 .. n
  OBVIOUS
<1>3. fitness' = PowerOf(population)'
  BY <1>1, <1>2 DEF PowerOf
<1>4. HoldsRows(n)'
  BY <1>1, <1>3 DEF HoldsRows
<1>5. Size' = n /\ Rows' = 1 .. n
  BY <1>2, FS_Interval DEF Size, Rows
<1> QED
  BY <1>3, <1>4, <1>5 DEF RowsAligned

\* GroundKept, with the rows of some quality by name.
LEMMA GroundCounts ==
  ASSUME RunSound, NEW n, HoldsRows(n), NEW k, fitness' \in [1 .. k -> Nat], NEW kept,
         \A l \in Layouts :
           \/ Cardinality(AtLeast(fitness', Power[l])) >=
                Cardinality(AtLeast(fitness, Power[l]))
           \/ Cardinality(AtLeast(fitness', Power[l])) >= kept
  PROVE  GroundKept(kept)
<1>1. fitness \in [1 .. n -> Nat] /\ Rows = 1 .. n
  BY HeldTypes
<1> SUFFICES ASSUME NEW l \in Layouts
             PROVE  LET before == Cardinality({r \in Rows : fitness[r] >= Power[l]})
                        after == Cardinality({r \in DOMAIN fitness' : fitness'[r] >= Power[l]})
                    IN after >= before \/ after >= kept
  BY DEF GroundKept
<1>2. {r \in Rows : fitness[r] >= Power[l]} = AtLeast(fitness, Power[l])
  BY <1>1 DEF AtLeast
<1>3. {r \in DOMAIN fitness' : fitness'[r] >= Power[l]} = AtLeast(fitness', Power[l])
  BY DEF AtLeast
<1> QED
  BY <1>2, <1>3

\* Rows that keep their place and never get worse lose no ground.
LEMMA GroundOfRows ==
  ASSUME RunSound, NEW n, HoldsRows(n), fitness' \in [1 .. n -> Nat],
         \A r \in 1 .. n : fitness'[r] >= fitness[r], NEW kept
  PROVE  GroundKept(kept)
<1>1. fitness \in [1 .. n -> Nat] /\ n \in Nat
  BY HeldTypes
<1>2. ASSUME NEW l \in Layouts
      PROVE  Cardinality(AtLeast(fitness', Power[l])) >= Cardinality(AtLeast(fitness, Power[l]))
  <2> DEFINE old == AtLeast(fitness, Power[l])
             new == AtLeast(fitness', Power[l])
  <2>1. Power[l] \in Nat
    BY CaseTypes
  <2>2. old \in SUBSET new /\ new \in SUBSET (1 .. n)
    BY <1>1, <2>1 DEF AtLeast
  <2> HIDE DEF old, new
  <2>3. IsFiniteSet(new)
    BY <1>1, <2>2, FiniteRows, FS_Subset
  <2>4. IsFiniteSet(old) /\ Cardinality(old) <= Cardinality(new)
    BY <2>2, <2>3, FS_Subset
  <2>5. Cardinality(old) \in Nat /\ Cardinality(new) \in Nat
    BY <2>3, <2>4, FS_CardinalityType
  <2> QED
    BY <2>4, <2>5 DEF old, new
<1> QED
  BY <1>2, GroundCounts

\* Nothing is lost while nothing happens to the rows.
LEMMA GroundOfNothing ==
  ASSUME UNCHANGED fitness, RunSound, NEW kept
  PROVE  pc # "init" => (\A n : HoldsRows(n) => GroundKept(kept) /\ NothingLost)
<1> SUFFICES ASSUME NEW n, HoldsRows(n) PROVE GroundKept(kept) /\ NothingLost
  OBVIOUS
<1>1. fitness \in [1 .. n -> Nat] /\ Rows = 1 .. n
  BY HeldTypes
<1>2. fitness' \in [1 .. n -> Nat] /\ \A r \in 1 .. n : fitness'[r] >= fitness[r]
  BY <1>1
<1> QED
  BY <1>1, <1>2, GroundOfRows DEF NothingLost

\* The first evaluation.
LEMMA InitializeSound ==
  ASSUME RunSound, NEW n \in Nat \ {0}, fes + n <= budget, best = 0, InitializeRows(n)
  PROVE  /\ RunSound' /\ SameCase /\ fes' = fes + n
         /\ HoldsRows(n)' /\ RowsAligned' /\ BestInPopulation'
         /\ Rows' = 1 .. n /\ Size' = n
         /\ best' > best
<1>1. PICK batch \in [1 .. n -> Layouts] :
        Evaluate(batch) /\ population' = batch /\ fitness' = PowerOf(batch)
  BY DEF InitializeRows
<1>2. IsFiniteSet(1 .. n) /\ Cardinality(1 .. n) = n
  BY FS_Interval
<1>3. /\ RunSound' /\ SameCase /\ fes' = fes + n
      /\ best' = best \/ \E r \in 1 .. n : best' = Power[batch[r]]
      /\ \A r \in 1 .. n : Power[batch[r]] <= best'
      /\ best' \in Nat
  BY <1>1, <1>2, EvaluateSound
<1>4. \A r \in 1 .. n : Power[batch[r]] \in Nat /\ Power[batch[r]] > 0
  BY CaseTypes
<1>5. best' > 0 /\ \E r \in 1 .. n : best' = Power[batch[r]]
  <2>1. 1 \in 1 .. n
    OBVIOUS
  <2> QED
    BY <1>3, <1>4, <2>1
<1>6. /\ population' \in [1 .. n -> Layouts] /\ fitness' \in [1 .. n -> Nat]
      /\ \A r \in 1 .. n : fitness'[r] = Power[population'[r]] /\ fitness'[r] <= best'
  BY <1>1, <1>3, <1>4 DEF PowerOf
<1>7. HoldsRows(n)' /\ RowsAligned' /\ Rows' = 1 .. n /\ Size' = n
  BY <1>1, <1>3, <1>6, HeldNext
<1>8. BestInPopulation'
  BY <1>1, <1>5, <1>6, <1>7 DEF BestInPopulation
<1> QED
  BY <1>3, <1>5, <1>7, <1>8

\* Beaten rows take over their candidate.
LEMMA ReplaceSound ==
  ASSUME RunSound, NEW n, HoldsRows(n),
         NEW S \in SUBSET (1 .. n), NEW batch \in [S -> Layouts],
         SameCase, best' \in Nat, best' >= best,
         \A r \in S : Power[batch[r]] <= best',
         best' = best \/ \E r \in S : best' = Power[batch[r]],
         Replace(batch, Improved(batch))
  PROVE  /\ HoldsRows(n)' /\ RowsAligned' /\ Rows' = 1 .. n /\ Size' = n
         /\ BestInPopulation => BestInPopulation'
         /\ fitness' \in [1 .. n -> Nat]
         /\ \A r \in 1 .. n : fitness'[r] >= fitness[r]
         /\ \A r \in Improved(batch) : r \in 1 .. n /\ fitness'[r] > fitness[r]
         /\ \A r \in S \ Improved(batch) : Power[batch[r]] <= fitness[r]
         /\ \A r \in 1 .. n \ Improved(batch) : population'[r] = population[r]
         /\ NothingLost
<1>1. /\ n \in Nat \ {0} /\ Rows = 1 .. n
      /\ population \in [1 .. n -> Layouts] /\ fitness \in [1 .. n -> Nat]
      /\ \A r \in 1 .. n : fitness[r] = Power[population[r]] /\ fitness[r] <= best
      /\ best \in Nat
  BY HeldTypes
<1>2. \A r \in S : r \in 1 .. n /\ batch[r] \in Layouts /\ Power[batch[r]] \in Nat
  BY CaseTypes
<1> DEFINE better == Improved(batch)
<1>3. better = {r \in S : Power[batch[r]] > fitness[r]}
  BY DEF Improved
<1>4. /\ population' = [r \in 1 .. n |-> IF r \in better THEN batch[r] ELSE population[r]]
      /\ fitness' = [r \in 1 .. n |-> IF r \in better THEN Power[batch[r]] ELSE fitness[r]]
  BY <1>1 DEF Replace
<1> HIDE DEF better
<1>5. population' \in [1 .. n -> Layouts]
  BY <1>1, <1>2, <1>3, <1>4
<1>6. fitness' \in [1 .. n -> Nat]
  BY <1>1, <1>2, <1>3, <1>4
<1>7. \A r \in 1 .. n : fitness'[r] = Power[population'[r]] /\ fitness'[r] <= best'
  BY <1>1, <1>2, <1>3, <1>4
<1>8. HoldsRows(n)' /\ RowsAligned' /\ Rows' = 1 .. n /\ Size' = n
  BY <1>1, <1>5, <1>6, <1>7, HeldNext
<1>9. /\ fitness' \in [1 .. n -> Nat]
      /\ \A r \in 1 .. n : fitness'[r] >= fitness[r]
      /\ \A r \in better : r \in 1 .. n /\ fitness'[r] > fitness[r]
      /\ \A r \in S \ better : Power[batch[r]] <= fitness[r]
      /\ \A r \in 1 .. n \ better : population'[r] = population[r]
  BY <1>1, <1>2, <1>3, <1>4
<1>10. BestInPopulation => BestInPopulation'
  <2> SUFFICES ASSUME BestInPopulation PROVE \E r \in 1 .. n : fitness'[r] = best'
    BY <1>8 DEF BestInPopulation
  <2>1. PICK b \in 1 .. n : fitness[b] = best
    BY <1>1 DEF BestInPopulation
  <2>2. CASE best' = best
    <3>1. fitness'[b] <= best' /\ fitness'[b] >= best /\ fitness'[b] \in Nat
      BY <1>6, <1>7, <1>9, <2>1
    <3> QED
      BY <1>1, <2>2, <3>1
  <2>3. CASE \E r \in S : best' = Power[batch[r]]
    <3>1. PICK r \in S : best' = Power[batch[r]]
      BY <2>3
    <3>2. CASE r \in better
      BY <1>2, <1>4, <3>1, <3>2
    <3>3. CASE r \notin better
      <4>1. Power[batch[r]] <= fitness[r] /\ fitness'[r] = fitness[r] /\ r \in 1 .. n
        BY <1>2, <1>4, <1>9, <3>3
      <4> QED
        BY <1>1, <3>1, <4>1
    <3> QED
      BY <3>2, <3>3
  <2> QED
    BY <2>2, <2>3
<1>11. NothingLost
  BY <1>1, <1>9 DEF NothingLost
<1> QED
  BY <1>8, <1>9, <1>10, <1>11 DEF better

\* The step takes k rows from m candidates, of which the first n are the present rows,
\* and no candidate left out is better than one taken.
Selects(n, m, layouts, k, from) ==
  /\ m \in Nat /\ layouts \in [1 .. m -> Layouts]
  /\ k \in Nat \ {0} /\ from \in [1 .. k -> 1 .. m]
  /\ n <= m /\ \A r \in 1 .. n : layouts[r] = population[r]
  /\ best' \in Nat /\ best' >= best
  /\ \A i \in 1 .. m : Power[layouts[i]] <= best'
  /\ best' = best \/ \E i \in 1 .. m : best' = Power[layouts[i]]
  /\ \A i \in 1 .. m : (\E j \in 1 .. k : from[j] = i)
        \/ \A j \in 1 .. k : Power[layouts[i]] <= Power[layouts[from[j]]]
  /\ population' \in [1 .. k -> Layouts] /\ fitness' \in [1 .. k -> Nat]
  /\ \A j \in 1 .. k : /\ population'[j] = layouts[from[j]]
                        /\ fitness'[j] = Power[layouts[from[j]]]

\* Then the best remains, and at every quality as many rows as there were, up to k.
LEMMA SelectionSound ==
  ASSUME RunSound, NEW n, HoldsRows(n), SameCase,
         NEW m, NEW layouts, NEW k, NEW from, Selects(n, m, layouts, k, from)
  PROVE  /\ HoldsRows(k)' /\ RowsAligned' /\ Rows' = 1 .. k /\ Size' = k
         /\ BestInPopulation => BestInPopulation'
         /\ \A kept \in 0 .. k : GroundKept(kept)
         /\ NothingLost
<1> USE DEF Selects
<1> DEFINE value == [i \in 1 .. m |-> Power[layouts[i]]]
<1>1. /\ n \in Nat \ {0} /\ Rows = 1 .. n
      /\ population \in [1 .. n -> Layouts] /\ fitness \in [1 .. n -> Nat]
      /\ \A r \in 1 .. n : fitness[r] = Power[population[r]] /\ fitness[r] <= best
      /\ best \in Nat
  BY HeldTypes DEF HoldsRows
<1>2. value \in [1 .. m -> Int] /\ \A i \in 1 .. m : value[i] \in Nat
  BY CaseTypes
<1>3. \A j \in 1 .. k : from[j] \in 1 .. m /\ fitness'[j] = value[from[j]]
  OBVIOUS
<1>4. \A r \in 1 .. n : r \in 1 .. m /\ value[r] = fitness[r]
  BY <1>1
<1>5. HoldsRows(k)' /\ RowsAligned' /\ Rows' = 1 .. k /\ Size' = k
  <2>1. \A j \in 1 .. k : fitness'[j] = Power[population'[j]] /\ fitness'[j] <= best'
    OBVIOUS
  <2> QED
    BY <2>1, HeldNext
<1>6. \A i \in 1 .. m : (\E j \in 1 .. k : from[j] = i)
         \/ \A j \in 1 .. k : value[i] <= value[from[j]]
  BY <1>3
<1>7. DOMAIN fitness' = 1 .. k
  OBVIOUS
<1> HIDE DEF value
<1>8. ASSUME NEW i \in 1 .. m PROVE \E j \in 1 .. k : fitness'[j] >= value[i]
  <2>1. CASE \E j \in 1 .. k : from[j] = i
    <3>1. PICK j \in 1 .. k : from[j] = i
      BY <2>1
    <3>2. fitness'[j] = value[i] /\ value[i] \in Nat
      BY <1>2, <1>3, <3>1
    <3> QED
      BY <3>2
  <2>2. CASE \A j \in 1 .. k : value[i] <= value[from[j]]
    <3>1. 1 \in 1 .. k
      OBVIOUS
    <3> QED
      BY <1>2, <1>3, <2>2, <3>1
  <2> QED
    BY <1>6, <2>1, <2>2
<1>9. NothingLost
  BY <1>1, <1>4, <1>7, <1>8 DEF NothingLost
<1>10. BestInPopulation => BestInPopulation'
  <2> SUFFICES ASSUME BestInPopulation PROVE \E j \in 1 .. k : fitness'[j] = best'
    BY <1>5 DEF BestInPopulation
  <2>1. PICK b \in 1 .. n : fitness[b] = best
    BY <1>1 DEF BestInPopulation
  <2>2. \E i \in 1 .. m : value[i] = best'
    <3>1. CASE best' = best
      BY <1>4, <2>1, <3>1
    <3>2. CASE \E i \in 1 .. m : best' = Power[layouts[i]]
      BY <3>2 DEF value
    <3> QED
      BY <3>1, <3>2
  <2>3. PICK j \in 1 .. k : fitness'[j] >= best'
    <3>1. PICK i \in 1 .. m : value[i] = best'
      BY <2>2
    <3> QED
      BY <1>8, <3>1
  <2>4. fitness'[j] <= best' /\ fitness'[j] \in Nat
    BY <1>2, <1>3 DEF value
  <2> QED
    BY <2>3, <2>4
<1>11. ASSUME NEW kept \in 0 .. k PROVE GroundKept(kept)
  <2>1. ASSUME NEW l \in Layouts
        PROVE  \/ Cardinality(AtLeast(fitness', Power[l])) >=
                    Cardinality(AtLeast(fitness, Power[l]))
               \/ Cardinality(AtLeast(fitness', Power[l])) >= kept
    <3> DEFINE old == AtLeast(fitness, Power[l])
               among == AtLeast(value, Power[l])
               new == AtLeast(fitness', Power[l])
    <3>1. Power[l] \in Int
      BY CaseTypes
    <3>2. fitness' \in [1 .. k -> Int] /\ k \in Nat
      OBVIOUS
    <3>3. /\ IsFiniteSet(among) /\ IsFiniteSet(new)
          /\ Cardinality(new) >= Cardinality(among) \/ Cardinality(new) = k
      <4>1. PICK taken : taken = fitness'
        OBVIOUS
      <4>2. taken \in [1 .. k -> Int] /\ \A j \in 1 .. k : taken[j] = value[from[j]]
        BY <1>3, <3>2, <4>1
      <4>3. PICK p : p = Power[l]
        OBVIOUS
      <4>4. p \in Int /\ m \in Nat /\ k \in Nat /\ from \in [1 .. k -> 1 .. m]
        BY <3>1, <3>2, <4>3
      <4> HIDE DEF Selects, old, among, new
      <4>5. /\ IsFiniteSet(AtLeast(value, p)) /\ IsFiniteSet(AtLeast(taken, p))
            /\ \/ Cardinality(AtLeast(taken, p)) >= Cardinality(AtLeast(value, p))
               \/ Cardinality(AtLeast(taken, p)) = k
        BY <1>2, <1>6, <4>2, <4>4, TopKeeps, ZenonT(30)
      <4> QED
        BY <4>1, <4>3, <4>5 DEF among, new
    <3>4. old \in SUBSET among
      BY <1>1, <1>2, <1>4 DEF AtLeast
    <3> HIDE DEF old, among, new
    <3>5. IsFiniteSet(old) /\ Cardinality(old) <= Cardinality(among)
      BY <3>3, <3>4, FS_Subset
    <3>6. Cardinality(old) \in Nat /\ Cardinality(among) \in Nat /\ Cardinality(new) \in Nat
      BY <3>3, <3>5, FS_CardinalityType
    <3>7. Cardinality(new) >= Cardinality(old) \/ Cardinality(new) >= kept
      BY <3>3, <3>5, <3>6
    <3> QED
      BY <3>7 DEF old, new
  <2> QED
    BY <2>1, GroundCounts
<1> QED
  BY <1>5, <1>9, <1>10, <1>11

\* The first rows of a ranking leave out no row that is better than one of them.
LEMMA RankedTakesBest ==
  ASSUME NEW m \in Nat, NEW value \in [1 .. m -> Int], NEW k \in 0 .. m,
         NEW i \in 1 .. m
  PROVE  \/ \E j \in 1 .. k : Ranked(value)[j] = i
         \/ \A j \in 1 .. k : value[i] <= value[Ranked(value)[j]]
<1>1. PICK q \in 1 .. m : Ranked(value)[q] = i
  BY RankedSound
<1>2. ASSUME q > k, NEW j \in 1 .. k PROVE value[i] <= value[Ranked(value)[j]]
  <2>1. j \in 1 .. m /\ j <= q
    BY <1>2
  <2>2. value[Ranked(value)[j]] >= value[Ranked(value)[q]]
    BY <2>1, RankedOrder
  <2>3. value[Ranked(value)[j]] \in Int /\ value[i] \in Int
    BY <2>1, RankedOrder
  <2> QED
    BY <1>1, <2>2, <2>3
<1> QED
  BY <1>1, <1>2

\* The best rows stay.
LEMMA KeepTopSound ==
  ASSUME RunSound, NEW n, HoldsRows(n), SameCase, best' = best,
         NEW target \in 1 .. n, KeepTop(target)
  PROVE  /\ HoldsRows(target)' /\ RowsAligned' /\ Rows' = 1 .. target /\ Size' = target
         /\ BestInPopulation => BestInPopulation'
         /\ \A kept \in 0 .. target : GroundKept(kept)
         /\ NothingLost
<1>1. /\ n \in Nat \ {0} /\ best \in Nat
      /\ population \in [1 .. n -> Layouts] /\ fitness \in [1 .. n -> Int]
      /\ \A r \in 1 .. n : fitness[r] = Power[population[r]] /\ fitness[r] <= best
  BY HeldTypes DEF HoldsRows
<1> DEFINE from == [j \in 1 .. target |-> Ranked(fitness)[j]]
<1>2. target \in Nat \ {0} /\ target \in 0 .. n /\ \A j \in 1 .. target : j \in 1 .. n
  BY <1>1
<1>3. from \in [1 .. target -> 1 .. n]
  BY <1>1, <1>2, RankedOrder
<1>4. \A j \in 1 .. target : from[j] = Ranked(fitness)[j] /\ from[j] \in 1 .. n
  BY <1>3
<1> HIDE DEF from
<1>5. ASSUME NEW i \in 1 .. n
      PROVE  (\E j \in 1 .. target : from[j] = i)
               \/ \A j \in 1 .. target : Power[population[i]] <= Power[population[from[j]]]
  <2>1. \/ \E j \in 1 .. target : Ranked(fitness)[j] = i
        \/ \A j \in 1 .. target : fitness[i] <= fitness[Ranked(fitness)[j]]
    BY <1>1, <1>2, RankedTakesBest
  <2> QED
    BY <1>1, <1>4, <2>1, ZenonT(30)
<1>6. /\ population' \in [1 .. target -> Layouts] /\ fitness' \in [1 .. target -> Nat]
      /\ \A j \in 1 .. target : /\ population'[j] = population[from[j]]
                                 /\ fitness'[j] = Power[population[from[j]]]
  <2>1. fitness \in [1 .. n -> Nat]
    BY HeldTypes
  <2> QED
    BY <1>1, <1>4, <2>1 DEF KeepTop
<1>7. \A i \in 1 .. n : Power[population[i]] <= best'
  BY <1>1
<1>8. best' \in Nat /\ best' >= best /\ n \in Nat /\ n <= n
  BY <1>1
<1>9. PICK layouts : layouts = population
  OBVIOUS
<1>10. Selects(n, n, layouts, target, from)
  BY <1>1, <1>2, <1>3, <1>5, <1>6, <1>7, <1>8, <1>9 DEF Selects
<1> QED
  BY <1>10, SelectionSound

\* A quotient of natural numbers, rounded.
LEMMA RoundedNat ==
  ASSUME NEW x \in Nat, NEW d \in Nat \ {0}
  PROVE  RoundedQuotient(x, d) \in Nat
<1>1. 2 * x + d \in Nat /\ 2 * d \in Nat \ {0}
  OBVIOUS
<1> DEFINE a == 2 * x + d
           b == 2 * d
<1>2. a \in Nat /\ b \in Nat \ {0}
  BY <1>1
<1>3. RoundedQuotient(x, d) = a \div b
  BY DEF RoundedQuotient
<1> HIDE DEF a, b
<1> QED
  BY <1>2, <1>3

\* The archive fits its capacity after a trim, which drops layouts and adds none.
LEMMA TrimSound ==
  ASSUME NEW layouts, NEW capacity \in Nat, Trim(layouts, capacity)
  PROVE  Cardinality(archive') <= capacity /\ archive' \subseteq layouts
BY DEF Trim

\* The planned size never falls below its floor.
LEMMA LinearPlanFloor ==
  ASSUME NEW initial \in Nat, NEW floor \in Nat, RunSound
  PROVE  LinearPlan(initial, floor) \in Int /\ LinearPlan(initial, floor) >= floor
<1> DEFINE x == initial * budget - (initial - floor) * fes
<1>1. budget \in Nat /\ budget > 0 /\ fes \in Nat
  BY CaseTypes
<1>2. x \in Int
  BY <1>1
<1> DEFINE a == 2 * x + budget
           b == 2 * budget
<1>3. a \in Int /\ b \in Nat \ {0}
  BY <1>1, <1>2
<1>4. LinearPlan(initial, floor) = IF a \div b < floor THEN floor ELSE a \div b
  BY DEF LinearPlan, RoundedQuotient
<1> HIDE DEF a, b
<1>5. a \div b \in Int
  BY <1>3
<1> QED
  BY <1>4, <1>5

\* n rows are held after a step.
HeldAfter(n) == HoldsRows(n)' /\ RowsAligned' /\ Rows' = 1 .. n /\ Size' = n

\* And gives after a step.
LEMMA HeldTypesNext ==
  ASSUME RunSound', NEW n, HoldsRows(n)'
  PROVE  /\ n \in Nat /\ n > 0
         /\ Size' = n /\ Rows' = 1 .. n
         /\ fitness' \in [1 .. n -> Nat]
<1>1. \A l \in Layouts' : Power'[l] \in Nat
  BY DEF RunSound, RuntimeSetting, Layouts, Power
<1>2. /\ n \in Nat \ {0}
      /\ population' \in [1 .. n -> Layouts']
      /\ fitness' = [r \in DOMAIN population' |-> Power'[population'[r]]]
  BY DEF HoldsRows, PowerOf
<1>3. Size' = n /\ Rows' = 1 .. n
  BY <1>2, FiniteRows DEF Size, Rows
<1> QED
  BY <1>1, <1>2, <1>3

\* What a batch does to the runtime.
Spends(paid) ==
  /\ RunSound' /\ SameCase
  /\ paid \in Nat /\ fes' = fes + paid
  /\ best' \in Nat /\ best' >= best
  /\ best' = best \/ \E l \in Layouts : best' = Power[l]

\* A batch of trials for some of n rows, of which the better ones are accepted.
Trials(n, S, batch) ==
  /\ HoldsRows(n)
  /\ S \in SUBSET (1 .. n) /\ fes + Cardinality(S) <= budget
  /\ batch \in [S -> Layouts]
  /\ Evaluate(batch)
  /\ Replace(batch, Improved(batch))

\* No rows.
LEMMA EmptyRows ==
  /\ DOMAIN <<>> = {} /\ Cardinality({}) = 0 /\ 1 .. 0 = {}
  /\ population = <<>> => Size = 0 /\ Rows = {}
BY FS_EmptySet DEF Size, Rows

\* The first rows lose nothing, for there were none.
LEMMA GroundOfFirstRows ==
  ASSUME population = <<>>, NEW n, HoldsRows(n)', RunSound', NEW kept
  PROVE  GroundKept(kept)
<1>1. Rows = {}
  BY EmptyRows
<1>2. n \in Nat /\ fitness' \in [1 .. n -> Nat]
  BY HeldTypesNext
<1> SUFFICES ASSUME NEW l \in Layouts
             PROVE  Cardinality({r \in DOMAIN fitness' : fitness'[r] >= Power[l]}) >=
                    Cardinality({r \in Rows : fitness[r] >= Power[l]})
  BY DEF GroundKept
<1> DEFINE old == {r \in Rows : fitness[r] >= Power[l]}
           new == {r \in DOMAIN fitness' : fitness'[r] >= Power[l]}
<1>3. old = {}
  BY <1>1
<1>4. new \in SUBSET (1 .. n)
  BY <1>2
<1> HIDE DEF old, new
<1>5. Cardinality(new) \in Nat
  BY <1>2, <1>4, FiniteRows, FS_Subset, FS_CardinalityType
<1>6. Cardinality(new) >= Cardinality(old)
  BY <1>3, <1>5, EmptyRows
<1> QED
  BY <1>6 DEF old, new

\* Trials are paid for and lose nothing.
LEMMA TrialsSound ==
  ASSUME RunSound, NEW n, NEW S, NEW batch, Trials(n, S, batch)
  PROVE  /\ Spends(Cardinality(S))
         /\ HeldAfter(n)
         /\ BestInPopulation => BestInPopulation'
         /\ fitness' \in [1 .. n -> Nat]
         /\ \A r \in 1 .. n : fitness'[r] >= fitness[r]
         /\ \A r \in Improved(batch) : r \in 1 .. n /\ fitness'[r] > fitness[r]
         /\ \A r \in S \ Improved(batch) : Power[batch[r]] <= fitness[r]
         /\ \A r \in 1 .. n \ Improved(batch) : population'[r] = population[r]
         /\ NothingLost
         /\ \A r \in S : Power[batch[r]] <= best'
<1> USE DEF Trials
<1>1. n \in Nat /\ IsFiniteSet(S)
  <2>1. n \in Nat
    BY HeldTypes
  <2> QED
    BY <2>1, FiniteRows, FS_Subset
<1>2. /\ RunSound' /\ SameCase
      /\ fes' = fes + Cardinality(S)
      /\ best' \in Nat /\ best' >= best
      /\ best' = best \/ \E r \in S : best' = Power[batch[r]]
      /\ \A r \in S : Power[batch[r]] <= best'
  BY <1>1, EvaluateSound
<1>3. Spends(Cardinality(S))
  <2>1. Cardinality(S) \in Nat
    BY <1>1, FS_CardinalityType
  <2>2. best' = best \/ \E l \in Layouts : best' = Power[l]
    BY <1>2
  <2> QED
    BY <1>2, <2>1, <2>2 DEF Spends
<1> QED
  BY <1>2, <1>3, ReplaceSound DEF HeldAfter

\* Trials lose no ground.
LEMMA TrialsKeepGround ==
  ASSUME RunSound, NEW n, NEW S, NEW batch, Trials(n, S, batch), NEW kept
  PROVE  GroundKept(kept)
<1>1. HoldsRows(n)
  BY DEF Trials
<1> QED
  BY <1>1, TrialsSound, GroundOfRows

\* Some row beats a layout, or is as good.
Beaten(l) == \E r \in Rows : Power[l] < fitness[r]
Reached(l) == \E r \in Rows : Power[l] <= fitness[r]

\* What is beaten or reached once remains so while nothing is lost.
LEMMA BeatenStays ==
  ASSUME RunSound, NEW n, HoldsRows(n), RunSound', SameCase, NEW k, HeldAfter(k), NothingLost,
         NEW l \in Layouts
  PROVE  /\ Beaten(l) => Beaten(l)'
         /\ Reached(l) => Reached(l)'
<1>1. Layouts' = Layouts /\ Power' = Power /\ Power[l] \in Nat
  BY CaseTypes DEF SameCase, Layouts, Power
<1>2. Rows = 1 .. n /\ fitness \in [1 .. n -> Nat]
  BY HeldTypes
<1>3. Rows' = 1 .. k /\ fitness' \in [1 .. k -> Nat]
  <2>1. RunSound' /\ HoldsRows(k)'
    BY DEF HeldAfter
  <2> QED
    BY <2>1, HeldTypesNext
<1>4. ASSUME NEW r \in 1 .. n PROVE \E s \in 1 .. k : fitness'[s] >= fitness[r]
  BY <1>2, <1>3 DEF NothingLost
<1>5. ASSUME NEW r \in 1 .. n, Power[l] < fitness[r]
      PROVE  \E s \in 1 .. k : Power[l] < fitness'[s]
  <2>1. PICK s \in 1 .. k : fitness'[s] >= fitness[r]
    BY <1>4
  <2>2. fitness'[s] \in Nat /\ fitness[r] \in Nat
    BY <1>2, <1>3
  <2> QED
    BY <1>1, <1>5, <2>1, <2>2
<1>6. ASSUME NEW r \in 1 .. n, Power[l] <= fitness[r]
      PROVE  \E s \in 1 .. k : Power[l] <= fitness'[s]
  <2>1. PICK s \in 1 .. k : fitness'[s] >= fitness[r]
    BY <1>4
  <2>2. fitness'[s] \in Nat /\ fitness[r] \in Nat
    BY <1>2, <1>3
  <2> QED
    BY <1>1, <1>6, <2>1, <2>2
<1>7. Beaten(l)' <=> \E s \in 1 .. k : Power[l] < fitness'[s]
  BY <1>1, <1>3 DEF Beaten
<1>8. Reached(l)' <=> \E s \in 1 .. k : Power[l] <= fitness'[s]
  BY <1>1, <1>3 DEF Reached
<1> QED
  BY <1>2, <1>5, <1>6, <1>7, <1>8 DEF Beaten, Reached

\* Parents that go to the archive are beaten, trials that failed are reached.
LEMMA ArchivedAreBeaten ==
  ASSUME RunSound, NEW n, NEW S, NEW batch, Trials(n, S, batch)
  PROVE  /\ \A l \in Parents(Improved(batch)) : l \in Layouts /\ Beaten(l)'
         /\ \A r \in S \ Improved(batch) : batch[r] \in Layouts /\ Reached(batch[r])'
<1>1. /\ SameCase /\ Rows' = 1 .. n /\ fitness' \in [1 .. n -> Nat]
      /\ \A r \in 1 .. n : fitness'[r] >= fitness[r]
      /\ \A r \in Improved(batch) : r \in 1 .. n /\ fitness'[r] > fitness[r]
      /\ \A r \in S \ Improved(batch) : Power[batch[r]] <= fitness[r]
  BY TrialsSound DEF Spends, HeldAfter
<1>2. Layouts' = Layouts /\ Power' = Power /\ \A l \in Layouts : Power[l] \in Nat
  BY <1>1, CaseTypes DEF SameCase, Layouts, Power
<1>3. /\ population \in [1 .. n -> Layouts] /\ fitness \in [1 .. n -> Nat]
      /\ \A r \in 1 .. n : fitness[r] = Power[population[r]]
  BY HeldTypes DEF Trials
<1>4. ASSUME NEW l \in Parents(Improved(batch)) PROVE l \in Layouts /\ Beaten(l)'
  <2>1. PICK r \in Improved(batch) : l = population[r]
    BY DEF Parents
  <2>2. r \in 1 .. n /\ Power[l] < fitness'[r]
    BY <1>1, <1>3, <2>1
  <2> QED
    BY <1>1, <1>2, <1>3, <2>1, <2>2 DEF Beaten
<1>5. ASSUME NEW r \in S \ Improved(batch)
      PROVE  batch[r] \in Layouts /\ Reached(batch[r])'
  <2>1. r \in 1 .. n /\ batch[r] \in Layouts
    BY DEF Trials
  <2>2. fitness'[r] >= Power[batch[r]]
    <3>1. /\ Power[batch[r]] \in Nat /\ fitness[r] \in Nat /\ fitness'[r] \in Nat
          /\ Power[batch[r]] <= fitness[r] /\ fitness'[r] >= fitness[r]
      BY <1>1, <1>2, <1>3, <2>1
    <3> QED
      BY <3>1
  <2>3. Power[batch[r]] <= fitness'[r]
    BY <1>1, <1>2, <2>1, <2>2
  <2> QED
    BY <1>1, <1>2, <2>1, <2>3 DEF Reached
<1> QED
  BY <1>4, <1>5

\* A reduction keeps the best rows, as many as planned or all there are.
LEMMA ReduceSound ==
  ASSUME RunSound, NEW n, HoldsRows(n), UNCHANGED runtimeVars,
         NEW target \in Int, target >= 1, NEW capacity \in Nat, Reduce(target, capacity)
  PROVE  \E k \in 1 .. n :
           /\ HeldAfter(k) /\ NothingLost /\ GroundKept(k)
           /\ BestInPopulation => BestInPopulation'
           /\ \/ k = target /\ target < n
                 /\ Cardinality(archive') <= capacity /\ archive' \subseteq archive
              \/ k = n /\ UNCHANGED deVars
<1>1. RunSound' /\ SameCase /\ best' = best
  BY UnchangedSound
<1>2. n \in Nat /\ n > 0 /\ Size = n /\ Rows = 1 .. n /\ fitness \in [1 .. n -> Nat]
  BY HeldTypes
<1>3. CASE target < n
  <2>1. KeepTop(target) /\ Trim(archive, capacity)
    BY <1>2, <1>3 DEF Reduce
  <2>2. target \in 1 .. n /\ target \in 0 .. target
    BY <1>2, <1>3
  <2>3. /\ HeldAfter(target) /\ NothingLost /\ GroundKept(target)
        /\ BestInPopulation => BestInPopulation'
    BY <1>1, <2>1, <2>2, KeepTopSound DEF HeldAfter
  <2>4. Cardinality(archive') <= capacity /\ archive' \subseteq archive
    BY <2>1, TrimSound
  <2> QED
    BY <1>3, <2>2, <2>3, <2>4
<1>4. CASE ~(target < n)
  <2>1. UNCHANGED deVars /\ UNCHANGED <<population, fitness>>
    BY <1>2, <1>4 DEF Reduce, deVars
  <2>2. HeldAfter(n) /\ (BestInPopulation => BestInPopulation')
    BY <1>1, <1>2, <2>1
    DEF HeldAfter, HoldsRows, RowsAligned, PowerOf, Rows, Size, BestInPopulation,
       SameCase, Layouts, Power
  <2>3. fitness' = fitness /\ \A r \in 1 .. n : fitness[r] \in Nat
    BY <1>2, <2>1
  <2>4. NothingLost
    BY <1>2, <2>3 DEF NothingLost
  <2>5. fitness' \in [1 .. n -> Nat] /\ \A r \in 1 .. n : fitness'[r] >= fitness[r]
    BY <1>2, <2>3
  <2>6. GroundKept(n)
    BY <2>5, GroundOfRows
  <2>7. n \in 1 .. n
    BY <1>2
  <2> QED
    BY <2>1, <2>2, <2>4, <2>6, <2>7
<1> QED
  BY <1>2, <1>3, <1>4

\* A step that leaves rows and runtime alone.
LEMMA RestSound ==
  ASSUME RunSound, UNCHANGED <<population, fitness>>, UNCHANGED runtimeVars
  PROVE  /\ RunSound' /\ SameCase /\ best' = best /\ fes' = fes
         /\ Size' = Size /\ Rows' = Rows
         /\ \A n : HoldsRows(n) => HoldsRows(n)' /\ (\A kept : GroundKept(kept)) /\ NothingLost
         /\ RowsAligned => RowsAligned'
         /\ BestInPopulation => BestInPopulation'
<1>1. RunSound' /\ SameCase /\ best' = best /\ fes' = fes
  BY UnchangedSound
<1>2. Size' = Size /\ Rows' = Rows /\ Layouts' = Layouts /\ Power' = Power
  BY <1>1 DEF Size, Rows, SameCase, Layouts, Power
<1>3. ASSUME NEW n, HoldsRows(n)
      PROVE  HoldsRows(n)' /\ (\A kept : GroundKept(kept)) /\ NothingLost
  <2>1. HoldsRows(n)'
    BY <1>1, <1>2, <1>3 DEF HoldsRows, PowerOf
  <2>2. fitness \in [1 .. n -> Nat] /\ Rows = 1 .. n
    BY <1>3, HeldTypes
  <2>3. fitness' \in [1 .. n -> Nat] /\ \A r \in 1 .. n : fitness'[r] >= fitness[r]
    BY <2>2
  <2>4. \A kept : GroundKept(kept)
    BY <1>3, <2>3, GroundOfRows
  <2> QED
    BY <2>1, <2>2, <2>3, <2>4 DEF NothingLost
<1>4. /\ RowsAligned => RowsAligned'
      /\ BestInPopulation => BestInPopulation'
  BY <1>1, <1>2 DEF RowsAligned, PowerOf, BestInPopulation
<1> QED
  BY <1>1, <1>2, <1>3, <1>4

\* An archive within a capacity, of layouts some row beats, or with loose set at least
\* reaches.
ArchiveHolds(capacity, loose) ==
  /\ archive \subseteq Layouts
  /\ Cardinality(archive) <= capacity
  /\ \A l \in archive : Beaten(l) \/ (loose /\ Reached(l))

\* What a generation may archive.
MayArchive(batch, loose, l) ==
  \/ l \in Parents(Improved(batch))
  \/ loose /\ \E r \in DOMAIN batch \ Improved(batch) : l = batch[r]

\* A generation keeps the archive sound.
LEMMA ArchiveAfterTrials ==
  ASSUME RunSound, NEW n, NEW S, NEW batch, Trials(n, S, batch),
         NEW capacity, NEW bound, NEW loose \in BOOLEAN, ArchiveHolds(bound, loose),
         \A l \in archive' : l \in archive \/ MayArchive(batch, loose, l),
         Cardinality(archive') <= capacity
  PROVE  ArchiveHolds(capacity, loose)'
<1>1. /\ RunSound' /\ SameCase /\ HeldAfter(n) /\ NothingLost
      /\ HoldsRows(n) /\ DOMAIN batch = S
  BY TrialsSound DEF Spends, Trials
<1>2. Layouts' = Layouts
  BY <1>1 DEF SameCase, Layouts
<1>3. ASSUME NEW l \in archive'
      PROVE  l \in Layouts /\ (Beaten(l)' \/ (loose /\ Reached(l)'))
  <2>1. CASE l \in archive
    <3>1. l \in Layouts /\ (Beaten(l) \/ (loose /\ Reached(l)))
      BY <2>1 DEF ArchiveHolds
    <3> QED
      BY <1>1, <3>1, BeatenStays
  <2>2. CASE MayArchive(batch, loose, l)
    BY <1>1, <2>2, ArchivedAreBeaten DEF MayArchive
  <2> QED
    BY <2>1, <2>2
<1>4. archive' \subseteq Layouts'
  BY <1>2, <1>3
<1>5. \A l \in archive' : Beaten(l)' \/ (loose /\ Reached(l)')
  BY <1>3
<1> QED
  BY <1>4, <1>5 DEF ArchiveHolds

\* A reduction keeps what it leaves of the archive sound.
LEMMA ArchiveAfterReduction ==
  ASSUME RunSound, NEW n, HoldsRows(n), RunSound', SameCase, NEW k, HeldAfter(k), NothingLost,
         NEW capacity, NEW bound, NEW loose \in BOOLEAN, ArchiveHolds(bound, loose),
         archive' \subseteq archive, Cardinality(archive') <= capacity
  PROVE  ArchiveHolds(capacity, loose)'
<1>1. Layouts' = Layouts
  BY DEF SameCase, Layouts
<1>2. \A l \in archive' : l \in Layouts /\ (Beaten(l)' \/ (loose /\ Reached(l)'))
  BY BeatenStays DEF ArchiveHolds
<1> QED
  BY <1>1, <1>2 DEF ArchiveHolds

\* A step of a run: it pays for a batch, or leaves the count and the best alone, and ends
\* only with the whole budget spent.
GoesOn ==
  /\ pc # "done"
  /\ \/ /\ pc' # "done" /\ fes' > fes
        /\ best' >= best
        /\ best' = best \/ \E l \in Layouts : best' = Power[l]
     \/ fes' = fes /\ best' = best /\ (pc' = "done" => fes = budget)

\* A step that pays for evaluations goes on.
LEMMA SpendingGoesOn ==
  ASSUME RunSound, NEW paid, Spends(paid), paid > 0, pc # "done", pc' # "done"
  PROVE  GoesOn
BY CaseTypes DEF Spends, GoesOn

\* A full or a last batch.
LEMMA PrefixPays ==
  ASSUME RunSound, fes < budget, NEW n \in Nat \ {0}
  PROVE  /\ Cardinality(Prefix(1 .. n)) \in Nat /\ Cardinality(Prefix(1 .. n)) > 0
         /\ fes + Cardinality(Prefix(1 .. n)) <= budget
         /\ Prefix(1 .. n) \in SUBSET (1 .. n)
         /\ Prefix(1 .. n) # 1 .. n => fes + Cardinality(Prefix(1 .. n)) = budget
<1>1. budget \in Nat /\ fes \in Nat
  BY CaseTypes
<1> QED
  BY <1>1, PrefixOfRows

\* A batch for the rows the budget pays for, of which the better ones are accepted.
LEMMA PrefixTrials ==
  ASSUME RunSound, NEW n, HoldsRows(n), NEW m \in 1 .. n,
         NEW batch \in [Prefix(1 .. m) -> Layouts],
         Evaluate(batch), Replace(batch, Improved(batch))
  PROVE  Trials(n, Prefix(1 .. m), batch)
<1>1. n \in Nat /\ m \in Nat
  BY HeldTypes
<1>2. /\ Prefix(1 .. m) \in SUBSET (1 .. n)
      /\ fes + Cardinality(Prefix(1 .. m)) <= budget
  <2>1. Prefix(1 .. m) \in SUBSET (1 .. m)
    BY DEF Prefix
  <2> QED
    BY <1>1, <2>1, PrefixOfRows
<1> QED
  BY <1>2 DEF Trials

\* The runtime and the rows of SuccessHistory are those of the composition.
LEMMA HistorySame ==
  /\ /\ History!Layouts = Layouts
     /\ History!Power = Power
     /\ History!Size = Size
     /\ History!Rows = Rows
  /\ \A rows : /\ History!Prefix(rows) = Prefix(rows)
               /\ History!Parents(rows) = Parents(rows)
  /\ \A batch : /\ History!Improved(batch) = Improved(batch)
                /\ History!Evaluate(batch) <=> Evaluate(batch)
  /\ \A n : History!InitializeRows(n) <=> InitializeRows(n)
  /\ \A batch, rows : History!Replace(batch, rows) <=> Replace(batch, rows)
  /\ \A layouts, n : History!Trim(layouts, n) <=> Trim(layouts, n)
  /\ \A k, n : History!Reduce(k, n) <=> Reduce(k, n)
  /\ \A n, d : /\ History!RoundedQuotient(n, d) = RoundedQuotient(n, d)
               /\ History!LinearPlan(n, d) = LinearPlan(n, d)
  /\ \A value : History!First(value) = First(value)
  /\ \A stage : History!Unless(stage) = Unless(stage)
<1>1. /\ History!Layouts = Layouts
      /\ History!Power = Power
      /\ History!Size = Size
      /\ History!Rows = Rows
  BY DEF History!Layouts, Layouts, History!Power, Power, History!Size, Size,
         History!Cardinality, Cardinality, History!Rows, Rows
<1>2. ASSUME NEW rows
      PROVE  /\ History!Prefix(rows) = Prefix(rows)
             /\ History!Parents(rows) = Parents(rows)
  BY DEF History!Prefix, Prefix, History!Cardinality, Cardinality, History!Parents, Parents
<1>3. ASSUME NEW batch
      PROVE  /\ History!Improved(batch) = Improved(batch)
             /\ History!Evaluate(batch) <=> Evaluate(batch)
  BY DEF History!Improved, Improved, History!Power, Power, History!Evaluate, Evaluate,
         History!Commit, Commit, History!Cardinality, Cardinality
<1>4. ASSUME NEW n
      PROVE  History!InitializeRows(n) <=> InitializeRows(n)
  BY DEF History!InitializeRows, InitializeRows, History!Evaluate, Evaluate, History!Commit,
         Commit, History!Power, Power, History!Cardinality, Cardinality, History!Layouts,
         Layouts, History!PowerOf, PowerOf
<1>5. ASSUME NEW batch, NEW rows
      PROVE  History!Replace(batch, rows) <=> Replace(batch, rows)
  BY DEF History!Replace, Replace, History!Rows, Rows, History!Size, Size,
         History!Cardinality, Cardinality, History!Power, Power
<1>6. ASSUME NEW layouts, NEW n
      PROVE  History!Trim(layouts, n) <=> Trim(layouts, n)
  BY DEF History!Trim, Trim, History!Cardinality, Cardinality
<1>7. ASSUME NEW k, NEW n
      PROVE  History!Reduce(k, n) <=> Reduce(k, n)
  BY DEF History!Reduce, Reduce, History!KeepTop, KeepTop, History!Ranked, Ranked,
         History!Before, Before, History!Cardinality, Cardinality, History!Trim, Trim,
         History!Size, Size, History!deVars, deVars
<1>8. ASSUME NEW n, NEW d
      PROVE  /\ History!RoundedQuotient(n, d) = RoundedQuotient(n, d)
             /\ History!LinearPlan(n, d) = LinearPlan(n, d)
  BY DEF History!RoundedQuotient, RoundedQuotient, History!LinearPlan, LinearPlan
<1>9. ASSUME NEW value
      PROVE  History!First(value) = First(value)
  BY DEF History!First, First, History!Before, Before
<1>10. ASSUME NEW stage
      PROVE  History!Unless(stage) = Unless(stage)
  BY DEF History!Unless, Unless
<1> QED
  BY <1>1, <1>2, <1>3, <1>4, <1>5, <1>6, <1>7, <1>8, <1>9, <1>10

\* And those of CompetitiveElimination.
LEMMA CompetitiveSame ==
  /\ /\ Competitive!Layouts = Layouts
     /\ Competitive!Power = Power
     /\ Competitive!Size = Size
     /\ Competitive!Rows = Rows
  /\ \A rows : /\ Competitive!Prefix(rows) = Prefix(rows)
               /\ Competitive!Parents(rows) = Parents(rows)
  /\ \A batch : /\ Competitive!Improved(batch) = Improved(batch)
                /\ Competitive!Evaluate(batch) <=> Evaluate(batch)
                /\ Competitive!EvaluateUntracked(batch) <=> EvaluateUntracked(batch)
                /\ Competitive!PowerOf(batch) = PowerOf(batch)
  /\ \A n : Competitive!InitializeRows(n) <=> InitializeRows(n)
  /\ \A batch, rows : Competitive!Replace(batch, rows) <=> Replace(batch, rows)
  /\ \A layouts, n : Competitive!Trim(layouts, n) <=> Trim(layouts, n)
  /\ \A k, n : Competitive!Reduce(k, n) <=> Reduce(k, n)
  /\ \A n, d : /\ Competitive!RoundedQuotient(n, d) = RoundedQuotient(n, d)
               /\ Competitive!LinearPlan(n, d) = LinearPlan(n, d)
  /\ \A value : Competitive!First(value) = First(value)
  /\ \A stage : Competitive!Unless(stage) = Unless(stage)
<1>1. /\ Competitive!Layouts = Layouts
      /\ Competitive!Power = Power
      /\ Competitive!Size = Size
      /\ Competitive!Rows = Rows
  BY DEF Competitive!Layouts, Layouts, Competitive!Power, Power, Competitive!Size, Size,
         Competitive!Cardinality, Cardinality, Competitive!Rows, Rows
<1>2. ASSUME NEW rows
      PROVE  /\ Competitive!Prefix(rows) = Prefix(rows)
             /\ Competitive!Parents(rows) = Parents(rows)
  BY DEF Competitive!Prefix, Prefix, Competitive!Cardinality, Cardinality,
         Competitive!Parents, Parents
<1>3. ASSUME NEW batch
      PROVE  /\ Competitive!Improved(batch) = Improved(batch)
             /\ Competitive!Evaluate(batch) <=> Evaluate(batch)
             /\ Competitive!EvaluateUntracked(batch) <=> EvaluateUntracked(batch)
             /\ Competitive!PowerOf(batch) = PowerOf(batch)
  BY DEF Competitive!Improved, Improved, Competitive!Power, Power, Competitive!Evaluate,
         Evaluate, Competitive!Commit, Commit, Competitive!Cardinality, Cardinality,
         Competitive!EvaluateUntracked, EvaluateUntracked, Competitive!PowerOf, PowerOf
<1>4. ASSUME NEW n
      PROVE  Competitive!InitializeRows(n) <=> InitializeRows(n)
  BY DEF Competitive!InitializeRows, InitializeRows, Competitive!Evaluate, Evaluate,
         Competitive!Commit, Commit, Competitive!Power, Power, Competitive!Cardinality,
         Cardinality, Competitive!Layouts, Layouts, Competitive!PowerOf, PowerOf
<1>5. ASSUME NEW batch, NEW rows
      PROVE  Competitive!Replace(batch, rows) <=> Replace(batch, rows)
  BY DEF Competitive!Replace, Replace, Competitive!Rows, Rows, Competitive!Size, Size,
         Competitive!Cardinality, Cardinality, Competitive!Power, Power
<1>6. ASSUME NEW layouts, NEW n
      PROVE  Competitive!Trim(layouts, n) <=> Trim(layouts, n)
  BY DEF Competitive!Trim, Trim, Competitive!Cardinality, Cardinality
<1>7. ASSUME NEW k, NEW n
      PROVE  Competitive!Reduce(k, n) <=> Reduce(k, n)
  BY DEF Competitive!Reduce, Reduce, Competitive!KeepTop, KeepTop, Competitive!Ranked,
         Ranked, Competitive!Before, Before, Competitive!Cardinality, Cardinality,
         Competitive!Trim, Trim, Competitive!Size, Size, Competitive!deVars, deVars
<1>8. ASSUME NEW n, NEW d
      PROVE  /\ Competitive!RoundedQuotient(n, d) = RoundedQuotient(n, d)
             /\ Competitive!LinearPlan(n, d) = LinearPlan(n, d)
  BY DEF Competitive!RoundedQuotient, RoundedQuotient, Competitive!LinearPlan, LinearPlan
<1>9. ASSUME NEW value
      PROVE  Competitive!First(value) = First(value)
  BY DEF Competitive!First, First, Competitive!Before, Before
<1>10. ASSUME NEW stage
      PROVE  Competitive!Unless(stage) = Unless(stage)
  BY DEF Competitive!Unless, Unless
<1> QED
  BY <1>1, <1>2, <1>3, <1>4, <1>5, <1>6, <1>7, <1>8, <1>9, <1>10

\* Those of HierarchicalDE.
LEMMA ClusteredSame ==
  /\ \A S : Clustered!Cardinality(S) = Cardinality(S)
  /\ /\ Clustered!Layouts = Layouts
     /\ Clustered!Power = Power
     /\ Clustered!Size = Size
     /\ Clustered!Rows = Rows
  /\ \A rows : /\ Clustered!Prefix(rows) = Prefix(rows)
               /\ Clustered!Parents(rows) = Parents(rows)
  /\ \A batch : /\ Clustered!Improved(batch) = Improved(batch)
                /\ Clustered!Evaluate(batch) <=> Evaluate(batch)
  /\ \A n : /\ Clustered!InitializeRows(n) <=> InitializeRows(n)
            /\ Clustered!KeepTop(n) <=> KeepTop(n)
  /\ \A batch, rows : Clustered!Replace(batch, rows) <=> Replace(batch, rows)
  /\ \A layouts, n : Clustered!Trim(layouts, n) <=> Trim(layouts, n)
  /\ \A n, d : Clustered!RoundedQuotient(n, d) = RoundedQuotient(n, d)
  /\ \A value : Clustered!First(value) = First(value)
<1>1. ASSUME NEW S
      PROVE  Clustered!Cardinality(S) = Cardinality(S)
  BY DEF Clustered!Cardinality, Cardinality
<1>2. /\ Clustered!Layouts = Layouts
      /\ Clustered!Power = Power
      /\ Clustered!Size = Size
      /\ Clustered!Rows = Rows
  BY DEF Clustered!Layouts, Layouts, Clustered!Power, Power, Clustered!Size, Size,
         Clustered!Cardinality, Cardinality, Clustered!Rows, Rows
<1>3. ASSUME NEW rows
      PROVE  /\ Clustered!Prefix(rows) = Prefix(rows)
             /\ Clustered!Parents(rows) = Parents(rows)
  BY DEF Clustered!Prefix, Prefix, Clustered!Cardinality, Cardinality, Clustered!Parents,
         Parents
<1>4. ASSUME NEW batch
      PROVE  /\ Clustered!Improved(batch) = Improved(batch)
             /\ Clustered!Evaluate(batch) <=> Evaluate(batch)
  BY DEF Clustered!Improved, Improved, Clustered!Power, Power, Clustered!Evaluate, Evaluate,
         Clustered!Commit, Commit, Clustered!Cardinality, Cardinality
<1>5. ASSUME NEW n
      PROVE  /\ Clustered!InitializeRows(n) <=> InitializeRows(n)
             /\ Clustered!KeepTop(n) <=> KeepTop(n)
  BY DEF Clustered!InitializeRows, InitializeRows, Clustered!Evaluate, Evaluate,
         Clustered!Commit, Commit, Clustered!Power, Power, Clustered!Cardinality,
         Cardinality, Clustered!Layouts, Layouts, Clustered!PowerOf, PowerOf,
         Clustered!KeepTop, KeepTop, Clustered!Ranked, Ranked, Clustered!Before, Before
<1>6. ASSUME NEW batch, NEW rows
      PROVE  Clustered!Replace(batch, rows) <=> Replace(batch, rows)
  BY DEF Clustered!Replace, Replace, Clustered!Rows, Rows, Clustered!Size, Size,
         Clustered!Cardinality, Cardinality, Clustered!Power, Power
<1>7. ASSUME NEW layouts, NEW n
      PROVE  Clustered!Trim(layouts, n) <=> Trim(layouts, n)
  BY DEF Clustered!Trim, Trim, Clustered!Cardinality, Cardinality
<1>8. ASSUME NEW n, NEW d
      PROVE  Clustered!RoundedQuotient(n, d) = RoundedQuotient(n, d)
  BY DEF Clustered!RoundedQuotient, RoundedQuotient
<1>9. ASSUME NEW value
      PROVE  Clustered!First(value) = First(value)
  BY DEF Clustered!First, First, Clustered!Before, Before
<1> QED
  BY <1>1, <1>2, <1>3, <1>4, <1>5, <1>6, <1>7, <1>8, <1>9

\* Those of ElitistSearch.
LEMMA ElitistSame ==
  /\ /\ Elitist!Layouts = Layouts
     /\ Elitist!Power = Power
     /\ Elitist!Size = Size
     /\ Elitist!Rows = Rows
  /\ \A batch : /\ Elitist!PowerOf(batch) = PowerOf(batch)
                /\ Elitist!Improved(batch) = Improved(batch)
                /\ Elitist!Evaluate(batch) <=> Evaluate(batch)
  /\ \A rows : Elitist!Prefix(rows) = Prefix(rows)
  /\ \A n : Elitist!InitializeRows(n) <=> InitializeRows(n)
  /\ \A batch, rows : Elitist!Replace(batch, rows) <=> Replace(batch, rows)
  /\ \A value : Elitist!Ranked(value) = Ranked(value)
<1>1. /\ Elitist!Layouts = Layouts
      /\ Elitist!Power = Power
      /\ Elitist!Size = Size
      /\ Elitist!Rows = Rows
  BY DEF Elitist!Layouts, Layouts, Elitist!Power, Power, Elitist!Size, Size,
         Elitist!Cardinality, Cardinality, Elitist!Rows, Rows
<1>2. ASSUME NEW batch
      PROVE  /\ Elitist!PowerOf(batch) = PowerOf(batch)
             /\ Elitist!Improved(batch) = Improved(batch)
             /\ Elitist!Evaluate(batch) <=> Evaluate(batch)
  BY DEF Elitist!PowerOf, PowerOf, Elitist!Power, Power, Elitist!Improved, Improved,
         Elitist!Evaluate, Evaluate, Elitist!Commit, Commit, Elitist!Cardinality,
         Cardinality
<1>3. ASSUME NEW rows
      PROVE  Elitist!Prefix(rows) = Prefix(rows)
  BY DEF Elitist!Prefix, Prefix, Elitist!Cardinality, Cardinality
<1>4. ASSUME NEW n
      PROVE  Elitist!InitializeRows(n) <=> InitializeRows(n)
  BY DEF Elitist!InitializeRows, InitializeRows, Elitist!Evaluate, Evaluate, Elitist!Commit,
         Commit, Elitist!Power, Power, Elitist!Cardinality, Cardinality, Elitist!Layouts,
         Layouts, Elitist!PowerOf, PowerOf
<1>5. ASSUME NEW batch, NEW rows
      PROVE  Elitist!Replace(batch, rows) <=> Replace(batch, rows)
  BY DEF Elitist!Replace, Replace, Elitist!Rows, Rows, Elitist!Size, Size,
         Elitist!Cardinality, Cardinality, Elitist!Power, Power
<1>6. ASSUME NEW value
      PROVE  Elitist!Ranked(value) = Ranked(value)
  BY DEF Elitist!Ranked, Ranked, Elitist!Before, Before, Elitist!Cardinality, Cardinality
<1> QED
  BY <1>1, <1>2, <1>3, <1>4, <1>5, <1>6

\* Those of ParticleSwarm.
LEMMA SwarmSame ==
  /\ /\ Swarm!Layouts = Layouts
     /\ Swarm!Power = Power
     /\ Swarm!Size = Size
     /\ Swarm!Rows = Rows
  /\ \A batch : /\ Swarm!PowerOf(batch) = PowerOf(batch)
                /\ Swarm!Evaluate(batch) <=> Evaluate(batch)
  /\ \A rows : Swarm!Prefix(rows) = Prefix(rows)
  /\ \A n : Swarm!InitializeRows(n) <=> InitializeRows(n)
  /\ \A value : Swarm!First(value) = First(value)
  /\ \A stage : Swarm!Unless(stage) = Unless(stage)
<1>1. /\ Swarm!Layouts = Layouts
      /\ Swarm!Power = Power
      /\ Swarm!Size = Size
      /\ Swarm!Rows = Rows
  BY DEF Swarm!Layouts, Layouts, Swarm!Power, Power, Swarm!Size, Size, Swarm!Cardinality,
         Cardinality, Swarm!Rows, Rows
<1>2. ASSUME NEW batch
      PROVE  /\ Swarm!PowerOf(batch) = PowerOf(batch)
             /\ Swarm!Evaluate(batch) <=> Evaluate(batch)
  BY DEF Swarm!PowerOf, PowerOf, Swarm!Power, Power, Swarm!Evaluate, Evaluate, Swarm!Commit,
         Commit, Swarm!Cardinality, Cardinality
<1>3. ASSUME NEW rows
      PROVE  Swarm!Prefix(rows) = Prefix(rows)
  BY DEF Swarm!Prefix, Prefix, Swarm!Cardinality, Cardinality
<1>4. ASSUME NEW n
      PROVE  Swarm!InitializeRows(n) <=> InitializeRows(n)
  BY DEF Swarm!InitializeRows, InitializeRows, Swarm!Evaluate, Evaluate, Swarm!Commit,
         Commit, Swarm!Power, Power, Swarm!Cardinality, Cardinality, Swarm!Layouts, Layouts,
         Swarm!PowerOf, PowerOf
<1>5. ASSUME NEW value
      PROVE  Swarm!First(value) = First(value)
  BY DEF Swarm!First, First, Swarm!Before, Before
<1>6. ASSUME NEW stage
      PROVE  Swarm!Unless(stage) = Unless(stage)
  BY DEF Swarm!Unless, Unless
<1> QED
  BY <1>1, <1>2, <1>3, <1>4, <1>5, <1>6

\* Those of HierarchicalSwarm.
LEMMA LeveledSame ==
  /\ /\ Leveled!Layouts = Layouts
     /\ Leveled!Power = Power
     /\ Leveled!Size = Size
     /\ Leveled!Rows = Rows
  /\ \A batch : /\ Leveled!PowerOf(batch) = PowerOf(batch)
                /\ Leveled!Improved(batch) = Improved(batch)
                /\ Leveled!Evaluate(batch) <=> Evaluate(batch)
  /\ \A rows : Leveled!Prefix(rows) = Prefix(rows)
  /\ \A n : Leveled!InitializeRows(n) <=> InitializeRows(n)
  /\ \A batch, rows : Leveled!Replace(batch, rows) <=> Replace(batch, rows)
  /\ \A value : Leveled!First(value) = First(value)
  /\ \A stage : Leveled!Unless(stage) = Unless(stage)
<1>1. /\ Leveled!Layouts = Layouts
      /\ Leveled!Power = Power
      /\ Leveled!Size = Size
      /\ Leveled!Rows = Rows
  BY DEF Leveled!Layouts, Layouts, Leveled!Power, Power, Leveled!Size, Size,
         Leveled!Cardinality, Cardinality, Leveled!Rows, Rows
<1>2. ASSUME NEW batch
      PROVE  /\ Leveled!PowerOf(batch) = PowerOf(batch)
             /\ Leveled!Improved(batch) = Improved(batch)
             /\ Leveled!Evaluate(batch) <=> Evaluate(batch)
  BY DEF Leveled!PowerOf, PowerOf, Leveled!Power, Power, Leveled!Improved, Improved,
         Leveled!Evaluate, Evaluate, Leveled!Commit, Commit, Leveled!Cardinality,
         Cardinality
<1>3. ASSUME NEW rows
      PROVE  Leveled!Prefix(rows) = Prefix(rows)
  BY DEF Leveled!Prefix, Prefix, Leveled!Cardinality, Cardinality
<1>4. ASSUME NEW n
      PROVE  Leveled!InitializeRows(n) <=> InitializeRows(n)
  BY DEF Leveled!InitializeRows, InitializeRows, Leveled!Evaluate, Evaluate, Leveled!Commit,
         Commit, Leveled!Power, Power, Leveled!Cardinality, Cardinality, Leveled!Layouts,
         Layouts, Leveled!PowerOf, PowerOf
<1>5. ASSUME NEW batch, NEW rows
      PROVE  Leveled!Replace(batch, rows) <=> Replace(batch, rows)
  BY DEF Leveled!Replace, Replace, Leveled!Rows, Rows, Leveled!Size, Size,
         Leveled!Cardinality, Cardinality, Leveled!Power, Power
<1>6. ASSUME NEW value
      PROVE  Leveled!First(value) = First(value)
  BY DEF Leveled!First, First, Leveled!Before, Before
<1>7. ASSUME NEW stage
      PROVE  Leveled!Unless(stage) = Unless(stage)
  BY DEF Leveled!Unless, Unless
<1> QED
  BY <1>1, <1>2, <1>3, <1>4, <1>5, <1>6, <1>7

\* The runtime of GeneticLayouts.
LEMMA GeneticSame ==
  /\ /\ Genetic!Layouts = Layouts
     /\ Genetic!Power = Power
  /\ \A rows : Genetic!Prefix(rows) = Prefix(rows)
  /\ \A batch : Genetic!Evaluate(batch) <=> Evaluate(batch)
  /\ \A value : Genetic!Ranked(value) = Ranked(value)
<1>1. /\ Genetic!Layouts = Layouts
      /\ Genetic!Power = Power
  BY DEF Genetic!Layouts, Layouts, Genetic!Power, Power
<1>2. ASSUME NEW rows
      PROVE  Genetic!Prefix(rows) = Prefix(rows)
  BY DEF Genetic!Prefix, Prefix, Genetic!Cardinality, Cardinality
<1>3. ASSUME NEW batch
      PROVE  Genetic!Evaluate(batch) <=> Evaluate(batch)
  BY DEF Genetic!Evaluate, Evaluate, Genetic!Commit, Commit, Genetic!Power, Power,
         Genetic!Cardinality, Cardinality
<1>4. ASSUME NEW value
      PROVE  Genetic!Ranked(value) = Ranked(value)
  BY DEF Genetic!Ranked, Ranked, Genetic!Before, Before, Genetic!Cardinality, Cardinality
<1> QED
  BY <1>1, <1>2, <1>3, <1>4

\* The rows of GeometricGenetic.
LEMMA GeometricSame ==
  /\ \A S : Geometric!Cardinality(S) = Cardinality(S)
  /\ /\ Geometric!Layouts = Layouts
     /\ Geometric!Power = Power
     /\ Geometric!Size = Size
     /\ Geometric!Rows = Rows
  /\ \A batch : /\ Geometric!PowerOf(batch) = PowerOf(batch)
                /\ Geometric!Improved(batch) = Improved(batch)
  /\ \A rows : Geometric!Prefix(rows) = Prefix(rows)
  /\ \A batch, rows : Geometric!Replace(batch, rows) <=> Replace(batch, rows)
  /\ \A value : Geometric!First(value) = First(value)
<1>1. ASSUME NEW S
      PROVE  Geometric!Cardinality(S) = Cardinality(S)
  BY DEF Geometric!Cardinality, Cardinality
<1>2. /\ Geometric!Layouts = Layouts
      /\ Geometric!Power = Power
      /\ Geometric!Size = Size
      /\ Geometric!Rows = Rows
  BY DEF Geometric!Layouts, Layouts, Geometric!Power, Power, Geometric!Size, Size,
         Geometric!Cardinality, Cardinality, Geometric!Rows, Rows
<1>3. ASSUME NEW batch
      PROVE  /\ Geometric!PowerOf(batch) = PowerOf(batch)
             /\ Geometric!Improved(batch) = Improved(batch)
  BY DEF Geometric!PowerOf, PowerOf, Geometric!Power, Power, Geometric!Improved, Improved
<1>4. ASSUME NEW rows
      PROVE  Geometric!Prefix(rows) = Prefix(rows)
  BY DEF Geometric!Prefix, Prefix, Geometric!Cardinality, Cardinality
<1>5. ASSUME NEW batch, NEW rows
      PROVE  Geometric!Replace(batch, rows) <=> Replace(batch, rows)
  BY DEF Geometric!Replace, Replace, Geometric!Rows, Rows, Geometric!Size, Size,
         Geometric!Cardinality, Cardinality, Geometric!Power, Power
<1>6. ASSUME NEW value
      PROVE  Geometric!First(value) = First(value)
  BY DEF Geometric!First, First, Geometric!Before, Before
<1> QED
  BY <1>1, <1>2, <1>3, <1>4, <1>5, <1>6

-----------------------------------------------------------------------------
(* SuccessHistory.                                                         *)

\* The rows of the success-history searches once they are evaluated.
HistoryRows ==
  /\ HoldsRows(Size)
  /\ Size >= History!Floor
  /\ BestInPopulation
  /\ ArchiveHolds(History!Capacity(Size), algorithm = "wfadde")

\* The invariant of the success-history searches.
HistoryInv ==
  \/ /\ pc = "init"
     /\ fes = 0 /\ best = 0
     /\ population = <<>> /\ fitness = <<>> /\ archive = {}
  \/ /\ pc \in {"loop", "local", "reduce", "finish", "done"}
     /\ HistoryRows
     /\ pc = "local" => fes < budget
     /\ pc \in {"finish", "done"} => fes = budget

\* The parameters of the success-history searches.
LEMMA HistoryCase ==
  ASSUME algorithm \in Chosen, algorithm \in History!Algorithms, RunSound
  PROVE  /\ History!InitialSize \in Nat /\ History!Floor \in Nat
         /\ History!Floor >= 3 /\ History!Floor <= History!InitialSize
         /\ History!InitialSize <= budget
         /\ \A n \in Nat : History!Capacity(n) \in Nat
<1>1. History!SettingOK(Setting[algorithm])
  BY SettingAssumption
<1>2. budget \in Nat /\ budget \in Setting[algorithm].budgets
  BY CaseTypes DEF RunSound
<1>3. /\ History!InitialSize \in Nat /\ History!Floor \in Nat
      /\ History!Floor >= 3 /\ History!Floor <= History!InitialSize
      /\ History!InitialSize <= budget
      /\ History!ArchivePercent \in Nat
  BY <1>1, <1>2
  DEF History!SettingOK, History!InitialSize, History!Floor, History!ArchivePercent
<1>4. ASSUME NEW n \in Nat PROVE History!Capacity(n) \in Nat
  <2>1. History!ArchivePercent * n \in Nat
    BY <1>3
  <2>2. RoundedQuotient(History!ArchivePercent * n, 100) \in Nat
    BY <2>1, RoundedNat
  <2> QED
    BY <2>2, HistorySame DEF History!Capacity
<1> QED
  BY <1>3, <1>4

\* They do not change.
LEMMA HistoryCaseStays ==
  ASSUME SameCase
  PROVE  /\ History!Floor' = History!Floor
         /\ \A n : History!Capacity(n)' = History!Capacity(n)
BY DEF SameCase, History!Floor, History!Capacity, History!Chaotic, History!ArchivePercent,
   History!RoundedQuotient

\* A generation of trials, whatever it archives.
LEMMA HistoryTrials ==
  ASSUME algorithm \in Chosen, algorithm \in History!Algorithms, RunSound, HistoryRows,
         NEW S, NEW batch, Trials(Size, S, batch), Cardinality(S) > 0,
         \A l \in archive' : l \in archive \/ MayArchive(batch, algorithm = "wfadde", l),
         Cardinality(archive') <= History!Capacity(Size),
         pc # "done", pc' # "done"
  PROVE  /\ RunSound' /\ SameCase /\ HistoryRows' /\ GoesOn
         /\ \A kept : GroundKept(kept)
         /\ fes' = fes + Cardinality(S)
<1>1. /\ Spends(Cardinality(S)) /\ HeldAfter(Size)
      /\ BestInPopulation'
      /\ RunSound' /\ SameCase /\ fes' = fes + Cardinality(S)
  BY TrialsSound DEF Spends, HistoryRows
<1>2. PICK n : n = Size
  OBVIOUS
<1>3. PICK loose \in BOOLEAN : loose = (algorithm = "wfadde")
  OBVIOUS
<1>4. PICK capacity : capacity = History!Capacity(n)
  OBVIOUS
<1>5. ArchiveHolds(capacity, loose)'
  BY <1>2, <1>3, <1>4, ArchiveAfterTrials DEF HistoryRows
<1>6. /\ Size' = n /\ HoldsRows(n)' /\ History!Capacity(n)' = capacity
      /\ History!Floor' = History!Floor /\ algorithm' = algorithm
  BY <1>1, <1>2, <1>4, HistoryCaseStays DEF HeldAfter, SameCase
<1>7. HistoryRows'
  BY <1>1, <1>2, <1>3, <1>4, <1>5, <1>6 DEF HistoryRows
<1>8. GoesOn
  BY <1>1, SpendingGoesOn
<1>9. \A kept : GroundKept(kept)
  BY TrialsKeepGround
<1> QED
  BY <1>1, <1>7, <1>8, <1>9

\* As many rows as are held.
LEMMA RowsAfter ==
  ASSUME RunSound', NEW n, HoldsRows(n)'
  PROVE  Cardinality(DOMAIN fitness') = n
<1>1. n \in Nat /\ DOMAIN fitness' = 1 .. n
  BY HeldTypesNext
<1> QED
  BY <1>1, FiniteRows

\* The first evaluation starts a run.
LEMMA FirstRowsGoOn ==
  ASSUME RunSound, NEW n \in Nat \ {0}, fes = 0, fes + n <= budget, best = 0,
         InitializeRows(n), pc = "init", pc' # "done"
  PROVE  /\ RunSound' /\ SameCase /\ fes' = fes + n
         /\ HeldAfter(n) /\ HoldsRows(n)' /\ BestInPopulation' /\ Size' = n
         /\ best' > best /\ GoesOn
<1>1. /\ RunSound' /\ SameCase /\ fes' = fes + n
      /\ HoldsRows(n)' /\ RowsAligned' /\ BestInPopulation'
      /\ Rows' = 1 .. n /\ Size' = n /\ best' > best
  BY InitializeSound
<1>2. \E l \in Layouts : best' = Power[l]
  <2>1. \E r \in 1 .. n : fitness'[r] = best'
    BY <1>1, HeldTypesNext DEF BestInPopulation
  <2>2. PICK batch \in [1 .. n -> Layouts] : fitness' = PowerOf(batch)
    BY DEF InitializeRows
  <2> QED
    BY <2>1, <2>2 DEF PowerOf
<1>3. fes' > fes /\ best' >= best
  <2>1. best \in Nat /\ best' \in Nat
    BY <1>1 DEF RunSound
  <2> QED
    BY <1>1, <2>1
<1> QED
  BY <1>1, <1>2, <1>3 DEF GoesOn, HeldAfter

\* A generation that evaluates a trial for every row the budget pays for.
LEMMA HistoryGeneration ==
  ASSUME algorithm \in Chosen, algorithm \in History!Algorithms, RunSound, HistoryRows,
         fes < budget, NEW batch \in [Prefix(Rows) -> Layouts],
         Evaluate(batch), Replace(batch, Improved(batch)), NEW layouts,
         Trim(archive \cup layouts, History!Capacity(Size)),
         \A l \in layouts : MayArchive(batch, algorithm = "wfadde", l),
         pc # "done", pc' # "done"
  PROVE  /\ RunSound' /\ SameCase /\ HistoryRows' /\ GoesOn
         /\ \A kept : GroundKept(kept)
<1>1. PICK n : n = Size
  OBVIOUS
<1>2. HoldsRows(n) /\ n \in Nat /\ n > 0 /\ Rows = 1 .. n
  <2>1. HoldsRows(n)
    BY <1>1 DEF HistoryRows
  <2> QED
    BY <2>1, HeldTypes
<1>3. Trials(n, Prefix(1 .. n), batch)
  <2>1. n \in 1 .. n
    BY <1>2
  <2> QED
    BY <1>2, <2>1, PrefixTrials
<1>4. Cardinality(Prefix(1 .. n)) > 0
  BY <1>2, PrefixPays
<1>5. /\ Cardinality(archive') <= History!Capacity(Size)
      /\ archive' \subseteq archive \cup layouts
  <2>1. History!Capacity(Size) \in Nat
    BY <1>1, <1>2, HistoryCase
  <2> QED
    BY <2>1, TrimSound
<1>6. \A l \in archive' : l \in archive \/ MayArchive(batch, algorithm = "wfadde", l)
  BY <1>5
<1> QED
  BY <1>1, <1>3, <1>4, <1>5, <1>6, HistoryTrials

\* Every step of the success-history searches keeps the invariant and goes on.
LEMMA HistoryStep ==
  ASSUME algorithm \in Chosen, algorithm \in History!Algorithms, RunSound, HistoryInv,
         History!Step
  PROVE  /\ RunSound' /\ SameCase /\ HistoryInv' /\ GoesOn
         /\ GroundKept(Cardinality(DOMAIN fitness'))
<1>1. CASE History!Initialize
  <2>1. /\ pc = "init" /\ pc' = "loop" /\ archive' = archive
        /\ InitializeRows(History!InitialSize)
    BY <1>1, HistorySame DEF History!Initialize
  <2>2. fes = 0 /\ best = 0 /\ population = <<>> /\ archive = {}
    BY <2>1 DEF HistoryInv
  <2>3. PICK n : n = History!InitialSize
    OBVIOUS
  <2>4. n \in Nat \ {0} /\ fes + n <= budget /\ n >= History!Floor
    BY <2>2, <2>3, HistoryCase
  <2>5. /\ RunSound' /\ SameCase /\ fes' = fes + n
        /\ HoldsRows(n)' /\ BestInPopulation' /\ Size' = n /\ GoesOn
    BY <2>1, <2>2, <2>3, <2>4, FirstRowsGoOn
  <2>6. History!Floor' = History!Floor /\ History!Capacity(n)' \in Nat
    BY <2>4, <2>5, HistoryCase, HistoryCaseStays
  <2>7. HistoryRows'
    <3>1. ArchiveHolds(History!Capacity(n), algorithm = "wfadde")'
      BY <2>1, <2>2, <2>6, EmptyRows DEF ArchiveHolds
    <3> QED
      BY <2>4, <2>5, <2>6, <3>1 DEF HistoryRows
  <2>8. HistoryInv'
    BY <2>1, <2>7 DEF HistoryInv
  <2> QED
    BY <2>2, <2>5, <2>8, GroundOfFirstRows
<1>2. CASE History!Generation
  <2>1. /\ pc = "loop" /\ algorithm # "wfadde" /\ fes < budget
        /\ pc' = History!AfterSelection
    BY <1>2 DEF History!Generation
  <2>2. PICK batch \in [Prefix(Rows) -> Layouts] :
          /\ Evaluate(batch) /\ Replace(batch, Improved(batch))
          /\ Trim(archive \cup Parents(Improved(batch)), History!Capacity(Size))
    BY <1>2, HistorySame DEF History!Generation
  <2>3. HistoryRows
    BY <2>1 DEF HistoryInv
  <2>4. pc # "done" /\ pc' \in {"finish", "local", "reduce"}
        /\ (fes' >= budget => pc' = "finish") /\ (pc' = "finish" => fes' >= budget)
    BY <2>1 DEF History!AfterSelection
  <2>5. RunSound' /\ SameCase /\ HistoryRows' /\ GoesOn /\ \A kept : GroundKept(kept)
    <3>1. \A l \in Parents(Improved(batch)) : MayArchive(batch, algorithm = "wfadde", l)
      BY DEF MayArchive
    <3>2. pc' # "done"
      BY <2>4
    <3> QED
      BY <2>1, <2>2, <2>3, <3>1, <3>2, HistoryGeneration
  <2>6. HistoryInv'
    <3>1. fes' \in Nat /\ budget' = budget /\ fes' <= budget /\ budget \in Nat
      BY <2>5, CaseTypes DEF SameCase, RunSound
    <3> QED
      BY <2>4, <2>5, <3>1 DEF HistoryInv
  <2> QED
    BY <2>5, <2>6
<1>3. CASE History!MultiStrategyGeneration
  <2>1. pc = "loop" /\ fes < budget /\ pc' = "loop"
    BY <1>3 DEF History!MultiStrategyGeneration
  <2>2. PICK batch \in [Prefix(Rows) -> Layouts] :
          /\ Evaluate(batch) /\ Replace(batch, Improved(batch))
          /\ Trim(archive \cup Parents(Improved(batch)), History!Capacity(Size))
    BY <1>3, HistorySame DEF History!MultiStrategyGeneration
  <2>3. HistoryRows
    BY <2>1 DEF HistoryInv
  <2>4. RunSound' /\ SameCase /\ HistoryRows' /\ GoesOn /\ \A kept : GroundKept(kept)
    <3>1. \A l \in Parents(Improved(batch)) : MayArchive(batch, algorithm = "wfadde", l)
      BY DEF MayArchive
    <3> QED
      BY <2>1, <2>2, <2>3, <3>1, HistoryGeneration
  <2> QED
    BY <2>1, <2>4 DEF HistoryInv
<1>4. CASE History!FailureGeneration
  <2>1. pc = "loop" /\ fes < budget /\ pc' = "reduce" /\ algorithm = "wfadde"
    BY <1>4 DEF History!FailureGeneration
  <2>2. PICK batch \in [Prefix(Rows) -> Layouts] :
          /\ Evaluate(batch) /\ Replace(batch, Improved(batch))
          /\ Trim(archive \cup History!Failures(batch), History!Capacity(Size))
    BY <1>4, HistorySame DEF History!FailureGeneration
  <2>3. HistoryRows
    BY <2>1 DEF HistoryInv
  <2>4. RunSound' /\ SameCase /\ HistoryRows' /\ GoesOn /\ \A kept : GroundKept(kept)
    <3>1. \A l \in History!Failures(batch) : MayArchive(batch, algorithm = "wfadde", l)
      BY <2>1, HistorySame DEF MayArchive, History!Failures
    <3> QED
      BY <2>1, <2>2, <2>3, <3>1, HistoryGeneration
  <2> QED
    BY <2>1, <2>4 DEF HistoryInv
<1>5. CASE History!ChaoticLocalSearch
  <2>1. pc = "local" /\ pc' = History!Unless("reduce") /\ archive' = archive
    BY <1>5 DEF History!ChaoticLocalSearch
  <2>2. HistoryRows /\ fes < budget
    BY <2>1 DEF HistoryInv
  <2>3. pc' = "reduce"
    BY <2>1, <2>2, HistorySame, CaseTypes DEF Unless
  <2>4. PICK row : row = First(fitness)
    OBVIOUS
  <2>5. PICK layout \in Layouts : LET batch == [r \in {row} |-> layout]
                                  IN Evaluate(batch) /\ Replace(batch, Improved(batch))
    BY <1>5, <2>4, HistorySame DEF History!ChaoticLocalSearch
  <2>6. PICK n : n = Size
    OBVIOUS
  <2>7. PICK batch : batch = [r \in {row} |-> layout]
    OBVIOUS
  <2>8. HoldsRows(n) /\ n \in Nat \ {0} /\ fitness \in [1 .. n -> Nat]
    <3>1. HoldsRows(n)
      BY <2>2, <2>6 DEF HistoryRows
    <3> QED
      BY <3>1, HeldTypes
  <2>9. row \in 1 .. n
    <3>1. fitness \in [1 .. n -> Int]
      BY <2>8
    <3> QED
      BY <2>4, <2>8, <3>1, FirstIsBest
  <2>10. Cardinality({row}) = 1 /\ fes + 1 <= budget
    <3>1. Cardinality({row}) = 1
      BY FS_Singleton
    <3>2. fes + 1 <= budget
      BY <2>2, CaseTypes
    <3> QED
      BY <3>1, <3>2
  <2>11. Trials(n, {row}, batch)
    BY <2>5, <2>7, <2>8, <2>9, <2>10 DEF Trials
  <2>12. /\ Cardinality(archive') <= History!Capacity(Size)
         /\ \A l \in archive' : l \in archive
    BY <2>1, <2>2 DEF HistoryRows, ArchiveHolds
  <2>13. RunSound' /\ SameCase /\ HistoryRows' /\ GoesOn /\ \A kept : GroundKept(kept)
    <3>1. pc # "done" /\ pc' # "done" /\ Cardinality({row}) > 0
      BY <2>1, <2>3, <2>10
    <3> QED
      BY <2>2, <2>6, <2>11, <2>12, <3>1, HistoryTrials
  <2> QED
    BY <2>3, <2>13 DEF HistoryInv
<1>6. CASE History!ReducePopulation
  <2>1. /\ pc = "reduce" /\ pc' = "loop" /\ UNCHANGED runtimeVars
        /\ Reduce(LinearPlan(History!InitialSize, History!Floor),
                  History!Capacity(LinearPlan(History!InitialSize, History!Floor)))
    BY <1>6, HistorySame DEF History!ReducePopulation, History!runtimeVars, runtimeVars
  <2>2. HistoryRows
    BY <2>1 DEF HistoryInv
  <2>3. PICK target : target = LinearPlan(History!InitialSize, History!Floor)
    OBVIOUS
  <2>4. target \in Int /\ target >= History!Floor /\ History!Floor \in Nat /\ History!Floor >= 3
    BY <2>3, HistoryCase, LinearPlanFloor
  <2>5. PICK capacity : capacity = History!Capacity(target)
    OBVIOUS
  <2>6. target >= 1 /\ target \in Nat /\ capacity \in Nat
    BY <2>4, <2>5, HistoryCase
  <2>7. PICK n : n = Size
    OBVIOUS
  <2>8. HoldsRows(n) /\ BestInPopulation
        /\ ArchiveHolds(History!Capacity(n), algorithm = "wfadde") /\ n >= History!Floor
    BY <2>2, <2>7 DEF HistoryRows
  <2>9. PICK k \in 1 .. n :
          /\ HeldAfter(k) /\ NothingLost /\ GroundKept(k)
          /\ BestInPopulation => BestInPopulation'
          /\ \/ k = target /\ target < n
                /\ Cardinality(archive') <= capacity /\ archive' \subseteq archive
             \/ k = n /\ UNCHANGED deVars
    BY <2>1, <2>3, <2>5, <2>6, <2>8, ReduceSound
  <2>10. RunSound' /\ SameCase /\ best' = best /\ fes' = fes
    BY <2>1, UnchangedSound
  <2>11. HoldsRows(k)' /\ Size' = k /\ k >= History!Floor /\ BestInPopulation'
    BY <2>4, <2>8, <2>9 DEF HeldAfter
  <2>12. ArchiveHolds(History!Capacity(k), algorithm = "wfadde")'
    <3>1. Cardinality(archive') <= History!Capacity(k) /\ archive' \subseteq archive
      BY <2>5, <2>8, <2>9 DEF ArchiveHolds, deVars
    <3>2. PICK loose \in BOOLEAN : loose = (algorithm = "wfadde")
      OBVIOUS
    <3>3. PICK room : room = History!Capacity(k)
      OBVIOUS
    <3>4. ArchiveHolds(room, loose)'
      BY <2>8, <2>9, <2>10, <3>1, <3>2, <3>3, ArchiveAfterReduction
    <3> QED
      BY <2>10, <3>2, <3>3, <3>4, HistoryCaseStays DEF SameCase
  <2>13. HistoryRows'
    BY <2>10, <2>11, <2>12, HistoryCaseStays DEF HistoryRows
  <2>14. HistoryInv' /\ GoesOn
    BY <2>1, <2>10, <2>13 DEF HistoryInv, GoesOn
  <2> QED
    BY <2>9, <2>10, <2>11, <2>14, RowsAfter
<1>7. CASE History!LeaveLoop \/ History!Finish
  <2>1. /\ UNCHANGED <<population, fitness>> /\ UNCHANGED runtimeVars /\ archive' = archive
        /\ \/ pc = "loop" /\ pc' = "finish" /\ (fes >= budget \/ Size < History!Floor)
           \/ pc = "finish" /\ pc' = "done"
    BY <1>7, HistorySame DEF History!LeaveLoop, History!Finish, History!deVars,
       History!runtimeVars, runtimeVars
  <2>2. HistoryRows /\ (pc = "finish" => fes = budget)
    BY <2>1 DEF HistoryInv
  <2>3. PICK n : n = Size
    OBVIOUS
  <2>4. HoldsRows(n) /\ n >= History!Floor /\ n \in Nat /\ History!Floor \in Nat
    <3>1. HoldsRows(n) /\ n >= History!Floor
      BY <2>2, <2>3 DEF HistoryRows
    <3> QED
      BY <3>1, HeldTypes, HistoryCase
  <2>5. fes = budget
    BY <2>1, <2>2, <2>3, <2>4, CaseTypes
  <2>6. /\ RunSound' /\ SameCase /\ best' = best /\ fes' = fes
        /\ Size' = Size /\ Rows' = Rows
        /\ HoldsRows(n)' /\ (\A kept : GroundKept(kept))
        /\ BestInPopulation => BestInPopulation'
    BY <2>1, <2>4, RestSound
  <2>7. ArchiveHolds(History!Capacity(Size), algorithm = "wfadde")'
    <3>1. Layouts' = Layouts /\ Power' = Power /\ algorithm' = algorithm
          /\ History!Capacity(n)' = History!Capacity(n)
      BY <2>6, HistoryCaseStays DEF SameCase, Layouts, Power
    <3>2. \A l : Beaten(l)' = Beaten(l) /\ Reached(l)' = Reached(l)
      BY <2>1, <2>6, <3>1 DEF Beaten, Reached
    <3> QED
      BY <2>1, <2>2, <2>3, <2>6, <3>1, <3>2 DEF HistoryRows, ArchiveHolds
  <2>8. HistoryRows'
    BY <2>2, <2>3, <2>4, <2>6, <2>7, HistoryCaseStays DEF HistoryRows
  <2>9. HistoryInv'
    <3>1. fes' = budget'
      BY <2>5, <2>6 DEF SameCase
    <3> QED
      BY <2>1, <2>8, <3>1 DEF HistoryInv
  <2>10. GoesOn
    BY <2>1, <2>5, <2>6 DEF GoesOn
  <2> QED
    BY <2>6, <2>9, <2>10
<1> QED
  BY <1>1, <1>2, <1>3, <1>4, <1>5, <1>6, <1>7 DEF History!Step

-----------------------------------------------------------------------------
(* CompetitiveElimination.                                                 *)

\* The rows of CEDE once they are evaluated.
CompetitiveRows ==
  /\ HoldsRows(Size)
  /\ Size >= Competitive!Floor
  /\ BestInPopulation
  /\ ArchiveHolds(Competitive!Capacity(Size), FALSE)

\* The invariant of CEDE.
CompetitiveInv ==
  \/ /\ pc = "init"
     /\ fes = 0 /\ best = 0
     /\ population = <<>> /\ fitness = <<>> /\ archive = {}
  \/ /\ pc \in {"loop", "mutate", "learn", "reduce", "finish", "done"}
     /\ CompetitiveRows
     /\ pc \in {"mutate", "learn"} => geneticCount \in 1 .. Size
     /\ Competitive!SharePaidFor
     /\ pc \in {"finish", "done"} => fes = budget

\* The parameters of CEDE.
LEMMA CompetitiveCase ==
  ASSUME algorithm \in Chosen, algorithm \in Competitive!Algorithms, RunSound
  PROVE  /\ Competitive!InitialSize \in Nat /\ Competitive!Floor \in Nat
         /\ Competitive!Floor >= 3 /\ Competitive!Floor <= Competitive!InitialSize
         /\ Competitive!InitialSize <= budget
         /\ \A n \in Nat : Competitive!Capacity(n) \in Nat
<1>1. Competitive!SettingOK(Setting[algorithm])
  BY SettingAssumption
<1>2. budget \in Nat /\ budget \in Setting[algorithm].budgets
  BY CaseTypes DEF RunSound
<1>3. /\ Competitive!InitialSize \in Nat /\ Competitive!Floor \in Nat
      /\ Competitive!Floor >= 3 /\ Competitive!Floor <= Competitive!InitialSize
      /\ Competitive!InitialSize <= budget
      /\ Competitive!ArchivePercent \in Nat
  BY <1>1, <1>2 DEF Competitive!SettingOK, Competitive!InitialSize, Competitive!Floor,
     Competitive!ArchivePercent
<1>4. ASSUME NEW n \in Nat PROVE Competitive!Capacity(n) \in Nat
  <2>1. Competitive!ArchivePercent * n \in Nat
    BY <1>3
  <2>2. RoundedQuotient(Competitive!ArchivePercent * n, 100) \in Nat
    BY <2>1, RoundedNat
  <2> QED
    BY <2>2, CompetitiveSame DEF Competitive!Capacity
<1> QED
  BY <1>3, <1>4

\* They do not change.
LEMMA CompetitiveCaseStays ==
  ASSUME SameCase
  PROVE  /\ Competitive!Floor' = Competitive!Floor
         /\ \A n : Competitive!Capacity(n)' = Competitive!Capacity(n)
BY DEF SameCase, Competitive!Floor, Competitive!Capacity, Competitive!ArchivePercent,
   Competitive!RoundedQuotient

\* What loses nothing, and archives nothing.
LEMMA CompetitiveKeeps ==
  ASSUME algorithm \in Chosen, algorithm \in Competitive!Algorithms, RunSound,
         CompetitiveRows, RunSound', SameCase, NEW k, HeldAfter(k), NothingLost,
         k >= Competitive!Floor, BestInPopulation', archive' \subseteq archive,
         Cardinality(archive') <= Competitive!Capacity(k)
  PROVE  CompetitiveRows'
<1>1. PICK n : n = Size
  OBVIOUS
<1>2. PICK room : room = Competitive!Capacity(k)
  OBVIOUS
<1>3. PICK bound : bound = Competitive!Capacity(n)
  OBVIOUS
<1>4. HoldsRows(n) /\ ArchiveHolds(bound, FALSE)
  BY <1>1, <1>3 DEF CompetitiveRows
<1>5. PICK loose \in BOOLEAN : loose = FALSE
  OBVIOUS
<1>6. ArchiveHolds(room, loose)'
  BY <1>2, <1>4, <1>5, ArchiveAfterReduction
<1>7. Size' = k /\ HoldsRows(k)'
  BY DEF HeldAfter
<1> QED
  BY <1>2, <1>5, <1>6, <1>7, CompetitiveCaseStays DEF CompetitiveRows

\* The batches of a generation, and what they cost.
LEMMA SharesFit ==
  ASSUME algorithm \in Chosen, algorithm \in Competitive!Algorithms, RunSound,
         NEW n \in Nat, n > 0, Size = n, fes < budget
  PROVE  /\ Competitive!GeneticCount \in 0 .. n
         /\ Competitive!DECount \in 0 .. n
         /\ fes + Competitive!DECount + 2 * Competitive!GeneticCount <= budget
<1>1. fes \in Nat /\ budget \in Nat
  BY CaseTypes
<1>2. PICK left : left = budget - fes
  OBVIOUS
<1>3. left \in Nat /\ left > 0
  BY <1>1, <1>2
<1>4. PICK half : half = left \div 2
  OBVIOUS
<1>5. half \in Nat /\ 2 * half <= left
  BY <1>3, <1>4
<1>6. /\ Competitive!GeneticCount =
           IF left < 3 * n THEN (IF n <= half THEN n ELSE half) ELSE n
      /\ Competitive!DECount =
           IF left < 3 * n
             THEN (IF n <= left - 2 * Competitive!GeneticCount
                     THEN n ELSE left - 2 * Competitive!GeneticCount)
             ELSE n
  BY <1>2, <1>4, CompetitiveSame DEF Competitive!GeneticCount, Competitive!DECount,
     Competitive!Remaining, Competitive!Lesser
<1> QED
  BY <1>1, <1>2, <1>3, <1>5, <1>6

\* Every step of CEDE keeps the invariant and goes on.
LEMMA CompetitiveStep ==
  ASSUME algorithm \in Chosen, algorithm \in Competitive!Algorithms, RunSound,
         CompetitiveInv, Competitive!Step
  PROVE  /\ RunSound' /\ SameCase /\ CompetitiveInv' /\ GoesOn
         /\ GroundKept(Cardinality(DOMAIN fitness'))
<1>1. CASE Competitive!Initialize
  <2>1. /\ pc = "init" /\ pc' = "loop" /\ archive' = archive
        /\ InitializeRows(Competitive!InitialSize)
    BY <1>1, CompetitiveSame DEF Competitive!Initialize
  <2>2. fes = 0 /\ best = 0 /\ population = <<>> /\ archive = {}
    BY <2>1 DEF CompetitiveInv
  <2>3. PICK n : n = Competitive!InitialSize
    OBVIOUS
  <2>4. n \in Nat \ {0} /\ fes + n <= budget /\ n >= Competitive!Floor
    BY <2>2, <2>3, CompetitiveCase
  <2>5. /\ RunSound' /\ SameCase /\ fes' = fes + n
        /\ HoldsRows(n)' /\ BestInPopulation' /\ Size' = n /\ GoesOn
    BY <2>1, <2>2, <2>3, <2>4, FirstRowsGoOn
  <2>6. Competitive!Floor' = Competitive!Floor /\ Competitive!Capacity(n)' \in Nat
    BY <2>4, <2>5, CompetitiveCase, CompetitiveCaseStays
  <2>7. CompetitiveRows'
    <3>1. ArchiveHolds(Competitive!Capacity(n), FALSE)'
      BY <2>1, <2>2, <2>6, EmptyRows DEF ArchiveHolds
    <3> QED
      BY <2>4, <2>5, <2>6, <3>1 DEF CompetitiveRows
  <2>8. CompetitiveInv'
    BY <2>1, <2>7 DEF CompetitiveInv, Competitive!SharePaidFor
  <2> QED
    BY <2>2, <2>5, <2>8, GroundOfFirstRows
<1>2. CASE Competitive!DifferentialStage
  <2>1. /\ pc = "loop" /\ fes < budget /\ geneticCount' = Competitive!GeneticCount
        /\ pc' = IF Competitive!GeneticCount > 0 THEN "mutate" ELSE "reduce"
    BY <1>2 DEF Competitive!DifferentialStage
  <2>2. CompetitiveRows
    BY <2>1 DEF CompetitiveInv
  <2>3. PICK n : n = Size
    OBVIOUS
  <2>4. HoldsRows(n) /\ n \in Nat /\ n > 0 /\ Rows = 1 .. n /\ n >= Competitive!Floor
    <3>1. HoldsRows(n) /\ n >= Competitive!Floor
      BY <2>2, <2>3 DEF CompetitiveRows
    <3> QED
      BY <3>1, HeldTypes
  <2>5. PICK m, g : m = Competitive!DECount /\ g = Competitive!GeneticCount
    OBVIOUS
  <2>6. m \in 0 .. n /\ g \in 0 .. n /\ fes + m + 2 * g <= budget
    BY <2>1, <2>3, <2>4, <2>5, SharesFit
  <2>7. fes \in Nat /\ budget \in Nat
    BY CaseTypes
  <2>8. PICK capacity : capacity = Competitive!Capacity(n)
    OBVIOUS
  <2>9. capacity \in Nat
    BY <2>4, <2>8, CompetitiveCase
  <2>10. /\ RunSound' /\ SameCase /\ CompetitiveRows' /\ GoesOn /\ Size' = n
         /\ \A kept : GroundKept(kept)
         /\ fes' = fes + m
    <3>1. CASE m > 0
      <4>1. PICK batch \in [Prefix(1 .. m) -> Layouts] :
              /\ Evaluate(batch) /\ Replace(batch, Improved(batch))
              /\ Trim(archive \cup Parents(Improved(batch)), capacity)
        BY <1>2, <2>3, <2>5, <2>8, <3>1, CompetitiveSame DEF Competitive!DifferentialStage
      <4>2. m \in Nat /\ m \in 1 .. n /\ m <= budget - fes
        BY <2>4, <2>6, <2>7, <3>1
      <4>3. Cardinality(Prefix(1 .. m)) = m
        BY <4>2, PrefixOfRows
      <4>4. Trials(n, Prefix(1 .. m), batch)
        BY <2>4, <4>1, <4>2, PrefixTrials
      <4>5. /\ Spends(m) /\ HeldAfter(n)
            /\ BestInPopulation => BestInPopulation'
        BY <4>3, <4>4, TrialsSound
      <4>6. RunSound' /\ SameCase /\ fes' = fes + m
        BY <4>5 DEF Spends
      <4>7. /\ Cardinality(archive') <= capacity
            /\ archive' \subseteq archive \cup Parents(Improved(batch))
        BY <2>9, <4>1, TrimSound
      <4>8. PICK loose \in BOOLEAN : loose = FALSE
        OBVIOUS
      <4>9. \A l \in archive' : l \in archive \/ MayArchive(batch, loose, l)
        BY <4>7 DEF MayArchive
      <4>10. ArchiveHolds(capacity, loose)
        BY <2>2, <2>3, <2>8, <4>8 DEF CompetitiveRows
      <4>11. ArchiveHolds(capacity, loose)'
        BY <4>4, <4>7, <4>9, <4>10, ArchiveAfterTrials
      <4>12. Size' = n /\ HoldsRows(n)'
        BY <4>5 DEF HeldAfter
      <4>13. CompetitiveRows'
        BY <2>2, <2>4, <2>8, <4>5, <4>6, <4>8, <4>11, <4>12, CompetitiveCaseStays
        DEF CompetitiveRows
      <4>14. GoesOn
        BY <2>1, <3>1, <4>5, SpendingGoesOn
      <4>15. \A kept : GroundKept(kept)
        BY <4>4, TrialsKeepGround
      <4> QED
        BY <4>6, <4>12, <4>13, <4>14, <4>15
    <3>2. CASE ~(m > 0)
      <4>1. UNCHANGED <<population, fitness>> /\ UNCHANGED runtimeVars /\ archive' = archive
        BY <1>2, <2>5, <3>2 DEF Competitive!DifferentialStage, Competitive!deVars,
           Competitive!runtimeVars, runtimeVars
      <4>2. /\ RunSound' /\ SameCase /\ best' = best /\ fes' = fes
            /\ Size' = Size /\ Rows' = Rows
            /\ HoldsRows(n)' /\ (\A kept : GroundKept(kept)) /\ NothingLost
            /\ BestInPopulation => BestInPopulation'
            /\ RowsAligned => RowsAligned'
        BY <2>4, <4>1, RestSound
      <4>3. RowsAligned
        BY <2>4 DEF HoldsRows, RowsAligned
      <4>4. HeldAfter(n)
        BY <2>3, <2>4, <4>2, <4>3 DEF HeldAfter
      <4>5. CompetitiveRows'
        <5>1. /\ Cardinality(archive') <= capacity
              /\ archive' \subseteq archive /\ BestInPopulation'
          BY <2>2, <2>3, <2>8, <4>1, <4>2 DEF CompetitiveRows, ArchiveHolds
        <5> QED
          BY <2>2, <2>4, <2>8, <4>2, <4>4, <5>1, CompetitiveKeeps
      <4>6. GoesOn
        BY <2>1, <4>2 DEF GoesOn
      <4>7. fes' = fes + m
        BY <2>6, <2>7, <3>2, <4>2
      <4> QED
        BY <2>3, <4>2, <4>5, <4>6, <4>7
    <3> QED
      BY <3>1, <3>2
  <2>11. CompetitiveInv'
    <3>1. geneticCount' = g /\ budget' = budget /\ fes' = fes + m
      BY <2>1, <2>5, <2>10 DEF SameCase
    <3>2. pc' \in {"mutate", "reduce"} /\ (pc' = "mutate" => g \in 1 .. n)
      BY <2>1, <2>4, <2>5, <2>6
    <3>3. fes' + 2 * geneticCount' <= budget'
      BY <2>6, <2>7, <3>1
    <3>4. Competitive!SharePaidFor'
      BY <3>2, <3>3 DEF Competitive!SharePaidFor
    <3> QED
      BY <2>10, <3>1, <3>2, <3>4 DEF CompetitiveInv
  <2> QED
    BY <2>10, <2>11
<1>3. CASE Competitive!MutationStage
  <2>1. /\ pc = "mutate" /\ pc' = Competitive!Unless("learn")
        /\ UNCHANGED <<population, fitness, archive, geneticCount>>
    BY <1>3 DEF Competitive!MutationStage, Competitive!deVars
  <2>2. PICK batch \in [Prefix(1 .. geneticCount) -> Layouts] : EvaluateUntracked(batch)
    BY <1>3, CompetitiveSame DEF Competitive!MutationStage
  <2>3. CompetitiveRows /\ geneticCount \in 1 .. Size /\ fes + 2 * geneticCount <= budget
    BY <2>1 DEF CompetitiveInv, Competitive!SharePaidFor
  <2>4. PICK g : g = geneticCount
    OBVIOUS
  <2>5. PICK n : n = Size
    OBVIOUS
  <2>6. HoldsRows(n) /\ n \in Nat /\ Rows = 1 .. n /\ n >= Competitive!Floor
        /\ fitness \in [1 .. n -> Nat] /\ population \in [1 .. n -> Layouts]
    <3>1. HoldsRows(n) /\ n >= Competitive!Floor
      BY <2>3, <2>5 DEF CompetitiveRows
    <3> QED
      BY <3>1, HeldTypes
  <2>7. g \in Nat /\ g > 0 /\ fes + 2 * g <= budget /\ fes \in Nat /\ budget \in Nat
    BY <2>3, <2>4, <2>5, <2>6, CaseTypes
  <2>8. g <= budget - fes
    BY <2>7
  <2>9. /\ Cardinality(Prefix(1 .. g)) = g /\ IsFiniteSet(Prefix(1 .. g))
        /\ fes + g <= budget
    BY <2>7, <2>8, PrefixOfRows
  <2>10. RunSound' /\ SameCase /\ fes' = fes + g /\ best' = best
    BY <2>2, <2>4, <2>9, UntrackedSound
  <2>11. pc' = "learn"
    BY <2>1, <2>7, <2>8, CompetitiveSame DEF Unless
  <2>12. /\ HeldAfter(n) /\ NothingLost /\ BestInPopulation' /\ \A kept : GroundKept(kept)
    <3>1. /\ Layouts' = Layouts /\ Power' = Power /\ Size' = Size /\ Rows' = Rows
      BY <2>1, <2>10 DEF SameCase, Layouts, Power, Size, Rows
    <3>2. HoldsRows(n)' /\ RowsAligned'
      BY <2>1, <2>6, <2>10, <3>1 DEF HoldsRows, PowerOf, RowsAligned
    <3>3. BestInPopulation'
      BY <2>1, <2>3, <2>10, <3>1 DEF CompetitiveRows, BestInPopulation
    <3>4. fitness' \in [1 .. n -> Nat] /\ \A r \in 1 .. n : fitness'[r] >= fitness[r]
      BY <2>1, <2>6
    <3>5. \A kept : GroundKept(kept)
      BY <2>6, <3>4, GroundOfRows
    <3>6. NothingLost
      BY <2>6, <3>4 DEF NothingLost
    <3> QED
      BY <2>5, <2>6, <3>1, <3>2, <3>3, <3>5, <3>6 DEF HeldAfter
  <2>13. CompetitiveRows'
    <3>1. Cardinality(archive') <= Competitive!Capacity(n) /\ archive' \subseteq archive
      BY <2>1, <2>3, <2>5 DEF CompetitiveRows, ArchiveHolds
    <3> QED
      BY <2>3, <2>6, <2>10, <2>12, <3>1, CompetitiveKeeps
  <2>14. CompetitiveInv'
    <3>1. geneticCount' = g /\ budget' = budget /\ fes' + g <= budget /\ Size' = n
      BY <2>1, <2>4, <2>7, <2>10, <2>12 DEF SameCase, HeldAfter
    <3>2. geneticCount' \in 1 .. Size'
      BY <2>3, <2>4, <2>5, <3>1
    <3> QED
      BY <2>11, <2>13, <3>1, <3>2 DEF CompetitiveInv, Competitive!SharePaidFor
  <2>15. GoesOn
    <3>1. fes' > fes /\ best' >= best
      BY <2>6, <2>7, <2>10, HeldTypes
    <3> QED
      BY <2>1, <2>10, <2>11, <3>1 DEF GoesOn
  <2> QED
    BY <2>10, <2>12, <2>14, <2>15
<1>4. CASE Competitive!GeneticStage
  <2>1. /\ pc = "learn" /\ pc' = Competitive!Unless("reduce") /\ archive' = archive
    BY <1>4 DEF Competitive!GeneticStage
  <2>2. PICK batch \in [Prefix(1 .. geneticCount) -> Layouts] :
          /\ Evaluate(batch)
          /\ IF DOMAIN batch = {} THEN UNCHANGED <<population, fitness>>
             ELSE Competitive!Learn(batch)
    BY <1>4, CompetitiveSame DEF Competitive!GeneticStage
  <2>3. CompetitiveRows /\ geneticCount \in 1 .. Size /\ fes + geneticCount <= budget
    BY <2>1 DEF CompetitiveInv, Competitive!SharePaidFor
  <2>4. PICK g : g = geneticCount
    OBVIOUS
  <2>5. PICK n : n = Size
    OBVIOUS
  <2>6. HoldsRows(n) /\ n \in Nat \ {0} /\ Rows = 1 .. n /\ n >= Competitive!Floor
        /\ fitness \in [1 .. n -> Nat]
    <3>1. HoldsRows(n) /\ n >= Competitive!Floor
      BY <2>3, <2>5 DEF CompetitiveRows
    <3> QED
      BY <3>1, HeldTypes
  <2>7. g \in Nat \ {0} /\ fes + g <= budget /\ fes \in Nat /\ budget \in Nat
    BY <2>3, <2>4, <2>5, <2>6, CaseTypes
  <2>8. g <= budget - fes /\ fes < budget
    BY <2>7
  <2>9. /\ Prefix(1 .. g) = 1 .. g
        /\ Cardinality(1 .. g) = g /\ IsFiniteSet(1 .. g)
    BY <2>7, <2>8, PrefixOfRows, FiniteRows
  <2>10. batch \in [1 .. g -> Layouts]
    BY <2>2, <2>4, <2>9
  <2>11. /\ RunSound' /\ SameCase /\ fes' = fes + g
         /\ best' \in Nat /\ best' >= best
         /\ best' = best \/ \E r \in 1 .. g : best' = Power[batch[r]]
         /\ \A r \in 1 .. g : Power[batch[r]] <= best'
    BY <2>2, <2>7, <2>9, <2>10, EvaluateSound
  <2>12. pc' = "reduce"
    BY <2>1, <2>7, <2>8, CompetitiveSame DEF Unless
  <2>13. PICK row, first, elite :
           /\ row = First(fitness) /\ first = First(PowerOf(batch))
           /\ elite = [r \in {row} |-> batch[first]]
    OBVIOUS
  <2>14. Replace(elite, Improved(elite))
    <3>1. DOMAIN batch # {}
      BY <2>7, <2>10
    <3> QED
      BY <2>2, <2>13, <3>1, CompetitiveSame DEF Competitive!Learn
  <2>15. row \in 1 .. n
    <3>1. fitness \in [1 .. n -> Int]
      BY <2>6
    <3> QED
      BY <2>6, <2>13, <3>1, FirstIsBest
  <2>16. first \in 1 .. g /\ \A r \in 1 .. g : Power[batch[first]] >= Power[batch[r]]
    <3>1. PICK value : value = PowerOf(batch)
      OBVIOUS
    <3>2. value \in [1 .. g -> Nat] /\ \A r \in 1 .. g : value[r] = Power[batch[r]]
      <4>1. \A r \in 1 .. g : batch[r] \in Layouts /\ Power[batch[r]] \in Nat
        BY <2>10, CaseTypes
      <4> QED
        BY <2>10, <3>1, <4>1 DEF PowerOf
    <3>3. value \in [1 .. g -> Int]
      BY <3>2
    <3>4. first \in 1 .. g /\ \A r \in 1 .. g : value[first] >= value[r]
      BY <2>7, <2>13, <3>1, <3>3, FirstIsBest
    <3> QED
      BY <3>2, <3>4
  <2>17. /\ {row} \in SUBSET (1 .. n) /\ elite \in [{row} -> Layouts]
         /\ \A r \in {row} : Power[elite[r]] <= best'
         /\ best' = best \/ \E r \in {row} : best' = Power[elite[r]]
    <3>1. elite \in [{row} -> Layouts] /\ elite[row] = batch[first]
      BY <2>10, <2>13, <2>16
    <3>2. \A r \in 1 .. g : Power[batch[r]] \in Nat
      BY <2>10, CaseTypes
    <3> QED
      BY <2>11, <2>15, <2>16, <3>1, <3>2
  <2>18. /\ HeldAfter(n) /\ NothingLost /\ (BestInPopulation => BestInPopulation')
         /\ fitness' \in [1 .. n -> Nat]
         /\ \A r \in 1 .. n : fitness'[r] >= fitness[r]
    BY <2>6, <2>11, <2>14, <2>17, ReplaceSound DEF HeldAfter
  <2>19. CompetitiveRows'
    <3>1. Cardinality(archive') <= Competitive!Capacity(n) /\ archive' \subseteq archive
          /\ BestInPopulation'
      BY <2>1, <2>3, <2>5, <2>18 DEF CompetitiveRows, ArchiveHolds
    <3> QED
      BY <2>3, <2>6, <2>11, <2>18, <3>1, CompetitiveKeeps
  <2>20. CompetitiveInv'
    BY <2>12, <2>19 DEF CompetitiveInv, Competitive!SharePaidFor
  <2>21. GoesOn
    <3>1. fes' > fes
      BY <2>7, <2>11
    <3>2. best' = best \/ \E l \in Layouts : best' = Power[l]
      BY <2>10, <2>11
    <3> QED
      BY <2>1, <2>11, <2>12, <3>1, <3>2 DEF GoesOn
  <2> QED
    BY <2>6, <2>11, <2>18, <2>20, <2>21, GroundOfRows
<1>5. CASE Competitive!ReducePopulation
  <2>1. /\ pc = "reduce" /\ pc' = "loop" /\ UNCHANGED runtimeVars
        /\ Reduce(LinearPlan(Competitive!InitialSize, Competitive!Floor),
                  Competitive!Capacity(LinearPlan(Competitive!InitialSize, Competitive!Floor)))
    BY <1>5, CompetitiveSame DEF Competitive!ReducePopulation, Competitive!runtimeVars,
       runtimeVars
  <2>2. CompetitiveRows
    BY <2>1 DEF CompetitiveInv
  <2>3. PICK target : target = LinearPlan(Competitive!InitialSize, Competitive!Floor)
    OBVIOUS
  <2>4. /\ target \in Int /\ target >= Competitive!Floor
        /\ Competitive!Floor \in Nat /\ Competitive!Floor >= 3
    BY <2>3, CompetitiveCase, LinearPlanFloor
  <2>5. PICK capacity : capacity = Competitive!Capacity(target)
    OBVIOUS
  <2>6. target >= 1 /\ target \in Nat /\ capacity \in Nat
    BY <2>4, <2>5, CompetitiveCase
  <2>7. PICK n : n = Size
    OBVIOUS
  <2>8. HoldsRows(n) /\ BestInPopulation
        /\ ArchiveHolds(Competitive!Capacity(n), FALSE) /\ n >= Competitive!Floor
    BY <2>2, <2>7 DEF CompetitiveRows
  <2>9. PICK k \in 1 .. n :
          /\ HeldAfter(k) /\ NothingLost /\ GroundKept(k)
          /\ BestInPopulation => BestInPopulation'
          /\ \/ k = target /\ target < n
                /\ Cardinality(archive') <= capacity /\ archive' \subseteq archive
             \/ k = n /\ UNCHANGED deVars
    BY <2>1, <2>3, <2>5, <2>6, <2>8, ReduceSound
  <2>10. RunSound' /\ SameCase /\ best' = best /\ fes' = fes
    BY <2>1, UnchangedSound
  <2>11. HoldsRows(k)' /\ k >= Competitive!Floor /\ BestInPopulation'
    BY <2>4, <2>8, <2>9 DEF HeldAfter
  <2>12. CompetitiveRows'
    <3>1. Cardinality(archive') <= Competitive!Capacity(k) /\ archive' \subseteq archive
      BY <2>5, <2>8, <2>9 DEF ArchiveHolds, deVars
    <3> QED
      BY <2>2, <2>9, <2>10, <2>11, <3>1, CompetitiveKeeps
  <2>13. CompetitiveInv' /\ GoesOn
    BY <2>1, <2>10, <2>12 DEF CompetitiveInv, GoesOn, Competitive!SharePaidFor
  <2> QED
    BY <2>9, <2>10, <2>11, <2>13, RowsAfter
<1>6. CASE Competitive!LeaveLoop \/ Competitive!Finish
  <2>1. /\ UNCHANGED <<population, fitness>> /\ UNCHANGED runtimeVars /\ archive' = archive
        /\ \/ pc = "loop" /\ pc' = "finish" /\ (fes >= budget \/ Size < Competitive!Floor)
           \/ pc = "finish" /\ pc' = "done"
    BY <1>6, CompetitiveSame DEF Competitive!LeaveLoop, Competitive!Finish,
       Competitive!deVars, Competitive!runtimeVars, runtimeVars
  <2>2. CompetitiveRows /\ (pc = "finish" => fes = budget)
    BY <2>1 DEF CompetitiveInv
  <2>3. PICK n : n = Size
    OBVIOUS
  <2>4. /\ HoldsRows(n) /\ n >= Competitive!Floor /\ n \in Nat /\ Competitive!Floor \in Nat
        /\ RowsAligned /\ Rows = 1 .. n
    <3>1. HoldsRows(n) /\ n >= Competitive!Floor
      BY <2>2, <2>3 DEF CompetitiveRows
    <3> QED
      BY <3>1, HeldTypes, CompetitiveCase DEF HoldsRows, RowsAligned
  <2>5. fes = budget
    BY <2>1, <2>2, <2>3, <2>4, CaseTypes
  <2>6. /\ RunSound' /\ SameCase /\ best' = best /\ fes' = fes
        /\ Size' = Size /\ Rows' = Rows
        /\ HoldsRows(n)' /\ (\A kept : GroundKept(kept)) /\ NothingLost
        /\ BestInPopulation => BestInPopulation'
        /\ RowsAligned'
    BY <2>1, <2>4, RestSound
  <2>7. CompetitiveRows'
    <3>1. Cardinality(archive') <= Competitive!Capacity(n) /\ archive' \subseteq archive
          /\ BestInPopulation' /\ HeldAfter(n)
      BY <2>1, <2>2, <2>3, <2>4, <2>6 DEF CompetitiveRows, ArchiveHolds, HeldAfter
    <3> QED
      BY <2>2, <2>4, <2>6, <3>1, CompetitiveKeeps
  <2>8. CompetitiveInv'
    <3>1. fes' = budget'
      BY <2>5, <2>6 DEF SameCase
    <3> QED
      BY <2>1, <2>7, <3>1 DEF CompetitiveInv, Competitive!SharePaidFor
  <2>9. GoesOn
    BY <2>1, <2>5, <2>6 DEF GoesOn
  <2> QED
    BY <2>6, <2>8, <2>9
<1> QED
  BY <1>1, <1>2, <1>3, <1>4, <1>5, <1>6 DEF Competitive!Step

-----------------------------------------------------------------------------
(* ElitistSearch.                                                          *)

\* The invariant of the elitist searches.
ElitistInv ==
  \/ /\ pc = "init"
     /\ fes = 0 /\ best = 0
     /\ population = <<>> /\ fitness = <<>> /\ order = <<>>
  \/ /\ pc \in {"loop", "finish", "done"}
     /\ HoldsRows(Elitist!PopulationSize)
     /\ Elitist!OrderAligned
     /\ algorithm \in {"ise", "bde"} \/ pc = "loop" => BestInPopulation
     /\ algorithm = "ise" /\ Elitist!PopulationSize < 4 => fes = budget
     /\ pc \in {"finish", "done"} => fes = budget

\* The parameters of the elitist searches.
LEMMA ElitistCase ==
  ASSUME algorithm \in Chosen, algorithm \in Elitist!Algorithms, RunSound
  PROVE  /\ Elitist!PopulationSize \in Nat \ {0} /\ Elitist!PopulationSize <= budget
         /\ Elitist!Half \in 1 .. Elitist!PopulationSize
         /\ algorithm = "ise" => Elitist!PopulationSize >= 4 \/ Elitist!PopulationSize = budget
         /\ algorithm = "ppga" => Elitist!Elite \in 1 .. Elitist!PopulationSize - 1
<1>1. /\ Elitist!SettingOK(Setting[algorithm])
      /\ algorithm = "ise" => Elitist!SphericalSetting(Setting[algorithm])
      /\ algorithm = "ppga" => Elitist!BreedingSetting(Setting[algorithm])
  BY SettingAssumption
<1>2. budget \in Nat /\ budget \in Setting[algorithm].budgets
  BY CaseTypes DEF RunSound
<1> QED
  BY <1>1, <1>2 DEF Elitist!SettingOK, Elitist!SphericalSetting, Elitist!BreedingSetting,
     Elitist!PopulationSize, Elitist!Half, Elitist!Elite

\* A batch for the rows the budget pays for.
LEMMA BatchSound ==
  ASSUME RunSound, fes < budget, NEW m \in Nat \ {0},
         NEW batch \in [Prefix(1 .. m) -> Layouts], Evaluate(batch)
  PROVE  /\ RunSound' /\ SameCase
         /\ best' \in Nat /\ best' >= best
         /\ best' = best \/ \E r \in Prefix(1 .. m) : best' = Power[batch[r]]
         /\ best' = best \/ \E l \in Layouts : best' = Power[l]
         /\ \A r \in Prefix(1 .. m) : Power[batch[r]] <= best'
         /\ fes' > fes /\ fes' \in Nat
         /\ Prefix(1 .. m) # 1 .. m => fes' = budget
<1>1. /\ Cardinality(Prefix(1 .. m)) \in Nat /\ Cardinality(Prefix(1 .. m)) > 0
      /\ fes + Cardinality(Prefix(1 .. m)) <= budget
      /\ Prefix(1 .. m) # 1 .. m => fes + Cardinality(Prefix(1 .. m)) = budget
      /\ IsFiniteSet(Prefix(1 .. m))
  BY PrefixPays, PrefixOfRows
<1>2. /\ RunSound' /\ SameCase
      /\ fes' = fes + Cardinality(Prefix(1 .. m))
      /\ best' \in Nat /\ best' >= best
      /\ best' = best \/ \E r \in Prefix(1 .. m) : best' = Power[batch[r]]
      /\ \A r \in Prefix(1 .. m) : Power[batch[r]] <= best'
  BY <1>1, EvaluateSound
<1>3. best' = best \/ \E l \in Layouts : best' = Power[l]
  BY <1>2
<1>4. fes' > fes /\ fes' \in Nat
  BY <1>1, <1>2, CaseTypes
<1> QED
  BY <1>1, <1>2, <1>3, <1>4

\* BDE: the trials for the better half.
LEMMA TrialsByRank ==
  ASSUME RunSound, NEW n, HoldsRows(n), NEW S \in SUBSET (1 .. n), NEW batch \in [S -> Layouts],
         NEW trial, trial = Elitist!Targeted(batch)
  PROVE  /\ DOMAIN trial \subseteq 1 .. n
         /\ \A r \in S : Ranked(fitness)[r] \in DOMAIN trial
                         /\ trial[Ranked(fitness)[r]] = batch[r]
         /\ \A t \in DOMAIN trial : \E r \in S : t = Ranked(fitness)[r]
<1>1. n \in Nat /\ fitness \in [1 .. n -> Int]
  BY HeldTypes
<1> DEFINE place == Elitist!Ranked(fitness)
<1>2. place = Ranked(fitness)
  BY ElitistSame
<1>3. trial = [t \in {place[r] : r \in DOMAIN batch} |->
                 batch[CHOOSE r \in DOMAIN batch : place[r] = t]]
  BY DEF Elitist!Targeted
<1> HIDE DEF place
<1>4. /\ \A r \in 1 .. n : place[r] \in 1 .. n
      /\ \A r, s \in 1 .. n : r # s => place[r] # place[s]
  BY <1>1, <1>2, RankedOrder
<1>5. DOMAIN batch = S /\ \A r \in S : r \in 1 .. n
  OBVIOUS
<1>6. DOMAIN trial = {place[r] : r \in S}
  BY <1>3, <1>5
<1>7. ASSUME NEW r \in S PROVE trial[place[r]] = batch[r]
  <2>1. \A s \in DOMAIN batch : place[s] = place[r] <=> s = r
    BY <1>4, <1>5
  <2>2. (CHOOSE s \in DOMAIN batch : place[s] = place[r]) = r
    BY <1>5, <2>1
  <2>3. place[r] \in {place[s] : s \in DOMAIN batch}
    BY <1>5
  <2> QED
    BY <1>3, <2>2, <2>3
<1> QED
  BY <1>2, <1>4, <1>5, <1>6, <1>7

\* BDE: trials take the places of the rows they are set against and are no worse than.
LEMMA BiPopulationSound ==
  ASSUME RunSound, NEW n, HoldsRows(n), BestInPopulation, NEW S \in SUBSET (1 .. n),
         NEW batch \in [S -> Layouts], SameCase, best' \in Nat, best' >= best,
         best' = best \/ \E r \in S : best' = Power[batch[r]],
         \A r \in S : Power[batch[r]] <= best',
         NEW trial, trial = Elitist!Targeted(batch), Replace(trial, Elitist!NoWorse(trial))
  PROVE  HeldAfter(n) /\ BestInPopulation' /\ (\A kept : GroundKept(kept))
<1>1. /\ n \in Nat \ {0} /\ Rows = 1 .. n /\ best \in Nat
      /\ population \in [1 .. n -> Layouts] /\ fitness \in [1 .. n -> Nat]
      /\ \A r \in 1 .. n : fitness[r] = Power[population[r]] /\ fitness[r] <= best
  BY HeldTypes
<1>2. /\ DOMAIN trial \subseteq 1 .. n
      /\ \A r \in S : Ranked(fitness)[r] \in DOMAIN trial
                      /\ trial[Ranked(fitness)[r]] = batch[r]
      /\ \A t \in DOMAIN trial : \E r \in S : t = Ranked(fitness)[r]
  BY TrialsByRank
<1>3. \A t \in DOMAIN trial : trial[t] \in Layouts /\ Power[trial[t]] \in Nat
                              /\ Power[trial[t]] <= best'
  BY <1>2, CaseTypes
<1> DEFINE taken == Elitist!NoWorse(trial)
<1>4. taken = {t \in DOMAIN trial : Power[trial[t]] >= fitness[t]}
  BY ElitistSame DEF Elitist!NoWorse
<1>5. /\ population' = [r \in 1 .. n |-> IF r \in taken THEN trial[r] ELSE population[r]]
      /\ fitness' = [r \in 1 .. n |-> IF r \in taken THEN Power[trial[r]] ELSE fitness[r]]
  BY <1>1 DEF Replace
<1> HIDE DEF taken
<1>6. \A t \in taken : t \in DOMAIN trial /\ t \in 1 .. n
  BY <1>2, <1>4
<1>7. population' \in [1 .. n -> Layouts]
  BY <1>1, <1>3, <1>5, <1>6
<1>8. fitness' \in [1 .. n -> Nat]
  BY <1>1, <1>3, <1>5, <1>6
<1>9. \A r \in 1 .. n : fitness'[r] = Power[population'[r]] /\ fitness'[r] <= best'
  BY <1>1, <1>3, <1>5, <1>6
<1>10. HeldAfter(n)
  BY <1>1, <1>7, <1>8, <1>9, HeldNext DEF HeldAfter
<1>11. \A r \in 1 .. n : fitness'[r] >= fitness[r]
  BY <1>1, <1>3, <1>4, <1>5, <1>6
<1>12. \A kept : GroundKept(kept)
  BY <1>8, <1>11, GroundOfRows
<1>13. \E r \in 1 .. n : fitness'[r] = best'
  <2>1. CASE best' = best
    <3>1. PICK b \in 1 .. n : fitness[b] = best
      BY <1>1 DEF BestInPopulation
    <3>2. fitness'[b] >= fitness[b] /\ fitness'[b] <= best' /\ fitness'[b] \in Nat
      BY <1>8, <1>9, <1>11
    <3> QED
      BY <1>1, <2>1, <3>1, <3>2
  <2>2. CASE \E r \in S : best' = Power[batch[r]]
    <3>1. PICK r \in S : best' = Power[batch[r]]
      BY <2>2
    <3>2. PICK t : t = Ranked(fitness)[r]
      OBVIOUS
    <3>3. t \in DOMAIN trial /\ trial[t] = batch[r] /\ t \in 1 .. n
      BY <1>2, <3>2
    <3>4. Power[trial[t]] = best' /\ fitness[t] <= best /\ fitness[t] \in Nat
      BY <1>1, <3>1, <3>3
    <3>5. Power[trial[t]] >= fitness[t]
      BY <1>1, <3>4
    <3>6. t \in taken
      BY <1>4, <3>3, <3>5
    <3>7. fitness'[t] = best'
      BY <1>5, <3>3, <3>4, <3>6
    <3> QED
      BY <3>3, <3>7
  <2> QED
    BY <2>1, <2>2
<1> QED
  BY <1>10, <1>12, <1>13 DEF BestInPopulation, HeldAfter

\* AIGA, CIGA: the best of both.
LEMMA MergeSound ==
  ASSUME RunSound, NEW n, HoldsRows(n), BestInPopulation, NEW batch \in [1 .. n -> Layouts],
         SameCase, best' \in Nat, best' >= best,
         best' = best \/ \E r \in 1 .. n : best' = Power[batch[r]],
         \A r \in 1 .. n : Power[batch[r]] <= best',
         Elitist!Merge(batch)
  PROVE  /\ HeldAfter(n) /\ BestInPopulation' /\ GroundKept(n)
         /\ order = population => order' = population'
<1>1. /\ n \in Nat \ {0} /\ Rows = 1 .. n /\ Size = n /\ best \in Nat
      /\ population \in [1 .. n -> Layouts] /\ fitness \in [1 .. n -> Nat]
      /\ \A r \in 1 .. n : fitness[r] = Power[population[r]] /\ fitness[r] <= best
  BY HeldTypes
<1>2. PICK m, layouts, value :
        /\ m = 2 * n /\ layouts = Elitist!Both(population, batch)
        /\ value = Elitist!Both(fitness, PowerOf(batch))
  OBVIOUS
<1>3. m \in Nat /\ n <= m /\ m - n = n /\ n \in 0 .. m
  BY <1>1, <1>2
<1>4. /\ layouts = [i \in 1 .. m |-> IF i <= n THEN population[i] ELSE batch[i - n]]
      /\ value = [i \in 1 .. m |-> IF i <= n THEN fitness[i] ELSE PowerOf(batch)[i - n]]
  BY <1>1, <1>2, ElitistSame DEF Elitist!Both
<1>5. \A i \in 1 .. m : i \in 1 .. n \/ (i > n /\ i - n \in 1 .. n)
  BY <1>1, <1>3
<1>6. \A r \in 1 .. n : /\ batch[r] \in Layouts /\ Power[batch[r]] \in Nat
                        /\ PowerOf(batch)[r] = Power[batch[r]]
  BY CaseTypes DEF PowerOf
<1>7. layouts \in [1 .. m -> Layouts]
  BY <1>1, <1>4, <1>5, <1>6
<1>8. value \in [1 .. m -> Nat] /\ \A i \in 1 .. m : value[i] = Power[layouts[i]]
  <2>1. ASSUME NEW i \in 1 .. m PROVE value[i] = Power[layouts[i]] /\ value[i] \in Nat
    <3>1. CASE i \in 1 .. n
      BY <1>1, <1>4, <3>1
    <3>2. CASE i > n /\ i - n \in 1 .. n
      <4>1. ~(i <= n)
        BY <1>1, <3>2
      <4> QED
        BY <1>4, <1>6, <3>2, <4>1
    <3> QED
      BY <1>5, <3>1, <3>2
  <2>2. DOMAIN value = 1 .. m /\ value = [i \in 1 .. m |-> value[i]]
    BY <1>4
  <2> QED
    BY <2>1, <2>2
<1>9. value \in [1 .. m -> Int]
  BY <1>8
<1>10. PICK from : from = [j \in 1 .. n |-> Ranked(value)[j]]
  OBVIOUS
<1>11. \A j \in 1 .. n : j \in 1 .. m /\ from[j] = Ranked(value)[j] /\ from[j] \in 1 .. m
  BY <1>3, <1>9, <1>10, RankedOrder
<1>12. from \in [1 .. n -> 1 .. m]
  BY <1>10, <1>11
<1>13. /\ population' = [j \in 1 .. n |-> layouts[from[j]]]
       /\ fitness' = [j \in 1 .. n |-> value[from[j]]]
       /\ order' = [j \in 1 .. n |-> Elitist!Both(order, batch)[from[j]]]
  BY <1>1, <1>2, <1>11, ElitistSame DEF Elitist!Merge
<1>14. /\ population' \in [1 .. n -> Layouts] /\ fitness' \in [1 .. n -> Nat]
       /\ \A j \in 1 .. n : /\ population'[j] = layouts[from[j]]
                            /\ fitness'[j] = Power[layouts[from[j]]]
  BY <1>7, <1>8, <1>12, <1>13
<1>15. ASSUME NEW i \in 1 .. m
       PROVE  (\E j \in 1 .. n : from[j] = i)
                \/ \A j \in 1 .. n : Power[layouts[i]] <= Power[layouts[from[j]]]
  <2>1. \/ \E j \in 1 .. n : Ranked(value)[j] = i
        \/ \A j \in 1 .. n : value[i] <= value[Ranked(value)[j]]
    BY <1>3, <1>9, RankedTakesBest
  <2> QED
    BY <1>8, <1>11, <2>1
<1>16. /\ \A r \in 1 .. n : layouts[r] = population[r]
       /\ \A i \in 1 .. m : Power[layouts[i]] <= best'
  BY <1>1, <1>3, <1>4, <1>5
<1>17. best' = best \/ \E i \in 1 .. m : best' = Power[layouts[i]]
  <2>1. ASSUME NEW r \in 1 .. n PROVE r + n \in 1 .. m /\ layouts[r + n] = batch[r]
    <3>1. PICK i : i = r + n
      OBVIOUS
    <3>2. i \in 1 .. m /\ ~(i <= n) /\ i - n = r
      BY <1>1, <1>2, <3>1
    <3>3. layouts[i] = batch[i - n]
      BY <1>4, <3>2
    <3> QED
      BY <3>1, <3>2, <3>3
  <2> QED
    BY <2>1
<1>18. Selects(n, m, layouts, n, from)
  BY <1>1, <1>3, <1>7, <1>12, <1>14, <1>15, <1>16, <1>17 DEF Selects
<1>19. HeldAfter(n) /\ BestInPopulation' /\ GroundKept(n)
  <2>1. n \in 0 .. n
    BY <1>1
  <2> QED
    BY <1>18, <2>1, SelectionSound DEF HeldAfter
<1>20. order = population => order' = population'
  BY <1>2, <1>13
<1> QED
  BY <1>19, <1>20

\* A ranking by name: a permutation of the rows, the best first.
Ranks(n, value, place) ==
  /\ \A k \in 1 .. n : place[k] \in 1 .. n
  /\ \A r \in 1 .. n : \E k \in 1 .. n : place[k] = r
  /\ \A j, k \in 1 .. n : j <= k => value[place[j]] >= value[place[k]]

\* Ranked is a ranking.
LEMMA RankedRanks ==
  ASSUME NEW n \in Nat, NEW value \in [1 .. n -> Int]
  PROVE  Ranks(n, value, Ranked(value))
BY RankedSound, RankedOrder DEF Ranks

\* Rows that take over the first of a ranking keep their quality.
LEMMA EliteKept ==
  ASSUME NEW n \in Nat, NEW value \in [1 .. n -> Int], NEW e \in 0 .. n,
         NEW next \in [1 .. n -> Int],
         \A k \in 1 .. e : next[k] = value[Ranked(value)[k]], NEW p \in Int
  PROVE  \/ Cardinality(AtLeast(next, p)) >= Cardinality(AtLeast(value, p))
         \/ Cardinality(AtLeast(next, p)) >= e
<1>1. PICK taken, from : /\ taken = [k \in 1 .. e |-> next[k]]
                         /\ from = [k \in 1 .. e |-> Ranked(value)[k]]
  OBVIOUS
<1>2. e \in Nat /\ \A k \in 1 .. e : k \in 1 .. n
  OBVIOUS
<1>3. /\ taken \in [1 .. e -> Int] /\ from \in [1 .. e -> 1 .. n]
      /\ \A k \in 1 .. e : taken[k] = value[from[k]]
  BY <1>1, <1>2, RankedOrder
<1>4. \A i \in 1 .. n : (\E j \in 1 .. e : from[j] = i)
                           \/ \A j \in 1 .. e : value[i] <= value[from[j]]
  BY <1>1, RankedTakesBest
<1>5. /\ IsFiniteSet(AtLeast(value, p)) /\ IsFiniteSet(AtLeast(taken, p))
      /\ \/ Cardinality(AtLeast(taken, p)) >= Cardinality(AtLeast(value, p))
         \/ Cardinality(AtLeast(taken, p)) = e
  BY <1>2, <1>3, <1>4, TopKeeps
<1>6. AtLeast(taken, p) \in SUBSET AtLeast(next, p)
  BY <1>1, <1>2 DEF AtLeast
<1>7. AtLeast(next, p) \in SUBSET (1 .. n)
  BY DEF AtLeast
<1>8. IsFiniteSet(AtLeast(next, p))
  BY <1>7, FiniteRows, FS_Subset
<1>9. Cardinality(AtLeast(taken, p)) <= Cardinality(AtLeast(next, p))
  BY <1>6, <1>8, FS_Subset
<1>10. /\ Cardinality(AtLeast(taken, p)) \in Nat /\ Cardinality(AtLeast(next, p)) \in Nat
       /\ Cardinality(AtLeast(value, p)) \in Nat
  BY <1>5, <1>8, FS_CardinalityType
<1> QED
  BY <1>2, <1>5, <1>9, <1>10

\* PPGA: the best parents, then the best offspring.
LEMMA BreedSound ==
  ASSUME RunSound, NEW n, HoldsRows(n), BestInPopulation, NEW batch \in [1 .. n -> Layouts],
         SameCase, best' \in Nat, best' >= best,
         best' = best \/ \E r \in 1 .. n : best' = Power[batch[r]],
         \A r \in 1 .. n : Power[batch[r]] <= best',
         NEW e, e = Elitist!Elite, e \in 1 .. n - 1, Elitist!Breed(batch)
  PROVE  HeldAfter(n) /\ BestInPopulation' /\ GroundKept(e)
<1>1. /\ n \in Nat \ {0} /\ Rows = 1 .. n /\ best \in Nat
      /\ population \in [1 .. n -> Layouts] /\ fitness \in [1 .. n -> Nat]
      /\ fitness \in [1 .. n -> Int]
      /\ \A r \in 1 .. n : fitness[r] = Power[population[r]] /\ fitness[r] <= best
  BY HeldTypes
<1>2. PICK value, parent, child :
        /\ value = PowerOf(batch) /\ parent = Ranked(fitness) /\ child = Ranked(value)
  OBVIOUS
<1>3. /\ \A r \in 1 .. n : batch[r] \in Layouts /\ Power[batch[r]] \in Nat
                           /\ value[r] = Power[batch[r]]
      /\ value \in [1 .. n -> Int]
  <2>1. \A r \in 1 .. n : batch[r] \in Layouts /\ Power[batch[r]] \in Nat
    BY CaseTypes
  <2> QED
    BY <1>2, <2>1 DEF PowerOf
<1>4. /\ \A k \in 1 .. n : parent[k] \in 1 .. n /\ child[k] \in 1 .. n
      /\ \A k \in 1 .. n : value[child[1]] >= value[child[k]]
      /\ \A r \in 1 .. n : \E k \in 1 .. n : child[k] = r
      /\ \A r \in 1 .. n : \E k \in 1 .. n : parent[k] = r
      /\ \A k \in 1 .. n : fitness[parent[1]] >= fitness[parent[k]]
  <2>1. 1 \in 1 .. n /\ \A k \in 1 .. n : 1 <= k
    BY <1>1
  <2>2. n \in Nat
    BY <1>1
  <2>3. Ranks(n, value, child)
    BY <1>2, <1>3, <2>2, RankedRanks
  <2>4. Ranks(n, fitness, parent)
    BY <1>1, <1>2, <2>2, RankedRanks
  <2> QED
    BY <2>1, <2>3, <2>4 DEF Ranks
<1>5. e \in Nat /\ e >= 1 /\ e + 1 \in 1 .. n /\ ~(e + 1 <= e) /\ e + 1 - e = 1
      /\ \A k \in 1 .. n : k <= e \/ k - e \in 1 .. n
  BY <1>1
<1>6. /\ population' = [k \in 1 .. n |->
           IF k <= e THEN population[parent[k]] ELSE batch[child[k - e]]]
      /\ fitness' = [k \in 1 .. n |->
           IF k <= e THEN fitness[parent[k]] ELSE Power[batch[child[k - e]]]]
  BY <1>1, <1>2, ElitistSame DEF Elitist!Breed
<1>7. population' \in [1 .. n -> Layouts]
  BY <1>1, <1>3, <1>4, <1>5, <1>6
<1>8. fitness' \in [1 .. n -> Nat]
  BY <1>1, <1>3, <1>4, <1>5, <1>6
<1>9. \A k \in 1 .. n : fitness'[k] = Power[population'[k]] /\ fitness'[k] <= best'
  <2> SUFFICES ASSUME NEW k \in 1 .. n
               PROVE  fitness'[k] = Power[population'[k]] /\ fitness'[k] <= best'
    OBVIOUS
  <2>1. CASE k <= e
    <3>1. parent[k] \in 1 .. n /\ fitness'[k] = fitness[parent[k]]
          /\ population'[k] = population[parent[k]]
      BY <1>4, <1>6, <2>1
    <3>2. fitness[parent[k]] <= best /\ fitness[parent[k]] \in Nat
      BY <1>1, <3>1
    <3> QED
      BY <1>1, <3>1, <3>2
  <2>2. CASE ~(k <= e)
    <3>1. child[k - e] \in 1 .. n
      BY <1>4, <1>5, <2>2
    <3> QED
      BY <1>6, <2>2, <3>1
  <2> QED
    BY <2>1, <2>2
<1>10. HeldAfter(n)
  BY <1>1, <1>7, <1>8, <1>9, HeldNext DEF HeldAfter
<1>11. \E k \in 1 .. n : fitness'[k] = best'
  <2>1. CASE best' = best
    <3>1. PICK b \in 1 .. n : fitness[b] = best
      BY <1>1 DEF BestInPopulation
    <3>2. PICK q \in 1 .. n : parent[q] = b
      BY <1>4
    <3>3. 1 \in 1 .. n
      BY <1>1
    <3>4. PICK p \in 1 .. n : p = parent[1]
      BY <1>4, <3>3
    <3>5. fitness[p] >= best /\ fitness[p] <= best /\ fitness[p] \in Nat
      BY <1>1, <1>4, <3>1, <3>2, <3>4
    <3>6. fitness'[1] = fitness[p]
      BY <1>5, <1>6, <3>3, <3>4
    <3> QED
      BY <1>1, <2>1, <3>3, <3>5, <3>6
  <2>2. CASE \E r \in 1 .. n : best' = Power[batch[r]]
    <3>1. PICK r \in 1 .. n : best' = Power[batch[r]]
      BY <2>2
    <3>2. PICK q \in 1 .. n : child[q] = r
      BY <1>4
    <3>3. PICK c \in 1 .. n : c = child[1]
      <4>1. 1 \in 1 .. n
        BY <1>1
      <4> QED
        BY <1>4, <4>1
    <3>4. value[c] >= value[r]
      BY <1>4, <3>2, <3>3
    <3>5. Power[batch[c]] = best'
      BY <1>3, <3>1, <3>4
    <3>6. fitness'[e + 1] = best'
      BY <1>5, <1>6, <3>3, <3>5
    <3> QED
      BY <1>5, <3>6
  <2> QED
    BY <2>1, <2>2
<1>12. GroundKept(e)
  <2>1. PICK next : next = fitness'
    OBVIOUS
  <2>2. PICK held : held = fitness
    OBVIOUS
  <2>3. /\ n \in Nat /\ held \in [1 .. n -> Int] /\ next \in [1 .. n -> Int] /\ e \in 0 .. n
    BY <1>1, <1>8, <2>1, <2>2
  <2>4. \A k \in 1 .. e : next[k] = held[Ranked(held)[k]]
    BY <1>1, <1>2, <1>6, <2>1, <2>2
  <2>5. ASSUME NEW l \in Layouts
        PROVE  \/ Cardinality(AtLeast(fitness', Power[l])) >=
                    Cardinality(AtLeast(fitness, Power[l]))
               \/ Cardinality(AtLeast(fitness', Power[l])) >= e
    <3>1. PICK p \in Int : p = Power[l]
      BY CaseTypes
    <3>2. \/ Cardinality(AtLeast(next, p)) >= Cardinality(AtLeast(held, p))
          \/ Cardinality(AtLeast(next, p)) >= e
      BY <2>3, <2>4, EliteKept
    <3> QED
      BY <2>1, <2>2, <3>1, <3>2
  <2> QED
    BY <1>8, <2>5, GroundCounts
<1> QED
  BY <1>10, <1>11, <1>12 DEF BestInPopulation, HeldAfter

\* They do not change.
LEMMA ElitistCaseStays ==
  ASSUME SameCase
  PROVE  Elitist!PopulationSize' = Elitist!PopulationSize /\ Elitist!Elite' = Elitist!Elite
BY DEF SameCase, Elitist!PopulationSize, Elitist!Elite

\* Every step of the elitist searches keeps the invariant and goes on.
LEMMA ElitistStep ==
  ASSUME algorithm \in Chosen, algorithm \in Elitist!Algorithms, RunSound, ElitistInv,
         Elitist!Step
  PROVE  RunSound' /\ SameCase /\ ElitistInv' /\ GoesOn /\ GroundKept(Elitist!Protected)
<1>1. PICK n : n = Elitist!PopulationSize
  OBVIOUS
<1>2. /\ n \in Nat \ {0} /\ n <= budget /\ Elitist!Half \in 1 .. n
      /\ algorithm = "ise" => n >= 4 \/ n = budget
      /\ algorithm = "ppga" => Elitist!Elite \in 1 .. n - 1
      /\ budget \in Nat /\ fes \in Nat /\ fes <= budget
  BY <1>1, ElitistCase, CaseTypes
<1>3. pc # "init" => /\ HoldsRows(n) /\ Size = n /\ Rows = 1 .. n
                     /\ fitness \in [1 .. n -> Nat]
  <2>1. pc # "init" => HoldsRows(n)
    BY <1>1 DEF ElitistInv
  <2> QED
    BY <2>1, HeldTypes
<1>4. CASE Elitist!Initialize
  <2>1. /\ pc = "init" /\ pc' = "loop" /\ InitializeRows(n) /\ order' = population'
    BY <1>1, <1>4, ElitistSame DEF Elitist!Initialize
  <2>2. fes = 0 /\ best = 0 /\ population = <<>>
    BY <2>1 DEF ElitistInv
  <2>3. /\ RunSound' /\ SameCase /\ fes' = fes + n
        /\ HoldsRows(n)' /\ BestInPopulation' /\ GoesOn
    BY <1>2, <2>1, <2>2, FirstRowsGoOn
  <2>4. /\ algorithm' = algorithm /\ budget' = budget /\ Elitist!PopulationSize' = n
        /\ fes' = n
    BY <1>1, <1>2, <2>2, <2>3, ElitistCaseStays DEF SameCase
  <2>5. ElitistInv'
    BY <1>2, <2>1, <2>3, <2>4 DEF ElitistInv, Elitist!OrderAligned
  <2> QED
    BY <2>2, <2>3, <2>5, GroundOfFirstRows
<1>5. CASE Elitist!Spherical
  <2>1. pc = "loop" /\ algorithm = "ise" /\ fes < budget /\ UNCHANGED <<pc, order>>
    BY <1>5 DEF Elitist!Spherical
  <2>2. PICK batch \in [Prefix(1 .. n) -> Layouts] :
          Evaluate(batch) /\ Replace(batch, Improved(batch))
    BY <1>3, <1>5, <2>1, ElitistSame DEF Elitist!Spherical
  <2>3. HoldsRows(n) /\ BestInPopulation
    BY <1>3, <2>1 DEF ElitistInv
  <2>4. Trials(n, Prefix(1 .. n), batch)
    <3>1. n \in 1 .. n
      BY <1>2
    <3> QED
      BY <2>2, <2>3, <3>1, PrefixTrials
  <2>5. /\ RunSound' /\ SameCase /\ GoesOn
    <3>1. RunSound' /\ SameCase /\ fes' > fes /\ best' >= best
          /\ (best' = best \/ \E l \in Layouts : best' = Power[l])
      BY <1>2, <2>1, <2>2, BatchSound
    <3> QED
      BY <2>1, <3>1 DEF GoesOn
  <2>6. HoldsRows(n)' /\ BestInPopulation' /\ \A kept : GroundKept(kept)
    BY <2>3, <2>4, TrialsSound, TrialsKeepGround DEF HeldAfter
  <2>7. algorithm' = algorithm /\ budget' = budget /\ Elitist!PopulationSize' = n
    BY <1>1, <2>5, ElitistCaseStays DEF SameCase
  <2>8. ~(n < 4)
    <3>1. ~(algorithm = "ise" /\ n < 4 /\ fes # budget)
      BY <1>1, <2>1 DEF ElitistInv
    <3> QED
      BY <1>2, <2>1, <3>1
  <2>9. ElitistInv'
    BY <2>1, <2>6, <2>7, <2>8 DEF ElitistInv, Elitist!OrderAligned
  <2> QED
    BY <2>5, <2>6, <2>9
<1>6. CASE Elitist!BiPopulation
  <2>1. pc = "loop" /\ algorithm = "bde" /\ fes < budget /\ UNCHANGED <<pc, order>>
    BY <1>6 DEF Elitist!BiPopulation
  <2>2. PICK half : half = Elitist!Half
    OBVIOUS
  <2>3. PICK batch \in [Prefix(1 .. half) -> Layouts] :
          /\ Evaluate(batch)
          /\ Replace(Elitist!Targeted(batch), Elitist!NoWorse(Elitist!Targeted(batch)))
    BY <1>6, <2>2, ElitistSame DEF Elitist!BiPopulation
  <2>4. HoldsRows(n) /\ BestInPopulation
    BY <1>3, <2>1 DEF ElitistInv
  <2>5. /\ RunSound' /\ SameCase /\ fes' > fes /\ best' \in Nat /\ best' >= best
        /\ best' = best \/ \E r \in Prefix(1 .. half) : best' = Power[batch[r]]
        /\ best' = best \/ \E l \in Layouts : best' = Power[l]
        /\ \A r \in Prefix(1 .. half) : Power[batch[r]] <= best'
    <3>1. half \in Nat \ {0}
      BY <1>2, <2>2
    <3> QED
      BY <2>1, <2>3, <3>1, BatchSound
  <2>6. HeldAfter(n) /\ BestInPopulation' /\ \A kept : GroundKept(kept)
    <3>1. PICK S, trial : S = Prefix(1 .. half) /\ trial = Elitist!Targeted(batch)
      OBVIOUS
    <3>2. S \in SUBSET (1 .. n)
      BY <1>2, <2>2, <3>1 DEF Prefix
    <3> QED
      BY <2>3, <2>4, <2>5, <3>1, <3>2, BiPopulationSound
  <2>7. algorithm' = algorithm /\ budget' = budget /\ Elitist!PopulationSize' = n
    BY <1>1, <2>5, ElitistCaseStays DEF SameCase
  <2>8. ElitistInv' /\ GoesOn
    BY <2>1, <2>5, <2>6, <2>7 DEF ElitistInv, Elitist!OrderAligned, GoesOn, HeldAfter
  <2> QED
    BY <2>5, <2>6, <2>8
<1>7. CASE Elitist!Generation
  <2>1. pc = "loop" /\ algorithm \in {"aiga", "ciga", "ppga"} /\ fes < budget
    BY <1>7 DEF Elitist!Generation
  <2>2. PICK batch \in [Prefix(1 .. n) -> Layouts] :
          /\ Evaluate(batch)
          /\ IF DOMAIN batch # 1 .. n
               THEN pc' = "finish" /\ UNCHANGED <<population, fitness, order>>
               ELSE /\ pc' = "loop"
                    /\ IF algorithm = "ppga" THEN Elitist!Breed(batch)
                                             ELSE Elitist!Merge(batch)
    BY <1>3, <1>7, <2>1, ElitistSame DEF Elitist!Generation, Elitist!searchVars
  <2>3. /\ HoldsRows(n) /\ BestInPopulation
        /\ algorithm = "aiga" => order = population
    BY <1>3, <2>1 DEF ElitistInv, Elitist!OrderAligned
  <2>4. /\ RunSound' /\ SameCase /\ fes' > fes /\ best' \in Nat /\ best' >= best
        /\ best' = best \/ \E r \in Prefix(1 .. n) : best' = Power[batch[r]]
        /\ best' = best \/ \E l \in Layouts : best' = Power[l]
        /\ \A r \in Prefix(1 .. n) : Power[batch[r]] <= best'
        /\ Prefix(1 .. n) # 1 .. n => fes' = budget
    BY <1>2, <2>1, <2>2, BatchSound
  <2>5. /\ algorithm' = algorithm /\ budget' = budget /\ Elitist!PopulationSize' = n
    BY <1>1, <2>4, ElitistCaseStays DEF SameCase
  <2>6. GoesOn
    BY <2>1, <2>2, <2>4 DEF GoesOn
  <2>7. CASE DOMAIN batch # 1 .. n
    <3>1. pc' = "finish" /\ UNCHANGED <<population, fitness, order>> /\ fes' = budget
      BY <2>2, <2>4, <2>7
    <3>2. HoldsRows(n)' /\ \A kept : GroundKept(kept)
      <4>1. /\ population \in [1 .. n -> Layouts] /\ fitness \in [1 .. n -> Nat]
            /\ \A r \in 1 .. n : fitness[r] = Power[population[r]] /\ fitness[r] <= best
            /\ best \in Nat
        BY <2>3, HeldTypes
      <4>2. /\ population' \in [1 .. n -> Layouts] /\ fitness' \in [1 .. n -> Nat]
            /\ \A r \in 1 .. n : fitness'[r] = Power[population'[r]] /\ fitness'[r] <= best'
            /\ \A r \in 1 .. n : fitness'[r] >= fitness[r]
        BY <2>4, <3>1, <4>1
      <4> QED
        BY <1>2, <2>3, <2>4, <4>2, HeldNext, GroundOfRows
    <3>3. ElitistInv'
      BY <2>1, <2>3, <2>5, <3>1, <3>2 DEF ElitistInv, Elitist!OrderAligned
    <3> QED
      BY <2>4, <2>6, <3>2, <3>3
  <2>8. CASE DOMAIN batch = 1 .. n
    <3>1. /\ batch \in [1 .. n -> Layouts] /\ pc' = "loop" /\ Prefix(1 .. n) = 1 .. n
          /\ IF algorithm = "ppga" THEN Elitist!Breed(batch) ELSE Elitist!Merge(batch)
      BY <2>2, <2>8
    <3>2. /\ best' = best \/ \E r \in 1 .. n : best' = Power[batch[r]]
          /\ \A r \in 1 .. n : Power[batch[r]] <= best'
      BY <2>4, <3>1
    <3>3. CASE algorithm = "ppga"
      <4>1. PICK e : e = Elitist!Elite
        OBVIOUS
      <4>2. HeldAfter(n) /\ BestInPopulation' /\ GroundKept(e)
        BY <1>2, <2>3, <2>4, <3>1, <3>2, <3>3, <4>1, BreedSound
      <4>3. ElitistInv'
        BY <2>5, <3>1, <3>3, <4>2 DEF ElitistInv, Elitist!OrderAligned, HeldAfter
      <4> QED
        BY <2>4, <2>6, <3>3, <4>1, <4>2, <4>3 DEF Elitist!Protected
    <3>4. CASE algorithm # "ppga"
      <4>1. /\ HeldAfter(n) /\ BestInPopulation' /\ GroundKept(n)
            /\ order = population => order' = population'
        BY <2>3, <2>4, <3>1, <3>2, <3>4, MergeSound
      <4>2. ElitistInv'
        BY <2>1, <2>3, <2>5, <3>1, <4>1 DEF ElitistInv, Elitist!OrderAligned, HeldAfter
      <4> QED
        BY <1>1, <2>4, <2>6, <3>4, <4>1, <4>2 DEF Elitist!Protected
    <3> QED
      BY <3>3, <3>4
  <2> QED
    BY <2>7, <2>8
<1>8. CASE Elitist!LeaveLoop \/ Elitist!Finish
  <2>1. /\ UNCHANGED <<population, fitness>> /\ UNCHANGED runtimeVars /\ order' = order
        /\ \/ pc = "loop" /\ pc' = "finish" /\ (fes >= budget \/ (algorithm = "ise" /\ n < 4))
           \/ pc = "finish" /\ pc' = "done"
    BY <1>3, <1>8, ElitistSame DEF Elitist!LeaveLoop, Elitist!Finish, Elitist!searchVars,
       Elitist!runtimeVars, runtimeVars
  <2>2. /\ HoldsRows(n) /\ Elitist!OrderAligned
        /\ algorithm \in {"ise", "bde"} => BestInPopulation
        /\ algorithm = "ise" /\ n < 4 => fes = budget
        /\ pc = "finish" => fes = budget
    BY <1>1, <2>1 DEF ElitistInv
  <2>3. fes = budget
    BY <1>2, <2>1, <2>2
  <2>4. /\ RunSound' /\ SameCase /\ best' = best /\ fes' = fes
        /\ HoldsRows(n)' /\ (\A kept : GroundKept(kept))
        /\ BestInPopulation => BestInPopulation'
    BY <2>1, <2>2, RestSound
  <2>5. /\ algorithm' = algorithm /\ budget' = budget /\ Elitist!PopulationSize' = n
    BY <1>1, <2>4, ElitistCaseStays DEF SameCase
  <2>6. ElitistInv'
    BY <2>1, <2>2, <2>3, <2>4, <2>5 DEF ElitistInv, Elitist!OrderAligned
  <2> QED
    BY <2>1, <2>3, <2>4, <2>6 DEF GoesOn
<1> QED
  BY <1>4, <1>5, <1>6, <1>7, <1>8 DEF Elitist!Step

-----------------------------------------------------------------------------
(* ParticleSwarm.                                                          *)

\* n rows with what they remember, none better than the best of the run.
SwarmRows(n) ==
  /\ n \in Nat \ {0}
  /\ population \in [1 .. n -> Layouts] /\ fitness \in [1 .. n -> Nat]
  /\ \A r \in 1 .. n : fitness[r] <= best
  /\ pbest \in [1 .. n -> Layouts] /\ pbestFitness \in [1 .. n -> Nat]
  /\ \A r \in 1 .. n : pbestFitness[r] = Power[pbest[r]] /\ pbestFitness[r] <= best
  /\ gbest \in Layouts /\ gbestFitness = Power[gbest] /\ gbestFitness <= best

\* Layout, fitness and turbine order of a row belong together.
SwarmTogether(n) ==
  /\ \A r \in 1 .. n : fitness[r] = Power[population[r]]
  /\ Swarm!Chaotic \/ order = population

\* The invariant of the particle swarms.
SwarmInv ==
  \/ /\ pc = "init"
     /\ fes = 0 /\ best = 0
     /\ population = <<>> /\ fitness = <<>> /\ gbestFitness = 0
  \/ /\ pc \in {"loop", "elite", "tournament", "move", "finish", "done"}
     /\ SwarmRows(Swarm!PopulationSize)
     /\ pc \in {"loop", "elite", "tournament", "move"} => SwarmTogether(Swarm!PopulationSize)
     /\ pc = "loop" =>
          \A r \in 1 .. Swarm!PopulationSize : pbestFitness[r] <= gbestFitness
     /\ pc \in {"elite", "move"} => fes < budget
     /\ pc \in {"finish", "done"} => fes = budget

\* The parameters of the particle swarms.
LEMMA SwarmCase ==
  ASSUME algorithm \in Chosen, algorithm \in Swarm!Algorithms, RunSound
  PROVE  Swarm!PopulationSize \in Nat \ {0} /\ Swarm!PopulationSize <= budget
<1>1. Swarm!SettingOK(Setting[algorithm])
  BY SettingAssumption
<1>2. budget \in Nat /\ budget \in Setting[algorithm].budgets
  BY CaseTypes DEF RunSound
<1> QED
  BY <1>1, <1>2 DEF Swarm!SettingOK, Swarm!PopulationSize

\* They do not change.
LEMMA SwarmCaseStays ==
  ASSUME SameCase
  PROVE  /\ Swarm!PopulationSize' = Swarm!PopulationSize
         /\ Swarm!Chaotic' = Swarm!Chaotic
         /\ Layouts' = Layouts /\ Power' = Power
         /\ algorithm' = algorithm /\ budget' = budget
BY DEF SameCase, Swarm!PopulationSize, Swarm!Chaotic, Layouts, Power

\* What SwarmRows gives its user.
LEMMA SwarmTypes ==
  ASSUME RunSound, NEW n, SwarmRows(n)
  PROVE  /\ n \in Nat \ {0} /\ Size = n /\ Rows = 1 .. n
         /\ best \in Nat /\ gbestFitness \in Nat
BY RowsHeld, CaseTypes DEF SwarmRows, RunSound

\* The first rows.
LEMMA SwarmInitialize ==
  ASSUME RunSound, NEW n \in Nat \ {0}, fes = 0, fes + n <= budget, best = 0,
         InitializeRows(n), pc = "init", pc' # "done",
         order' = population', pbest' = population', pbestFitness' = fitness',
         gbest' = population'[First(fitness')], gbestFitness' = Power[gbest']
  PROVE  /\ RunSound' /\ SameCase /\ GoesOn /\ SwarmRows(n)' /\ SwarmTogether(n)'
         /\ \A r \in 1 .. n : pbestFitness'[r] <= gbestFitness'
<1>1. /\ RunSound' /\ SameCase /\ GoesOn
      /\ \A r \in 1 .. n : fitness'[r] <= best'
  BY FirstRowsGoOn DEF HoldsRows
<1>2. PICK batch \in [1 .. n -> Layouts] : population' = batch /\ fitness' = PowerOf(batch)
  BY DEF InitializeRows
<1>3. /\ fitness' \in [1 .. n -> Nat]
      /\ \A r \in 1 .. n : fitness'[r] = Power[population'[r]] /\ fitness'[r] \in Nat
  <2>1. \A r \in 1 .. n : batch[r] \in Layouts /\ Power[batch[r]] \in Nat
    BY CaseTypes
  <2> QED
    BY <1>2, <2>1 DEF PowerOf
<1>4. PICK value, first : value = fitness' /\ first = First(value)
  OBVIOUS
<1>5. value \in [1 .. n -> Int]
  BY <1>3, <1>4
<1>6. first \in 1 .. n /\ \A r \in 1 .. n : value[r] <= value[first]
  BY <1>4, <1>5, FirstIsBest
<1>7. gbest' = population'[first] /\ gbest' \in Layouts /\ gbestFitness' = fitness'[first]
  BY <1>2, <1>3, <1>4, <1>6
<1>8. SwarmRows(n)'
  BY <1>1, <1>2, <1>3, <1>6, <1>7, SwarmCaseStays DEF SwarmRows
<1>9. SwarmTogether(n)'
  BY <1>1, <1>3, SwarmCaseStays DEF SwarmTogether
<1> QED
  BY <1>1, <1>4, <1>6, <1>7, <1>8, <1>9

\* Evaluated candidates that are better than the memory of their row become it.
TakesElites(n, S, batch) ==
  LET better == {r \in S : Power[batch[r]] > pbestFitness[r]}
  IN /\ pbest' = [r \in 1 .. n |-> IF r \in better THEN batch[r] ELSE pbest[r]]
     /\ pbestFitness' = [r \in 1 .. n |->
          IF r \in better THEN Power[batch[r]] ELSE pbestFitness[r]]

\* Moved rows, by what they are accepted as.
TakesMoved(n, S, accepted) ==
  LET better == {r \in S : accepted[r] > pbestFitness[r]}
  IN /\ pbest' = [r \in 1 .. n |-> IF r \in better THEN population'[r] ELSE pbest[r]]
     /\ pbestFitness' = [r \in 1 .. n |->
          IF r \in better THEN accepted[r] ELSE pbestFitness[r]]

TakesWinners(n, winner) ==
  /\ pbest' = [r \in 1 .. n |-> pbest[winner[r]]]
  /\ pbestFitness' = [r \in 1 .. n |-> pbestFitness[winner[r]]]

\* Better elites become personal bests.
LEMMA SwarmElites ==
  ASSUME RunSound, NEW n, SwarmRows(n), SameCase, best' \in Nat, best' >= best,
         NEW S \in SUBSET (1 .. n), NEW batch \in [S -> Layouts],
         \A r \in S : Power[batch[r]] <= best',
         TakesElites(n, S, batch),
         UNCHANGED <<population, fitness, gbest, gbestFitness>>
  PROVE  SwarmRows(n)' /\ \A r \in 1 .. n : pbestFitness'[r] >= pbestFitness[r]
<1>0. PICK better : better = {r \in S : Power[batch[r]] > pbestFitness[r]}
  OBVIOUS
<1>a. /\ pbest' = [r \in 1 .. n |-> IF r \in better THEN batch[r] ELSE pbest[r]]
      /\ pbestFitness' = [r \in 1 .. n |->
           IF r \in better THEN Power[batch[r]] ELSE pbestFitness[r]]
  BY <1>0 DEF TakesElites
<1>1. /\ best \in Nat /\ gbestFitness \in Nat /\ n \in Nat \ {0}
  BY SwarmTypes
<1>2. \A r \in S : batch[r] \in Layouts /\ Power[batch[r]] \in Nat /\ r \in 1 .. n
  BY CaseTypes
<1>3. /\ pbest \in [1 .. n -> Layouts] /\ pbestFitness \in [1 .. n -> Nat]
      /\ \A r \in 1 .. n : pbestFitness[r] = Power[pbest[r]] /\ pbestFitness[r] <= best
  BY DEF SwarmRows
<1>4. pbest' \in [1 .. n -> Layouts]
  BY <1>0, <1>a, <1>2, <1>3
<1>5. pbestFitness' \in [1 .. n -> Nat]
  BY <1>0, <1>a, <1>2, <1>3
<1>6. \A r \in 1 .. n : /\ pbestFitness'[r] = Power[pbest'[r]]
                        /\ pbestFitness'[r] <= best' /\ pbestFitness'[r] >= pbestFitness[r]
  BY <1>0, <1>a, <1>1, <1>2, <1>3
<1>7. /\ population' \in [1 .. n -> Layouts] /\ fitness' \in [1 .. n -> Nat]
      /\ \A r \in 1 .. n : fitness'[r] <= best'
      /\ gbest' \in Layouts /\ gbestFitness' = Power[gbest'] /\ gbestFitness' <= best'
  BY <1>1 DEF SwarmRows
<1> QED
  BY <1>1, <1>4, <1>5, <1>6, <1>7, SwarmCaseStays DEF SwarmRows

\* A winner's memory is taken over as a whole.
LEMMA SwarmWinners ==
  ASSUME RunSound, NEW n, SwarmRows(n), SameCase, best' = best,
         NEW winner \in [1 .. n -> 1 .. n],
         TakesWinners(n, winner),
         UNCHANGED <<population, fitness, gbest, gbestFitness>>
  PROVE  SwarmRows(n)'
<1>1. /\ pbest \in [1 .. n -> Layouts] /\ pbestFitness \in [1 .. n -> Nat]
      /\ \A r \in 1 .. n : pbestFitness[r] = Power[pbest[r]] /\ pbestFitness[r] <= best
  BY DEF SwarmRows
<1>2. pbest' \in [1 .. n -> Layouts]
  BY <1>1 DEF TakesWinners
<1>3. pbestFitness' \in [1 .. n -> Nat]
  BY <1>1 DEF TakesWinners
<1>4. \A r \in 1 .. n : pbestFitness'[r] = Power[pbest'[r]] /\ pbestFitness'[r] <= best'
  BY <1>1 DEF TakesWinners
<1> QED
  BY <1>2, <1>3, <1>4, SwarmCaseStays DEF SwarmRows

\* The evaluated rows of a move, by what they are accepted as.
LEMMA SwarmRemembers ==
  ASSUME RunSound, NEW n, SwarmRows(n), SameCase, best' \in Nat, best' >= best,
         NEW S \in SUBSET (1 .. n), NEW accepted \in [S -> Nat],
         population' \in [1 .. n -> Layouts], fitness' \in [1 .. n -> Nat],
         \A r \in 1 .. n : fitness'[r] <= best',
         \A r \in S : accepted[r] = Power[population'[r]] /\ accepted[r] <= best',
         TakesMoved(n, S, accepted),
         Swarm!UpdateGbest(pbestFitness', pbest')
  PROVE  /\ SwarmRows(n)'
         /\ \A r \in 1 .. n : pbestFitness'[r] >= pbestFitness[r]
         /\ \A r \in 1 .. n : pbestFitness'[r] <= gbestFitness'
         /\ gbestFitness' >= gbestFitness
<1>0. PICK better : better = {r \in S : accepted[r] > pbestFitness[r]}
  OBVIOUS
<1>a. /\ pbest' = [r \in 1 .. n |-> IF r \in better THEN population'[r] ELSE pbest[r]]
      /\ pbestFitness' = [r \in 1 .. n |->
           IF r \in better THEN accepted[r] ELSE pbestFitness[r]]
  BY <1>0 DEF TakesMoved
<1>1. /\ best \in Nat /\ gbestFitness \in Nat /\ n \in Nat \ {0}
  BY SwarmTypes
<1>2. /\ pbest \in [1 .. n -> Layouts] /\ pbestFitness \in [1 .. n -> Nat]
      /\ \A r \in 1 .. n : pbestFitness[r] = Power[pbest[r]] /\ pbestFitness[r] <= best
      /\ gbest \in Layouts /\ gbestFitness = Power[gbest] /\ gbestFitness <= best
  BY DEF SwarmRows
<1>3. pbest' \in [1 .. n -> Layouts]
  BY <1>0, <1>a, <1>2
<1>4. pbestFitness' \in [1 .. n -> Nat]
  BY <1>0, <1>a, <1>2
<1>5. \A r \in 1 .. n : /\ pbestFitness'[r] = Power[pbest'[r]]
                        /\ pbestFitness'[r] <= best' /\ pbestFitness'[r] >= pbestFitness[r]
  BY <1>0, <1>a, <1>1, <1>2
<1>6. PICK value, layouts, first :
        value = pbestFitness' /\ layouts = pbest' /\ first = First(value)
  OBVIOUS
<1>7. first \in 1 .. n /\ \A r \in 1 .. n : value[r] <= value[first]
  <2>1. value \in [1 .. n -> Int]
    BY <1>4, <1>6
  <2> QED
    BY <1>1, <1>6, <2>1, FirstIsBest
<1>8. IF value[first] > gbestFitness
        THEN gbest' = layouts[first] /\ gbestFitness' = value[first]
        ELSE gbest' = gbest /\ gbestFitness' = gbestFitness
  BY <1>6, SwarmSame DEF Swarm!UpdateGbest
<1>9. /\ value[first] \in Nat /\ layouts[first] \in Layouts
      /\ value[first] = Power[layouts[first]] /\ value[first] <= best'
  BY <1>3, <1>4, <1>5, <1>6, <1>7
<1>10. /\ gbest' \in Layouts /\ gbestFitness' = Power[gbest'] /\ gbestFitness' <= best'
       /\ gbestFitness' >= gbestFitness /\ value[first] <= gbestFitness'
       /\ gbestFitness' \in Nat
  BY <1>1, <1>2, <1>8, <1>9
<1>11. \A r \in 1 .. n : pbestFitness'[r] <= gbestFitness'
  <2>1. \A r \in 1 .. n : pbestFitness'[r] \in Nat
    BY <1>4
  <2> QED
    BY <1>6, <1>7, <1>9, <1>10, <2>1
<1>12. SwarmRows(n)'
  BY <1>1, <1>3, <1>4, <1>5, <1>10, SwarmCaseStays DEF SwarmRows
<1> QED
  BY <1>5, <1>10, <1>11, <1>12

\* The rows that stay after a move.
LEMMA SwarmSurvivors ==
  ASSUME RunSound, NEW n, SwarmRows(n), SwarmTogether(n), SameCase,
         best' \in Nat, best' >= best,
         NEW batch \in [1 .. n -> Layouts], \A r \in 1 .. n : Power[batch[r]] <= best',
         Swarm!Survive(batch)
  PROVE  /\ population' \in [1 .. n -> Layouts] /\ fitness' \in [1 .. n -> Nat]
         /\ \A r \in 1 .. n : fitness'[r] <= best' /\ fitness'[r] = Power[population'[r]]
         /\ SwarmTogether(n)'
         /\ Swarm!Chaotic \/ \A r \in 1 .. n : fitness'[r] >= fitness[r]
<1>1. n \in Nat \ {0} /\ Rows = 1 .. n /\ best \in Nat
  BY SwarmTypes
<1>2. /\ population \in [1 .. n -> Layouts] /\ fitness \in [1 .. n -> Nat]
      /\ \A r \in 1 .. n : fitness[r] = Power[population[r]] /\ fitness[r] <= best
  BY DEF SwarmRows, SwarmTogether
<1>3. \A r \in 1 .. n : batch[r] \in Layouts /\ Power[batch[r]] \in Nat
  BY CaseTypes
<1>4. PICK stay : stay = Swarm!Surviving(batch)
  OBVIOUS
<1>5. \A r \in 1 .. n : r \in stay <=> Swarm!Chaotic \/ Power[batch[r]] > fitness[r]
  BY <1>1, <1>4, SwarmSame DEF Swarm!Surviving
<1>6. /\ population' = [r \in 1 .. n |-> IF r \in stay THEN batch[r] ELSE population[r]]
      /\ fitness' = [r \in 1 .. n |-> IF r \in stay THEN Power[batch[r]] ELSE fitness[r]]
      /\ Swarm!Chaotic \/ order' = population'
  BY <1>1, <1>4, SwarmSame DEF Swarm!Survive
<1>7. population' \in [1 .. n -> Layouts]
  BY <1>2, <1>3, <1>6
<1>8. fitness' \in [1 .. n -> Nat]
  BY <1>2, <1>3, <1>6
<1>9. \A r \in 1 .. n : fitness'[r] <= best' /\ fitness'[r] = Power[population'[r]]
  BY <1>1, <1>2, <1>3, <1>6
<1>10. Swarm!Chaotic \/ \A r \in 1 .. n : fitness'[r] >= fitness[r]
  BY <1>2, <1>3, <1>5, <1>6
<1>11. SwarmTogether(n)'
  BY <1>6, <1>9, SwarmCaseStays DEF SwarmTogether
<1> QED
  BY <1>7, <1>8, <1>9, <1>10, <1>11

\* SwarmKept, with the rows by number.
SwarmGoesUp(n) ==
  /\ gbestFitness' >= gbestFitness
  /\ \A r \in 1 .. n :
       /\ pbestFitness'[r] < pbestFitness[r] =>
            stagnation[r] >= Swarm!Stagnant /\ stagnation'[r] = 0
       /\ Swarm!Chaotic \/ fitness'[r] >= fitness[r]

\* SwarmKept, row by row.
LEMMA SwarmKeptOfRows ==
  ASSUME RunSound, NEW n, SwarmRows(n), SwarmGoesUp(n)
  PROVE  Swarm!SwarmKept
BY SwarmTypes, SwarmSame DEF Swarm!SwarmKept, SwarmGoesUp

\* What changes nothing is fine.
LEMMA SwarmNotDown ==
  ASSUME RunSound, NEW n, SwarmRows(n), gbestFitness' \in Nat, gbestFitness' >= gbestFitness,
         pbestFitness' \in [1 .. n -> Nat],
         \A r \in 1 .. n : pbestFitness'[r] >= pbestFitness[r],
         Swarm!Chaotic \/ \A r \in 1 .. n : fitness'[r] >= fitness[r]
  PROVE  SwarmGoesUp(n)
BY DEF SwarmGoesUp, SwarmRows

\* Every step of the particle swarms keeps the invariant and goes on.
LEMMA SwarmStep ==
  ASSUME algorithm \in Chosen, algorithm \in Swarm!Algorithms, RunSound, SwarmInv, Swarm!Step
  PROVE  RunSound' /\ SameCase /\ SwarmInv' /\ GoesOn /\ Swarm!SwarmKept
<1>1. PICK n : n = Swarm!PopulationSize
  OBVIOUS
<1>2. /\ n \in Nat \ {0} /\ n <= budget
      /\ budget \in Nat /\ fes \in Nat /\ fes <= budget /\ best \in Nat
  BY <1>1, SwarmCase, CaseTypes DEF RunSound
<1>3. pc # "init" => /\ SwarmRows(n) /\ Size = n /\ Rows = 1 .. n /\ gbestFitness \in Nat
                     /\ fitness \in [1 .. n -> Nat] /\ pbestFitness \in [1 .. n -> Nat]
  <2>1. pc # "init" => SwarmRows(n)
    BY <1>1 DEF SwarmInv
  <2> QED
    BY <2>1, SwarmTypes DEF SwarmRows
<1>4. CASE Swarm!Initialize
  <2>1. /\ pc = "init" /\ pc' = "loop" /\ InitializeRows(n)
        /\ order' = population' /\ pbest' = population' /\ pbestFitness' = fitness'
        /\ gbest' = population'[First(fitness')] /\ gbestFitness' = Power[gbest']
    BY <1>1, <1>4, SwarmSame DEF Swarm!Initialize
  <2>2. fes = 0 /\ best = 0 /\ gbestFitness = 0
    BY <2>1 DEF SwarmInv
  <2>3. /\ RunSound' /\ SameCase /\ GoesOn /\ SwarmRows(n)' /\ SwarmTogether(n)'
        /\ \A r \in 1 .. n : pbestFitness'[r] <= gbestFitness'
    BY <1>2, <2>1, <2>2, SwarmInitialize
  <2>4. SwarmInv'
    BY <1>1, <2>1, <2>3, SwarmCaseStays DEF SwarmInv
  <2>5. gbestFitness' \in Nat
    BY <2>3, SwarmCaseStays, CaseTypes DEF SwarmRows
  <2>6. Swarm!SwarmKept
    BY <2>1, <2>2, <2>5 DEF Swarm!SwarmKept
  <2> QED
    BY <2>3, <2>4, <2>6
<1>5. CASE Swarm!ChaoticLocalSearch
  <2>1. /\ pc = "loop" /\ fes < budget /\ Swarm!Chaotic
        /\ pc' = (IF fes' >= budget THEN "finish" ELSE "elite")
        /\ UNCHANGED <<population, fitness, order, pbest, pbestFitness, stagnation>>
    BY <1>5 DEF Swarm!ChaoticLocalSearch
  <2>2. PICK layout \in Layouts :
          /\ Evaluate(<<layout>>)
          /\ IF Power[layout] > gbestFitness
               THEN gbest' = layout /\ gbestFitness' = Power[layout]
               ELSE UNCHANGED <<gbest, gbestFitness>>
    BY <1>5, SwarmSame DEF Swarm!ChaoticLocalSearch
  <2>3. /\ SwarmRows(n) /\ SwarmTogether(n)
        /\ \A r \in 1 .. n : pbestFitness[r] <= gbestFitness
    BY <1>1, <1>3, <2>1 DEF SwarmInv
  <2>4. PICK batch : batch = <<layout>>
    OBVIOUS
  <2>5. batch \in [1 .. 1 -> Layouts] /\ batch[1] = layout
    BY <2>4
  <2>6. IsFiniteSet(1 .. 1) /\ Cardinality(1 .. 1) = 1 /\ fes + 1 <= budget
    <3>1. IsFiniteSet(1 .. 1) /\ Cardinality(1 .. 1) = 1
      BY FiniteRows
    <3>2. fes + 1 <= budget
      BY <1>2, <2>1
    <3> QED
      BY <3>1, <3>2
  <2>7. /\ RunSound' /\ SameCase /\ fes' = fes + 1 /\ best' \in Nat /\ best' >= best
        /\ best' = best \/ \E r \in 1 .. 1 : best' = Power[batch[r]]
        /\ \A r \in 1 .. 1 : Power[batch[r]] <= best'
    BY <2>2, <2>4, <2>5, <2>6, EvaluateSound
  <2>8. /\ Power[layout] <= best' /\ Power[layout] \in Nat
        /\ best' = best \/ \E l \in Layouts : best' = Power[l]
    <3>1. 1 \in 1 .. 1
      OBVIOUS
    <3> QED
      BY <2>5, <2>7, <3>1, CaseTypes
  <2>9. /\ gbest' \in Layouts /\ gbestFitness' = Power[gbest'] /\ gbestFitness' <= best'
        /\ gbestFitness' >= gbestFitness /\ gbestFitness' \in Nat
    BY <1>2, <1>3, <2>1, <2>2, <2>3, <2>7, <2>8 DEF SwarmRows
  <2>10. SwarmRows(n)' /\ SwarmTogether(n)'
    BY <1>2, <2>1, <2>3, <2>7, <2>9, SwarmCaseStays DEF SwarmRows, SwarmTogether
  <2>11. fes' \in Nat /\ fes' <= budget /\ fes' > fes
    BY <1>2, <2>1, <2>7
  <2>12. /\ pc' \in {"finish", "elite"}
         /\ pc' = "finish" => fes' = budget'
         /\ pc' = "elite" => fes' < budget'
    BY <1>2, <2>1, <2>7, <2>11, SwarmCaseStays
  <2>13. SwarmInv'
    BY <1>1, <2>7, <2>10, <2>12, SwarmCaseStays DEF SwarmInv
  <2>14. GoesOn
    BY <2>1, <2>7, <2>8, <2>11, <2>12 DEF GoesOn
  <2>15. SwarmGoesUp(n)
    BY <1>3, <2>1, <2>3, <2>9, SwarmNotDown
  <2> QED
    BY <2>3, <2>7, <2>13, <2>14, <2>15, SwarmKeptOfRows
<1>6. CASE Swarm!EvaluateElite
  <2>1. /\ pc \in {"loop", "elite"} /\ pc' = Swarm!Unless("tournament")
        /\ pc = "loop" => fes < budget
        /\ UNCHANGED <<population, fitness, order, stagnation, gbest, gbestFitness>>
    BY <1>6 DEF Swarm!EvaluateElite
  <2>2. fes < budget /\ SwarmRows(n) /\ SwarmTogether(n)
    BY <1>1, <1>3, <2>1 DEF SwarmInv
  <2>3. PICK batch \in [Prefix(1 .. n) -> Layouts] :
          Evaluate(batch) /\ TakesElites(n, DOMAIN batch, batch)
    BY <1>3, <1>6, <2>1, SwarmSame DEF Swarm!EvaluateElite, TakesElites
  <2>4. PICK S : S = Prefix(1 .. n)
    OBVIOUS
  <2>5. S \in SUBSET (1 .. n) /\ batch \in [S -> Layouts] /\ DOMAIN batch = S
    BY <2>4 DEF Prefix
  <2>7. TakesElites(n, S, batch)
    BY <2>3, <2>5
  <2>8. /\ RunSound' /\ SameCase /\ fes' > fes /\ best' \in Nat /\ best' >= best
        /\ best' = best \/ \E l \in Layouts : best' = Power[l]
        /\ \A r \in S : Power[batch[r]] <= best'
    BY <1>2, <2>2, <2>3, <2>4, BatchSound
  <2>9. SwarmRows(n)' /\ \A r \in 1 .. n : pbestFitness'[r] >= pbestFitness[r]
    BY <2>1, <2>2, <2>5, <2>7, <2>8, SwarmElites
  <2>10. pc' = "tournament"
    BY <1>2, <2>1, <2>2, SwarmSame DEF Unless
  <2>11. SwarmTogether(n)'
    BY <2>1, <2>2, <2>8, SwarmCaseStays DEF SwarmTogether
  <2>12. SwarmInv' /\ GoesOn
    BY <1>1, <2>1, <2>8, <2>9, <2>10, <2>11, SwarmCaseStays DEF SwarmInv, GoesOn
  <2>13. SwarmGoesUp(n)
    <3>1. gbestFitness' \in Nat /\ gbestFitness' >= gbestFitness
          /\ \A r \in 1 .. n : fitness'[r] >= fitness[r]
      <4>1. gbestFitness \in Nat /\ fitness \in [1 .. n -> Nat]
        BY <2>2, SwarmTypes DEF SwarmRows
      <4> QED
        BY <2>1, <4>1
    <3>2. pbestFitness' \in [1 .. n -> Nat]
      BY <2>9 DEF SwarmRows
    <3> QED
      BY <2>2, <2>9, <3>1, <3>2, SwarmNotDown
  <2> QED
    BY <2>2, <2>8, <2>12, <2>13, SwarmKeptOfRows
<1>7. CASE Swarm!Tournament
  <2>1. /\ pc = "tournament" /\ pc' = Swarm!AfterElite
        /\ UNCHANGED runtimeVars
        /\ UNCHANGED <<population, fitness, order, gbest, gbestFitness>>
    BY <1>7 DEF Swarm!Tournament, Swarm!runtimeVars, runtimeVars
  <2>2. SwarmRows(n) /\ SwarmTogether(n)
    BY <1>1, <1>3, <2>1 DEF SwarmInv
  <2>3. PICK winner \in [1 .. n -> 1 .. n] :
          /\ \A r \in 1 .. n : r \notin Swarm!Contestants => winner[r] = r
          /\ TakesWinners(n, winner)
    <3>1. Swarm!Rows = 1 .. n
      BY <1>3, <2>1, SwarmSame
    <3>2. PICK winner \in [Swarm!Rows -> Swarm!Rows] :
            /\ \A r \in Swarm!Rows :
                 IF r \in Swarm!Contestants THEN Swarm!MayWin(winner[r]) ELSE winner[r] = r
            /\ pbest' = [r \in Swarm!Rows |-> pbest[winner[r]]]
            /\ pbestFitness' = [r \in Swarm!Rows |-> pbestFitness[winner[r]]]
      BY <1>7 DEF Swarm!Tournament
    <3>3. TakesWinners(n, winner)
      BY <3>1, <3>2 DEF TakesWinners
    <3>4. \A r \in 1 .. n : r \notin Swarm!Contestants => winner[r] = r
      BY <3>1, <3>2
    <3> QED
      BY <3>1, <3>2, <3>3, <3>4
  <2>4. \A r \in 1 .. n : r \in Swarm!Contestants =>
          stagnation[r] >= Swarm!Stagnant /\ stagnation'[r] = 0
    BY <1>3, <1>7, <2>1, SwarmSame DEF Swarm!Tournament, Swarm!Contestants
  <2>5. RunSound' /\ SameCase /\ best' = best /\ fes' = fes
    BY <2>1, UnchangedSound
  <2>6. SwarmRows(n)'
    BY <2>1, <2>2, <2>3, <2>5, SwarmWinners
  <2>7. SwarmTogether(n)'
    BY <2>1, <2>2, <2>5, SwarmCaseStays DEF SwarmTogether
  <2>8. /\ pc' \in {"finish", "move"}
        /\ pc' = "finish" => fes' = budget'
        /\ pc' = "move" => fes' < budget'
    BY <1>2, <2>1, <2>5, SwarmCaseStays DEF Swarm!AfterElite
  <2>9. SwarmInv'
    BY <1>1, <2>5, <2>6, <2>7, <2>8, SwarmCaseStays DEF SwarmInv
  <2>10. GoesOn
    BY <2>1, <2>5, <2>8 DEF GoesOn
  <2>11. SwarmGoesUp(n)
    <3>1. gbestFitness' >= gbestFitness /\ \A r \in 1 .. n : fitness'[r] >= fitness[r]
      BY <1>3, <2>1
    <3>2. ASSUME NEW r \in 1 .. n, pbestFitness'[r] < pbestFitness[r]
          PROVE  r \in Swarm!Contestants
      <4>1. winner[r] = r => pbestFitness'[r] = pbestFitness[r]
        BY <2>3 DEF TakesWinners
      <4>2. pbestFitness[r] \in Nat
        BY <1>3, <2>1
      <4> QED
        BY <2>3, <3>2, <4>1, <4>2
    <3> QED
      BY <2>4, <3>1, <3>2 DEF SwarmGoesUp
  <2> QED
    BY <2>2, <2>5, <2>9, <2>10, <2>11, SwarmKeptOfRows
<1>8. CASE Swarm!MovePopulation
  <2>1. pc = "move"
    BY <1>8 DEF Swarm!MovePopulation
  <2>2. fes < budget /\ SwarmRows(n) /\ SwarmTogether(n)
    BY <1>1, <1>3, <2>1 DEF SwarmInv
  <2>3. PICK S : S = Prefix(1 .. n)
    OBVIOUS
  <2>4. S \in SUBSET (1 .. n)
    BY <2>3 DEF Prefix
  <2>5. Swarm!Rows = 1 .. n /\ Swarm!Layouts = Layouts /\ Swarm!Prefix(Swarm!Rows) = S
        /\ Swarm!Power = Power
    BY <1>3, <2>1, <2>3, SwarmSame
  <2>6. PICK whole \in [Swarm!Rows -> Swarm!Layouts] :
          LET accepted == [r \in Swarm!Prefix(Swarm!Rows) |->
                IF Swarm!Prefix(Swarm!Rows) = Swarm!Rows
                  THEN fitness'[r] ELSE Swarm!Power[whole[r]]]
              better == {r \in Swarm!Prefix(Swarm!Rows) : accepted[r] > pbestFitness[r]}
          IN /\ Swarm!Evaluate([r \in Swarm!Prefix(Swarm!Rows) |-> whole[r]])
             /\ IF Swarm!Prefix(Swarm!Rows) = Swarm!Rows THEN Swarm!Survive(whole)
                ELSE population' = whole /\ UNCHANGED <<fitness, order>>
             /\ pbest' = [r \in Swarm!Rows |->
                  IF r \in better THEN population'[r] ELSE pbest[r]]
             /\ pbestFitness' = [r \in Swarm!Rows |->
                  IF r \in better THEN accepted[r] ELSE pbestFitness[r]]
             /\ Swarm!UpdateGbest(pbestFitness', pbest')
             /\ pc' = Swarm!Unless(IF Swarm!Prefix(Swarm!Rows) = Swarm!Rows
                                     THEN "loop" ELSE "finish")
    BY <1>8 DEF Swarm!MovePopulation
  <2>7. PICK accepted :
          accepted = [r \in S |-> IF S = 1 .. n THEN fitness'[r] ELSE Power[whole[r]]]
    OBVIOUS
  <2>8. /\ whole \in [1 .. n -> Layouts]
        /\ Evaluate([r \in S |-> whole[r]])
        /\ IF S = 1 .. n THEN Swarm!Survive(whole)
           ELSE population' = whole /\ UNCHANGED <<fitness, order>>
        /\ TakesMoved(n, S, accepted)
        /\ Swarm!UpdateGbest(pbestFitness', pbest')
        /\ pc' = Swarm!Unless(IF S = 1 .. n THEN "loop" ELSE "finish")
    <3>1. whole \in [1 .. n -> Layouts]
      BY <2>5
    <3>2. Evaluate([r \in S |-> whole[r]])
      BY <2>5, <2>6, SwarmSame
    <3>3. /\ IF S = 1 .. n THEN Swarm!Survive(whole)
             ELSE population' = whole /\ UNCHANGED <<fitness, order>>
          /\ Swarm!UpdateGbest(pbestFitness', pbest')
          /\ pc' = Swarm!Unless(IF S = 1 .. n THEN "loop" ELSE "finish")
      BY <2>5, <2>6
    <3>4. TakesMoved(n, S, accepted)
      BY <2>5, <2>6, <2>7 DEF TakesMoved
    <3> QED
      BY <3>1, <3>2, <3>3, <3>4
  <2>9. PICK batch : batch = [r \in S |-> whole[r]]
    OBVIOUS
  <2>10. batch \in [S -> Layouts] /\ \A r \in S : batch[r] = whole[r] /\ r \in 1 .. n
    BY <2>4, <2>8, <2>9
  <2>11. /\ RunSound' /\ SameCase /\ fes' > fes /\ best' \in Nat /\ best' >= best
         /\ best' = best \/ \E l \in Layouts : best' = Power[l]
         /\ \A r \in S : Power[batch[r]] <= best'
         /\ S # 1 .. n => fes' = budget
    <3>1. Evaluate(batch)
      BY <2>8, <2>9
    <3> QED
      BY <1>2, <2>2, <2>3, <2>10, <3>1, BatchSound
  <2>12. /\ population' \in [1 .. n -> Layouts] /\ fitness' \in [1 .. n -> Nat]
         /\ \A r \in 1 .. n : fitness'[r] <= best'
         /\ accepted \in [S -> Nat]
         /\ \A r \in S : accepted[r] = Power[population'[r]] /\ accepted[r] <= best'
         /\ Swarm!Chaotic \/ \A r \in 1 .. n : fitness'[r] >= fitness[r]
         /\ S = 1 .. n => SwarmTogether(n)'
    <3>1. CASE S = 1 .. n
      <4>0. PICK moved \in [1 .. n -> Layouts] : moved = whole
        BY <2>8
      <4>1. Swarm!Survive(moved) /\ \A r \in 1 .. n : Power[moved[r]] <= best'
        BY <2>8, <2>10, <2>11, <3>1, <4>0
      <4>2. /\ population' \in [1 .. n -> Layouts] /\ fitness' \in [1 .. n -> Nat]
            /\ \A r \in 1 .. n : fitness'[r] <= best' /\ fitness'[r] = Power[population'[r]]
            /\ SwarmTogether(n)'
            /\ Swarm!Chaotic \/ \A r \in 1 .. n : fitness'[r] >= fitness[r]
        BY <2>2, <2>11, <4>1, SwarmSurvivors
      <4>3. accepted = [r \in 1 .. n |-> fitness'[r]]
        BY <2>7, <3>1
      <4> QED
        <5>1. accepted \in [S -> Nat]
          BY <3>1, <4>2, <4>3
        <5> QED
          BY <3>1, <4>2, <4>3, <5>1
    <3>2. CASE S # 1 .. n
      <4>1. population' = whole /\ fitness' = fitness
        BY <2>8, <3>2
      <4>2. accepted = [r \in S |-> Power[whole[r]]]
        BY <2>7, <3>2
      <4>3. \A r \in S : /\ accepted[r] = Power[population'[r]]
                         /\ accepted[r] \in Nat /\ accepted[r] <= best'
        BY <2>10, <2>11, <4>1, <4>2, CaseTypes
      <4>4. accepted \in [S -> Nat]
        BY <4>2, <4>3
      <4>5. /\ fitness \in [1 .. n -> Nat] /\ \A r \in 1 .. n : fitness[r] <= best
        BY <2>2 DEF SwarmRows
      <4>6. /\ fitness' \in [1 .. n -> Nat]
            /\ \A r \in 1 .. n : fitness'[r] <= best' /\ fitness'[r] >= fitness[r]
        BY <1>2, <2>11, <4>1, <4>5
      <4> QED
        BY <2>8, <3>2, <4>1, <4>3, <4>4, <4>6
    <3> QED
      BY <3>1, <3>2
  <2>13. /\ SwarmRows(n)'
         /\ \A r \in 1 .. n : pbestFitness'[r] >= pbestFitness[r]
         /\ \A r \in 1 .. n : pbestFitness'[r] <= gbestFitness'
         /\ gbestFitness' >= gbestFitness
    BY <2>2, <2>4, <2>8, <2>11, <2>12, SwarmRemembers
  <2>14. /\ pc' \in {"loop", "finish"}
         /\ pc' = "loop" => S = 1 .. n
         /\ pc' = "finish" => fes' = budget'
    <3>1. pc' = IF S = 1 .. n THEN "loop" ELSE "finish"
      BY <1>2, <2>2, <2>8, SwarmSame DEF Unless
    <3> QED
      BY <2>11, <3>1, SwarmCaseStays
  <2>15. SwarmInv'
    BY <1>1, <2>11, <2>12, <2>13, <2>14, SwarmCaseStays DEF SwarmInv
  <2>16. GoesOn
    BY <2>1, <2>11, <2>14 DEF GoesOn
  <2>17. SwarmGoesUp(n)
    <3>1. gbestFitness' \in Nat /\ pbestFitness' \in [1 .. n -> Nat]
      BY <2>11, <2>13, SwarmCaseStays, CaseTypes DEF SwarmRows
    <3>2. /\ Swarm!Chaotic \/ \A r \in 1 .. n : fitness'[r] >= fitness[r]
          /\ \A r \in 1 .. n : pbestFitness'[r] >= pbestFitness[r]
          /\ gbestFitness' >= gbestFitness
      BY <2>12, <2>13
    <3>3. pbestFitness \in [1 .. n -> Nat]
      BY <2>2 DEF SwarmRows
    <3>4. ASSUME NEW r \in 1 .. n PROVE ~(pbestFitness'[r] < pbestFitness[r])
      <4>1. /\ pbestFitness'[r] \in Nat /\ pbestFitness[r] \in Nat
            /\ pbestFitness'[r] >= pbestFitness[r]
        BY <3>1, <3>2, <3>3
      <4> QED
        BY <4>1
    <3>5. ASSUME NEW r \in 1 .. n PROVE Swarm!Chaotic \/ fitness'[r] >= fitness[r]
      BY <3>2
    <3>6. gbestFitness' >= gbestFitness
      BY <3>2
    <3> QED
      BY <3>4, <3>5, <3>6 DEF SwarmGoesUp
  <2> QED
    BY <2>2, <2>11, <2>15, <2>16, <2>17, SwarmKeptOfRows
<1>9. CASE Swarm!LeaveLoop \/ Swarm!Finish
  <2>1. /\ UNCHANGED <<population, fitness, order, pbest, pbestFitness, stagnation,
                       gbest, gbestFitness>>
        /\ UNCHANGED runtimeVars
        /\ \/ pc = "loop" /\ pc' = "finish" /\ fes >= budget
           \/ pc = "finish" /\ pc' = "done"
    BY <1>9 DEF Swarm!LeaveLoop, Swarm!Finish, Swarm!searchVars, Swarm!swarmVars,
       Swarm!runtimeVars, runtimeVars
  <2>2. SwarmRows(n) /\ (pc = "finish" => fes = budget)
    BY <1>1, <1>3, <2>1 DEF SwarmInv
  <2>3. fes = budget
    BY <1>2, <2>1, <2>2
  <2>4. RunSound' /\ SameCase /\ best' = best /\ fes' = fes
    BY <2>1, UnchangedSound
  <2>5. SwarmRows(n)'
    BY <2>1, <2>2, <2>4, SwarmCaseStays DEF SwarmRows
  <2>6. SwarmInv'
    BY <1>1, <2>1, <2>3, <2>4, <2>5, SwarmCaseStays DEF SwarmInv
  <2>7. GoesOn
    BY <2>1, <2>3, <2>4 DEF GoesOn
  <2>8. SwarmGoesUp(n)
    <3>1. /\ gbestFitness \in Nat /\ fitness \in [1 .. n -> Nat]
          /\ pbestFitness \in [1 .. n -> Nat]
      BY <2>2, SwarmTypes DEF SwarmRows
    <3>2. \A r \in 1 .. n : ~(pbestFitness'[r] < pbestFitness[r]) /\ fitness'[r] >= fitness[r]
      BY <2>1, <3>1
    <3> QED
      BY <2>1, <3>1, <3>2 DEF SwarmGoesUp
  <2> QED
    BY <2>2, <2>4, <2>6, <2>7, <2>8, SwarmKeptOfRows
<1> QED
  BY <1>4, <1>5, <1>6, <1>7, <1>8, <1>9 DEF Swarm!Step

-----------------------------------------------------------------------------
(* HierarchicalSwarm.                                                      *)

\* The global best is a row, and no row is better.
GlobalBestHeld(n) ==
  /\ \E r \in 1 .. n : population[r] = globalBest
  /\ \A r \in 1 .. n : fitness[r] <= Power[globalBest]

\* A reference falls behind its row only in a tournament that has reset the row.
ReferencesHeld(n) ==
  /\ reference \in [1 .. n -> Layouts]
  /\ referenceFitness = PowerOf(reference)
  /\ \A r \in 1 .. n : referenceFitness[r] < fitness[r] => pc = "trial" /\ stagnation[r] = 0

\* The invariant of HGPSO.
LeveledInv ==
  \/ /\ pc = "init"
     /\ fes = 0 /\ best = 0
     /\ population = <<>> /\ fitness = <<>>
  \/ /\ pc \in {"loop", "tournament", "trial", "finish", "done"}
     /\ HoldsRows(Leveled!PopulationSize)
     /\ pc \in {"loop", "tournament", "trial"} => GlobalBestHeld(Leveled!PopulationSize)
     /\ pc \in {"tournament", "trial"} =>
          ReferencesHeld(Leveled!PopulationSize) /\ fes < budget
     /\ pc \in {"finish", "done"} => fes = budget

\* The parameters of HGPSO.
LEMMA LeveledCase ==
  ASSUME algorithm \in Chosen, algorithm \in Leveled!Algorithms, RunSound
  PROVE  Leveled!PopulationSize \in Nat \ {0} /\ Leveled!PopulationSize <= budget
<1>1. Leveled!SettingOK(Setting[algorithm])
  BY SettingAssumption
<1>2. budget \in Nat /\ budget \in Setting[algorithm].budgets
  BY CaseTypes DEF RunSound
<1> QED
  BY <1>1, <1>2 DEF Leveled!SettingOK, Leveled!PopulationSize

\* They do not change.
LEMMA LeveledCaseStays ==
  ASSUME SameCase
  PROVE  /\ Leveled!PopulationSize' = Leveled!PopulationSize
         /\ Layouts' = Layouts /\ Power' = Power
         /\ algorithm' = algorithm /\ budget' = budget
BY DEF SameCase, Leveled!PopulationSize, Layouts, Power

\* refresh_global_best.
LEMMA RefreshSound ==
  ASSUME RunSound', SameCase, NEW n, HoldsRows(n)',
         Leveled!RefreshGlobalBest(population', fitness')
  PROVE  GlobalBestHeld(n)'
<1>1. n \in Nat \ {0} /\ fitness' \in [1 .. n -> Nat]
  BY HeldTypesNext
<1>2. PICK value, first : value = fitness' /\ first = First(value)
  OBVIOUS
<1>3. value \in [1 .. n -> Int]
  BY <1>1, <1>2
<1>4. first \in 1 .. n /\ \A r \in 1 .. n : value[r] <= value[first]
  BY <1>1, <1>2, <1>3, FirstIsBest
<1>5. globalBest' = population'[first]
  BY <1>2, LeveledSame DEF Leveled!RefreshGlobalBest
<1>6. fitness'[first] = Power'[population'[first]]
  BY <1>4 DEF HoldsRows, PowerOf
<1> QED
  BY <1>2, <1>4, <1>5, <1>6 DEF GlobalBestHeld

\* References a batch of exemplars gives.
GivesReferences(n, batch) ==
  /\ reference' = [r \in 1 .. n |-> IF r \in Improved(batch) THEN batch[r] ELSE population[r]]
  /\ referenceFitness' = [r \in 1 .. n |->
       IF r \in Improved(batch) THEN Power[batch[r]] ELSE fitness[r]]

\* The references of a generation are its rows, improved.
LEMMA ReferencesGiven ==
  ASSUME RunSound, NEW n, HoldsRows(n), SameCase, UNCHANGED fitness,
         NEW S \in SUBSET (1 .. n), NEW batch \in [S -> Layouts], GivesReferences(n, batch)
  PROVE  ReferencesHeld(n)'
<1>1. /\ n \in Nat \ {0} /\ population \in [1 .. n -> Layouts] /\ fitness \in [1 .. n -> Nat]
      /\ \A r \in 1 .. n : fitness[r] = Power[population[r]]
  BY HeldTypes
<1>2. \A r \in S : batch[r] \in Layouts /\ Power[batch[r]] \in Nat
  BY CaseTypes
<1>3. PICK better : better = Improved(batch)
  OBVIOUS
<1>4. better = {r \in S : Power[batch[r]] > fitness[r]}
  BY <1>3 DEF Improved
<1>5. /\ reference' = [r \in 1 .. n |-> IF r \in better THEN batch[r] ELSE population[r]]
      /\ referenceFitness' = [r \in 1 .. n |->
           IF r \in better THEN Power[batch[r]] ELSE fitness[r]]
  BY <1>3 DEF GivesReferences
<1>6. reference' \in [1 .. n -> Layouts]
  BY <1>1, <1>2, <1>4, <1>5
<1>7. \A r \in 1 .. n : /\ referenceFitness'[r] = Power[reference'[r]]
                        /\ ~(referenceFitness'[r] < fitness'[r])
  BY <1>1, <1>2, <1>4, <1>5
<1>8. referenceFitness' = [r \in 1 .. n |-> Power[reference'[r]]]
  BY <1>5, <1>7
<1>9. DOMAIN reference' = 1 .. n
  BY <1>5
<1>10. referenceFitness' = PowerOf(reference)'
  BY <1>8, <1>9, LeveledCaseStays DEF PowerOf
<1> QED
  BY <1>6, <1>7, <1>10, LeveledCaseStays DEF ReferencesHeld

\* Every step of HGPSO keeps the invariant and goes on.
LEMMA LeveledStep ==
  ASSUME algorithm \in Chosen, algorithm \in Leveled!Algorithms, RunSound, LeveledInv,
         Leveled!Step
  PROVE  RunSound' /\ SameCase /\ LeveledInv' /\ GoesOn /\ Leveled!ProgressResets
<1>1. PICK n : n = Leveled!PopulationSize
  OBVIOUS
<1>2. /\ n \in Nat \ {0} /\ n <= budget
      /\ budget \in Nat /\ fes \in Nat /\ fes <= budget
  BY <1>1, LeveledCase, CaseTypes
<1>3. pc # "init" => /\ HoldsRows(n) /\ Size = n /\ Rows = 1 .. n
                     /\ fitness \in [1 .. n -> Nat] /\ population \in [1 .. n -> Layouts]
  <2>1. pc # "init" => HoldsRows(n)
    BY <1>1 DEF LeveledInv
  <2> QED
    BY <2>1, HeldTypes
<1>4. CASE Leveled!Initialize
  <2>1. /\ pc = "init" /\ pc' = "loop" /\ InitializeRows(n)
        /\ Leveled!RefreshGlobalBest(population', fitness')
    BY <1>1, <1>4, LeveledSame DEF Leveled!Initialize
  <2>2. fes = 0 /\ best = 0
    BY <2>1 DEF LeveledInv
  <2>3. RunSound' /\ SameCase /\ HoldsRows(n)' /\ GoesOn
    BY <1>2, <2>1, <2>2, FirstRowsGoOn
  <2>4. GlobalBestHeld(n)'
    BY <2>1, <2>3, RefreshSound
  <2>5. LeveledInv'
    BY <1>1, <2>1, <2>3, <2>4, LeveledCaseStays DEF LeveledInv
  <2> QED
    BY <2>1, <2>3, <2>5 DEF Leveled!ProgressResets
<1>5. CASE Leveled!EvaluateExemplars
  <2>1. /\ pc = "loop" /\ fes < budget
        /\ UNCHANGED <<population, fitness, stagnation, globalBest>>
    BY <1>5 DEF Leveled!EvaluateExemplars, Leveled!searchVars
  <2>2. PICK batch \in [Prefix(1 .. n) -> Layouts] :
          /\ Evaluate(batch)
          /\ GivesReferences(n, batch)
          /\ pc' = IF DOMAIN batch # 1 .. n \/ fes' >= budget THEN "finish" ELSE "tournament"
    BY <1>3, <1>5, <2>1, LeveledSame DEF Leveled!EvaluateExemplars, GivesReferences
  <2>3. HoldsRows(n) /\ GlobalBestHeld(n)
    BY <1>1, <1>3, <2>1 DEF LeveledInv
  <2>4. /\ RunSound' /\ SameCase /\ fes' > fes /\ best' \in Nat /\ best' >= best
        /\ best' = best \/ \E l \in Layouts : best' = Power[l]
        /\ fes' \in Nat
        /\ Prefix(1 .. n) # 1 .. n => fes' = budget
    BY <1>2, <2>1, <2>2, BatchSound
  <2>5. fes' <= budget /\ budget' = budget
    BY <2>4, LeveledCaseStays, CaseTypes DEF RunSound
  <2>6. HoldsRows(n)' /\ GlobalBestHeld(n)'
    <3>1. /\ \A r \in 1 .. n : fitness[r] = Power[population[r]] /\ fitness[r] <= best
          /\ best \in Nat
      BY <2>3, HeldTypes
    <3>2. /\ population' \in [1 .. n -> Layouts] /\ fitness' \in [1 .. n -> Nat]
          /\ \A r \in 1 .. n : fitness'[r] = Power[population'[r]] /\ fitness'[r] <= best'
      BY <1>3, <2>1, <2>4, <3>1
    <3>3. HoldsRows(n)'
      BY <1>2, <2>4, <3>2, HeldNext
    <3> QED
      BY <2>1, <2>3, <2>4, <3>3, LeveledCaseStays DEF GlobalBestHeld
  <2>7. ReferencesHeld(n)'
    <3>1. PICK S : S = Prefix(1 .. n)
      OBVIOUS
    <3>2. S \in SUBSET (1 .. n) /\ batch \in [S -> Layouts]
      BY <3>1 DEF Prefix
    <3> QED
      BY <2>1, <2>2, <2>3, <2>4, <3>2, ReferencesGiven
  <2>8. /\ pc' \in {"finish", "tournament"}
        /\ pc' = "finish" => fes' = budget'
        /\ pc' = "tournament" => fes' < budget'
    BY <1>2, <2>2, <2>4, <2>5
  <2>9. LeveledInv'
    BY <1>1, <2>4, <2>6, <2>7, <2>8, LeveledCaseStays DEF LeveledInv
  <2>10. GoesOn
    BY <2>1, <2>4, <2>8 DEF GoesOn
  <2>11. Leveled!ProgressResets
    BY <2>1 DEF Leveled!ProgressResets
  <2> QED
    BY <2>4, <2>9, <2>10, <2>11
<1>6. CASE Leveled!Tournament
  <2>1. /\ pc = "tournament" /\ pc' = "trial" /\ UNCHANGED runtimeVars
        /\ UNCHANGED <<population, fitness, globalBest>>
    BY <1>6 DEF Leveled!Tournament, Leveled!searchVars, Leveled!runtimeVars, runtimeVars
  <2>2. HoldsRows(n) /\ GlobalBestHeld(n) /\ ReferencesHeld(n) /\ fes < budget
    BY <1>1, <1>3, <2>1 DEF LeveledInv
  <2>3. Leveled!Rows = 1 .. n
    BY <1>3, <2>1, LeveledSame
  <2>4. PICK winner \in [Leveled!Rows -> Leveled!Rows] :
          /\ \A r \in Leveled!Rows :
               IF r \in Leveled!Contestants THEN Leveled!MayWin(winner[r]) ELSE winner[r] = r
          /\ reference' = [r \in Leveled!Rows |-> reference[winner[r]]]
          /\ referenceFitness' = [r \in Leveled!Rows |-> referenceFitness[winner[r]]]
    BY <1>6 DEF Leveled!Tournament
  <2>5. stagnation' = [r \in Leveled!Rows |->
                         IF r \in Leveled!Contestants THEN 0 ELSE stagnation[r]]
    BY <1>6 DEF Leveled!Tournament
  <2>6. /\ winner \in [1 .. n -> 1 .. n]
        /\ \A r \in 1 .. n : r \notin Leveled!Contestants => winner[r] = r
        /\ DOMAIN reference' = 1 .. n
        /\ \A r \in 1 .. n : /\ reference'[r] = reference[winner[r]]
                             /\ referenceFitness'[r] = referenceFitness[winner[r]]
                             /\ r \in Leveled!Contestants => stagnation'[r] = 0
    BY <2>3, <2>4, <2>5
  <2>7. RunSound' /\ SameCase /\ best' = best /\ fes' = fes
    BY <2>1, UnchangedSound
  <2>8. HoldsRows(n)' /\ GlobalBestHeld(n)'
    <3>1. HoldsRows(n)'
      BY <2>1, <2>2, RestSound
    <3> QED
      BY <2>1, <2>2, <2>7, <3>1, LeveledCaseStays DEF GlobalBestHeld
  <2>9. ReferencesHeld(n)'
    <3>1. /\ reference \in [1 .. n -> Layouts]
          /\ \A r \in 1 .. n : referenceFitness[r] = Power[reference[r]]
          /\ \A r \in 1 .. n : ~(referenceFitness[r] < fitness[r])
      BY <2>1, <2>2 DEF ReferencesHeld, PowerOf
    <3>2. reference' \in [1 .. n -> Layouts]
      <4>1. reference' = [r \in 1 .. n |-> reference'[r]]
        BY <2>3, <2>4
      <4> QED
        BY <2>6, <3>1, <4>1
    <3>3. \A r \in 1 .. n : referenceFitness'[r] = Power[reference'[r]]
      BY <2>6, <3>1
    <3>4. referenceFitness' = PowerOf(reference)'
      <4>1. referenceFitness' = [r \in 1 .. n |-> referenceFitness'[r]]
        BY <2>3, <2>4
      <4>2. referenceFitness' = [r \in 1 .. n |-> Power[reference'[r]]]
        BY <3>3, <4>1
      <4> QED
        BY <2>6, <2>7, <4>2, LeveledCaseStays DEF PowerOf
    <3>5. ASSUME NEW r \in 1 .. n, referenceFitness'[r] < fitness'[r]
          PROVE  stagnation'[r] = 0
      <4>1. winner[r] # r
        BY <2>1, <2>6, <3>1, <3>5
      <4> QED
        BY <2>6, <4>1
    <3> QED
      BY <2>1, <2>7, <3>2, <3>4, <3>5, LeveledCaseStays DEF ReferencesHeld
  <2>10. LeveledInv'
    <3>1. fes' < budget'
      BY <2>2, <2>7, LeveledCaseStays
    <3> QED
      BY <1>1, <2>1, <2>7, <2>8, <2>9, <3>1, LeveledCaseStays DEF LeveledInv
  <2>11. GoesOn
    BY <2>1, <2>7 DEF GoesOn
  <2>12. Leveled!ProgressResets
    BY <2>1 DEF Leveled!ProgressResets
  <2> QED
    BY <2>7, <2>10, <2>11, <2>12
<1>7. CASE Leveled!EvaluateTrials
  <2>1. pc = "trial"
    BY <1>7 DEF Leveled!EvaluateTrials
  <2>2. HoldsRows(n) /\ GlobalBestHeld(n) /\ fes < budget
    BY <1>1, <1>3, <2>1 DEF LeveledInv
  <2>3. PICK batch \in [Prefix(1 .. n) -> Layouts] :
          /\ Evaluate(batch)
          /\ Replace(batch, Improved(batch))
          /\ stagnation' = Leveled!Stagnated(Improved(batch))
          /\ IF DOMAIN batch = 1 .. n
               THEN Leveled!RefreshGlobalBest(population', fitness') /\ pc' = Unless("loop")
               ELSE UNCHANGED globalBest /\ pc' = Unless("finish")
    BY <1>3, <1>7, <2>1, LeveledSame DEF Leveled!EvaluateTrials
  <2>4. Trials(n, Prefix(1 .. n), batch)
    <3>1. n \in 1 .. n
      BY <1>2
    <3> QED
      BY <2>2, <2>3, <3>1, PrefixTrials
  <2>5. /\ RunSound' /\ SameCase /\ fes' > fes /\ best' >= best
        /\ best' = best \/ \E l \in Layouts : best' = Power[l]
        /\ Prefix(1 .. n) # 1 .. n => fes' = budget
    BY <1>2, <2>2, <2>3, BatchSound
  <2>6. /\ HoldsRows(n)'
        /\ \A r \in Improved(batch) : r \in 1 .. n /\ fitness'[r] > fitness[r]
        /\ \A r \in 1 .. n \ Improved(batch) : population'[r] = population[r]
    BY <2>4, TrialsSound DEF HeldAfter
  <2>7. /\ DOMAIN batch = 1 .. n => pc' = "loop"
        /\ DOMAIN batch # 1 .. n => pc' = "finish" /\ fes' = budget'
    <3>1. /\ DOMAIN batch = Prefix(1 .. n)
          /\ Unless("loop") = "loop" /\ Unless("finish") = "finish"
      BY <1>2, <2>2 DEF Unless
    <3> QED
      BY <2>3, <2>5, <3>1, LeveledCaseStays
  <2>8. DOMAIN batch = 1 .. n => GlobalBestHeld(n)'
    BY <2>3, <2>5, <2>6, RefreshSound
  <2>9. LeveledInv'
    BY <1>1, <2>5, <2>6, <2>7, <2>8, LeveledCaseStays DEF LeveledInv
  <2>10. GoesOn
    BY <2>1, <2>5, <2>7 DEF GoesOn
  <2>11. Leveled!ProgressResets
    <3>1. Leveled!Rows = 1 .. n
      BY <1>3, <2>1, LeveledSame
    <3>2. \A r \in Improved(batch) : r \in 1 .. n => stagnation'[r] = 0
      BY <2>3, <3>1 DEF Leveled!Stagnated
    <3> QED
      BY <2>6, <3>1, <3>2 DEF Leveled!ProgressResets
  <2> QED
    BY <2>5, <2>9, <2>10, <2>11
<1>8. CASE Leveled!LeaveLoop \/ Leveled!Finish
  <2>1. /\ UNCHANGED <<population, fitness, globalBest>> /\ UNCHANGED runtimeVars
        /\ \/ pc = "loop" /\ pc' = "finish" /\ fes >= budget
           \/ pc = "finish" /\ pc' = "done"
    BY <1>8 DEF Leveled!LeaveLoop, Leveled!Finish, Leveled!searchVars, Leveled!swarmVars,
       Leveled!runtimeVars, runtimeVars
  <2>2. HoldsRows(n) /\ (pc = "finish" => fes = budget)
    BY <1>1, <1>3, <2>1 DEF LeveledInv
  <2>3. fes = budget
    BY <1>2, <2>1, <2>2
  <2>4. RunSound' /\ SameCase /\ best' = best /\ fes' = fes /\ HoldsRows(n)'
    BY <2>1, <2>2, RestSound
  <2>5. LeveledInv'
    BY <1>1, <2>1, <2>3, <2>4, LeveledCaseStays DEF LeveledInv
  <2>6. GoesOn
    BY <2>1, <2>3, <2>4 DEF GoesOn
  <2>7. Leveled!ProgressResets
    BY <2>1 DEF Leveled!ProgressResets
  <2> QED
    BY <2>4, <2>5, <2>6, <2>7
<1> QED
  BY <1>4, <1>5, <1>6, <1>7, <1>8 DEF Leveled!Step

-----------------------------------------------------------------------------
(* HierarchicalDE.                                                         *)

\* The rows of LSDE once they are evaluated.
ClusteredRows ==
  /\ HoldsRows(Size)
  /\ Size >= Setting[algorithm].floor
  /\ pc = "loop" => Cardinality(archive) <= Clustered!Capacity(Size)

\* The invariant of LSDE.
ClusteredInv ==
  \/ /\ pc = "init"
     /\ fes = 0 /\ best = 0
     /\ population = <<>> /\ fitness = <<>> /\ archive = {}
  \/ /\ pc \in {"loop", "restart", "reduce", "finish", "done"}
     /\ ClusteredRows
     /\ pc \in {"finish", "done"} => fes = budget

\* The parameters of LSDE.
LEMMA ClusteredCase ==
  ASSUME algorithm \in Chosen, algorithm \in Clustered!Algorithms, RunSound
  PROVE  /\ Clustered!InitialSize \in Nat /\ Setting[algorithm].floor \in Nat
         /\ Setting[algorithm].floor >= 3 /\ Setting[algorithm].floor <= Clustered!InitialSize
         /\ Clustered!InitialSize <= budget
         /\ Clustered!RestartPercent \in 0 .. 50
         /\ Clustered!Plan[fes] \in Setting[algorithm].floor .. Clustered!InitialSize
         /\ \A n \in Nat : Clustered!Capacity(n) \in Nat
<1>1. Clustered!SettingOK(Setting[algorithm])
  BY SettingAssumption
<1>2. budget \in Nat /\ budget \in Setting[algorithm].budgets /\ fes \in 0 .. budget
  BY CaseTypes DEF RunSound
<1>3. /\ Clustered!InitialSize \in Nat /\ Setting[algorithm].floor \in Nat
      /\ Setting[algorithm].floor >= 3 /\ Setting[algorithm].floor <= Clustered!InitialSize
      /\ Clustered!InitialSize <= budget
      /\ Clustered!ArchivePercent \in Nat
      /\ Clustered!RestartPercent \in 0 .. 50
      /\ Clustered!Plan \in [0 .. budget -> Setting[algorithm].floor .. Clustered!InitialSize]
  BY <1>1, <1>2, SMTT(30) DEF Clustered!SettingOK, Clustered!InitialSize,
     Clustered!ArchivePercent, Clustered!RestartPercent, Clustered!Plan
<1>4. ASSUME NEW n \in Nat PROVE Clustered!Capacity(n) \in Nat
  <2>1. Clustered!ArchivePercent * n \in Nat
    BY <1>3
  <2>2. RoundedQuotient(Clustered!ArchivePercent * n, 100) \in Nat
    BY <2>1, RoundedNat
  <2> QED
    BY <2>2, ClusteredSame DEF Clustered!Capacity
<1> QED
  BY <1>2, <1>3, <1>4

\* They do not change.
LEMMA ClusteredCaseStays ==
  ASSUME SameCase
  PROVE  /\ Setting[algorithm'].floor = Setting[algorithm].floor
         /\ \A n : Clustered!Capacity(n)' = Clustered!Capacity(n)
BY DEF SameCase, Clustered!Capacity, Clustered!ArchivePercent,
   Clustered!RoundedQuotient

\* The rows a restart overwrites, and those it copies.
Given == UNION {Clustered!Overwritten(c) : c \in Clustered!Restarted}

\* Some row of a cluster of two or more rows that is as good as any of them stays.
LEMMA SomeRowStays ==
  ASSUME NEW n \in Nat, fitness \in [1 .. n -> Nat], Rows = 1 .. n,
         Clustered!RestartPercent \in 0 .. 50, NEW b \in Rows,
         Clustered!Members(cluster[b]) # {b}
  PROVE  \E r \in Rows : r \notin Given /\ fitness[r] >= fitness[b]
<1> DEFINE members == {r \in 1 .. n : cluster[r] = cluster[b]}
           worth == [i \in 1 .. n |-> IF i \in members THEN 0 - fitness[i] ELSE 1]
           last == Ranked(worth)[n]
           m == Cardinality(members)
<1>1. Clustered!Members(cluster[b]) = members
  BY ClusteredSame DEF Clustered!Members
<1>2. b \in members /\ members # {b} /\ n \in 1 .. n
  BY <1>1
<1>3. worth \in [1 .. n -> Int]
  OBVIOUS
<1>4. /\ \A i \in members : i \in 1 .. n /\ worth[i] = 0 - fitness[i] /\ fitness[i] \in Nat
      /\ \A i \in 1 .. n : i \notin members => worth[i] = 1
  OBVIOUS
<1>5. members \in SUBSET (1 .. n)
  OBVIOUS
<1>6. /\ last \in 1 .. n
      /\ \A i \in 1 .. n : i # last => Before(worth, i, last)
  <2> HIDE DEF worth
  <2>1. last \in 1 .. n
    BY <1>2, <1>3, RankedOrder
  <2>2. ASSUME NEW i \in 1 .. n, i # last PROVE Before(worth, i, last)
    <3>1. PICK k \in 1 .. n : Ranked(worth)[k] = i
      BY <1>3, RankedSound
    <3>2. k < n
      BY <2>2, <3>1
    <3> QED
      BY <1>2, <1>3, <3>1, <3>2, RankedSound
  <2> QED
    BY <2>1, <2>2
<1> HIDE DEF worth, last, members
<1>7. last \in members
  <2> SUFFICES ASSUME last \notin members PROVE FALSE
    OBVIOUS
  <2>1. b # last /\ worth[last] = 1 /\ worth[b] = 0 - fitness[b] /\ fitness[b] \in Nat
    BY <1>2, <1>4, <1>6
  <2>2. worth[b] > worth[last] \/ worth[b] = worth[last]
    BY <1>2, <1>4, <1>6, <2>1 DEF Before
  <2> QED
    BY <2>1, <2>2
<1>8. \A s \in members : s # last =>
        fitness[s] < fitness[last] \/ (fitness[s] = fitness[last] /\ s < last)
  <2> TAKE s \in members
  <2> HAVE s # last
  <2>1. worth[s] > worth[last] \/ (worth[s] = worth[last] /\ s < last)
    BY <1>4, <1>6 DEF Before
  <2> QED
    BY <1>4, <1>7, <2>1
<1>9. fitness[last] >= fitness[b] /\ last \in Rows
  BY <1>2, <1>4, <1>6, <1>7, <1>8
<1>10. IsFiniteSet(members) /\ m \in Nat
  BY <1>5, FiniteRows, FS_Subset, FS_CardinalityType
<1>11. /\ IsFiniteSet(members \ {last})
       /\ Cardinality(members \ {last}) = m - 1
  BY <1>7, <1>10, FS_RemoveElement
<1>12. m >= 2
  <2>1. PICK s \in members : s # b
    BY <1>2
  <2>2. IsFiniteSet(members \ {b}) /\ Cardinality(members \ {b}) = m - 1
    BY <1>2, <1>10, FS_RemoveElement
  <2>3. members \ {b} # {}
    BY <2>1
  <2>4. Cardinality(members \ {b}) # 0 /\ Cardinality(members \ {b}) \in Nat
    BY <2>2, <2>3, FS_EmptySet, FS_CardinalityType
  <2> QED
    BY <1>10, <2>2, <2>4
<1>13. last \notin Given
  <2> SUFFICES ASSUME NEW c, last \in Clustered!Overwritten(c) PROVE FALSE
    BY DEF Given
  <2>1. last \in Clustered!Members(c)
    BY DEF Clustered!Overwritten
  <2>2. c = cluster[b]
    BY <1>7, <2>1 DEF Clustered!Members, members
  <2>3. Clustered!Members(c) = members
    BY <1>1, <2>2
  <2> DEFINE share == Clustered!CeilPercent(Clustered!RestartPercent, m)
             count == IF share >= 1 THEN share ELSE 1
  <2>5. Cardinality({s \in members :
            fitness[s] < fitness[last] \/ (fitness[s] = fitness[last] /\ s < last)}) < count
    BY <2>3, ClusteredSame DEF Clustered!Overwritten
  <2>6. {s \in members :
            fitness[s] < fitness[last] \/ (fitness[s] = fitness[last] /\ s < last)} =
        members \ {last}
    BY <1>4, <1>7, <1>8
  <2>7. m - 1 < count
    BY <1>11, <2>5, <2>6
  <2>8. count < m
    <3> HIDE DEF m
    <3>1. PICK p \in 0 .. 50 : p = Clustered!RestartPercent
      OBVIOUS
    <3>2. p * m \in Nat /\ p * m <= 50 * m
      BY <1>10, <3>1
    <3>3. share = (p * m + 99) \div 100
      BY <3>1 DEF Clustered!CeilPercent
    <3>4. (p * m + 99) \div 100 < m
      BY <1>10, <1>12, <3>2
    <3> QED
      BY <1>10, <1>12, <3>3, <3>4
  <2>9. count \in Int
    <3> HIDE DEF m
    <3>1. PICK p \in 0 .. 50 : p = Clustered!RestartPercent
      OBVIOUS
    <3>2. p * m + 99 \in Nat
      BY <1>10, <3>1
    <3>3. share = (p * m + 99) \div 100
      BY <3>1 DEF Clustered!CeilPercent
    <3> QED
      BY <3>2, <3>3
  <2> HIDE DEF count, m
  <2> QED
    BY <1>10, <2>7, <2>8, <2>9
<1> QED
  BY <1>9, <1>13

\* A restart copies rows over others: the rows held are still about their layouts.
LEMMA CopiesSound ==
  ASSUME RunSound, NEW n, HoldsRows(n), UNCHANGED runtimeVars,
         NEW rows, NEW from \in [rows -> 1 .. n],
         population' = [r \in 1 .. n |->
           IF r \in rows THEN population[from[r]] ELSE population[r]],
         fitness' = [r \in 1 .. n |-> IF r \in rows THEN fitness[from[r]] ELSE fitness[r]]
  PROVE  /\ RunSound' /\ SameCase /\ fes' = fes /\ best' = best
         /\ HeldAfter(n)
<1>1. RunSound' /\ SameCase /\ best' = best /\ fes' = fes
  BY UnchangedSound
<1>2. /\ n \in Nat \ {0}
      /\ population \in [1 .. n -> Layouts] /\ fitness \in [1 .. n -> Nat]
      /\ \A r \in 1 .. n : fitness[r] = Power[population[r]] /\ fitness[r] <= best
  BY HeldTypes
<1>3. population' \in [1 .. n -> Layouts] /\ fitness' \in [1 .. n -> Nat]
  BY <1>2
<1>4. \A r \in 1 .. n : fitness'[r] = Power[population'[r]] /\ fitness'[r] <= best'
  BY <1>1, <1>2
<1> QED
  BY <1>1, <1>2, <1>3, <1>4, HeldNext DEF HeldAfter

\* A restart gives up rows of clusters without success, and never all the best of one.
LEMMA RestartSound ==
  ASSUME algorithm \in Chosen, algorithm \in Clustered!Algorithms, RunSound, HoldsRows(Size),
         Clustered!Restart
  PROVE  /\ RunSound' /\ SameCase /\ fes' = fes /\ best' = best
         /\ HeldAfter(Size)
         /\ pc = "restart" /\ pc' = "reduce" /\ archive' = archive
         /\ Clustered!RestartJustified
<1>1. PICK n : n = Size
  OBVIOUS
<1>2. n \in Nat /\ n > 0 /\ Rows = 1 .. n /\ fitness \in [1 .. n -> Nat] /\ HoldsRows(n)
  BY <1>1, HeldTypes
<1>3. pc = "restart" /\ pc' = "reduce" /\ archive' = archive /\ UNCHANGED runtimeVars
  BY DEF Clustered!Restart, Clustered!runtimeVars, runtimeVars
<1> DEFINE source == IF active = {} THEN {} ELSE
                       Clustered!Members(CHOOSE c \in active : \A d \in active : c <= d)
<1>5. PICK from \in [Given -> source] :
        /\ population' = [r \in Rows |->
             IF r \in Given THEN population[from[r]] ELSE population[r]]
        /\ fitness' = [r \in Rows |-> IF r \in Given THEN fitness[from[r]] ELSE fitness[r]]
  BY ClusteredSame DEF Clustered!Restart, Given
<1>6. source \subseteq 1 .. n
  BY <1>2, ClusteredSame DEF Clustered!Members
<1> HIDE DEF source
<1>7. from \in [Given -> 1 .. n]
  BY <1>5, <1>6
<1>8. RunSound' /\ SameCase /\ fes' = fes /\ best' = best /\ HeldAfter(n)
  <2>1. PICK rows : rows = Given
    OBVIOUS
  <2> QED
    BY <1>2, <1>3, <1>5, <1>7, <2>1, CopiesSound
<1>9. ASSUME NEW r \in Given PROVE cluster[r] \notin active /\ active # {}
  <2>1. PICK c \in Clustered!Restarted : r \in Clustered!Overwritten(c)
    BY <1>9 DEF Given
  <2>2. r \in Clustered!Members(c)
    BY <2>1 DEF Clustered!Overwritten
  <2>3. cluster[r] = c
    BY <2>2 DEF Clustered!Members
  <2>4. c \notin active /\ active # {}
    BY <2>1 DEF Clustered!Restarted
  <2> QED
    BY <2>3, <2>4
<1>10. \A r \in Rows \cap DOMAIN fitness' : fitness'[r] < fitness[r] =>
          cluster[r] \notin active /\ active # {}
  <2> SUFFICES ASSUME NEW r \in Rows, fitness'[r] < fitness[r], r \notin Given PROVE FALSE
    BY <1>9
  <2>1. fitness'[r] = fitness[r] /\ fitness[r] \in Nat
    BY <1>2, <1>5
  <2> QED
    BY <2>1
<1>11. PICK b : b = First(fitness)
  OBVIOUS
<1>12. b \in 1 .. n /\ \A r \in 1 .. n : fitness[r] <= fitness[b]
  BY <1>2, <1>11, FirstIsBest
<1>13. ASSUME \A r \in Rows : fitness'[r] < fitness[b]
       PROVE  \A r \in Clustered!Members(cluster[b]) : fitness[r] = fitness[b]
  <2>1. CASE Clustered!Members(cluster[b]) = {b}
    BY <2>1
  <2>2. CASE Clustered!Members(cluster[b]) # {b}
    <3>1. Clustered!RestartPercent \in 0 .. 50
      BY ClusteredCase
    <3>2. PICK r \in Rows : r \notin Given /\ fitness[r] >= fitness[b]
      BY <1>2, <1>12, <2>2, <3>1, SomeRowStays
    <3>3. fitness'[r] = fitness[r] /\ fitness[r] \in Nat /\ fitness[b] \in Nat
      BY <1>2, <1>5, <1>12, <3>2
    <3> QED
      BY <1>13, <3>2, <3>3
  <2> QED
    BY <2>1, <2>2
<1>14. Clustered!RestartJustified
  BY <1>3, <1>10, <1>11, <1>13, ClusteredSame DEF Clustered!RestartJustified
<1> QED
  BY <1>1, <1>3, <1>8, <1>14

\* A step in which no row gets worse is no restart.
LEMMA NothingGivenUp ==
  ASSUME pc # "restart",
         pc = "reduce" \/ \A r \in Rows \cap DOMAIN fitness' : ~(fitness'[r] < fitness[r])
  PROVE  Clustered!RestartJustified
BY ClusteredSame DEF Clustered!RestartJustified

\* Every step of LSDE keeps the invariant and goes on.
LEMMA ClusteredStep ==
  ASSUME algorithm \in Chosen, algorithm \in Clustered!Algorithms, RunSound, ClusteredInv,
         Clustered!Step
  PROVE  RunSound' /\ SameCase /\ ClusteredInv' /\ GoesOn /\ Clustered!RestartJustified
<1>1. pc # "init" => ClusteredRows
  BY DEF ClusteredInv
<1>2. PICK n : n = Size
  OBVIOUS
<1>3. pc # "init" => /\ HoldsRows(n) /\ n \in Nat /\ n > 0 /\ Rows = 1 .. n
                     /\ fitness \in [1 .. n -> Nat] /\ n >= Setting[algorithm].floor
  BY <1>1, <1>2, HeldTypes DEF ClusteredRows
<1>4. Setting[algorithm].floor \in Nat /\ Setting[algorithm].floor >= 3
  BY ClusteredCase
<1>5. SameCase => /\ Setting[algorithm'].floor = Setting[algorithm].floor
                  /\ \A k : Clustered!Capacity(k)' = Clustered!Capacity(k)
  BY ClusteredCaseStays
<1>6. CASE Clustered!Initialize
  <2>1. /\ pc = "init" /\ pc' = "loop" /\ archive' = archive
        /\ InitializeRows(Clustered!InitialSize)
    BY <1>6, ClusteredSame DEF Clustered!Initialize
  <2>2. fes = 0 /\ best = 0 /\ population = <<>> /\ archive = {}
    BY <2>1 DEF ClusteredInv
  <2>3. PICK k : k = Clustered!InitialSize
    OBVIOUS
  <2>4. k \in Nat \ {0} /\ fes + k <= budget /\ k >= Setting[algorithm].floor
    <3>1. k \in Nat /\ k >= Setting[algorithm].floor /\ k <= budget
      BY <2>3, ClusteredCase
    <3> QED
      BY <1>4, <2>2, <3>1
  <2>5. RunSound' /\ SameCase /\ HoldsRows(k)' /\ Size' = k /\ GoesOn
    BY <2>1, <2>2, <2>3, <2>4, FirstRowsGoOn
  <2>6. ClusteredRows'
    <3>1. Clustered!Capacity(k)' \in Nat /\ Cardinality(archive') = 0
      BY <1>5, <2>1, <2>2, <2>4, <2>5, ClusteredCase, EmptyRows
    <3> QED
      BY <1>5, <2>4, <2>5, <3>1 DEF ClusteredRows
  <2>7. ClusteredInv'
    BY <2>1, <2>6 DEF ClusteredInv
  <2>8. Clustered!RestartJustified
    BY <2>1, <2>2, EmptyRows, NothingGivenUp
  <2> QED
    BY <2>5, <2>7, <2>8
<1>7. CASE Clustered!Generation
  <2>1. pc = "loop" /\ pc' = "restart" /\ fes < budget
    BY <1>7 DEF Clustered!Generation
  <2>2. PICK batch \in [Prefix(Rows) -> Layouts] :
          Evaluate(batch) /\ Replace(batch, Improved(batch))
    BY <1>7, ClusteredSame DEF Clustered!Generation
  <2>3. Trials(n, Prefix(1 .. n), batch)
    <3>1. n \in 1 .. n
      BY <1>3, <2>1
    <3> QED
      BY <1>3, <2>1, <2>2, <3>1, PrefixTrials
  <2>4. /\ Spends(Cardinality(Prefix(1 .. n))) /\ HeldAfter(n)
        /\ fitness' \in [1 .. n -> Nat] /\ \A r \in 1 .. n : fitness'[r] >= fitness[r]
    BY <2>3, TrialsSound
  <2>5. RunSound' /\ SameCase /\ GoesOn
    <3>1. Cardinality(Prefix(1 .. n)) > 0
      BY <1>3, <2>1, PrefixPays
    <3>2. pc # "done" /\ pc' # "done"
      BY <2>1
    <3> QED
      BY <2>4, <3>1, <3>2, SpendingGoesOn DEF Spends
  <2>6. ClusteredInv'
    <3>1. ClusteredRows'
      BY <1>3, <1>5, <2>1, <2>4, <2>5 DEF ClusteredRows, HeldAfter
    <3> QED
      BY <2>1, <3>1 DEF ClusteredInv
  <2>7. Clustered!RestartJustified
    <3>1. \A r \in Rows \cap DOMAIN fitness' : ~(fitness'[r] < fitness[r])
      BY <1>3, <2>1, <2>4
    <3> QED
      BY <2>1, <3>1, NothingGivenUp
  <2> QED
    BY <2>5, <2>6, <2>7
<1>8. CASE Clustered!Restart
  <2>1. pc = "restart"
    BY <1>8 DEF Clustered!Restart
  <2>2. /\ RunSound' /\ SameCase /\ fes' = fes /\ best' = best /\ HeldAfter(Size)
        /\ pc' = "reduce" /\ Clustered!RestartJustified
    BY <1>2, <1>3, <1>8, <2>1, RestartSound
  <2>3. ClusteredRows'
    BY <1>2, <1>3, <1>5, <2>1, <2>2 DEF ClusteredRows, HeldAfter
  <2> QED
    BY <2>1, <2>2, <2>3 DEF ClusteredInv, GoesOn
<1>9. CASE Clustered!ReducePopulation
  <2>1. pc = "reduce" /\ pc' = "loop" /\ UNCHANGED runtimeVars
    BY <1>9 DEF Clustered!ReducePopulation, Clustered!runtimeVars, runtimeVars
  <2>2. PICK size : size = IF Clustered!Plan[fes] < n THEN Clustered!Plan[fes] ELSE n
    OBVIOUS
  <2>3. /\ IF size < n THEN KeepTop(size) ELSE UNCHANGED <<population, fitness>>
        /\ Trim(archive, Clustered!Capacity(size))
    BY <1>2, <1>9, <2>2, ClusteredSame DEF Clustered!ReducePopulation
  <2>4. /\ size \in 1 .. n /\ size >= Setting[algorithm].floor
        /\ Clustered!Capacity(size) \in Nat
    <3>1. Clustered!Plan[fes] \in Nat /\ Clustered!Plan[fes] >= Setting[algorithm].floor
      BY <1>4, ClusteredCase
    <3>2. size \in 1 .. n /\ size >= Setting[algorithm].floor
      BY <1>3, <1>4, <2>1, <2>2, <3>1
    <3> QED
      BY <3>2, ClusteredCase
  <2>5. RunSound' /\ SameCase /\ best' = best /\ fes' = fes
    BY <2>1, UnchangedSound
  <2>6. HoldsRows(size)' /\ Size' = size
    <3>1. CASE size < n
      BY <1>3, <2>1, <2>3, <2>4, <2>5, <3>1, KeepTopSound
    <3>2. CASE ~(size < n)
      <4>1. size = n
        BY <1>3, <2>1, <2>4, <3>2
      <4> QED
        BY <1>2, <1>3, <2>1, <2>3, <3>2, <4>1, RestSound
    <3> QED
      BY <3>1, <3>2
  <2>7. Cardinality(archive') <= Clustered!Capacity(size)
    BY <2>3, <2>4, TrimSound
  <2>8. ClusteredInv'
    <3>1. ClusteredRows'
      BY <1>5, <2>4, <2>5, <2>6, <2>7 DEF ClusteredRows
    <3> QED
      BY <2>1, <3>1 DEF ClusteredInv
  <2> QED
    BY <2>1, <2>5, <2>8, NothingGivenUp DEF GoesOn
<1>10. CASE Clustered!LeaveLoop \/ Clustered!Finish
  <2>1. /\ UNCHANGED <<population, fitness>> /\ UNCHANGED runtimeVars /\ archive' = archive
        /\ \/ pc = "loop" /\ fes >= budget /\ pc' = "finish"
           \/ pc = "finish" /\ pc' = "done"
    BY <1>10
    DEF Clustered!LeaveLoop, Clustered!Finish, Clustered!deVars, Clustered!runtimeVars,
       runtimeVars
  <2>2. fes = budget
    BY <2>1, CaseTypes DEF ClusteredInv
  <2>3. /\ RunSound' /\ SameCase /\ best' = best /\ fes' = fes /\ budget' = budget
        /\ Size' = n /\ HoldsRows(n)'
    BY <1>2, <1>3, <2>1, RestSound DEF SameCase
  <2>4. ClusteredInv'
    <3>1. ClusteredRows'
      BY <1>3, <1>5, <2>1, <2>3 DEF ClusteredRows
    <3> QED
      BY <2>1, <2>2, <2>3, <3>1 DEF ClusteredInv
  <2>5. Clustered!RestartJustified
    <3>1. \A r \in Rows : ~(fitness'[r] < fitness[r])
      BY <1>3, <2>1
    <3> QED
      BY <2>1, <3>1, NothingGivenUp
  <2> QED
    BY <2>1, <2>2, <2>3, <2>4, <2>5 DEF GoesOn
<1> QED
  BY <1>6, <1>7, <1>8, <1>9, <1>10 DEF Clustered!Step

-----------------------------------------------------------------------------
(* GeometricGenetic.                                                       *)

\* n rows, of layouts that were evaluated, and one of them as good as any evaluated.
GeometricRows(n) ==
  /\ n \in Nat \ {0}
  /\ population \in [1 .. n -> Layouts]
  /\ fitness = PowerOf(population)
  /\ \A r \in 1 .. n : population[r] \in tracked
  /\ \A l \in tracked : l \in Layouts /\ \E r \in 1 .. n : Power[l] <= fitness[r]

\* The invariant of GGA and GeoGA.
GeometricInv ==
  /\ Counting
  /\ \/ /\ pc = "init"
        /\ fes = 0 /\ population = <<>> /\ fitness = <<>> /\ tracked = {}
     \/ /\ pc = "loop"
        /\ GeometricRows(Geometric!PopulationSize)
     \/ /\ pc = "done" /\ fes = budget
        /\ GeometricRows(Geometric!PopulationSize)
        /\ best = fitness[First(fitness)] /\ bestLayout = population[First(fitness)]

\* The parameters of GGA and GeoGA.
LEMMA GeometricCase ==
  ASSUME algorithm \in Chosen, algorithm \in Geometric!Algorithms, Counting
  PROVE  Geometric!PopulationSize \in Nat \ {0} /\ Geometric!PopulationSize <= budget
<1>1. Geometric!SettingOK(Setting[algorithm])
  BY SettingAssumption
<1> QED
  BY <1>1 DEF Geometric!SettingOK, Geometric!PopulationSize, Counting

\* What GeometricRows gives its user.
LEMMA GeometricTypes ==
  ASSUME Counting, NEW n, GeometricRows(n)
  PROVE  /\ n \in Nat /\ n > 0 /\ Size = n /\ Rows = 1 .. n
         /\ fitness \in [1 .. n -> Nat]
         /\ \A r \in 1 .. n : fitness[r] = Power[population[r]]
         /\ First(fitness) \in 1 .. n
         /\ \A r \in 1 .. n : fitness[r] <= fitness[First(fitness)]
         /\ Geometric!BestSoFar = fitness[First(fitness)]
<1>1. n \in Nat \ {0} /\ population \in [1 .. n -> Layouts]
  BY DEF GeometricRows
<1>2. Size = n /\ Rows = 1 .. n
  BY <1>1, RowsHeld
<1>3. fitness \in [1 .. n -> Nat] /\ \A r \in 1 .. n : fitness[r] = Power[population[r]]
  BY <1>1, CountTypes DEF GeometricRows, PowerOf
<1>4. fitness \in [1 .. n -> Int]
  BY <1>3
<1>5. First(fitness) \in 1 .. n /\ \A r \in 1 .. n : fitness[r] <= fitness[First(fitness)]
  BY <1>1, <1>4, FirstIsBest
<1>6. population # <<>>
  <2>1. 1 \in DOMAIN population
    BY <1>1
  <2> QED
    BY <2>1, EmptyRows
<1> QED
  BY <1>1, <1>2, <1>3, <1>5, <1>6, GeometricSame DEF Geometric!BestSoFar

\* What makes them rows after a step.
GeometricRowsAfter(n) ==
  /\ n \in Nat \ {0}
  /\ population' \in [1 .. n -> Layouts] /\ fitness' \in [1 .. n -> Nat]
  /\ \A r \in 1 .. n : fitness'[r] = Power[population'[r]] /\ population'[r] \in tracked'
  /\ \A l \in tracked' : l \in Layouts /\ \E r \in 1 .. n : Power[l] <= fitness'[r]

\* And gives after a step.
LEMMA GeometricTypesNext ==
  ASSUME Counting, SameCase, NEW n, GeometricRowsAfter(n)
  PROVE  /\ GeometricRows(n)'
         /\ First(fitness') \in 1 .. n
         /\ \A r \in 1 .. n : fitness'[r] <= fitness'[First(fitness')]
         /\ Geometric!BestSoFar' = fitness'[First(fitness')]
         /\ Geometric!PopulationSize' = Geometric!PopulationSize
<1> USE DEF GeometricRowsAfter
<1>1. Layouts' = Layouts /\ Power' = Power
  BY DEF SameCase, Layouts, Power
<1>2. fitness' = PowerOf(population)'
  BY <1>1 DEF PowerOf
<1>3. GeometricRows(n)'
  BY <1>1, <1>2 DEF GeometricRows
<1>4. PICK value \in [1 .. n -> Int] : value = fitness'
  OBVIOUS
<1>5. First(value) \in 1 .. n /\ \A r \in 1 .. n : value[r] <= value[First(value)]
  BY <1>4, FirstIsBest
<1>6. population' # <<>>
  <2>1. 1 \in DOMAIN population'
    OBVIOUS
  <2> QED
    BY <2>1, EmptyRows
<1> QED
  BY <1>3, <1>4, <1>5, <1>6, GeometricSame
  DEF Geometric!BestSoFar, Geometric!PopulationSize, SameCase

\* What is reported at the end.
LEMMA GeometricReports ==
  ASSUME GeometricInv
  PROVE  /\ pc = "done" => ReportsBest
         /\ pc # "init" => RowsAligned /\ Geometric!BestHeld
<1>1. PICK n : n = Geometric!PopulationSize
  OBVIOUS
<1>2. Counting
  BY DEF GeometricInv
<1>3. pc # "init" => GeometricRows(n)
  BY <1>1 DEF GeometricInv
<1>4. ASSUME pc # "init"
      PROVE  /\ First(fitness) \in 1 .. n
             /\ fitness[First(fitness)] = Power[population[First(fitness)]]
             /\ population[First(fitness)] \in tracked
             /\ \A l \in tracked : Power[l] <= fitness[First(fitness)]
             /\ Geometric!BestSoFar = fitness[First(fitness)]
  <2>1. /\ fitness \in [1 .. n -> Nat] /\ \A r \in 1 .. n : fitness[r] = Power[population[r]]
        /\ First(fitness) \in 1 .. n /\ \A r \in 1 .. n : fitness[r] <= fitness[First(fitness)]
        /\ Geometric!BestSoFar = fitness[First(fitness)]
    BY <1>2, <1>3, <1>4, GeometricTypes
  <2>2. ASSUME NEW l \in tracked PROVE Power[l] <= fitness[First(fitness)]
    <3>1. PICK r \in 1 .. n : Power[l] <= fitness[r]
      BY <1>3, <1>4 DEF GeometricRows
    <3>2. l \in Layouts
      BY <1>3, <1>4 DEF GeometricRows
    <3>3. /\ Power[l] \in Nat /\ fitness[r] \in Nat /\ fitness[First(fitness)] \in Nat
          /\ fitness[r] <= fitness[First(fitness)]
      BY <1>2, <2>1, <3>2, CountTypes
    <3> QED
      BY <3>1, <3>3
  <2> QED
    BY <1>3, <1>4, <2>1, <2>2 DEF GeometricRows
<1>5. pc # "init" => RowsAligned /\ Geometric!BestHeld
  BY <1>3, <1>4, GeometricSame DEF GeometricRows, RowsAligned, Geometric!BestHeld
<1>6. pc = "done" => ReportsBest
  BY <1>4 DEF GeometricInv, ReportsBest
<1> QED
  BY <1>5, <1>6

\* Survivors leave out nothing better than they take.
LEMMA SurvivorsAreBest ==
  ASSUME NEW n \in Nat \ {0}, NEW m \in Nat, NEW value \in [1 .. m -> Nat],
         NEW from \in [1 .. n -> 1 .. m],
         \A j, k \in 1 .. n : j < k => value[from[j]] >= value[from[k]],
         \A i \in 1 .. m : (\A j \in 1 .. n : from[j] # i) => value[i] <= value[from[n]]
  PROVE  /\ \A i \in 1 .. m : (\E j \in 1 .. n : from[j] = i)
                                \/ \A j \in 1 .. n : value[i] <= value[from[j]]
         /\ \A i \in 1 .. m : \E j \in 1 .. n : value[i] <= value[from[j]]
<1>1. \A j \in 1 .. n : from[j] \in 1 .. m /\ value[from[j]] \in Nat
  OBVIOUS
<1>2. n \in 1 .. n
  OBVIOUS
<1>3. \A j \in 1 .. n : value[from[n]] <= value[from[j]]
  <2> TAKE j \in 1 .. n
  <2>1. j = n \/ j < n
    OBVIOUS
  <2> QED
    BY <1>1, <1>2, <2>1
<1>4. ASSUME NEW i \in 1 .. m
      PROVE  \/ \E j \in 1 .. n : from[j] = i
             \/ \A j \in 1 .. n : value[i] <= value[from[j]]
  <2>1. CASE \A j \in 1 .. n : from[j] # i
    <3>1. value[i] <= value[from[n]] /\ value[i] \in Nat
      BY <2>1
    <3> QED
      BY <1>1, <1>2, <1>3, <3>1
  <2> QED
    BY <2>1
<1>5. ASSUME NEW i \in 1 .. m PROVE \E j \in 1 .. n : value[i] <= value[from[j]]
  <2>1. CASE \E j \in 1 .. n : from[j] = i
    <3>1. PICK j \in 1 .. n : from[j] = i
      BY <2>1
    <3>2. value[i] <= value[from[j]]
      BY <1>1, <3>1
    <3> QED
      BY <3>2
  <2> QED
    BY <1>2, <1>4, <2>1
<1> QED
  BY <1>4, <1>5

\* What a generation does to the rows: none new that was not evaluated, none lost, and
\* at every quality as many as before or all of them.
GeometricKeeps(n, S, batch) ==
  /\ population' \in [1 .. n -> Layouts] /\ fitness' \in [1 .. n -> Nat]
  /\ \A r \in 1 .. n :
       /\ fitness'[r] = Power[population'[r]]
       /\ (\E s \in 1 .. n : population'[r] = population[s])
            \/ \E s \in S : population'[r] = batch[s]
  /\ \A r \in 1 .. n : \E s \in 1 .. n : fitness[r] <= fitness'[s]
  /\ \A r \in S : \E s \in 1 .. n : Power[batch[r]] <= fitness'[s]
  /\ GroundKept(n)

\* Ground, counted row by row.
LEMMA GeometricGround ==
  ASSUME Counting, NEW n \in Nat, Rows = 1 .. n, fitness \in [1 .. n -> Nat],
         fitness' \in [1 .. n -> Nat], NEW m \in Nat, NEW value \in [1 .. m -> Int],
         \A r \in 1 .. n : r \in 1 .. m /\ fitness[r] <= value[r],
         \A p \in Nat : /\ IsFiniteSet(AtLeast(value, p)) /\ IsFiniteSet(AtLeast(fitness', p))
                        /\ \/ Cardinality(AtLeast(fitness', p)) >=
                                Cardinality(AtLeast(value, p))
                           \/ Cardinality(AtLeast(fitness', p)) = n
  PROVE  GroundKept(n)
<1> SUFFICES ASSUME NEW l \in Layouts
             PROVE  LET before == Cardinality({r \in Rows : fitness[r] >= Power[l]})
                        after == Cardinality({r \in DOMAIN fitness' : fitness'[r] >= Power[l]})
                    IN after >= before \/ after >= n
  BY DEF GroundKept
<1> DEFINE old == AtLeast(fitness, Power[l])
           among == AtLeast(value, Power[l])
           new == AtLeast(fitness', Power[l])
<1>1. Power[l] \in Nat
  BY CountTypes
<1>2. {r \in Rows : fitness[r] >= Power[l]} = old
  BY DEF AtLeast
<1>3. {r \in DOMAIN fitness' : fitness'[r] >= Power[l]} = new
  BY DEF AtLeast
<1>4. old \in SUBSET among
  <2>1. \A r \in 1 .. n : fitness[r] \in Nat /\ value[r] \in Int
    OBVIOUS
  <2> QED
    BY <1>1, <2>1 DEF AtLeast
<1>5. /\ IsFiniteSet(among) /\ IsFiniteSet(new)
      /\ Cardinality(new) >= Cardinality(among) \/ Cardinality(new) = n
  BY <1>1
<1> HIDE DEF old, among, new
<1>6. IsFiniteSet(old) /\ Cardinality(old) <= Cardinality(among)
  BY <1>4, <1>5, FS_Subset
<1>7. Cardinality(old) \in Nat /\ Cardinality(among) \in Nat /\ Cardinality(new) \in Nat
  BY <1>5, <1>6, FS_CardinalityType
<1>8. Cardinality(new) >= Cardinality(old) \/ Cardinality(new) >= n
  BY <1>5, <1>6, <1>7
<1> QED
  BY <1>2, <1>3, <1>8

\* GGA: a candidate takes the place of the row it beats.
LEMMA GeometricReplaces ==
  ASSUME Counting, NEW n, GeometricRows(n), NEW S \in SUBSET (1 .. n),
         NEW batch \in [S -> Layouts], Replace(batch, Improved(batch))
  PROVE  GeometricKeeps(n, S, batch)
<1>1. /\ n \in Nat /\ n > 0 /\ Rows = 1 .. n
      /\ population \in [1 .. n -> Layouts] /\ fitness \in [1 .. n -> Nat]
      /\ \A r \in 1 .. n : fitness[r] = Power[population[r]]
  BY GeometricTypes DEF GeometricRows
<1>2. \A r \in S : r \in 1 .. n /\ batch[r] \in Layouts /\ Power[batch[r]] \in Nat
  BY CountTypes
<1> DEFINE better == Improved(batch)
<1>3. better = {r \in S : Power[batch[r]] > fitness[r]}
  BY DEF Improved
<1>4. /\ population' = [r \in 1 .. n |-> IF r \in better THEN batch[r] ELSE population[r]]
      /\ fitness' = [r \in 1 .. n |-> IF r \in better THEN Power[batch[r]] ELSE fitness[r]]
  BY <1>1 DEF Replace
<1> HIDE DEF better
<1>5. population' \in [1 .. n -> Layouts] /\ fitness' \in [1 .. n -> Nat]
  BY <1>1, <1>2, <1>3, <1>4
<1>6. ASSUME NEW r \in 1 .. n
      PROVE  /\ fitness'[r] = Power[population'[r]]
             /\ (\E s \in 1 .. n : population'[r] = population[s])
                  \/ \E s \in S : population'[r] = batch[s]
             /\ fitness[r] <= fitness'[r]
             /\ r \in S => Power[batch[r]] <= fitness'[r]
  <2>1. CASE r \in better
    <3>1. /\ r \in S /\ population'[r] = batch[r] /\ fitness'[r] = Power[batch[r]]
          /\ Power[batch[r]] \in Nat /\ fitness[r] \in Nat /\ Power[batch[r]] > fitness[r]
      BY <1>1, <1>2, <1>3, <1>4, <2>1
    <3> QED
      BY <3>1
  <2>2. CASE r \notin better
    <3>1. /\ population'[r] = population[r] /\ fitness'[r] = fitness[r] /\ fitness[r] \in Nat
          /\ r \in S => ~(Power[batch[r]] > fitness[r]) /\ Power[batch[r]] \in Nat
      BY <1>1, <1>2, <1>3, <1>4, <2>2
    <3> QED
      BY <1>1, <3>1
  <2> QED
    BY <2>1, <2>2
<1>7. GroundKept(n)
  <2>1. PICK value : value = fitness'
    OBVIOUS
  <2>2. value \in [1 .. n -> Int] /\ \A r \in 1 .. n : fitness[r] <= value[r]
    BY <1>5, <1>6, <2>1
  <2>3. ASSUME NEW p \in Nat
        PROVE  /\ IsFiniteSet(AtLeast(value, p)) /\ Cardinality(AtLeast(value, p)) \in Nat
    <3>1. AtLeast(value, p) \in SUBSET (1 .. n)
      BY <2>2 DEF AtLeast
    <3> QED
      BY <1>1, <3>1, FiniteRows, FS_Subset, FS_CardinalityType
  <2>4. \A p \in Nat : /\ IsFiniteSet(AtLeast(value, p)) /\ IsFiniteSet(AtLeast(fitness', p))
                       /\ \/ Cardinality(AtLeast(fitness', p)) >= Cardinality(AtLeast(value, p))
                          \/ Cardinality(AtLeast(fitness', p)) = n
    BY <2>1, <2>3
  <2> QED
    BY <1>1, <1>5, <2>2, <2>4, GeometricGround
<1>8. \A r \in S : \E s \in 1 .. n : Power[batch[r]] <= fitness'[s]
  BY <1>2, <1>6
<1>9. \A r \in 1 .. n : \E s \in 1 .. n : fitness[r] <= fitness'[s]
  BY <1>6
<1> QED
  BY <1>5, <1>6, <1>7, <1>8, <1>9 DEF GeometricKeeps

\* GeoGA: the best of rows and candidates stay.
LEMMA GeometricMerges ==
  ASSUME Counting, NEW n, GeometricRows(n), NEW paid \in 0 .. n,
         NEW batch \in [1 .. paid -> Layouts], Geometric!Merge(batch)
  PROVE  GeometricKeeps(n, 1 .. paid, batch)
<1>1. /\ n \in Nat /\ n > 0 /\ Rows = 1 .. n /\ Size = n
      /\ population \in [1 .. n -> Layouts] /\ fitness \in [1 .. n -> Nat]
      /\ \A r \in 1 .. n : fitness[r] = Power[population[r]]
  BY GeometricTypes DEF GeometricRows
<1>2. PICK m : m = n + paid
  OBVIOUS
<1>3. m \in Nat /\ Cardinality(DOMAIN batch) = paid
  BY <1>1, <1>2, FiniteRows
<1> DEFINE merged == [i \in 1 .. m |-> IF i <= n THEN population[i] ELSE batch[i - n]]
<1>4. \E from \in Geometric!Survivors(merged) :
        /\ population' = [k \in Rows |-> merged[from[k]]]
        /\ fitness' = [k \in Rows |-> Power[merged[from[k]]]]
  <2> DEFINE raw == [i \in 1 .. Geometric!Size + Geometric!Cardinality(DOMAIN batch) |->
                       IF i <= Geometric!Size THEN population[i] ELSE batch[i - Geometric!Size]]
  <2>1. /\ Geometric!Size = n /\ Geometric!Rows = Rows /\ Geometric!Power = Power
        /\ Geometric!Cardinality(DOMAIN batch) = paid
    BY <1>1, <1>3, GeometricSame
  <2>2. raw = merged
    BY <1>2, <2>1
  <2>3. \E from \in Geometric!Survivors(raw) :
          /\ population' = [k \in Geometric!Rows |-> raw[from[k]]]
          /\ fitness' = [k \in Geometric!Rows |-> Geometric!Power[raw[from[k]]]]
    BY DEF Geometric!Merge
  <2> HIDE DEF raw, merged
  <2> QED
    BY <2>1, <2>2, <2>3
<1>5. merged \in [1 .. m -> Layouts]
  <2> SUFFICES ASSUME NEW i \in 1 .. m
               PROVE  (IF i <= n THEN population[i] ELSE batch[i - n]) \in Layouts
    OBVIOUS
  <2>1. i <= n => i \in 1 .. n
    BY <1>1
  <2>2. ~(i <= n) => i - n \in 1 .. paid
    BY <1>1, <1>2
  <2> QED
    BY <1>1, <2>1, <2>2
<1>6. /\ \A r \in 1 .. n : r \in 1 .. m /\ merged[r] = population[r]
      /\ \A r \in 1 .. paid : n + r \in 1 .. m /\ merged[n + r] = batch[r]
      /\ \A i \in 1 .. m : (\E s \in 1 .. n : merged[i] = population[s])
                             \/ \E s \in 1 .. paid : merged[i] = batch[s]
  <2>1. \A r \in 1 .. n : r \in 1 .. m /\ merged[r] = population[r]
    BY <1>1, <1>2
  <2>2. \A r \in 1 .. paid : n + r \in 1 .. m /\ merged[n + r] = batch[r]
    BY <1>1, <1>2
  <2>3. ASSUME NEW i \in 1 .. m
        PROVE  (\E s \in 1 .. n : merged[i] = population[s])
                 \/ \E s \in 1 .. paid : merged[i] = batch[s]
    <3>1. CASE i <= n
      BY <1>1, <3>1
    <3>2. CASE ~(i <= n)
      <4>1. i - n \in 1 .. paid /\ merged[i] = batch[i - n]
        BY <1>1, <1>2, <3>2
      <4> QED
        BY <4>1
    <3> QED
      BY <3>1, <3>2
  <2> QED
    BY <2>1, <2>2, <2>3
<1> HIDE DEF merged
<1> DEFINE value == [i \in 1 .. m |-> Power[merged[i]]]
<1>7. value \in [1 .. m -> Nat] /\ \A i \in 1 .. m : value[i] = Power[merged[i]]
  BY <1>5, CountTypes
<1> HIDE DEF value
<1>8. PICK from \in Geometric!Survivors(merged) :
        /\ population' = [k \in 1 .. n |-> merged[from[k]]]
        /\ fitness' = [k \in 1 .. n |-> Power[merged[from[k]]]]
  BY <1>1, <1>4
<1>9. /\ from \in [1 .. n -> 1 .. m]
      /\ \A j, k \in 1 .. n : j < k => Power[merged[from[j]]] >= Power[merged[from[k]]]
      /\ \A i \in 1 .. m : (\A j \in 1 .. n : from[j] # i) =>
           Power[merged[i]] <= Power[merged[from[n]]]
  <2>1. /\ from \in [Geometric!Rows -> DOMAIN merged]
        /\ \A j, k \in Geometric!Rows : j < k =>
             Geometric!Power[merged[from[j]]] >= Geometric!Power[merged[from[k]]]
        /\ \A i \in DOMAIN merged \ {from[k] : k \in Geometric!Rows} :
             Geometric!Power[merged[i]] <= Geometric!Power[merged[from[Geometric!Size]]]
    BY DEF Geometric!Survivors
  <2>2. /\ Geometric!Size = n /\ Geometric!Rows = 1 .. n /\ Geometric!Power = Power
        /\ DOMAIN merged = 1 .. m
    BY <1>1, <1>5, GeometricSame
  <2>3. from \in [1 .. n -> 1 .. m]
    BY <2>1, <2>2
  <2>4. \A j, k \in 1 .. n : j < k => Power[merged[from[j]]] >= Power[merged[from[k]]]
    BY <2>1, <2>2
  <2>5. \A i \in 1 .. m \ {from[k] : k \in 1 .. n} : Power[merged[i]] <= Power[merged[from[n]]]
    BY <2>1, <2>2
  <2> QED
    BY <2>3, <2>4, <2>5
<1>10. \A j \in 1 .. n : from[j] \in 1 .. m /\ value[from[j]] \in Nat /\ n \in 1 .. n
  BY <1>1, <1>7, <1>9
<1>11. /\ \A j, k \in 1 .. n : j < k => value[from[j]] >= value[from[k]]
       /\ \A i \in 1 .. m : (\A j \in 1 .. n : from[j] # i) => value[i] <= value[from[n]]
  <2>1. \A i \in 1 .. m : Power[merged[i]] = value[i]
    BY <1>7
  <2>2. \A j \in 1 .. n : Power[merged[from[j]]] = value[from[j]]
    BY <1>10, <2>1
  <2>3. \A j, k \in 1 .. n : j < k => value[from[j]] >= value[from[k]]
    BY <1>9, <2>2
  <2>4. \A i \in 1 .. m : (\A j \in 1 .. n : from[j] # i) => value[i] <= value[from[n]]
    BY <1>9, <1>10, <1>1, <2>1, <2>2
  <2> QED
    BY <2>3, <2>4
<1>12. /\ \A i \in 1 .. m : (\E j \in 1 .. n : from[j] = i)
                              \/ \A j \in 1 .. n : value[i] <= value[from[j]]
       /\ \A i \in 1 .. m : \E j \in 1 .. n : value[i] <= value[from[j]]
  <2>1. n \in Nat \ {0} /\ value \in [1 .. m -> Nat] /\ from \in [1 .. n -> 1 .. m]
    BY <1>1, <1>7, <1>9
  <2> QED
    BY <1>3, <1>11, <2>1, SurvivorsAreBest
<1>13. PICK taken : taken = fitness'
  OBVIOUS
<1>14. /\ population' \in [1 .. n -> Layouts] /\ fitness' \in [1 .. n -> Nat]
       /\ \A j \in 1 .. n : /\ fitness'[j] = value[from[j]]
                            /\ fitness'[j] = Power[population'[j]]
                            /\ population'[j] = merged[from[j]]
  BY <1>5, <1>7, <1>8, <1>10
<1>15. \A r \in 1 .. n : r \in 1 .. m /\ value[r] = fitness[r]
  <2> TAKE r \in 1 .. n
  <2>1. r \in 1 .. m /\ merged[r] = population[r]
    BY <1>6
  <2>2. value[r] = Power[merged[r]]
    BY <1>7, <2>1
  <2> QED
    BY <1>1, <2>1, <2>2
<1>16. GroundKept(n)
  <2>1. taken \in [1 .. n -> Int] /\ \A j \in 1 .. n : taken[j] = value[from[j]]
    BY <1>13, <1>14
  <2>2. value \in [1 .. m -> Int] /\ \A r \in 1 .. n : r \in 1 .. m /\ fitness[r] <= value[r]
    <3>1. value \in [1 .. m -> Int]
      BY <1>7
    <3>2. \A r \in 1 .. n : fitness[r] \in Nat
      BY <1>1
    <3> QED
      BY <1>15, <3>1, <3>2
  <2>3. ASSUME NEW p \in Nat
        PROVE  /\ IsFiniteSet(AtLeast(value, p)) /\ IsFiniteSet(AtLeast(taken, p))
               /\ \/ Cardinality(AtLeast(taken, p)) >= Cardinality(AtLeast(value, p))
                  \/ Cardinality(AtLeast(taken, p)) = n
    <3>1. /\ m \in Nat /\ value \in [1 .. m -> Int] /\ n \in Nat /\ taken \in [1 .. n -> Int]
          /\ from \in [1 .. n -> 1 .. m] /\ p \in Int
          /\ \A j \in 1 .. n : taken[j] = value[from[j]]
      BY <1>1, <1>3, <1>9, <2>1, <2>2
    <3>2. \A i \in 1 .. m : (\E j \in 1 .. n : from[j] = i)
                              \/ \A j \in 1 .. n : value[i] <= value[from[j]]
      BY <1>12
    <3> QED
      BY <3>1, <3>2, TopKeeps, ZenonT(30)
  <2>4. \A p \in Nat : /\ IsFiniteSet(AtLeast(value, p)) /\ IsFiniteSet(AtLeast(fitness', p))
                       /\ \/ Cardinality(AtLeast(fitness', p)) >= Cardinality(AtLeast(value, p))
                          \/ Cardinality(AtLeast(fitness', p)) = n
    BY <1>13, <2>3
  <2> QED
    BY <1>1, <1>3, <1>14, <2>2, <2>4, GeometricGround
<1>17. \A r \in 1 .. n : \E s \in 1 .. n : fitness[r] <= fitness'[s]
  <2> TAKE r \in 1 .. n
  <2>1. r \in 1 .. m /\ value[r] = fitness[r]
    BY <1>15
  <2> QED
    BY <1>12, <1>14, <2>1
<1>18. \A r \in 1 .. paid : \E s \in 1 .. n : Power[batch[r]] <= fitness'[s]
  <2> TAKE r \in 1 .. paid
  <2>1. n + r \in 1 .. m /\ value[n + r] = Power[batch[r]]
    BY <1>6, <1>7
  <2> QED
    BY <1>12, <1>14, <2>1
<1>19. \A r \in 1 .. n : (\E s \in 1 .. n : population'[r] = population[s])
                           \/ \E s \in 1 .. paid : population'[r] = batch[s]
  <2> TAKE r \in 1 .. n
  <2>1. PICK i \in 1 .. m : population'[r] = merged[i]
    BY <1>10, <1>14
  <2>2. \/ \E s \in 1 .. n : merged[i] = population[s]
        \/ \E s \in 1 .. paid : merged[i] = batch[s]
    BY <1>6
  <2> QED
    BY <2>1, <2>2
<1> QED
  BY <1>14, <1>16, <1>17, <1>18, <1>19 DEF GeometricKeeps

\* A step of a run whose best is the best of its rows.
GeometricGoesOn ==
  /\ pc # "done"
  /\ \/ /\ pc' # "done" /\ fes' > fes
        /\ Geometric!BestSoFar' >= Geometric!BestSoFar
        /\ \/ Geometric!BestSoFar' = Geometric!BestSoFar
           \/ \E l \in Layouts : Geometric!BestSoFar' = Power[l]
     \/ /\ fes' = fes /\ Geometric!BestSoFar' = Geometric!BestSoFar
        /\ pc' = "done" => fes = budget

\* Count, unfolded.
LEMMA CountSound ==
  ASSUME Counting, NEW S, IsFiniteSet(S), NEW batch \in [S -> Layouts],
         fes + Cardinality(S) <= budget, Geometric!Count(batch)
  PROVE  /\ Counting' /\ SameCase
         /\ fes' = fes + Cardinality(S)
         /\ tracked' = tracked \cup {batch[r] : r \in S}
<1>1. /\ SameCase /\ fes' = fes + Cardinality(S)
      /\ tracked' = tracked \cup {batch[r] : r \in S}
  BY GeometricSame DEF Geometric!Count, SameCase
<1>2. Cardinality(S) \in Nat
  BY FS_CardinalityType
<1>3. fes' \in 0 .. budget
  BY <1>1, <1>2, CountTypes
<1> QED
  BY <1>1, <1>3 DEF Counting, SameCase

\* The first rows of GGA and GeoGA.
LEMMA GeometricInitialize ==
  ASSUME algorithm \in Chosen, algorithm \in Geometric!Algorithms, GeometricInv,
         Geometric!Initialize
  PROVE  /\ SameCase /\ GeometricInv' /\ GeometricGoesOn
         /\ GroundKept(Cardinality(DOMAIN fitness'))
<1>1. PICK n : n = Geometric!PopulationSize
  OBVIOUS
<1>2. /\ pc = "init" /\ pc' = "loop" /\ Counting
      /\ fes = 0 /\ population = <<>> /\ fitness = <<>> /\ tracked = {}
  BY DEF Geometric!Initialize, GeometricInv
<1>3. n \in Nat \ {0} /\ fes + n <= budget
  BY <1>1, <1>2, GeometricCase
<1>4. PICK batch \in [1 .. n -> Layouts] :
        Geometric!Count(batch) /\ population' = batch /\ fitness' = PowerOf(batch)
  BY <1>1, GeometricSame DEF Geometric!Initialize
<1>5. IsFiniteSet(1 .. n) /\ Cardinality(1 .. n) = n
  BY <1>3, FiniteRows
<1>6. /\ Counting' /\ SameCase /\ fes' = fes + n
      /\ tracked' = tracked \cup {batch[r] : r \in 1 .. n}
  BY <1>2, <1>3, <1>4, <1>5, CountSound
<1>7. /\ fitness' \in [1 .. n -> Nat]
      /\ \A r \in 1 .. n : /\ fitness'[r] = Power[population'[r]]
                           /\ population'[r] \in tracked' /\ population'[r] \in Layouts
  BY <1>2, <1>4, <1>6, CountTypes DEF PowerOf
<1>8. \A l \in tracked' : l \in Layouts /\ \E r \in 1 .. n : Power[l] <= fitness'[r]
  <2> TAKE l \in tracked'
  <2>1. PICK r \in 1 .. n : l = population'[r]
    BY <1>2, <1>4, <1>6
  <2>2. Power[l] = fitness'[r] /\ fitness'[r] \in Nat
    BY <1>7, <2>1
  <2> QED
    BY <1>7, <2>1, <2>2
<1>9. /\ GeometricRows(n)' /\ First(fitness') \in 1 .. n
      /\ Geometric!BestSoFar' = fitness'[First(fitness')]
      /\ Geometric!PopulationSize' = n
  <2>1. GeometricRowsAfter(n)
    BY <1>3, <1>4, <1>7, <1>8 DEF GeometricRowsAfter
  <2> QED
    BY <1>1, <1>2, <1>6, <2>1, GeometricTypesNext
<1>10. GeometricInv'
  BY <1>2, <1>6, <1>9 DEF GeometricInv
<1>11. GeometricGoesOn
  <2>1. Geometric!BestSoFar = 0
    BY <1>2 DEF Geometric!BestSoFar
  <2>2. /\ Geometric!BestSoFar' \in Nat
        /\ \E l \in Layouts : Geometric!BestSoFar' = Power[l]
    BY <1>7, <1>9
  <2>3. fes' > fes
    BY <1>2, <1>3, <1>6
  <2> QED
    BY <1>2, <2>1, <2>2, <2>3 DEF GeometricGoesOn
<1>12. GroundKept(Cardinality(DOMAIN fitness'))
  <2>1. Cardinality(DOMAIN fitness') = n /\ DOMAIN fitness' = 1 .. n
    BY <1>5, <1>7
  <2>2. Rows = {}
    BY <1>2, EmptyRows
  <2> SUFFICES ASSUME NEW l \in Layouts
               PROVE  Cardinality({r \in DOMAIN fitness' : fitness'[r] >= Power[l]}) >=
                      Cardinality({r \in Rows : fitness[r] >= Power[l]})
    BY DEF GroundKept
  <2> DEFINE new == {r \in DOMAIN fitness' : fitness'[r] >= Power[l]}
  <2>3. {r \in Rows : fitness[r] >= Power[l]} = {}
    BY <2>2
  <2>4. new \in SUBSET (1 .. n)
    BY <2>1
  <2> HIDE DEF new
  <2>5. Cardinality(new) \in Nat
    BY <1>5, <2>4, FS_Subset, FS_CardinalityType
  <2>6. Cardinality(new) >= 0
    BY <2>5
  <2> QED
    BY <2>3, <2>6, EmptyRows DEF new
<1> QED
  BY <1>6, <1>10, <1>11, <1>12

\* A generation of GGA or GeoGA keeps the best rows.
LEMMA GeometricGeneration ==
  ASSUME algorithm \in Chosen, algorithm \in Geometric!Algorithms, GeometricInv,
         Geometric!Generation
  PROVE  /\ SameCase /\ GeometricInv' /\ GeometricGoesOn
         /\ GroundKept(Cardinality(DOMAIN fitness'))
<1>1. PICK n : n = Geometric!PopulationSize
  OBVIOUS
<1>2. pc = "loop" /\ pc' = "loop" /\ fes < budget /\ Counting /\ GeometricRows(n)
  BY <1>1 DEF Geometric!Generation, GeometricInv
<1>3. /\ n \in Nat /\ n > 0 /\ Size = n /\ Rows = 1 .. n
      /\ population \in [1 .. n -> Layouts] /\ fitness \in [1 .. n -> Nat]
      /\ \A r \in 1 .. n : fitness[r] = Power[population[r]]
      /\ First(fitness) \in 1 .. n
      /\ Geometric!BestSoFar = fitness[First(fitness)]
      /\ fes \in Nat /\ budget \in Nat
  BY <1>2, GeometricTypes, CountTypes DEF GeometricRows
<1>4. PICK paid : paid = IF n <= budget - fes THEN n ELSE budget - fes
  OBVIOUS
<1>5. paid \in 0 .. n /\ paid > 0 /\ fes + paid <= budget
  BY <1>2, <1>3, <1>4
<1>6. Prefix(1 .. n) = 1 .. paid /\ IsFiniteSet(1 .. paid) /\ Cardinality(1 .. paid) = paid
  BY <1>2, <1>3, <1>4, PrefixCounts
<1>7. PICK batch \in [1 .. paid -> Layouts] :
        /\ Geometric!Count(batch)
        /\ Replace(batch, Improved(batch)) \/ Geometric!Merge(batch)
  <2>1. PICK batch \in [Geometric!Prefix(Geometric!Rows) -> Geometric!Layouts] :
          /\ Geometric!Count(batch)
          /\ IF algorithm = "gga" THEN Geometric!Replace(batch, Geometric!Improved(batch))
             ELSE Geometric!Merge(batch)
    BY DEF Geometric!Generation
  <2> QED
    BY <1>3, <1>6, <2>1, GeometricSame
<1>8. /\ Counting' /\ SameCase /\ fes' = fes + paid
      /\ tracked' = tracked \cup {batch[r] : r \in 1 .. paid}
  BY <1>2, <1>5, <1>6, <1>7, CountSound
<1>9. GeometricKeeps(n, 1 .. paid, batch)
  <2>1. 1 .. paid \in SUBSET (1 .. n)
    BY <1>3, <1>5
  <2>2. CASE Replace(batch, Improved(batch))
    BY <1>2, <2>1, <2>2, GeometricReplaces
  <2>3. CASE Geometric!Merge(batch)
    BY <1>2, <1>5, <2>3, GeometricMerges
  <2> QED
    BY <1>7, <2>2, <2>3
<1>10. /\ population' \in [1 .. n -> Layouts] /\ fitness' \in [1 .. n -> Nat]
       /\ \A r \in 1 .. n :
            /\ fitness'[r] = Power[population'[r]]
            /\ (\E s \in 1 .. n : population'[r] = population[s])
                 \/ \E s \in 1 .. paid : population'[r] = batch[s]
       /\ \A r \in 1 .. n : \E s \in 1 .. n : fitness[r] <= fitness'[s]
       /\ \A r \in 1 .. paid : \E s \in 1 .. n : Power[batch[r]] <= fitness'[s]
       /\ GroundKept(n)
  BY <1>9 DEF GeometricKeeps
<1>11. \A r \in 1 .. n : fitness'[r] = Power[population'[r]] /\ population'[r] \in tracked'
  BY <1>2, <1>8, <1>10 DEF GeometricRows
<1>12. \A l \in tracked' : l \in Layouts /\ \E r \in 1 .. n : Power[l] <= fitness'[r]
  <2> TAKE l \in tracked'
  <2>1. CASE l \in tracked
    <3>1. l \in Layouts /\ \E r \in 1 .. n : Power[l] <= fitness[r]
      BY <1>2, <2>1 DEF GeometricRows
    <3>2. PICK r \in 1 .. n : Power[l] <= fitness[r]
      BY <3>1
    <3>3. PICK s \in 1 .. n : fitness[r] <= fitness'[s]
      BY <1>10
    <3>4. Power[l] \in Nat /\ fitness[r] \in Nat /\ fitness'[s] \in Nat
      BY <1>2, <1>3, <1>10, <3>1, CountTypes
    <3> QED
      BY <3>1, <3>2, <3>3, <3>4
  <2>2. CASE \E r \in 1 .. paid : l = batch[r]
    BY <1>10, <2>2
  <2> QED
    BY <1>8, <2>1, <2>2
<1>13. /\ GeometricRows(n)' /\ First(fitness') \in 1 .. n
       /\ \A r \in 1 .. n : fitness'[r] <= fitness'[First(fitness')]
       /\ Geometric!BestSoFar' = fitness'[First(fitness')]
       /\ Geometric!PopulationSize' = n
  <2>1. GeometricRowsAfter(n)
    <3>1. n \in Nat \ {0}
      BY <1>3
    <3>2. population' \in [1 .. n -> Layouts] /\ fitness' \in [1 .. n -> Nat]
      BY <1>10
    <3> QED
      BY <1>11, <1>12, <3>1, <3>2 DEF GeometricRowsAfter
  <2> QED
    BY <1>1, <1>2, <1>8, <2>1, GeometricTypesNext
<1>14. GeometricInv'
  BY <1>2, <1>8, <1>13 DEF GeometricInv
<1>15. GeometricGoesOn
  <2>1. Geometric!BestSoFar' >= Geometric!BestSoFar
    <3>1. PICK s \in 1 .. n : fitness[First(fitness)] <= fitness'[s]
      BY <1>3, <1>10
    <3>2. /\ fitness'[s] \in Nat /\ fitness'[First(fitness')] \in Nat
          /\ fitness[First(fitness)] \in Nat /\ fitness'[s] <= fitness'[First(fitness')]
      BY <1>3, <1>10, <1>13
    <3> QED
      BY <1>3, <1>13, <3>1, <3>2
  <2>2. \E l \in Layouts : Geometric!BestSoFar' = Power[l]
    BY <1>10, <1>13
  <2>3. fes' > fes
    BY <1>3, <1>5, <1>8
  <2> QED
    BY <1>2, <2>1, <2>2, <2>3 DEF GeometricGoesOn
<1>16. GroundKept(Cardinality(DOMAIN fitness'))
  BY <1>3, <1>10, FiniteRows
<1> QED
  BY <1>8, <1>14, <1>15, <1>16

\* At the end the best row is reported.
LEMMA GeometricFinish ==
  ASSUME algorithm \in Chosen, algorithm \in Geometric!Algorithms, GeometricInv,
         Geometric!Finish
  PROVE  /\ SameCase /\ GeometricInv' /\ GeometricGoesOn
         /\ GroundKept(Cardinality(DOMAIN fitness'))
<1>1. PICK n : n = Geometric!PopulationSize
  OBVIOUS
<1>2. /\ pc = "loop" /\ pc' = "done" /\ fes >= budget /\ Counting /\ GeometricRows(n)
      /\ SameCase /\ fes' = fes /\ tracked' = tracked
      /\ population' = population /\ fitness' = fitness
      /\ best' = fitness[First(fitness)] /\ bestLayout' = population[First(fitness)]
  BY <1>1, GeometricSame DEF Geometric!Finish, Geometric!searchVars, GeometricInv, SameCase
<1>3. fes = budget
  BY <1>2, CountTypes
<1>4. Layouts' = Layouts /\ Power' = Power /\ Geometric!PopulationSize' = n /\ budget' = budget
  BY <1>1, <1>2 DEF SameCase, Layouts, Power, Geometric!PopulationSize
<1>5. GeometricRows(n)'
  BY <1>2, <1>4 DEF GeometricRows, PowerOf
<1>6. Counting'
  BY <1>2 DEF Counting, SameCase
<1>7. GeometricInv'
  BY <1>2, <1>3, <1>4, <1>5, <1>6 DEF GeometricInv
<1>8. Geometric!BestSoFar' = Geometric!BestSoFar
  BY <1>2, GeometricSame DEF Geometric!BestSoFar
<1>9. GroundKept(Cardinality(DOMAIN fitness'))
  <2>1. n \in Nat /\ Rows = 1 .. n /\ fitness \in [1 .. n -> Nat]
    BY <1>2, GeometricTypes
  <2>2. DOMAIN fitness' = Rows /\ fitness' = fitness
    BY <1>2, <2>1
  <2> SUFFICES ASSUME NEW l \in Layouts
               PROVE  Cardinality({r \in Rows : fitness[r] >= Power[l]}) >=
                      Cardinality({r \in Rows : fitness[r] >= Power[l]})
    BY <2>2 DEF GroundKept
  <2> DEFINE old == {r \in Rows : fitness[r] >= Power[l]}
  <2>3. old \in SUBSET (1 .. n)
    BY <2>1
  <2> HIDE DEF old
  <2>4. Cardinality(old) \in Nat
    BY <2>1, <2>3, FiniteRows, FS_Subset, FS_CardinalityType
  <2>5. Cardinality(old) >= Cardinality(old)
    BY <2>4
  <2> QED
    BY <2>5 DEF old
<1> QED
  BY <1>2, <1>3, <1>7, <1>8, <1>9 DEF GeometricGoesOn

\* Every step of GGA and GeoGA keeps the invariant and goes on.
LEMMA GeometricStep ==
  ASSUME algorithm \in Chosen, algorithm \in Geometric!Algorithms, GeometricInv,
         Geometric!Step
  PROVE  /\ SameCase /\ GeometricInv' /\ GeometricGoesOn
         /\ GroundKept(Cardinality(DOMAIN fitness'))
BY GeometricInitialize, GeometricGeneration, GeometricFinish DEF Geometric!Step

-----------------------------------------------------------------------------
(* GeneticLayouts.                                                         *)

\* A row in which every cell is below the next is strictly increasing: look at the first
\* place where it is not.
LEMMA IncreasingRow ==
  ASSUME NEW t \in Nat, NEW row \in [1 .. t -> Int], \A d \in 2 .. t : row[d - 1] < row[d]
  PROVE  \A d, e \in 1 .. t : d < e => row[d] < row[e]
<1> SUFFICES ASSUME NEW d0 \in 1 .. t, NEW e0 \in 1 .. t, d0 < e0, ~(row[d0] < row[e0])
             PROVE  FALSE
  OBVIOUS
<1> DEFINE falls == [e \in 1 .. t |-> IF \E d \in 1 .. t : d < e /\ ~(row[d] < row[e])
                                        THEN 1 ELSE 0]
           e == First(falls)
<1>1. /\ falls \in [1 .. t -> Int] /\ falls[e0] = 1
      /\ \A i \in 1 .. t : falls[i] \in {0, 1}
      /\ \A i \in 1 .. t : falls[i] = 1 <=> \E d \in 1 .. t : d < i /\ ~(row[d] < row[i])
  OBVIOUS
<1> HIDE DEF falls
<1>2. /\ e \in 1 .. t
      /\ \A j \in 1 .. t : falls[j] <= falls[e]
      /\ \A j \in 1 .. t : falls[j] = falls[e] => e <= j
  <2>1. t \in Nat \ {0}
    OBVIOUS
  <2> QED
    BY <1>1, <2>1, FirstIsBest
<1> HIDE DEF e
<1>3. falls[e] = 1
  BY <1>1, <1>2
<1>4. PICK d \in 1 .. t : d < e /\ ~(row[d] < row[e])
  BY <1>1, <1>2, <1>3
<1>5. e \in 2 .. t /\ e - 1 \in 1 .. t /\ row[e - 1] < row[e]
  BY <1>2, <1>4
<1>6. falls[e - 1] # 1
  BY <1>2, <1>3, <1>5
<1>7. d # e - 1
  BY <1>4, <1>5
<1>8. row[d] < row[e - 1]
  BY <1>1, <1>2, <1>4, <1>5, <1>6, <1>7
<1>9. row[d] \in Int /\ row[e - 1] \in Int /\ row[e] \in Int
  BY <1>2, <1>4, <1>5
<1> QED
  BY <1>4, <1>5, <1>8, <1>9

\* Rows with the same entries have the same cells.
LEMMA SameCells ==
  ASSUME NEW places, NEW row, NEW other,
         \A d \in places : \E e \in places : row[d] = other[e],
         \A d \in places : \E e \in places : other[d] = row[e]
  PROVE  {row[d] : d \in places} = {other[d] : d \in places}
OBVIOUS

\* std::sort of different cells: in order, and the same cells.
LEMMA SortedSound ==
  ASSUME NEW t \in Nat, NEW free \in SUBSET Nat, NEW row \in [1 .. t -> free],
         \A d, e \in 1 .. t : d # e => row[d] # row[e]
  PROVE  /\ Genetic!Sorted(row) \in Genetic!FeasibleRows(t, free)
         /\ Genetic!Cells(Genetic!Sorted(row)) = Genetic!Cells(row)
<1> DEFINE value == [d \in 1 .. t |-> 0 - row[d]]
           source == Ranked(value)
<1>1. value \in [1 .. t -> Int] /\ \A d \in 1 .. t : value[d] = 0 - row[d] /\ row[d] \in Nat
  <2>1. \A d \in 1 .. t : row[d] \in Nat
    OBVIOUS
  <2> QED
    BY <2>1
<1>2. Genetic!Sorted(row) = [d \in 1 .. t |-> row[source[d]]]
  BY GeneticSame DEF Genetic!Sorted
<1> HIDE DEF value
<1>3. /\ source \in [1 .. t -> 1 .. t]
      /\ \A j, k \in 1 .. t : j < k => Before(value, source[j], source[k])
      /\ \A i \in 1 .. t : \E k \in 1 .. t : source[k] = i
  BY <1>1, RankedSound
<1> HIDE DEF source
<1>4. ASSUME NEW j \in 1 .. t, NEW k \in 1 .. t, j < k
      PROVE  row[source[j]] < row[source[k]]
  <2>1. Before(value, source[j], source[k]) /\ source[j] \in 1 .. t /\ source[k] \in 1 .. t
    BY <1>3, <1>4
  <2>2. source[j] # source[k]
    BY <1>1, <2>1 DEF Before
  <2>3. /\ row[source[j]] # row[source[k]]
        /\ row[source[j]] \in Nat /\ row[source[k]] \in Nat
        /\ value[source[j]] = 0 - row[source[j]] /\ value[source[k]] = 0 - row[source[k]]
    BY <1>1, <2>1, <2>2
  <2>4. value[source[j]] > value[source[k]] \/ value[source[j]] = value[source[k]]
    BY <2>1 DEF Before
  <2> QED
    BY <2>3, <2>4
<1>5. Genetic!Sorted(row) \in [1 .. t -> free]
  BY <1>2, <1>3
<1>6. \A d \in 2 .. t : Genetic!Sorted(row)[d - 1] < Genetic!Sorted(row)[d]
  <2> TAKE d \in 2 .. t
  <2>1. d \in 1 .. t /\ d - 1 \in 1 .. t /\ d - 1 < d
    OBVIOUS
  <2> QED
    BY <1>2, <1>4, <2>1
<1>7. Genetic!Sorted(row) \in Genetic!FeasibleRows(t, free)
  BY <1>5, <1>6 DEF Genetic!FeasibleRows
<1>8. PICK sorted : sorted = Genetic!Sorted(row)
  OBVIOUS
<1>9. PICK places : places = 1 .. t
  OBVIOUS
<1>10. \A d \in places : sorted[d] = row[source[d]]
  BY <1>2, <1>8, <1>9
<1>11. {sorted[d] : d \in places} = {row[d] : d \in places}
  <2>1. \A d \in places : source[d] \in places
    BY <1>3, <1>9
  <2>2. \A d \in places : \E e \in places : sorted[d] = row[e]
    BY <1>10, <2>1
  <2>3. \A i \in places : \E k \in places : source[k] = i
    BY <1>3, <1>9
  <2>4. \A d \in places : \E e \in places : row[d] = sorted[e]
    BY <1>10, <2>3
  <2> QED
    BY <2>2, <2>4, SameCells
<1>12. DOMAIN sorted = places /\ DOMAIN row = places
  BY <1>5, <1>8, <1>9
<1>13. Genetic!Cells(sorted) = Genetic!Cells(row)
  BY <1>11, <1>12 DEF Genetic!Cells
<1> QED
  BY <1>7, <1>8, <1>13

\* A feasible row holds no cell twice.
LEMMA FeasibleRow ==
  ASSUME NEW t \in Nat, NEW free \in SUBSET Nat, NEW row \in Genetic!FeasibleRows(t, free)
  PROVE  /\ row \in [1 .. t -> free]
         /\ \A d \in 2 .. t : row[d - 1] < row[d]
         /\ \A d, e \in 1 .. t : d # e => row[d] # row[e]
         /\ Genetic!Cells(row) = {row[d] : d \in 1 .. t}
<1>1. row \in [1 .. t -> free] /\ \A d \in 2 .. t : row[d - 1] < row[d]
  BY DEF Genetic!FeasibleRows
<1>2. row \in [1 .. t -> Int]
  <2>1. \A d \in 1 .. t : row[d] \in free
    BY <1>1
  <2>2. \A c \in free : c \in Int
    OBVIOUS
  <2>3. \A d \in 1 .. t : row[d] \in Int
    BY <2>1, <2>2
  <2> QED
    BY <1>1, <2>3
<1>3. \A d, e \in 1 .. t : d < e => row[d] < row[e]
  BY <1>1, <1>2, IncreasingRow
<1>4. \A d, e \in 1 .. t : d # e => row[d] # row[e]
  <2> TAKE d, e \in 1 .. t
  <2> HAVE d # e
  <2>1. d < e \/ e < d
    OBVIOUS
  <2>2. row[d] \in Int /\ row[e] \in Int
    BY <1>2
  <2> QED
    BY <1>3, <2>1, <2>2
<1> QED
  BY <1>1, <1>4 DEF Genetic!Cells

\* A cell that is free takes the place of one of the row, or of none.
LEMMA CellReplaced ==
  ASSUME NEW t \in Nat, NEW free \in SUBSET Nat, NEW row \in Genetic!FeasibleRows(t, free),
         NEW removed, NEW inserted \in free, inserted \notin Genetic!Cells(row),
         NEW changed \in [1 .. t -> free],
         \A d \in 1 .. t : changed[d] = IF row[d] = removed THEN inserted ELSE row[d]
  PROVE  /\ Genetic!Sorted(changed) \in Genetic!FeasibleRows(t, free)
         /\ removed \in Genetic!Cells(row) =>
              Genetic!Cells(row) \ Genetic!Cells(Genetic!Sorted(changed)) = {removed}
<1>1. /\ row \in [1 .. t -> free]
      /\ \A d, e \in 1 .. t : d # e => row[d] # row[e]
      /\ Genetic!Cells(row) = {row[d] : d \in 1 .. t}
  BY FeasibleRow
<1>2. \A d, e \in 1 .. t : d # e => changed[d] # changed[e]
  BY <1>1
<1>3. /\ Genetic!Sorted(changed) \in Genetic!FeasibleRows(t, free)
      /\ Genetic!Cells(Genetic!Sorted(changed)) = {changed[d] : d \in 1 .. t}
  BY <1>2, SortedSound DEF Genetic!Cells
<1>4. ASSUME removed \in Genetic!Cells(row)
      PROVE  {row[d] : d \in 1 .. t} \ {changed[d] : d \in 1 .. t} = {removed}
  <2>1. PICK p \in 1 .. t : row[p] = removed
    BY <1>1, <1>4
  <2>2. \A d \in 1 .. t : changed[d] # removed
    BY <1>1, <1>4
  <2>3. ASSUME NEW d \in 1 .. t, row[d] # removed PROVE changed[d] = row[d]
    BY <2>3
  <2> QED
    BY <2>1, <2>2, <2>3
<1> QED
  BY <1>1, <1>3, <1>4

\* Two rows, cut where the cells on both sides are in order.
LEMMA CrossedSound ==
  ASSUME NEW free \in SUBSET Nat, Genetic!Turbines \in Nat,
         NEW male \in Genetic!FeasibleRows(Genetic!Turbines, free),
         NEW female \in Genetic!FeasibleRows(Genetic!Turbines, free),
         NEW point \in 2 .. Genetic!Turbines, Genetic!MayCross(male, female, point)
  PROVE  Genetic!Crossed(male, female, point) \in Genetic!FeasibleRows(Genetic!Turbines, free)
<1>1. PICK t \in Nat : t = Genetic!Turbines
  OBVIOUS
<1>2. /\ male \in [1 .. t -> free] /\ \A d \in 2 .. t : male[d - 1] < male[d]
      /\ female \in [1 .. t -> free] /\ \A d \in 2 .. t : female[d - 1] < female[d]
      /\ male[point - 1] < female[point] /\ point \in 2 .. t
  BY <1>1 DEF Genetic!FeasibleRows, Genetic!MayCross
<1>3. Genetic!Crossed(male, female, point) =
        [d \in 1 .. t |-> IF d < point THEN male[d] ELSE female[d]]
  BY <1>1 DEF Genetic!Crossed
<1> DEFINE row == [d \in 1 .. t |-> IF d < point THEN male[d] ELSE female[d]]
<1>4. row \in [1 .. t -> free]
  BY <1>2
<1>5. \A d \in 2 .. t : row[d - 1] < row[d]
  <2> TAKE d \in 2 .. t
  <2>1. d \in 1 .. t /\ d - 1 \in 1 .. t
    OBVIOUS
  <2>2. CASE d < point
    BY <1>2, <2>1, <2>2
  <2>3. CASE d = point
    BY <1>2, <2>1, <2>3
  <2>4. CASE d > point
    BY <1>2, <2>1, <2>4
  <2> QED
    BY <1>2, <2>2, <2>3, <2>4
<1> QED
  BY <1>1, <1>3, <1>4, <1>5 DEF Genetic!FeasibleRows

\* Feasible rows, and beside the ranked ones the least productive cell of each.
GeneticRows ==
  /\ population \in [Genetic!Rows -> Layouts]
  /\ pc = "replace" => \A r \in Genetic!Rows : worst[r] = Genetic!Worst[population[r]]

\* The invariant of AGA and SUGGA.
GeneticInv ==
  /\ pc \in {"loop", "replace", "cross", "finish", "done"}
  /\ GeneticRows
  /\ pc \in {"finish", "done"} => fes = budget

\* The parameters of AGA and SUGGA.
LEMMA GeneticCase ==
  ASSUME algorithm \in Chosen, algorithm \in Genetic!Algorithms
  PROVE  /\ Genetic!Turbines \in Nat /\ Genetic!Turbines >= 2
         /\ Genetic!Free \in SUBSET Nat
         /\ Genetic!PopulationSize \in Nat /\ Genetic!PopulationSize >= 2
         /\ Genetic!Elite \in 1 .. Genetic!PopulationSize
         /\ Layouts = Genetic!FeasibleRows(Genetic!Turbines, Genetic!Free)
         /\ \A row \in Layouts : Genetic!Worst[row] \in Genetic!Cells(row)
<1>1. Genetic!SettingOK(Setting[algorithm])
  BY SettingAssumption
<1>2. Genetic!Turbines \in Nat /\ Genetic!Turbines >= 2
  BY <1>1 DEF Genetic!SettingOK, Genetic!Turbines
<1> QED
  BY <1>1, <1>2
  DEF Genetic!SettingOK, Genetic!Turbines, Genetic!Free, Genetic!PopulationSize,
     Genetic!Elite, Genetic!Worst, Layouts

\* They do not change.
LEMMA GeneticCaseStays ==
  ASSUME SameCase
  PROVE  /\ Genetic!Rows' = Genetic!Rows /\ Layouts' = Layouts
         /\ Genetic!Worst' = Genetic!Worst
BY DEF SameCase, Genetic!Rows, Genetic!PopulationSize, Layouts, Genetic!Worst

\* One turbine moved, or none.
LEMMA MutatedSound ==
  ASSUME algorithm \in Chosen, algorithm \in Genetic!Algorithms,
         NEW row \in Layouts, NEW child \in Genetic!Mutated(row)
  PROVE  child \in Layouts
<1>1. PICK t : t = Genetic!Turbines
  OBVIOUS
<1>2. PICK free : free = Genetic!Free
  OBVIOUS
<1>3. t \in Nat /\ free \in SUBSET Nat /\ Layouts = Genetic!FeasibleRows(t, free)
  BY <1>1, <1>2, GeneticCase
<1>4. /\ row \in [1 .. t -> free]
      /\ \A d, e \in 1 .. t : d # e => row[d] # row[e]
      /\ Genetic!Cells(row) = {row[d] : d \in 1 .. t}
  BY <1>3, FeasibleRow
<1>5. child = row \/ \E d \in 1 .. t, cell \in free \ Genetic!Cells(row) :
                       child = Genetic!Sorted([row EXCEPT ![d] = cell])
  BY <1>1, <1>2 DEF Genetic!Mutated
<1>6. ASSUME NEW d \in 1 .. t, NEW cell \in free \ Genetic!Cells(row)
      PROVE  Genetic!Sorted([row EXCEPT ![d] = cell]) \in Layouts
  <2>1. PICK moved : moved = [row EXCEPT ![d] = cell]
    OBVIOUS
  <2>2. moved \in [1 .. t -> free] /\ moved[d] = cell
        /\ \A e \in 1 .. t : e # d => moved[e] = row[e]
    BY <1>4, <2>1
  <2>3. \A e \in 1 .. t : row[e] # cell
    BY <1>4
  <2>4. \A i, j \in 1 .. t : i # j => moved[i] # moved[j]
    BY <1>4, <2>2, <2>3
  <2>5. Genetic!Sorted(moved) \in Genetic!FeasibleRows(t, free)
    BY <1>3, <2>2, <2>4, SortedSound
  <2> QED
    BY <1>3, <2>1, <2>5
<1> QED
  BY <1>5, <1>6

\* Offspring of feasible rows are feasible.
LEMMA BredSound ==
  ASSUME algorithm \in Chosen, algorithm \in Genetic!Algorithms,
         population \in [Genetic!Rows -> Layouts],
         NEW drawn \in SUBSET (Genetic!Elite .. Genetic!PopulationSize),
         NEW row \in Layouts, NEW child \in Genetic!Bred(row, drawn)
  PROVE  child \in Layouts
<1>1. PICK t : t = Genetic!Turbines
  OBVIOUS
<1>2. PICK free : free = Genetic!Free
  OBVIOUS
<1>3. PICK n : n = Genetic!PopulationSize
  OBVIOUS
<1>4. /\ t \in Nat /\ free \in SUBSET Nat /\ Layouts = Genetic!FeasibleRows(t, free)
      /\ n \in Nat /\ n >= 2 /\ Genetic!Elite \in 1 .. n
  BY <1>1, <1>2, <1>3, GeneticCase
<1>5. Genetic!Rows = 1 .. n
  BY <1>3 DEF Genetic!Rows
<1>6. CASE child = row
  BY <1>6
<1>7. CASE child # row
  <2>1. PICK x \in Genetic!Crossings(drawn) :
          child = Genetic!Crossed(population[x[1][1]], population[x[1][2]], x[2])
    BY <1>7 DEF Genetic!Bred
  <2>2. /\ x \in Genetic!Pairs(drawn) \X (2 .. t)
        /\ Genetic!MayCross(population[x[1][1]], population[x[1][2]], x[2])
    BY <1>1, <2>1 DEF Genetic!Crossings
  <2>3. x[1] \in Genetic!Pairs(drawn) /\ x[2] \in 2 .. t
    BY <2>2
  <2>4. x[1] \in (1 .. n) \X (1 .. n)
    <3> DEFINE parents == IF Genetic!Elite + Genetic!Cardinality(drawn) < 2 THEN {1, 2}
                          ELSE (1 .. Genetic!Elite) \cup drawn
    <3>1. x[1] \in parents \X parents
      BY <2>3 DEF Genetic!Pairs
    <3>2. parents \subseteq 1 .. n
      BY <1>3, <1>4
    <3> HIDE DEF parents
    <3> QED
      BY <3>1, <3>2
  <2>5. PICK a : a = x[1][1]
    OBVIOUS
  <2>6. PICK b : b = x[1][2]
    OBVIOUS
  <2>7. PICK point \in 2 .. t : point = x[2]
    BY <2>3
  <2>8. a \in 1 .. n /\ b \in 1 .. n
    BY <2>4, <2>5, <2>6
  <2>9. PICK male \in Layouts : male = population[a]
    BY <1>5, <2>8
  <2>10. PICK female \in Layouts : female = population[b]
    BY <1>5, <2>8
  <2>11. /\ child = Genetic!Crossed(male, female, point)
         /\ Genetic!MayCross(male, female, point)
    BY <2>1, <2>2, <2>5, <2>6, <2>7, <2>9, <2>10
  <2> QED
    BY <1>1, <1>4, <2>11, CrossedSound
<1> QED
  BY <1>6, <1>7

\* The evaluation of AGA and SUGGA, which ranks the rows.
LEMMA GeneticRank ==
  ASSUME algorithm \in Chosen, algorithm \in Genetic!Algorithms, RunSound, GeneticInv,
         Genetic!EvaluateAndRank
  PROVE  RunSound' /\ SameCase /\ GeneticInv' /\ GoesOn
<1>1. PICK n : n = Genetic!PopulationSize
  OBVIOUS
<1>2. /\ n \in Nat \ {0} /\ Genetic!Rows = 1 .. n
      /\ population \in [1 .. n -> Layouts]
      /\ pc = "loop" /\ fes < budget
  <2>1. n \in Nat /\ n >= 2
    BY <1>1, GeneticCase
  <2> QED
    BY <1>1, <2>1 DEF Genetic!Rows, GeneticInv, GeneticRows, Genetic!EvaluateAndRank
<1>3. PICK batch : batch = [r \in Prefix(1 .. n) |-> population[r]]
  OBVIOUS
<1>4. PICK source : source = Ranked([r \in 1 .. n |-> Power[population[r]]])
  OBVIOUS
<1>5. /\ Evaluate(batch)
      /\ IF DOMAIN batch # 1 .. n
           THEN pc' = "finish" /\ UNCHANGED <<population, worst>>
           ELSE /\ population' = [k \in 1 .. n |-> population[source[k]]]
                /\ worst' = [k \in 1 .. n |-> Genetic!Worst[population[source[k]]]]
                /\ pc' = "replace"
  <2>1. /\ Genetic!Prefix(1 .. n) = Prefix(1 .. n) /\ Genetic!Power = Power
        /\ Genetic!Ranked([r \in 1 .. n |-> Power[population[r]]]) = source
        /\ Genetic!Evaluate(batch) <=> Evaluate(batch)
    BY <1>4, GeneticSame
  <2> DEFINE row == [r \in Genetic!Prefix(Genetic!Rows) |-> population[r]]
             rank == Genetic!Ranked([r \in Genetic!Rows |-> Genetic!Power[population[r]]])
  <2>2. /\ Genetic!Evaluate(row)
        /\ IF DOMAIN row # Genetic!Rows
             THEN pc' = "finish" /\ UNCHANGED <<population, worst>>
             ELSE /\ population' = [k \in Genetic!Rows |-> population[rank[k]]]
                  /\ worst' = Genetic!WorstCells(rank)
                  /\ pc' = "replace"
    BY DEF Genetic!EvaluateAndRank
  <2>3. row = batch /\ rank = source
    BY <1>2, <1>3, <2>1
  <2>4. Genetic!WorstCells(source) = [k \in 1 .. n |-> Genetic!Worst[population[source[k]]]]
    BY <1>2 DEF Genetic!WorstCells
  <2> HIDE DEF row, rank
  <2> QED
    BY <1>2, <2>1, <2>2, <2>3, <2>4
<1>6. PICK paid : paid = Prefix(1 .. n)
  OBVIOUS
<1>7. /\ paid \in SUBSET (1 .. n) /\ IsFiniteSet(paid)
      /\ Cardinality(paid) \in Nat /\ Cardinality(paid) > 0
      /\ fes + Cardinality(paid) <= budget
      /\ paid # 1 .. n => fes + Cardinality(paid) = budget
  BY <1>2, <1>6, PrefixPays, PrefixOfRows
<1>8. batch \in [paid -> Layouts]
  BY <1>2, <1>3, <1>6, <1>7
<1>9. /\ RunSound' /\ SameCase /\ fes' = fes + Cardinality(paid)
      /\ best' \in Nat /\ best' >= best
      /\ best' = best \/ \E r \in paid : best' = Power[batch[r]]
  BY <1>5, <1>7, <1>8, EvaluateSound
<1>10. Spends(Cardinality(paid))
  BY <1>7, <1>8, <1>9 DEF Spends
<1>11. GoesOn
  <2>1. pc # "done" /\ pc' # "done"
    BY <1>2, <1>5
  <2> QED
    BY <1>7, <1>10, <2>1, SpendingGoesOn
<1>12. /\ Genetic!Rows' = 1 .. n /\ Layouts' = Layouts /\ Genetic!Worst' = Genetic!Worst
       /\ budget' = budget
  BY <1>2, <1>9, GeneticCaseStays DEF SameCase
<1>13. CASE paid # 1 .. n
  <2>1. pc' = "finish" /\ population' = population
    BY <1>5, <1>8, <1>13
  <2>2. fes' = budget'
    BY <1>7, <1>9, <1>12, <1>13
  <2> QED
    BY <1>2, <1>9, <1>11, <1>12, <2>1, <2>2 DEF GeneticInv, GeneticRows
<1>14. CASE paid = 1 .. n
  <2>1. /\ pc' = "replace"
        /\ population' = [k \in 1 .. n |-> population[source[k]]]
        /\ worst' = [k \in 1 .. n |-> Genetic!Worst[population[source[k]]]]
    BY <1>5, <1>8, <1>14
  <2>2. \A k \in 1 .. n : source[k] \in 1 .. n
    <3>1. PICK value : value = [r \in 1 .. n |-> Power[population[r]]]
      OBVIOUS
    <3>2. value \in [1 .. n -> Int]
      BY <1>2, <3>1, CaseTypes
    <3> QED
      BY <1>2, <1>4, <3>1, <3>2, RankedOrder
  <2>3. population' \in [1 .. n -> Layouts]
    BY <1>2, <2>1, <2>2
  <2>4. \A k \in 1 .. n : worst'[k] = Genetic!Worst[population'[k]]
    BY <2>1
  <2> QED
    BY <1>9, <1>11, <1>12, <2>1, <2>3, <2>4 DEF GeneticInv, GeneticRows
<1> QED
  BY <1>13, <1>14

\* The least productive cell of a ranked row gives way to a free one.
LEMMA GeneticReplace ==
  ASSUME algorithm \in Chosen, algorithm \in Genetic!Algorithms, RunSound, GeneticInv,
         Genetic!ReplaceWeakest
  PROVE  RunSound' /\ SameCase /\ GeneticInv' /\ GoesOn /\ Genetic!WeakestLeaves
<1>1. PICK t : t = Genetic!Turbines
  OBVIOUS
<1>2. PICK free : free = Genetic!Free
  OBVIOUS
<1>3. /\ t \in Nat /\ free \in SUBSET Nat /\ Layouts = Genetic!FeasibleRows(t, free)
      /\ \A row \in Layouts : Genetic!Worst[row] \in Genetic!Cells(row)
  BY <1>1, <1>2, GeneticCase
<1>4. /\ pc = "replace" /\ pc' = "cross" /\ UNCHANGED runtimeVars
      /\ population \in [Genetic!Rows -> Layouts]
      /\ \A r \in Genetic!Rows : worst[r] = Genetic!Worst[population[r]]
  BY DEF Genetic!ReplaceWeakest, GeneticInv, GeneticRows, Genetic!runtimeVars, runtimeVars
<1>5. PICK inserted \in [Genetic!Rows -> free] :
        /\ \A r \in Genetic!Rows : inserted[r] \notin Genetic!Cells(population[r])
        /\ population' = [r \in Genetic!Rows |->
             Genetic!ReplaceCell(population[r], worst[r], inserted[r])]
  BY <1>2 DEF Genetic!ReplaceWeakest
<1>6. ASSUME NEW r \in Genetic!Rows
      PROVE  /\ population'[r] \in Layouts
             /\ Genetic!Cells(population[r]) \ Genetic!Cells(population'[r])
                  = {Genetic!Worst[population[r]]}
  <2>1. PICK row \in Layouts : row = population[r]
    BY <1>4
  <2>2. PICK removed : removed = Genetic!Worst[row]
    OBVIOUS
  <2>3. PICK cell \in free : cell = inserted[r]
    OBVIOUS
  <2>4. PICK changed : changed = [d \in 1 .. t |-> IF row[d] = removed THEN cell ELSE row[d]]
    OBVIOUS
  <2>5. removed = worst[r] /\ removed \in Genetic!Cells(row) /\ cell \notin Genetic!Cells(row)
    BY <1>3, <1>4, <1>5, <2>1, <2>2, <2>3
  <2>6. population'[r] = Genetic!Sorted(changed)
    BY <1>1, <1>5, <2>1, <2>3, <2>4, <2>5 DEF Genetic!ReplaceCell
  <2>7. row \in Genetic!FeasibleRows(t, free)
    BY <1>3
  <2>8. row \in [1 .. t -> free]
    BY <1>3, <2>7, FeasibleRow
  <2>9. changed \in [1 .. t -> free]
        /\ \A d \in 1 .. t : changed[d] = IF row[d] = removed THEN cell ELSE row[d]
    BY <2>4, <2>8
  <2>10. /\ Genetic!Sorted(changed) \in Genetic!FeasibleRows(t, free)
         /\ Genetic!Cells(row) \ Genetic!Cells(Genetic!Sorted(changed)) = {removed}
    BY <1>3, <2>5, <2>7, <2>9, CellReplaced
  <2> QED
    BY <1>3, <2>1, <2>2, <2>6, <2>10
<1>7. population' \in [Genetic!Rows -> Layouts]
  BY <1>5, <1>6
<1>8. RunSound' /\ SameCase /\ best' = best /\ fes' = fes
  BY <1>4, UnchangedSound
<1>9. Genetic!Rows' = Genetic!Rows /\ Layouts' = Layouts
  BY <1>8, GeneticCaseStays
<1>10. GeneticInv'
  BY <1>4, <1>7, <1>9 DEF GeneticInv, GeneticRows
<1>11. Genetic!WeakestLeaves
  BY <1>6 DEF Genetic!WeakestLeaves
<1> QED
  BY <1>4, <1>8, <1>10, <1>11 DEF GoesOn

\* Crossing and mutation leave feasible rows.
LEMMA GeneticCross ==
  ASSUME algorithm \in Chosen, algorithm \in Genetic!Algorithms, RunSound, GeneticInv,
         Genetic!CrossAndMutate
  PROVE  RunSound' /\ SameCase /\ GeneticInv' /\ GoesOn
<1>1. /\ pc = "cross" /\ pc' = "loop" /\ UNCHANGED runtimeVars
      /\ population \in [Genetic!Rows -> Layouts]
  BY DEF Genetic!CrossAndMutate, GeneticInv, GeneticRows, Genetic!runtimeVars, runtimeVars
<1>2. PICK drawn \in SUBSET (Genetic!Elite .. Genetic!PopulationSize) :
        /\ DOMAIN population' = Genetic!Rows
        /\ population' = [r \in Genetic!Rows |-> population'[r]]
        /\ \A r \in Genetic!Rows :
             population'[r]
               \in UNION {Genetic!Mutated(c) : c \in Genetic!Bred(population[r], drawn)}
  BY DEF Genetic!CrossAndMutate
<1>3. ASSUME NEW r \in Genetic!Rows PROVE population'[r] \in Layouts
  <2>1. PICK c \in Genetic!Bred(population[r], drawn) : population'[r] \in Genetic!Mutated(c)
    BY <1>2
  <2>2. PICK row \in Layouts : row = population[r]
    BY <1>1
  <2>3. c \in Layouts
    BY <1>1, <2>1, <2>2, BredSound
  <2>4. PICK child \in Genetic!Mutated(c) : child = population'[r]
    BY <2>1
  <2> QED
    BY <2>3, <2>4, MutatedSound
<1>4. population' \in [Genetic!Rows -> Layouts]
  BY <1>2, <1>3
<1>5. RunSound' /\ SameCase /\ best' = best /\ fes' = fes
  BY <1>1, UnchangedSound
<1>6. Genetic!Rows' = Genetic!Rows /\ Layouts' = Layouts
  BY <1>5, GeneticCaseStays
<1>7. GeneticInv'
  BY <1>1, <1>4, <1>6 DEF GeneticInv, GeneticRows
<1> QED
  BY <1>1, <1>5, <1>7 DEF GoesOn

\* Every step of AGA and SUGGA keeps the invariant and goes on.
LEMMA GeneticStep ==
  ASSUME algorithm \in Chosen, algorithm \in Genetic!Algorithms, RunSound, GeneticInv,
         Genetic!Step
  PROVE  RunSound' /\ SameCase /\ GeneticInv' /\ GoesOn /\ Genetic!WeakestLeaves
<1>1. CASE Genetic!EvaluateAndRank
  <2>1. Genetic!WeakestLeaves
    BY <1>1 DEF Genetic!EvaluateAndRank, Genetic!WeakestLeaves
  <2> QED
    BY <1>1, <2>1, GeneticRank
<1>2. CASE Genetic!ReplaceWeakest
  BY <1>2, GeneticReplace
<1>3. CASE Genetic!CrossAndMutate
  <2>1. Genetic!WeakestLeaves
    BY <1>3 DEF Genetic!CrossAndMutate, Genetic!WeakestLeaves
  <2> QED
    BY <1>3, <2>1, GeneticCross
<1>4. CASE Genetic!LeaveLoop \/ Genetic!Finish
  <2>1. /\ UNCHANGED <<population, worst>> /\ UNCHANGED runtimeVars
        /\ \/ pc = "loop" /\ fes >= budget /\ pc' = "finish"
           \/ pc = "finish" /\ pc' = "done"
    BY <1>4 DEF Genetic!LeaveLoop, Genetic!Finish, Genetic!runtimeVars, runtimeVars
  <2>2. fes = budget
    BY <2>1, CaseTypes DEF GeneticInv
  <2>3. RunSound' /\ SameCase /\ best' = best /\ fes' = fes
    BY <2>1, UnchangedSound
  <2>4. /\ Genetic!Rows' = Genetic!Rows /\ Layouts' = Layouts /\ Genetic!Worst' = Genetic!Worst
        /\ budget' = budget
    BY <2>3, GeneticCaseStays DEF SameCase
  <2>5. GeneticInv'
    BY <2>1, <2>2, <2>3, <2>4 DEF GeneticInv, GeneticRows
  <2>6. Genetic!WeakestLeaves
    BY <2>1 DEF Genetic!WeakestLeaves
  <2> QED
    BY <2>1, <2>2, <2>3, <2>5, <2>6 DEF GoesOn
<1> QED
  BY <1>1, <1>2, <1>3, <1>4 DEF Genetic!Step

-----------------------------------------------------------------------------
(* The family.                                                             *)

\* A run that stands still.
LEMMA FamilyRests ==
  ASSUME UNCHANGED vars
  PROVE  /\ UNCHANGED <<pc, algorithm, budget, fes, best, bestLayout, tracked,
                        population, fitness, archive, geneticCount, mutated>>
         /\ UNCHANGED <<cluster, active, order, pbest, pbestFitness, gbest, gbestFitness,
                        stagnation, reference, referenceFitness, globalBest, worst>>
         /\ SameCase /\ Layouts' = Layouts /\ Power' = Power
         /\ Size' = Size /\ Rows' = Rows /\ PowerOf(population)' = PowerOf(population)
         /\ Counting => Counting'
         /\ RunSound => RunSound'
<1>1. /\ UNCHANGED <<pc, algorithm, budget, fes, best, bestLayout, tracked,
                        population, fitness, archive, geneticCount, mutated>>
      /\ UNCHANGED <<cluster, active, order, pbest, pbestFitness, gbest, gbestFitness,
                        stagnation, reference, referenceFitness, globalBest, worst>>
  BY DEF vars, runtimeVars, searchVars, competitive, clustered, swarm, leveled
<1>2. SameCase /\ Layouts' = Layouts /\ Power' = Power
  BY <1>1 DEF SameCase, Layouts, Power
<1>3. Size' = Size /\ Rows' = Rows
  BY <1>1 DEF Size, Rows
<1>4. PowerOf(population)' = PowerOf(population)
  BY <1>1, <1>2 DEF PowerOf
<1>5. Counting => Counting'
  BY <1>1 DEF Counting
<1>6. RunSound => RunSound'
  BY <1>1, UnchangedSound DEF runtimeVars
<1> QED
  BY <1>1, <1>2, <1>3, <1>4, <1>5, <1>6

\* Rows and archive stand still with the run.
LEMMA RowsRest ==
  ASSUME UNCHANGED vars
  PROVE  /\ \A n : HoldsRows(n) => HoldsRows(n)'
         /\ BestInPopulation => BestInPopulation'
         /\ \A capacity, loose :
              ArchiveHolds(capacity, loose) => ArchiveHolds(capacity, loose)'
<1>1. /\ UNCHANGED <<pc, best, population, fitness, archive>>
      /\ Layouts' = Layouts /\ Power' = Power
      /\ Size' = Size /\ Rows' = Rows /\ PowerOf(population)' = PowerOf(population)
  BY FamilyRests
<1>2. \A n : HoldsRows(n) => HoldsRows(n)'
  BY <1>1 DEF HoldsRows
<1>3. BestInPopulation => BestInPopulation'
  BY <1>1 DEF BestInPopulation
<1>4. \A l : (Beaten(l) => Beaten(l)') /\ (Reached(l) => Reached(l)')
  BY <1>1 DEF Beaten, Reached
<1>5. ASSUME NEW capacity, NEW loose, ArchiveHolds(capacity, loose)
      PROVE  ArchiveHolds(capacity, loose)'
  BY <1>1, <1>4, <1>5 DEF ArchiveHolds
<1> QED
  BY <1>2, <1>3, <1>5

\* The invariant of the success-history searches stands still with the run.
LEMMA HistoryRests ==
  ASSUME UNCHANGED vars, HistoryInv
  PROVE  HistoryInv'
<1>1. /\ UNCHANGED <<pc, algorithm, budget, fes, best, population, fitness, archive>>
      /\ SameCase /\ Size' = Size
  BY FamilyRests
<1>2. PICK n : n = Size
  OBVIOUS
<1>3. PICK capacity : capacity = History!Capacity(n)
  OBVIOUS
<1>4. PICK loose \in BOOLEAN : loose = (algorithm = "wfadde")
  OBVIOUS
<1>5. History!Capacity(n)' = capacity /\ History!Floor' = History!Floor
  BY <1>1, <1>3, HistoryCaseStays
<1>6. HistoryRows => HistoryRows'
  BY <1>1, <1>2, <1>3, <1>4, <1>5, RowsRest DEF HistoryRows
<1> QED
  BY <1>1, <1>6 DEF HistoryInv

\* The invariant of CEDE stands still with the run.
LEMMA CompetitiveRests ==
  ASSUME UNCHANGED vars, CompetitiveInv
  PROVE  CompetitiveInv'
<1>1. /\ UNCHANGED <<pc, algorithm, budget, fes, best, population, fitness, archive>>
      /\ UNCHANGED <<geneticCount, mutated>>
      /\ SameCase /\ Size' = Size
  BY FamilyRests
<1>2. PICK n : n = Size
  OBVIOUS
<1>3. PICK capacity : capacity = Competitive!Capacity(n)
  OBVIOUS
<1>4. Competitive!Capacity(n)' = capacity /\ Competitive!Floor' = Competitive!Floor
  BY <1>1, <1>3, CompetitiveCaseStays
<1>5. CompetitiveRows => CompetitiveRows'
  BY <1>1, <1>2, <1>3, <1>4, RowsRest DEF CompetitiveRows
<1>6. Competitive!SharePaidFor => Competitive!SharePaidFor'
  BY <1>1 DEF Competitive!SharePaidFor
<1> QED
  BY <1>1, <1>5, <1>6 DEF CompetitiveInv

\* The invariant of LSDE stands still with the run.
LEMMA ClusteredRests ==
  ASSUME UNCHANGED vars, ClusteredInv
  PROVE  ClusteredInv'
<1>1. /\ UNCHANGED <<pc, algorithm, budget, fes, best, population, fitness, archive>>
      /\ SameCase /\ Size' = Size
  BY FamilyRests
<1>2. PICK n : n = Size
  OBVIOUS
<1>3. PICK capacity : capacity = Clustered!Capacity(n)
  OBVIOUS
<1>4. Clustered!Capacity(n)' = capacity
  BY <1>1, <1>3, ClusteredCaseStays
<1>5. ClusteredRows => ClusteredRows'
  BY <1>1, <1>2, <1>3, <1>4, RowsRest DEF ClusteredRows
<1> QED
  BY <1>1, <1>5 DEF ClusteredInv

\* The invariant of the elitist searches stands still with the run.
LEMMA ElitistRests ==
  ASSUME UNCHANGED vars, ElitistInv
  PROVE  ElitistInv'
<1>1. /\ UNCHANGED <<pc, algorithm, budget, fes, best, population, fitness, order>>
      /\ SameCase
  BY FamilyRests
<1>2. PICK n : n = Elitist!PopulationSize
  OBVIOUS
<1>3. Elitist!PopulationSize' = n
  BY <1>1, <1>2, ElitistCaseStays
<1>4. HoldsRows(n) => HoldsRows(n)'
  BY RowsRest
<1>5. Elitist!OrderAligned => Elitist!OrderAligned'
  BY <1>1 DEF Elitist!OrderAligned
<1> QED
  BY <1>1, <1>2, <1>3, <1>4, <1>5, RowsRest DEF ElitistInv

\* The invariant of the particle swarms stands still with the run.
LEMMA SwarmRests ==
  ASSUME UNCHANGED vars, SwarmInv
  PROVE  SwarmInv'
<1>1. /\ UNCHANGED <<pc, algorithm, budget, fes, best, population, fitness, order>>
      /\ UNCHANGED <<pbest, pbestFitness, gbest, gbestFitness>>
      /\ SameCase
  BY FamilyRests
<1>2. PICK n : n = Swarm!PopulationSize
  OBVIOUS
<1>3. /\ Swarm!PopulationSize' = n /\ Swarm!Chaotic' = Swarm!Chaotic
      /\ Layouts' = Layouts /\ Power' = Power
  BY <1>1, <1>2, SwarmCaseStays
<1>4. SwarmRows(n) => SwarmRows(n)'
  BY <1>1, <1>3 DEF SwarmRows
<1>5. SwarmTogether(n) => SwarmTogether(n)'
  BY <1>1, <1>3 DEF SwarmTogether
<1> QED
  BY <1>1, <1>2, <1>3, <1>4, <1>5 DEF SwarmInv

\* The invariant of HGPSO stands still with the run.
LEMMA LeveledRests ==
  ASSUME UNCHANGED vars, LeveledInv
  PROVE  LeveledInv'
<1>1. /\ UNCHANGED <<pc, algorithm, budget, fes, best, population, fitness, stagnation>>
      /\ UNCHANGED <<reference, referenceFitness, globalBest>>
      /\ SameCase
  BY FamilyRests
<1>2. PICK n : n = Leveled!PopulationSize
  OBVIOUS
<1>3. /\ Leveled!PopulationSize' = n /\ Layouts' = Layouts /\ Power' = Power
  BY <1>1, <1>2, LeveledCaseStays
<1>4. HoldsRows(n) => HoldsRows(n)'
  BY RowsRest
<1>5. GlobalBestHeld(n) => GlobalBestHeld(n)'
  BY <1>1, <1>3 DEF GlobalBestHeld
<1>6. ReferencesHeld(n) => ReferencesHeld(n)'
  BY <1>1, <1>3 DEF ReferencesHeld, PowerOf
<1> QED
  BY <1>1, <1>2, <1>3, <1>4, <1>5, <1>6 DEF LeveledInv

\* The invariant of AGA and SUGGA stands still with the run.
LEMMA GeneticRests ==
  ASSUME UNCHANGED vars, GeneticInv
  PROVE  GeneticInv'
<1>1. UNCHANGED <<pc, algorithm, budget, fes, population, worst>> /\ SameCase
  BY FamilyRests
<1>2. /\ Genetic!Rows' = Genetic!Rows /\ Layouts' = Layouts
      /\ Genetic!Worst' = Genetic!Worst
  BY <1>1, GeneticCaseStays
<1>3. GeneticRows => GeneticRows'
  BY <1>1, <1>2 DEF GeneticRows
<1> QED
  BY <1>1, <1>3 DEF GeneticInv

\* The invariant of GGA and GeoGA stands still with the run.
LEMMA GeometricRests ==
  ASSUME UNCHANGED vars, GeometricInv
  PROVE  GeometricInv'
<1>1. /\ UNCHANGED <<pc, algorithm, budget, fes, best, bestLayout, tracked>>
      /\ UNCHANGED <<population, fitness>>
      /\ SameCase /\ (Counting => Counting') /\ PowerOf(population)' = PowerOf(population)
      /\ Layouts' = Layouts /\ Power' = Power
  BY FamilyRests
<1>2. PICK n : n = Geometric!PopulationSize
  OBVIOUS
<1>3. Geometric!PopulationSize' = n
  BY <1>1, <1>2 DEF Geometric!PopulationSize
<1>4. GeometricRows(n) => GeometricRows(n)'
  BY <1>1 DEF GeometricRows
<1> QED
  BY <1>1, <1>2, <1>3, <1>4 DEF GeometricInv

\* Each search keeps its own invariant.
FamilyInv ==
  /\ algorithm \in Chosen
  /\ \/ algorithm \in History!Algorithms /\ RunSound /\ HistoryInv
     \/ algorithm \in Competitive!Algorithms /\ RunSound /\ CompetitiveInv
     \/ algorithm \in Clustered!Algorithms /\ RunSound /\ ClusteredInv
     \/ algorithm \in Elitist!Algorithms /\ RunSound /\ ElitistInv
     \/ algorithm \in Swarm!Algorithms /\ RunSound /\ SwarmInv
     \/ algorithm \in Leveled!Algorithms /\ RunSound /\ LeveledInv
     \/ algorithm \in Genetic!Algorithms /\ RunSound /\ GeneticInv
     \/ algorithm \in Geometric!Algorithms /\ GeometricInv

\* The searches of two modules are not the same.
LEMMA FamilyCase ==
  ASSUME FamilyInv
  PROVE  /\ algorithm \in History!Algorithms => RunSound /\ HistoryInv
         /\ algorithm \in Competitive!Algorithms => RunSound /\ CompetitiveInv
         /\ algorithm \in Clustered!Algorithms => RunSound /\ ClusteredInv
         /\ algorithm \in Elitist!Algorithms => RunSound /\ ElitistInv
         /\ algorithm \in Swarm!Algorithms => RunSound /\ SwarmInv
         /\ algorithm \in Leveled!Algorithms => RunSound /\ LeveledInv
         /\ algorithm \in Genetic!Algorithms => RunSound /\ GeneticInv
         /\ algorithm \in Geometric!Algorithms => GeometricInv
         /\ algorithm \notin Geometric!Algorithms => RunSound
BY DEF FamilyInv, History!Algorithms, Competitive!Algorithms, Clustered!Algorithms,
   Elitist!Algorithms, Swarm!Algorithms, Leveled!Algorithms, Genetic!Algorithms,
   Geometric!Algorithms

\* A run that has evaluated nothing.
Fresh ==
  /\ budget \in Setting[algorithm].budgets
  /\ fes = 0 /\ best = 0 /\ bestLayout = NoLayout /\ tracked = {}

\* The runtime begins sound.
LEMMA FreshSound ==
  ASSUME Fresh, RuntimeSetting(Setting[algorithm])
  PROVE  Counting /\ RunSound
BY DEF Fresh, RuntimeSetting, Counting, RunSound, ReportsBest

\* Every search runs on a case.
LEMMA FamilySettings ==
  ASSUME algorithm \in Chosen
  PROVE  RuntimeSetting(Setting[algorithm])
<1>1. CASE algorithm \in History!Algorithms
  BY <1>1, SettingAssumption DEF History!SettingOK, History!RuntimeSetting, RuntimeSetting
<1>2. CASE algorithm \in Competitive!Algorithms
  BY <1>2, SettingAssumption
  DEF Competitive!SettingOK, Competitive!RuntimeSetting, RuntimeSetting
<1>3. CASE algorithm \in Clustered!Algorithms
  BY <1>3, SettingAssumption
  DEF Clustered!SettingOK, Clustered!RuntimeSetting, RuntimeSetting
<1>4. CASE algorithm \in Elitist!Algorithms
  BY <1>4, SettingAssumption DEF Elitist!SettingOK, Elitist!RuntimeSetting, RuntimeSetting
<1>5. CASE algorithm \in Swarm!Algorithms
  BY <1>5, SettingAssumption DEF Swarm!SettingOK, Swarm!RuntimeSetting, RuntimeSetting
<1>6. CASE algorithm \in Leveled!Algorithms
  BY <1>6, SettingAssumption DEF Leveled!SettingOK, Leveled!RuntimeSetting, RuntimeSetting
<1>7. CASE algorithm \in Genetic!Algorithms
  BY <1>7, SettingAssumption DEF Genetic!SettingOK, Genetic!RuntimeSetting, RuntimeSetting
<1>8. CASE algorithm \in Geometric!Algorithms
  BY <1>8, SettingAssumption
  DEF Geometric!SettingOK, Geometric!RuntimeSetting, RuntimeSetting
<1> QED
  BY <1>1, <1>2, <1>3, <1>4, <1>5, <1>6, <1>7, <1>8, SettingAssumption

\* The first state of a run: nothing spent, nothing found.
LEMMA FamilyInit ==
  ASSUME Init
  PROVE  FamilyInv /\ BestSoFar = 0 /\ fes = 0 /\ pc # "done"
<1>1. /\ algorithm \in Chosen
      /\ fitness = <<>> /\ archive = {} /\ order = <<>> /\ gbestFitness = 0
  BY DEF Init
<1>2. /\ algorithm \in History!Algorithms => History!Init
      /\ algorithm \in Competitive!Algorithms => Competitive!Init
      /\ algorithm \in Clustered!Algorithms => Clustered!Init
      /\ algorithm \in Elitist!Algorithms => Elitist!Init
      /\ algorithm \in Swarm!Algorithms => Swarm!Init
      /\ algorithm \in Leveled!Algorithms => Leveled!Init
      /\ algorithm \in Genetic!Algorithms => Genetic!Init
      /\ algorithm \in Geometric!Algorithms => Geometric!Init
  BY DEF Init, History!Algorithms, Competitive!Algorithms, Clustered!Algorithms,
     Elitist!Algorithms, Swarm!Algorithms, Leveled!Algorithms, Genetic!Algorithms,
     Geometric!Algorithms
<1>3. CASE algorithm \in History!Algorithms
  <2>1. Fresh /\ pc = "init" /\ population = <<>>
    BY <1>2, <1>3
    DEF History!Init, History!DEInit, History!SearchInit, History!RuntimeInit, Fresh
  <2>2. RunSound
    BY <1>1, <2>1, FreshSound, FamilySettings
  <2> QED
    BY <1>1, <1>3, <2>1, <2>2
    DEF FamilyInv, HistoryInv, Fresh, BestSoFar, History!Algorithms, Geometric!Algorithms
<1>4. CASE algorithm \in Competitive!Algorithms
  <2>1. Fresh /\ pc = "init" /\ population = <<>>
    BY <1>2, <1>4 DEF Competitive!Init, Competitive!DEInit, Competitive!SearchInit,
       Competitive!RuntimeInit, Fresh
  <2>2. RunSound
    BY <1>1, <2>1, FreshSound, FamilySettings
  <2> QED
    BY <1>1, <1>4, <2>1, <2>2
    DEF FamilyInv, CompetitiveInv, Fresh, BestSoFar, Competitive!Algorithms,
        Geometric!Algorithms
<1>5. CASE algorithm \in Clustered!Algorithms
  <2>1. Fresh /\ pc = "init" /\ population = <<>>
    BY <1>2, <1>5 DEF Clustered!Init, Clustered!DEInit, Clustered!SearchInit,
       Clustered!RuntimeInit, Fresh
  <2>2. RunSound
    BY <1>1, <2>1, FreshSound, FamilySettings
  <2> QED
    BY <1>1, <1>5, <2>1, <2>2
    DEF FamilyInv, ClusteredInv, Fresh, BestSoFar, Clustered!Algorithms,
        Geometric!Algorithms
<1>6. CASE algorithm \in Elitist!Algorithms
  <2>1. Fresh /\ pc = "init" /\ population = <<>>
    BY <1>2, <1>6 DEF Elitist!Init, Elitist!SearchInit, Elitist!RuntimeInit, Fresh
  <2>2. RunSound
    BY <1>1, <2>1, FreshSound, FamilySettings
  <2> QED
    BY <1>1, <1>6, <2>1, <2>2
    DEF FamilyInv, ElitistInv, Fresh, BestSoFar, Elitist!Algorithms, Geometric!Algorithms
<1>7. CASE algorithm \in Swarm!Algorithms
  <2>1. Fresh /\ pc = "init" /\ population = <<>>
    BY <1>2, <1>7 DEF Swarm!Init, Swarm!SearchInit, Swarm!RuntimeInit, Fresh
  <2>2. RunSound
    BY <1>1, <2>1, FreshSound, FamilySettings
  <2> QED
    BY <1>1, <1>7, <2>1, <2>2
    DEF FamilyInv, SwarmInv, Fresh, BestSoFar, Swarm!Algorithms, Geometric!Algorithms
<1>8. CASE algorithm \in Leveled!Algorithms
  <2>1. Fresh /\ pc = "init" /\ population = <<>>
    BY <1>2, <1>8 DEF Leveled!Init, Leveled!SearchInit, Leveled!RuntimeInit, Fresh
  <2>2. RunSound
    BY <1>1, <2>1, FreshSound, FamilySettings
  <2> QED
    BY <1>1, <1>8, <2>1, <2>2
    DEF FamilyInv, LeveledInv, Fresh, BestSoFar, Leveled!Algorithms, Geometric!Algorithms
<1>9. CASE algorithm \in Genetic!Algorithms
  <2>1. Fresh /\ pc = "loop" /\ population \in [Genetic!Rows -> Layouts]
    BY <1>2, <1>9, GeneticSame DEF Genetic!Init, Genetic!RuntimeInit, Fresh
  <2>2. RunSound
    BY <1>1, <2>1, FreshSound, FamilySettings
  <2>3. GeneticInv
    BY <2>1 DEF GeneticInv, GeneticRows
  <2> QED
    BY <1>1, <1>9, <2>1, <2>2, <2>3
    DEF FamilyInv, Fresh, BestSoFar, Genetic!Algorithms, Geometric!Algorithms
<1>10. CASE algorithm \in Geometric!Algorithms
  <2>1. Fresh /\ pc = "init" /\ population = <<>>
    BY <1>2, <1>10 DEF Geometric!Init, Geometric!SearchInit, Geometric!RuntimeInit, Fresh
  <2>2. Counting
    BY <1>1, <2>1, FreshSound, FamilySettings
  <2> QED
    BY <1>1, <1>10, <2>1, <2>2
    DEF FamilyInv, GeometricInv, Fresh, BestSoFar, Geometric!BestSoFar
<1> QED
  BY <1>1, <1>3, <1>4, <1>5, <1>6, <1>7, <1>8, <1>9, <1>10, SettingAssumption

\* A step spends, or says that all is spent.
Progresses ==
  /\ pc # "done"
  /\ \/ /\ pc' # "done" /\ fes' > fes
        /\ BestSoFar' >= BestSoFar
        /\ BestSoFar' = BestSoFar \/ \E l \in Layouts : BestSoFar' = Power[l]
     \/ fes' = fes /\ BestSoFar' = BestSoFar /\ (pc' = "done" => fes = budget)

\* What a step keeps.
KeepsGround ==
  /\ algorithm \in History!Algorithms \cup Competitive!Algorithms \cup Geometric!Algorithms =>
       GroundKept(Cardinality(DOMAIN fitness'))
  /\ algorithm \in Elitist!Algorithms => GroundKept(Elitist!Protected)
  /\ algorithm \in Clustered!Algorithms => Clustered!RestartJustified
  /\ algorithm \in Swarm!Algorithms => Swarm!SwarmKept
  /\ algorithm \in Leveled!Algorithms => Leveled!ProgressResets

\* The best of a search is that of the runtime.
LEMMA OtherBest ==
  ASSUME algorithm \in Chosen, algorithm \notin Geometric!Algorithms, SameCase, GoesOn
  PROVE  algorithm' \in Chosen /\ algorithm' = algorithm /\ Progresses
BY DEF SameCase, GoesOn, Progresses, BestSoFar, Chosen, Geometric!Algorithms

\* And that of the rows for GGA and GeoGA.
LEMMA GeometricBest ==
  ASSUME algorithm \in Chosen, algorithm \in Geometric!Algorithms, SameCase, GeometricGoesOn
  PROVE  algorithm' \in Chosen /\ algorithm' = algorithm /\ Progresses
BY DEF SameCase, GeometricGoesOn, Progresses, BestSoFar, Chosen, Geometric!Algorithms

\* A step of a search keeps its invariant, its ground and its count.
LEMMA FamilyStep ==
  ASSUME FamilyInv, Step
  PROVE  /\ FamilyInv' /\ SameCase /\ Progresses /\ KeepsGround
         /\ algorithm \in Genetic!Algorithms => Genetic!WeakestLeaves
<1> USE DEF History!Algorithms, Competitive!Algorithms, Clustered!Algorithms,
        Elitist!Algorithms, Swarm!Algorithms, Leveled!Algorithms, Genetic!Algorithms,
        Geometric!Algorithms
<1>1. algorithm \in Chosen
  BY DEF FamilyInv
<1>2. CASE RunHistory
  <2>1. algorithm \in History!Algorithms /\ RunSound /\ HistoryInv /\ History!Step
    BY <1>2, FamilyCase DEF RunHistory
  <2>2. /\ RunSound' /\ SameCase /\ HistoryInv' /\ GoesOn
        /\ GroundKept(Cardinality(DOMAIN fitness'))
    BY <1>1, <2>1, HistoryStep
  <2>3. algorithm' \in Chosen /\ algorithm' = algorithm /\ Progresses
    BY <1>1, <2>1, <2>2, OtherBest
  <2> QED
    BY <2>1, <2>2, <2>3 DEF FamilyInv, KeepsGround
<1>3. CASE RunCompetitive
  <2>1. algorithm \in Competitive!Algorithms /\ RunSound /\ CompetitiveInv /\ Competitive!Step
    BY <1>3, FamilyCase DEF RunCompetitive
  <2>2. /\ RunSound' /\ SameCase /\ CompetitiveInv' /\ GoesOn
        /\ GroundKept(Cardinality(DOMAIN fitness'))
    BY <1>1, <2>1, CompetitiveStep
  <2>3. algorithm' \in Chosen /\ algorithm' = algorithm /\ Progresses
    BY <1>1, <2>1, <2>2, OtherBest
  <2> QED
    BY <2>1, <2>2, <2>3 DEF FamilyInv, KeepsGround
<1>4. CASE RunClustered
  <2>1. algorithm \in Clustered!Algorithms /\ RunSound /\ ClusteredInv /\ Clustered!Step
    BY <1>4, FamilyCase DEF RunClustered
  <2>2. RunSound' /\ SameCase /\ ClusteredInv' /\ GoesOn /\ Clustered!RestartJustified
    BY <1>1, <2>1, ClusteredStep
  <2>3. algorithm' \in Chosen /\ algorithm' = algorithm /\ Progresses
    BY <1>1, <2>1, <2>2, OtherBest
  <2> QED
    BY <2>1, <2>2, <2>3 DEF FamilyInv, KeepsGround
<1>5. CASE RunElitist
  <2>1. algorithm \in Elitist!Algorithms /\ RunSound /\ ElitistInv /\ Elitist!Step
    BY <1>5, FamilyCase DEF RunElitist
  <2>2. RunSound' /\ SameCase /\ ElitistInv' /\ GoesOn /\ GroundKept(Elitist!Protected)
    BY <1>1, <2>1, ElitistStep
  <2>3. algorithm' \in Chosen /\ algorithm' = algorithm /\ Progresses
    BY <1>1, <2>1, <2>2, OtherBest
  <2> QED
    BY <2>1, <2>2, <2>3 DEF FamilyInv, KeepsGround
<1>6. CASE RunSwarm
  <2>1. algorithm \in Swarm!Algorithms /\ RunSound /\ SwarmInv /\ Swarm!Step
    BY <1>6, FamilyCase DEF RunSwarm
  <2>2. RunSound' /\ SameCase /\ SwarmInv' /\ GoesOn /\ Swarm!SwarmKept
    BY <1>1, <2>1, SwarmStep
  <2>3. algorithm' \in Chosen /\ algorithm' = algorithm /\ Progresses
    BY <1>1, <2>1, <2>2, OtherBest
  <2> QED
    BY <2>1, <2>2, <2>3 DEF FamilyInv, KeepsGround
<1>7. CASE RunLeveled
  <2>1. algorithm \in Leveled!Algorithms /\ RunSound /\ LeveledInv /\ Leveled!Step
    BY <1>7, FamilyCase DEF RunLeveled
  <2>2. RunSound' /\ SameCase /\ LeveledInv' /\ GoesOn /\ Leveled!ProgressResets
    BY <1>1, <2>1, LeveledStep
  <2>3. algorithm' \in Chosen /\ algorithm' = algorithm /\ Progresses
    BY <1>1, <2>1, <2>2, OtherBest
  <2> QED
    BY <2>1, <2>2, <2>3 DEF FamilyInv, KeepsGround
<1>8. CASE RunGenetic
  <2>1. algorithm \in Genetic!Algorithms /\ RunSound /\ GeneticInv /\ Genetic!Step
    BY <1>8, FamilyCase DEF RunGenetic
  <2>2. RunSound' /\ SameCase /\ GeneticInv' /\ GoesOn /\ Genetic!WeakestLeaves
    BY <1>1, <2>1, GeneticStep
  <2>3. algorithm' \in Chosen /\ algorithm' = algorithm /\ Progresses
    BY <1>1, <2>1, <2>2, OtherBest
  <2> QED
    BY <2>1, <2>2, <2>3 DEF FamilyInv, KeepsGround
<1>9. CASE RunGeometric
  <2>1. algorithm \in Geometric!Algorithms /\ GeometricInv /\ Geometric!Step
    BY <1>9, FamilyCase DEF RunGeometric
  <2>2. /\ SameCase /\ GeometricInv' /\ GeometricGoesOn
        /\ GroundKept(Cardinality(DOMAIN fitness'))
    BY <1>1, <2>1, GeometricStep
  <2>3. algorithm' \in Chosen /\ algorithm' = algorithm /\ Progresses
    BY <1>1, <2>1, <2>2, GeometricBest
  <2> QED
    BY <2>1, <2>2, <2>3 DEF FamilyInv, KeepsGround
<1> QED
  BY <1>2, <1>3, <1>4, <1>5, <1>6, <1>7, <1>8, <1>9 DEF Step

\* A run that stands still keeps its invariant.
LEMMA FamilyStays ==
  ASSUME FamilyInv, UNCHANGED vars
  PROVE  FamilyInv'
<1>1. algorithm' = algorithm /\ (RunSound => RunSound') /\ Chosen' = Chosen
  BY FamilyRests DEF Chosen
<1> QED
  BY <1>1, HistoryRests, CompetitiveRests, ClusteredRests, ElitistRests, SwarmRests,
     LeveledRests, GeneticRests, GeometricRests
  DEF FamilyInv, History!Algorithms, Competitive!Algorithms, Clustered!Algorithms,
      Elitist!Algorithms, Swarm!Algorithms, Leveled!Algorithms, Genetic!Algorithms,
      Geometric!Algorithms

\* FamilyInv is inductive: it holds throughout every run.
LEMMA FamilyInductive ==
  Init /\ [][Next]_vars => []FamilyInv
<1>1. Init => FamilyInv
  BY FamilyInit
<1>2. FamilyInv /\ [Next]_vars => FamilyInv'
  BY FamilyStep, FamilyStays DEF Next, Ended
<1> QED
  BY <1>1, <1>2, PTL

\* FamilyInv implies ParallelVectors.
LEMMA FamilyVectors ==
  ASSUME FamilyInv
  PROVE  ParallelVectors
<1>1. algorithm \in Chosen
  BY DEF FamilyInv
<1>2. ASSUME RunSound, pc = "init", population = <<>>, fitness = <<>>
      PROVE  RowsAligned
  BY <1>2, EmptyRows DEF RowsAligned, PowerOf
<1>3. ASSUME NEW n, HoldsRows(n)
      PROVE  RowsAligned
  BY <1>3 DEF HoldsRows, RowsAligned
<1>4. algorithm \in History!Algorithms => RowsAligned
  BY <1>2, <1>3, FamilyCase DEF HistoryInv, HistoryRows
<1>5. algorithm \in Competitive!Algorithms => RowsAligned
  BY <1>2, <1>3, FamilyCase DEF CompetitiveInv, CompetitiveRows
<1>6. algorithm \in Clustered!Algorithms => RowsAligned
  BY <1>2, <1>3, FamilyCase DEF ClusteredInv, ClusteredRows
<1>7. algorithm \in Elitist!Algorithms => RowsAligned
  BY <1>2, <1>3, FamilyCase DEF ElitistInv
<1>8. algorithm \in Leveled!Algorithms => RowsAligned
  BY <1>2, <1>3, FamilyCase DEF LeveledInv
<1>9. algorithm \in Geometric!Algorithms => RowsAligned
  <2>1. ASSUME GeometricInv PROVE RowsAligned
    <3>1. pc = "init" => population = <<>> /\ fitness = <<>>
      BY <2>1 DEF GeometricInv
    <3>2. pc = "init" => RowsAligned
      BY <3>1, EmptyRows DEF RowsAligned, PowerOf
    <3>3. pc # "init" => RowsAligned
      BY <2>1, GeometricReports
    <3> QED
      BY <3>2, <3>3
  <2> QED
    BY <2>1, FamilyCase
<1>10. algorithm \notin (Swarm!Algorithms \cup Genetic!Algorithms) => RowsAligned
  BY <1>1, <1>4, <1>5, <1>6, <1>7, <1>8, <1>9, SettingAssumption
<1>11. algorithm \in Elitist!Algorithms => Elitist!OrderAligned
  BY FamilyCase DEF ElitistInv, Elitist!OrderAligned
<1>12. algorithm \in Swarm!Algorithms => Swarm!SwarmAligned
  <2>1. PICK n : n = Swarm!PopulationSize
    OBVIOUS
  <2>2. ASSUME SwarmInv, RunSound PROVE Swarm!SwarmAligned
    <3>1. pc # "init" => SwarmRows(n)
      BY <2>1, <2>2 DEF SwarmInv
    <3>2. pc # "init" => pbestFitness = PowerOf(pbest) /\ gbestFitness = Power[gbest]
      BY <3>1 DEF SwarmRows, PowerOf
    <3>3. pc = "loop" => RowsAligned /\ (Swarm!Chaotic \/ order = population)
      <4>1. pc = "loop" => SwarmTogether(n) /\ SwarmRows(n)
        BY <2>1, <2>2 DEF SwarmInv
      <4> QED
        BY <4>1 DEF SwarmTogether, SwarmRows, RowsAligned, PowerOf
    <3> QED
      BY <3>2, <3>3, SwarmSame DEF Swarm!SwarmAligned, Swarm!RowsAligned, RowsAligned
  <2> QED
    BY <2>2, FamilyCase
<1>13. algorithm \in Leveled!Algorithms => Leveled!ReferencesSound
  <2>1. PICK n : n = Leveled!PopulationSize
    OBVIOUS
  <2>2. ASSUME LeveledInv, RunSound PROVE Leveled!ReferencesSound
    <3>1. pc # "init" => HoldsRows(n)
      BY <2>1, <2>2 DEF LeveledInv
    <3>2. pc \in {"tournament", "trial"} => ReferencesHeld(n) /\ Rows = 1 .. n
      BY <2>1, <2>2, <3>1, HeldTypes DEF LeveledInv
    <3> QED
      BY <3>2, LeveledSame DEF ReferencesHeld, Leveled!ReferencesSound
  <2> QED
    BY <2>2, FamilyCase
<1>14. algorithm \in Genetic!Algorithms => Genetic!StaysFeasible
  BY FamilyCase, GeneticSame DEF GeneticInv, GeneticRows, Genetic!StaysFeasible
<1> QED
  BY <1>10, <1>11, <1>12, <1>13, <1>14 DEF ParallelVectors

\* FamilyInv implies BestKept.
LEMMA FamilyBest ==
  ASSUME FamilyInv
  PROVE  BestKept
<1>1. algorithm \in Geometric!Algorithms => Geometric!BestHeld
  <2>1. ASSUME GeometricInv PROVE Geometric!BestHeld
    BY <2>1, GeometricReports DEF GeometricInv, Geometric!BestHeld
  <2> QED
    BY <2>1, FamilyCase
<1>2. algorithm \notin Geometric!Algorithms \/ pc = "done" => ReportsBest
  <2>1. algorithm \notin Geometric!Algorithms => ReportsBest
    BY FamilyCase DEF RunSound
  <2>2. algorithm \in Geometric!Algorithms /\ pc = "done" => ReportsBest
    BY FamilyCase, GeometricReports
  <2> QED
    BY <2>1, <2>2
<1>3. algorithm \in History!Algorithms /\ pc # "init" => BestInPopulation
  BY FamilyCase DEF HistoryInv, HistoryRows
<1>4. algorithm \in Competitive!Algorithms /\ pc # "init" => BestInPopulation
  BY FamilyCase DEF CompetitiveInv, CompetitiveRows
<1>5. algorithm \in {"ise", "bde"} /\ pc # "init" => BestInPopulation
  BY FamilyCase DEF ElitistInv, Elitist!Algorithms
<1>6. algorithm \in Elitist!Algorithms /\ pc = "loop" => BestInPopulation
  BY FamilyCase DEF ElitistInv
<1>7. algorithm \in {"lshade", "clshade", "alshade", "msshade", "wfadde", "cede", "ise", "bde"}
        /\ pc \in {"loop", "finish", "done"} => BestInPopulation
  BY <1>3, <1>4, <1>5 DEF History!Algorithms, Competitive!Algorithms
<1>8. algorithm \in {"aiga", "ciga", "ppga"} /\ pc = "loop" => BestInPopulation
  BY <1>6 DEF Elitist!Algorithms
<1>9. algorithm \in Swarm!Algorithms => Swarm!GbestLeads
  <2>1. PICK n : n = Swarm!PopulationSize
    OBVIOUS
  <2>2. ASSUME SwarmInv, RunSound PROVE Swarm!GbestLeads
    <3>1. pc # "init" => SwarmRows(n)
      BY <2>1, <2>2 DEF SwarmInv
    <3>2. pc = "loop" => Rows = 1 .. n /\ \A r \in 1 .. n : pbestFitness[r] <= gbestFitness
      BY <2>1, <2>2, <3>1, SwarmTypes DEF SwarmInv
    <3>3. gbestFitness <= best
      BY <2>2, <3>1 DEF SwarmInv, SwarmRows
    <3> QED
      BY <3>2, <3>3, SwarmSame DEF Swarm!GbestLeads
  <2> QED
    BY <2>2, FamilyCase
<1>10. algorithm \in Leveled!Algorithms => Leveled!GlobalBestIsOurs
  <2>1. PICK n : n = Leveled!PopulationSize
    OBVIOUS
  <2>2. ASSUME LeveledInv, RunSound PROVE Leveled!GlobalBestIsOurs
    <3>1. pc # "init" => HoldsRows(n)
      BY <2>1, <2>2 DEF LeveledInv
    <3>2. pc \in {"loop", "tournament", "trial"} => GlobalBestHeld(n) /\ Rows = 1 .. n
      BY <2>1, <2>2, <3>1, HeldTypes DEF LeveledInv
    <3> QED
      BY <3>2, LeveledSame DEF GlobalBestHeld, Leveled!GlobalBestIsOurs
  <2> QED
    BY <2>2, FamilyCase
<1> QED
  BY <1>1, <1>2, <1>7, <1>8, <1>9, <1>10 DEF BestKept

\* FamilyInv implies MemorySound.
LEMMA FamilyMemory ==
  ASSUME FamilyInv
  PROVE  MemorySound
<1>1. algorithm \in Chosen
  BY DEF FamilyInv
<1>2. population = <<>> => Size = 0
  BY EmptyRows
<1>3. algorithm \in History!Algorithms => History!ArchiveSound
  <2>1. ASSUME algorithm \in History!Algorithms, HistoryInv, RunSound
        PROVE  History!ArchiveSound
    <3>1. PICK capacity : capacity = History!Capacity(Size)
      OBVIOUS
    <3>2. CASE pc = "init"
      <4>1. archive = {} /\ Size = 0
        BY <1>2, <2>1, <3>2 DEF HistoryInv
      <4>2. capacity \in Nat
        BY <1>1, <2>1, <3>1, <4>1, HistoryCase
      <4> QED
        BY <3>1, <4>1, <4>2, EmptyRows, HistorySame
        DEF History!ArchiveSound, History!Cardinality, Cardinality
    <3>3. CASE pc # "init"
      <4>1. PICK loose \in BOOLEAN : loose = (algorithm = "wfadde")
        OBVIOUS
      <4>2. ArchiveHolds(capacity, loose) /\ HoldsRows(Size)
        BY <2>1, <3>1, <3>3, <4>1 DEF HistoryInv, HistoryRows
      <4>3. Cardinality(archive) <= capacity
        BY <4>2 DEF ArchiveHolds
      <4>4. ASSUME NEW l \in archive
            PROVE  \E r \in Rows : \/ Power[l] < fitness[r]
                                   \/ algorithm = "wfadde" /\ Power[l] = fitness[r]
        <5>1. l \in Layouts /\ (Beaten(l) \/ (loose /\ Reached(l)))
          BY <4>2 DEF ArchiveHolds
        <5>2. PICK n : n = Size
          OBVIOUS
        <5>3. /\ Rows = 1 .. n /\ fitness \in [1 .. n -> Nat] /\ Power[l] \in Nat
          BY <2>1, <4>2, <5>1, <5>2, HeldTypes, CaseTypes
        <5>4. Beaten(l) => \E r \in Rows : Power[l] < fitness[r]
          BY DEF Beaten
        <5>5. ASSUME Reached(l)
              PROVE  \E r \in Rows : Power[l] < fitness[r] \/ Power[l] = fitness[r]
          <6>1. PICK r \in Rows : Power[l] <= fitness[r]
            BY <5>5 DEF Reached
          <6>2. fitness[r] \in Nat
            BY <5>3
          <6> QED
            BY <5>3, <6>1, <6>2
        <5> QED
          BY <4>1, <5>1, <5>4, <5>5
      <4> QED
        BY <3>1, <4>3, <4>4, HistorySame
        DEF History!ArchiveSound, History!Cardinality, Cardinality
    <3> QED
      BY <3>2, <3>3
  <2> QED
    BY <2>1, FamilyCase
<1>4. algorithm \in Competitive!Algorithms =>
        Competitive!ArchiveSound /\ Competitive!SharePaidFor
  <2>1. ASSUME algorithm \in Competitive!Algorithms, CompetitiveInv, RunSound
        PROVE  Competitive!ArchiveSound /\ Competitive!SharePaidFor
    <3>1. PICK capacity : capacity = Competitive!Capacity(Size)
      OBVIOUS
    <3>2. CASE pc = "init"
      <4>1. archive = {} /\ Size = 0
        BY <1>2, <2>1, <3>2 DEF CompetitiveInv
      <4>2. capacity \in Nat
        BY <1>1, <2>1, <3>1, <4>1, CompetitiveCase
      <4> QED
        BY <3>1, <3>2, <4>1, <4>2, EmptyRows, CompetitiveSame
        DEF Competitive!ArchiveSound, Competitive!Cardinality, Cardinality,
            Competitive!SharePaidFor
    <3>3. CASE pc # "init"
      <4>1. /\ ArchiveHolds(capacity, FALSE) /\ HoldsRows(Size)
            /\ Competitive!SharePaidFor
        BY <2>1, <3>1, <3>3 DEF CompetitiveInv, CompetitiveRows
      <4>2. /\ Cardinality(archive) <= capacity
            /\ \A l \in archive : \E r \in Rows : Power[l] < fitness[r]
        BY <4>1 DEF ArchiveHolds, Beaten
      <4> QED
        BY <3>1, <4>1, <4>2, CompetitiveSame
        DEF Competitive!ArchiveSound, Competitive!Cardinality, Cardinality
    <3> QED
      BY <3>2, <3>3
  <2> QED
    BY <2>1, FamilyCase
<1>5. algorithm \in Clustered!Algorithms => Clustered!ArchiveFits
  BY FamilyCase, ClusteredSame DEF ClusteredInv, ClusteredRows, Clustered!ArchiveFits
<1> QED
  BY <1>3, <1>4, <1>5 DEF MemorySound

\* In every search, the vectors that are kept in parallel stay about the same layouts,
\* whatever the sizes, budgets and powers: ParallelVectors holds throughout every run.
THEOREM VectorsStayParallel == Spec => []ParallelVectors
<1>1. FamilyInv => ParallelVectors
  BY FamilyVectors
<1> QED
  BY <1>1, FamilyInductive, PTL DEF Spec

\* What a search reports is the best layout evaluated for it, and what attracts its next
\* candidates is never behind: BestKept holds throughout every run.
THEOREM BestIsNeverLost == Spec => []BestKept
<1>1. FamilyInv => BestKept
  BY FamilyBest
<1> QED
  BY <1>1, FamilyInductive, PTL DEF Spec

\* Archives fit the present population and hold nothing better than its best row, and the
\* batches CEDE owes are paid for: MemorySound holds throughout every run.
THEOREM MemoryStaysSound == Spec => []MemorySound
<1>1. FamilyInv => MemorySound
  BY FamilyMemory
<1> QED
  BY <1>1, FamilyInductive, PTL DEF Spec

\* No step of a run gives up rows it is meant to keep: every step satisfies GroundIsKept.
THEOREM GroundStaysKept == Spec => GroundIsKept
<1>1. FamilyInv /\ [Next]_vars => [KeepsGround]_vars
  BY FamilyStep DEF Next, Ended
<1>2. Spec => [][KeepsGround]_vars
  BY <1>1, FamilyInductive, PTL DEF Spec
<1>3. [][KeepsGround]_vars <=> GroundIsKept
  BY DEF KeepsGround, GroundIsKept
<1> QED
  BY <1>2, <1>3

\* AGA and SUGGA replace the least productive cell of a ranked row, and by one that was
\* free: every step satisfies WeakestLeaves.
THEOREM WeakestAlwaysLeaves == Spec => WeakestLeaves
<1>1. FamilyInv /\ [Next]_vars =>
        [(algorithm \in Genetic!Algorithms) => Genetic!WeakestLeaves]_vars
  BY FamilyStep DEF Next, Ended
<1> QED
  BY <1>1, FamilyInductive, PTL DEF Spec, WeakestLeaves

-----------------------------------------------------------------------------
(* The abstract search.                                                    *)

\* No budget is above the largest.
LEMMA BudgetBound ==
  ASSUME algorithm \in Chosen, Counting
  PROVE  LargestBudget \in Nat /\ budget <= LargestBudget
<1>1. PICK b \in Budgets : \A c \in Budgets : c <= b
  BY BudgetAssumption
<1>2. LargestBudget \in Budgets /\ \A c \in Budgets : c <= LargestBudget
  BY <1>1 DEF LargestBudget
<1>3. budget \in Budgets
  BY DEF Counting, Budgets
<1>4. ASSUME NEW a \in Chosen PROVE Setting[a].budgets \subseteq Nat
  <2>1. CASE a \in History!Algorithms
    BY <2>1, SettingAssumption DEF History!SettingOK, History!RuntimeSetting
  <2>2. CASE a \in Competitive!Algorithms
    BY <2>2, SettingAssumption DEF Competitive!SettingOK, Competitive!RuntimeSetting
  <2>3. CASE a \in Clustered!Algorithms
    BY <2>3, SettingAssumption DEF Clustered!SettingOK, Clustered!RuntimeSetting
  <2>4. CASE a \in Elitist!Algorithms
    BY <2>4, SettingAssumption DEF Elitist!SettingOK, Elitist!RuntimeSetting
  <2>5. CASE a \in Swarm!Algorithms
    BY <2>5, SettingAssumption DEF Swarm!SettingOK, Swarm!RuntimeSetting
  <2>6. CASE a \in Leveled!Algorithms
    BY <2>6, SettingAssumption DEF Leveled!SettingOK, Leveled!RuntimeSetting
  <2>7. CASE a \in Genetic!Algorithms
    BY <2>7, SettingAssumption DEF Genetic!SettingOK, Genetic!RuntimeSetting
  <2>8. CASE a \in Geometric!Algorithms
    BY <2>8, SettingAssumption DEF Geometric!SettingOK, Geometric!RuntimeSetting
  <2> QED
    BY <2>1, <2>2, <2>3, <2>4, <2>5, <2>6, <2>7, <2>8, SettingAssumption
<1>5. Budgets \subseteq Nat
  BY <1>4 DEF Budgets
<1> QED
  BY <1>2, <1>3, <1>5

\* What every search counts, and the best it has.
LEMMA FamilyCounts ==
  ASSUME FamilyInv
  PROVE  algorithm \in Chosen /\ Counting /\ BestSoFar \in Nat
<1>1. algorithm \in Chosen
  BY DEF FamilyInv
<1>2. CASE algorithm \notin Geometric!Algorithms
  <2>1. RunSound
    BY <1>2, FamilyCase
  <2> QED
    BY <1>1, <1>2, <2>1 DEF RunSound, Counting, BestSoFar
<1>3. CASE algorithm \in Geometric!Algorithms
  <2>1. GeometricInv
    BY <1>3, FamilyCase
  <2>2. Counting
    BY <2>1 DEF GeometricInv
  <2>3. PICK n : n = Geometric!PopulationSize
    OBVIOUS
  <2>4. pc # "init" => GeometricRows(n)
    BY <2>1, <2>3 DEF GeometricInv
  <2>5. pc # "init" => Geometric!BestSoFar \in Nat
    BY <2>2, <2>4, GeometricTypes
  <2>6. pc = "init" => Geometric!BestSoFar = 0
    BY <2>1 DEF GeometricInv, Geometric!BestSoFar
  <2> QED
    BY <1>1, <1>3, <2>2, <2>5, <2>6 DEF BestSoFar
<1> QED
  BY <1>2, <1>3

\* A run begins as a fixed-work search does.
LEMMA SearchBegins ==
  ASSUME Init
  PROVE  FW!FWInit
<1>1. FamilyInv /\ BestSoFar = 0 /\ fes = 0 /\ pc # "done"
  BY FamilyInit
<1>2. /\ LargestBudget \in Nat /\ budget <= LargestBudget
      /\ budget \in Nat
  BY <1>1, FamilyCounts, BudgetBound, CountTypes
<1> QED
  BY <1>1, <1>2 DEF FW!FWInit

\* Every step of a run is a step of a fixed-work search, or none.
LEMMA SearchGoesOn ==
  ASSUME FamilyInv, FamilyInv', [Next]_vars
  PROVE  [FW!FWNext]_FW!fwvars
<1>1. CASE UNCHANGED vars
  <2>1. /\ pc' = pc /\ budget' = budget /\ fes' = fes /\ algorithm' = algorithm
        /\ best' = best /\ population' = population /\ fitness' = fitness
    BY <1>1, FamilyRests
  <2>2. BestSoFar' = BestSoFar
    BY <2>1 DEF BestSoFar, Geometric!BestSoFar, Geometric!Algorithms
  <2>3. LargestBudget' = LargestBudget
    BY DEF LargestBudget, Budgets, Chosen
  <2> QED
    BY <2>1, <2>2, <2>3 DEF FW!fwvars
<1>2. CASE Step
  <2>1. SameCase /\ Progresses
    BY <1>2, FamilyStep
  <2>2. /\ algorithm \in Chosen /\ BestSoFar \in Nat
        /\ budget \in Nat /\ fes \in Nat /\ fes <= budget
        /\ LargestBudget \in Nat /\ budget <= LargestBudget
    BY FamilyCounts, BudgetBound, CountTypes
  <2>3. budget' = budget /\ LargestBudget' = LargestBudget
    BY <2>1 DEF SameCase, LargestBudget, Budgets, Chosen
  <2>4. fes' \in 0 .. budget
    <3>1. RunSound' \/ GeometricInv'
      BY DEF FamilyInv
    <3>2. Counting'
      BY <3>1 DEF RunSound, GeometricInv, Counting
    <3> QED
      BY <2>3, <3>2 DEF Counting
  <2>5. CASE /\ pc' # "done" /\ fes' > fes
             /\ BestSoFar' >= BestSoFar
             /\ BestSoFar' = BestSoFar \/ \E l \in Layouts : BestSoFar' = Power[l]
    <3>1. \A a, b, c, d \in Nat :
            b <= a /\ d <= b /\ d > c => a - (b - d) \in (a - (b - c)) + 1 .. a
      OBVIOUS
    <3>2. (\E l \in Layouts : BestSoFar' = Power[l]) =>
            BestSoFar' \in Powers /\ BestSoFar' \in Nat
      BY <2>2, FamilyCounts, CountTypes DEF Powers, Layouts, Power
    <3>3. BestSoFar' \in {BestSoFar} \cup {v \in Powers : v > BestSoFar}
      BY <2>2, <2>5, <3>2
    <3>4. /\ LargestBudget' - (budget' - fes') \in
               (LargestBudget - (budget - fes)) + 1 .. LargestBudget
      <4>1. fes' \in Nat /\ fes' <= budget /\ fes' > fes
        BY <2>2, <2>4, <2>5
      <4> QED
        BY <2>2, <2>3, <3>1, <4>1
    <3>5. FW!Evaluate
      BY <2>1, <2>5, <3>3, <3>4 DEF FW!Evaluate, Progresses
    <3> QED
      BY <3>5 DEF FW!FWNext
  <2>6. CASE fes' = fes /\ pc' = "done"
    <3>1. fes = budget /\ BestSoFar' = BestSoFar /\ pc # "done"
      BY <2>1, <2>6 DEF Progresses
    <3>2. LargestBudget - (budget - fes) = LargestBudget
      BY <2>2, <3>1
    <3>3. FW!Finish
      BY <2>3, <2>6, <3>1, <3>2 DEF FW!Finish
    <3> QED
      BY <3>3 DEF FW!FWNext
  <2>7. CASE fes' = fes /\ pc' # "done"
    <3>1. BestSoFar' = BestSoFar /\ pc # "done"
      BY <2>1, <2>2, <2>7 DEF Progresses
    <3> QED
      BY <2>3, <2>7, <3>1 DEF FW!fwvars
  <2> QED
    BY <2>1, <2>5, <2>6, <2>7 DEF Progresses
<1> QED
  BY <1>1, <1>2 DEF Next, Ended

\* Every search is a fixed-work search: whatever the algorithm, its parameters and its
\* case, a run spends evaluations only while some of its budget is left, ends with the
\* budget spent exactly, and its best never gets worse.
THEOREM FamilyIsFixedWork == Spec => FW!FWSpec
<1>1. Init => FW!FWInit
  BY SearchBegins
<1>2. FamilyInv /\ FamilyInv' /\ [Next]_vars => [FW!FWNext]_FW!fwvars
  BY SearchGoesOn
<1> QED
  BY <1>1, <1>2, FamilyInductive, PTL DEF Spec, FW!FWSpec
=============================================================================
