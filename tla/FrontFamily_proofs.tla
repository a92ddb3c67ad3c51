------------------------- MODULE FrontFamily_proofs -------------------------
(***************************************************************************)
(* Proofs about FrontFamily: the seven multi-objective searches for every  *)
(* case, population, budget and number of generations.                     *)
(*                                                                         *)
(* The operators the searches share are restated for a setting s in place  *)
(* of the one that is run (MembersIn, FrontIn, RankClosedIn, ...), so that *)
(* what they do is proved once, of constants, and cited by every search.   *)
(* The argument is that of coverage: while no front was cut, for every     *)
(* layout evaluated one is held that is no worse on any objective (Knows); *)
(* hence the front held is the front of everything evaluated.              *)
(***************************************************************************)
EXTENDS FrontFamily, FiniteSetTheorems, WellFoundedInduction, TLAPS

-----------------------------------------------------------------------------
(* Least elements.                                                         *)

\* Some set of a collection of finite sets contains no other of them.
LEMMA SmallestSet ==
  ASSUME NEW C, C # {}, \A T \in C : IsFiniteSet(T)
  PROVE  \E T \in C : \A U \in C : U \subseteq T => U = T
<1> DEFINE All == UNION C
<1>1. C \subseteq FiniteSubsetsOf(All)
  BY DEF FiniteSubsetsOf
<1>2. IsWellFoundedOn(StrictSubsetOrdering(All), FiniteSubsetsOf(All))
  BY FS_StrictSubsetOrderingWellFounded
<1>3. PICK T \in C : \A U \in C : ~ (<<U, T>> \in StrictSubsetOrdering(All))
  BY <1>1, <1>2, WFMin
<1>4. ASSUME NEW U \in C, U \subseteq T PROVE U = T
  <2>1. U \in SUBSET All /\ T \in SUBSET All
    OBVIOUS
  <2> QED
    BY <1>3, <1>4, <2>1 DEF StrictSubsetOrdering
<1> QED
  BY <1>4

\* A set of natural numbers has a least.
LEMMA LeastNumber ==
  ASSUME NEW T \in SUBSET Nat, T # {}
  PROVE  \E n \in T : \A m \in T : n <= m
<1>1. PICK C : C = {0 .. n : n \in T}
  OBVIOUS
<1>2. C # {}
  BY <1>1
<1>3. ASSUME NEW U \in C PROVE IsFiniteSet(U)
  <2>1. PICK n \in T : U = 0 .. n
    BY <1>1
  <2> QED
    BY <2>1, FS_Interval
<1>4. PICK U \in C : \A V \in C : V \subseteq U => V = U
  BY <1>2, <1>3, SmallestSet
<1>5. PICK n \in T : U = 0 .. n
  BY <1>1
<1>6. ASSUME NEW m \in T, m < n PROVE FALSE
  <2>1. 0 .. m \subseteq 0 .. n /\ n \notin 0 .. m /\ n \in 0 .. n
    BY <1>6
  <2>2. 0 .. m \in C
    BY <1>1
  <2> QED
    BY <1>4, <1>5, <2>1, <2>2
<1> QED
  BY <1>6

\* Min of a set of natural numbers.
LEMMA MinSound ==
  ASSUME NEW T \in SUBSET Nat, T # {}
  PROVE  Min(T) \in T /\ \A m \in T : Min(T) <= m
BY LeastNumber DEF Min

\* A finite set of numbers has a greatest.
LEMMA MaxSound ==
  ASSUME NEW T \in SUBSET Int, T # {}, IsFiniteSet(T)
  PROVE  Max(T) \in T /\ \A m \in T : m <= Max(T)
<1>1. PICK C : C = {{m \in T : m > n} : n \in T}
  OBVIOUS
<1>2. C # {}
  BY <1>1
<1>3. ASSUME NEW U \in C PROVE IsFiniteSet(U)
  <2>1. U \subseteq T
    <3>1. PICK n \in T : U = {m \in T : m > n}
      BY <1>1
    <3> QED
      BY <3>1
  <2> QED
    BY <2>1, FS_Subset
<1>4. PICK U \in C : \A V \in C : V \subseteq U => V = U
  BY <1>2, <1>3, SmallestSet
<1>5. PICK n \in T : U = {m \in T : m > n}
  BY <1>1
<1>6. ASSUME NEW m \in T, m > n PROVE FALSE
  <2>1. m \in Int /\ n \in Int /\ \A o \in T : o \in Int
    OBVIOUS
  <2>2. PICK V : V = {o \in T : o > m}
    OBVIOUS
  <2>3. V \in C
    BY <1>1, <2>2
  <2>4. m \notin V /\ m \in U
    BY <1>5, <1>6, <2>1, <2>2
  <2>5. ASSUME NEW o \in V PROVE o \in U
    BY <1>5, <1>6, <2>1, <2>2
  <2> QED
    BY <1>4, <2>3, <2>4, <2>5
<1>7. \A m \in T : m <= n
  BY <1>6
<1> QED
  BY <1>7 DEF Max

\* A relation between the members of a set that orders them strictly.
StrictOrder(R, S) ==
  /\ \A x \in S : <<x, x>> \notin R
  /\ \A x, y, z \in S : <<x, y>> \in R /\ <<y, z>> \in R => <<x, z>> \in R

\* Below every member of a finite set, or equal to it, is one that has none below.
LEMMA MinimalBelow ==
  ASSUME NEW S, IsFiniteSet(S), NEW R, StrictOrder(R, S), NEW l \in S
  PROVE  \E m \in S : (m = l \/ <<m, l>> \in R) /\ \A y \in S : <<y, m>> \notin R
<1>1. PICK T : T = {x \in S : x = l \/ <<x, l>> \in R}
  OBVIOUS
<1>2. PICK C : C = {{y \in S : <<y, x>> \in R} : x \in T}
  OBVIOUS
<1>3. C # {}
  <2>1. l \in T
    BY <1>1
  <2>2. {y \in S : <<y, l>> \in R} \in C
    BY <1>2, <2>1
  <2> QED
    BY <2>2
<1>4. ASSUME NEW U \in C PROVE IsFiniteSet(U)
  <2>1. U \subseteq S
    <3>1. PICK x \in T : U = {y \in S : <<y, x>> \in R}
      BY <1>2
    <3> QED
      BY <3>1
  <2> QED
    BY <2>1, FS_Subset
<1>5. PICK U \in C : \A V \in C : V \subseteq U => V = U
  BY <1>3, <1>4, SmallestSet
<1>6. PICK m \in T : U = {y \in S : <<y, m>> \in R}
  BY <1>2
<1>7. ASSUME NEW y \in S, <<y, m>> \in R PROVE FALSE
  <2>1. m \in S /\ y \in T
    BY <1>1, <1>7 DEF StrictOrder
  <2>2. PICK V : V = {z \in S : <<z, y>> \in R}
    OBVIOUS
  <2>3. V \in C
    BY <1>2, <2>1, <2>2
  <2>4. V \subseteq U
    BY <1>6, <1>7, <2>1, <2>2 DEF StrictOrder
  <2>5. y \in U /\ y \notin V
    BY <1>6, <1>7, <2>1, <2>2 DEF StrictOrder
  <2> QED
    BY <1>5, <2>3, <2>4, <2>5
<1> QED
  BY <1>1, <1>7

-----------------------------------------------------------------------------
(* What the searches share, for a setting s in place of the one being run. *)

DominatesIn(s, l, m) ==
  /\ \A k \in 1 .. s.axes : s.objective[l][k] <= s.objective[m][k]
  /\ \E k \in 1 .. s.axes : s.objective[l][k] < s.objective[m][k]

NoWorseIn(s, l, m) == \A k \in 1 .. s.axes : s.objective[l][k] <= s.objective[m][k]

FrontIn(s, S) == {l \in S : \A m \in S : ~DominatesIn(s, m, l)}

ChainsIn(s, S, l) ==
  {C \in SUBSET {m \in S : DominatesIn(s, m, l)} :
     \A p, q \in C : p = q \/ DominatesIn(s, p, q) \/ DominatesIn(s, q, p)}

RankIn(s, S, l) == Max({Cardinality(C) : C \in ChainsIn(s, S, l)})

PointsIn(s, S) == {s.objective[l] : l \in S}

MembersIn(s, pop) == {l \in s.layouts : pop[l] > 0}

CopiesIn(s, pop) == UNION {{l} \X (1 .. pop[l]) : l \in s.layouts}

CountIn(s, pop) == Cardinality(CopiesIn(s, pop))

TogetherIn(s, pop, others) == [l \in s.layouts |-> pop[l] + others[l]]

PartIn(s, pop, S) == [l \in s.layouts |-> IF l \in S THEN pop[l] ELSE 0]

PopulationsIn(s, S, n) ==
  {pop \in [s.layouts -> 0 .. n] : MembersIn(s, pop) \subseteq S /\ CountIn(s, pop) = n}

SamplesIn(s, pop, n) ==
  {kept \in [s.layouts -> 0 .. n] :
     (\A l \in s.layouts : kept[l] <= pop[l]) /\ CountIn(s, kept) = n}

RankClosedIn(s, pop) ==
  LET rank == [l \in MembersIn(s, pop) |-> RankIn(s, MembersIn(s, pop), l)]
  IN {kept \in SamplesIn(s, pop, s.size) :
        \A l \in MembersIn(s, pop), m \in MembersIn(s, kept) :
          rank[l] < rank[m] => kept[l] = pop[l]}

LeastIn(s, S, k) == {l \in S : \A m \in S : s.objective[l][k] <= s.objective[m][k]}

GreatestIn(s, S, k) == {l \in S : \A m \in S : s.objective[l][k] >= s.objective[m][k]}

CrowdedFirstIn(s, pop) ==
  LET rank == [l \in MembersIn(s, pop) |-> RankIn(s, MembersIn(s, pop), l)]
      ends == 2 * Cardinality(1 .. s.axes)
      fronts == {{l \in MembersIn(s, pop) : rank[l] = n} :
                   n \in {rank[l] : l \in MembersIn(s, pop)}}
  IN {kept \in RankClosedIn(s, pop) :
        \A front \in fronts : CountIn(s, PartIn(s, kept, front)) >= ends =>
          \A k \in 1 .. s.axes : /\ LeastIn(s, front, k) \cap MembersIn(s, kept) # {}
                                 /\ GreatestIn(s, front, k) \cap MembersIn(s, kept) # {}}

OutgrownIn(s, pop) == CountIn(s, PartIn(s, pop, FrontIn(s, MembersIn(s, pop)))) > s.size

-----------------------------------------------------------------------------
(* Dominance.                                                              *)

\* Objectives are natural numbers.
LEMMA ObjectiveTypes ==
  ASSUME NEW s, ParetoSetting(s), NEW l \in s.layouts
  PROVE  /\ s.objective[l] \in [1 .. s.axes -> Nat]
         /\ \A k \in 1 .. s.axes : s.objective[l][k] \in Nat
BY DEF ParetoSetting

\* Dominance is a strict order.
LEMMA DominanceOrders ==
  ASSUME NEW s, ParetoSetting(s)
  PROVE  /\ \A l \in s.layouts : ~DominatesIn(s, l, l)
         /\ \A l, m, o \in s.layouts :
              DominatesIn(s, l, m) /\ DominatesIn(s, m, o) => DominatesIn(s, l, o)
<1>1. \A l \in s.layouts : ~DominatesIn(s, l, l)
  BY ObjectiveTypes DEF DominatesIn
<1>2. ASSUME NEW l \in s.layouts, NEW m \in s.layouts, NEW o \in s.layouts,
             DominatesIn(s, l, m), DominatesIn(s, m, o)
      PROVE  DominatesIn(s, l, o)
  <2>1. ASSUME NEW k \in 1 .. s.axes
        PROVE  /\ s.objective[l][k] \in Nat /\ s.objective[m][k] \in Nat
               /\ s.objective[o][k] \in Nat
               /\ s.objective[l][k] <= s.objective[m][k]
               /\ s.objective[m][k] <= s.objective[o][k]
    BY <1>2, ObjectiveTypes DEF DominatesIn
  <2>2. PICK k \in 1 .. s.axes : s.objective[l][k] < s.objective[m][k]
    BY <1>2 DEF DominatesIn
  <2>3. s.objective[l][k] < s.objective[o][k]
    BY <2>1, <2>2
  <2>4. \A j \in 1 .. s.axes : s.objective[l][j] <= s.objective[o][j]
    BY <2>1
  <2> QED
    BY <2>3, <2>4 DEF DominatesIn
<1> QED
  BY <1>1, <1>2

\* Some layout on the first front is no worse than a given one.
LEMMA FrontBelow ==
  ASSUME NEW s, ParetoSetting(s), NEW S \in SUBSET s.layouts, NEW l \in S
  PROVE  \E m \in FrontIn(s, S) : NoWorseIn(s, m, l)
<1>1. IsFiniteSet(S)
  BY FS_Subset DEF ParetoSetting
<1>2. PICK R : R = {p \in S \X S : DominatesIn(s, p[1], p[2])}
  OBVIOUS
<1>3. \A x, y \in S : <<x, y>> \in R <=> DominatesIn(s, x, y)
  BY <1>2
<1>4. StrictOrder(R, S)
  BY <1>3, DominanceOrders DEF StrictOrder
<1>5. PICK m \in S : (m = l \/ <<m, l>> \in R) /\ \A y \in S : <<y, m>> \notin R
  BY <1>1, <1>4, MinimalBelow
<1>6. m \in FrontIn(s, S)
  BY <1>3, <1>5 DEF FrontIn
<1>7. NoWorseIn(s, m, l)
  <2>1. CASE m = l
    <3>1. \A k \in 1 .. s.axes : s.objective[l][k] \in Nat
      BY ObjectiveTypes
    <3> QED
      BY <2>1, <3>1 DEF NoWorseIn
  <2>2. CASE <<m, l>> \in R
    BY <1>3, <2>2 DEF DominatesIn, NoWorseIn
  <2> QED
    BY <1>5, <2>1, <2>2
<1> QED
  BY <1>6, <1>7

\* The rank of a layout counts what is above it: it is 0 on the first front only.
LEMMA RankOnFront ==
  ASSUME NEW s, ParetoSetting(s), NEW S \in SUBSET s.layouts, NEW l \in S
  PROVE  /\ RankIn(s, S, l) \in Nat
         /\ RankIn(s, S, l) = 0 <=> l \in FrontIn(s, S)
<1>1. PICK above : above = {m \in S : DominatesIn(s, m, l)}
  OBVIOUS
<1>2. IsFiniteSet(S) /\ IsFiniteSet(above)
  BY <1>1, FS_Subset DEF ParetoSetting
<1>3. PICK numbers : numbers = {Cardinality(C) : C \in ChainsIn(s, S, l)}
  OBVIOUS
<1>4. \A C \in ChainsIn(s, S, l) : C \subseteq above
  BY <1>1 DEF ChainsIn
<1>5. ASSUME NEW C \in ChainsIn(s, S, l)
      PROVE  IsFiniteSet(C) /\ Cardinality(C) \in 0 .. Cardinality(above)
  <2>1. C \subseteq above
    BY <1>4
  <2>2. IsFiniteSet(C) /\ Cardinality(C) <= Cardinality(above)
    BY <1>2, <2>1, FS_Subset
  <2> QED
    BY <1>2, <2>2, FS_CardinalityType
<1>6. numbers \subseteq 0 .. Cardinality(above) /\ Cardinality(above) \in Nat
  BY <1>2, <1>3, <1>5, FS_CardinalityType
<1>7. {} \in ChainsIn(s, S, l) /\ 0 \in numbers
  <2>1. {} \in ChainsIn(s, S, l)
    BY DEF ChainsIn
  <2> QED
    BY <1>3, <2>1, FS_EmptySet
<1>8. Max(numbers) \in numbers /\ \A n \in numbers : n <= Max(numbers)
  <2>1. IsFiniteSet(numbers)
    <3>1. IsFiniteSet(0 .. Cardinality(above))
      BY <1>6, FS_Interval
    <3> QED
      BY <1>6, <3>1, FS_Subset
  <2>2. numbers \in SUBSET Int /\ numbers # {}
    BY <1>6, <1>7
  <2> QED
    BY <2>1, <2>2, MaxSound
<1>9. PICK rank : rank = RankIn(s, S, l) /\ rank = Max(numbers)
  BY <1>3 DEF RankIn
<1>10. rank \in numbers /\ \A n \in numbers : n <= rank
  BY <1>8, <1>9
<1>11. rank \in Nat /\ rank <= Cardinality(above)
  BY <1>6, <1>10
<1>12. ASSUME l \in FrontIn(s, S) PROVE rank = 0
  <2>1. above = {}
    BY <1>1, <1>12 DEF FrontIn
  <2>2. Cardinality(above) = 0
    BY <2>1, FS_EmptySet
  <2> QED
    BY <1>11, <2>2
<1>13. ASSUME l \notin FrontIn(s, S) PROVE rank > 0
  <2>1. PICK m \in S : DominatesIn(s, m, l)
    BY <1>13 DEF FrontIn
  <2>2. {m} \in ChainsIn(s, S, l)
    BY <2>1 DEF ChainsIn
  <2>3. Cardinality({m}) = 1
    BY FS_Singleton
  <2>4. 1 \in numbers
    BY <1>3, <2>2, <2>3
  <2> QED
    BY <1>10, <1>11, <2>4
<1> QED
  BY <1>9, <1>11, <1>12, <1>13

-----------------------------------------------------------------------------
(* Fronts as sets of points.                                               *)

\* Objective vectors with n axes.
VectorsOf(n) == [1 .. n -> Nat]

\* The points of a set are vectors.
LEMMA PointTypes ==
  ASSUME NEW s, ParetoSetting(s), NEW S \in SUBSET s.layouts
  PROVE  PointsIn(s, S) \subseteq VectorsOf(s.axes)
BY ObjectiveTypes DEF PointsIn, VectorsOf

\* Below, for vectors of one length.
LEMMA BelowMeans ==
  ASSUME NEW n \in Nat, NEW p \in VectorsOf(n), NEW q \in VectorsOf(n)
  PROVE  /\ FS!Below(p, q) <=> p # q /\ \A k \in 1 .. n : p[k] <= q[k]
         /\ FS!Below(p, q) <=> (\A k \in 1 .. n : p[k] <= q[k]) /\ \E k \in 1 .. n : p[k] < q[k]
<1>1. DOMAIN p = 1 .. n /\ \A k \in 1 .. n : p[k] \in Nat /\ q[k] \in Nat
  BY DEF VectorsOf
<1>2. FS!Below(p, q) <=> p # q /\ \A k \in 1 .. n : p[k] <= q[k]
  BY <1>1 DEF FS!Below
<1>3. ASSUME p # q, \A k \in 1 .. n : p[k] <= q[k]
      PROVE  \E k \in 1 .. n : p[k] < q[k]
  <2>1. PICK k \in 1 .. n : p[k] # q[k]
    BY <1>3 DEF VectorsOf
  <2> QED
    BY <1>1, <1>3, <2>1
<1>4. ASSUME NEW k \in 1 .. n, p[k] < q[k] PROVE p # q
  BY <1>1, <1>4
<1> QED
  BY <1>2, <1>3, <1>4

\* What covers a set of points has its minima: each of the set is no better than some of
\* the part.
LEMMA SameMinimal ==
  ASSUME NEW n \in Nat, NEW E \in SUBSET VectorsOf(n), NEW P \in SUBSET E,
         \A e \in E : \E p \in P : \A k \in 1 .. n : p[k] <= e[k]
  PROVE  FS!Minimal(P) = FS!Minimal(E)
<1>1. ASSUME NEW q \in FS!Minimal(P) PROVE q \in FS!Minimal(E)
  <2>1. q \in P /\ q \in E /\ q \in VectorsOf(n)
    BY <1>1 DEF FS!Minimal
  <2>2. ASSUME NEW e \in E, FS!Below(e, q) PROVE FALSE
    <3>1. PICK p \in P : \A k \in 1 .. n : p[k] <= e[k]
      OBVIOUS
    <3>2. p \in VectorsOf(n) /\ e \in VectorsOf(n)
      OBVIOUS
    <3>3. \A k \in 1 .. n : p[k] \in Nat /\ e[k] \in Nat /\ q[k] \in Nat
      BY <2>1, <3>2 DEF VectorsOf
    <3>4. \A k \in 1 .. n : e[k] <= q[k]
      BY <2>1, <2>2, <3>2, BelowMeans
    <3>5. PICK k \in 1 .. n : e[k] < q[k]
      BY <2>1, <2>2, <3>2, BelowMeans
    <3>6. \A j \in 1 .. n : p[j] <= q[j]
      BY <3>1, <3>3, <3>4
    <3>7. p[k] < q[k]
      BY <3>1, <3>3, <3>5
    <3>8. FS!Below(p, q)
      BY <2>1, <3>2, <3>6, <3>7, BelowMeans
    <3> QED
      BY <1>1, <3>8 DEF FS!Minimal
  <2> QED
    BY <2>1, <2>2 DEF FS!Minimal
<1>2. ASSUME NEW q \in FS!Minimal(E) PROVE q \in FS!Minimal(P)
  <2>1. q \in E /\ q \in VectorsOf(n)
    BY <1>2 DEF FS!Minimal
  <2>2. PICK p \in P : \A k \in 1 .. n : p[k] <= q[k]
    BY <2>1
  <2>3. p \in VectorsOf(n) /\ p \in E
    OBVIOUS
  <2>4. p = q
    BY <1>2, <2>1, <2>2, <2>3, BelowMeans DEF FS!Minimal
  <2> QED
    BY <1>2, <2>4 DEF FS!Minimal
<1> QED
  BY <1>1, <1>2

\* A part of a set without points below each other is one.
LEMMA PartOfMinimal ==
  ASSUME NEW P, NEW Q \in SUBSET FS!Minimal(P)
  PROVE  FS!Minimal(Q) = Q
BY DEF FS!Minimal

\* Dominance is Below of the points.
LEMMA DominatesBelow ==
  ASSUME NEW s, ParetoSetting(s), NEW l \in s.layouts, NEW m \in s.layouts
  PROVE  DominatesIn(s, l, m) <=> FS!Below(s.objective[l], s.objective[m])
<1>1. s.axes \in Nat
  BY DEF ParetoSetting
<1>2. s.objective[l] \in VectorsOf(s.axes) /\ s.objective[m] \in VectorsOf(s.axes)
  BY ObjectiveTypes DEF VectorsOf
<1> QED
  BY <1>1, <1>2, BelowMeans DEF DominatesIn

\* The points of the first front are the minimal points.
LEMMA FrontPoints ==
  ASSUME NEW s, ParetoSetting(s), NEW S \in SUBSET s.layouts
  PROVE  PointsIn(s, FrontIn(s, S)) = FS!Minimal(PointsIn(s, S))
<1>1. \A l, m \in S : DominatesIn(s, l, m) <=> FS!Below(s.objective[l], s.objective[m])
  BY DominatesBelow
<1>2. ASSUME NEW l \in FrontIn(s, S) PROVE s.objective[l] \in FS!Minimal(PointsIn(s, S))
  BY <1>1, <1>2 DEF FrontIn, FS!Minimal, PointsIn
<1>3. ASSUME NEW q \in FS!Minimal(PointsIn(s, S)) PROVE q \in PointsIn(s, FrontIn(s, S))
  <2>1. PICK l \in S : q = s.objective[l]
    BY <1>3 DEF FS!Minimal, PointsIn
  <2>2. \A m \in S : ~FS!Below(s.objective[m], q)
    BY <1>3 DEF FS!Minimal, PointsIn
  <2>3. l \in FrontIn(s, S)
    BY <1>1, <2>1, <2>2 DEF FrontIn
  <2> QED
    BY <2>1, <2>3 DEF PointsIn
<1> QED
  BY <1>2, <1>3 DEF PointsIn

\* Every layout of a set has one in a part of it that is no worse.
CoversIn(s, H, E) == \A e \in E : \E h \in H : NoWorseIn(s, h, e)

\* No worse is transitive.
LEMMA NoWorseOrders ==
  ASSUME NEW s, ParetoSetting(s)
  PROVE  /\ \A l \in s.layouts : NoWorseIn(s, l, l)
         /\ \A l, m, o \in s.layouts :
              NoWorseIn(s, l, m) /\ NoWorseIn(s, m, o) => NoWorseIn(s, l, o)
<1>1. \A l \in s.layouts : \A k \in 1 .. s.axes : s.objective[l][k] \in Nat
  BY ObjectiveTypes
<1> QED
  BY <1>1 DEF NoWorseIn

\* A part that covers a set has the first front of it.
LEMMA CoveredFront ==
  ASSUME NEW s, ParetoSetting(s), NEW E \in SUBSET s.layouts, NEW H \in SUBSET E,
         CoversIn(s, H, E)
  PROVE  PointsIn(s, FrontIn(s, H)) = FS!Minimal(PointsIn(s, E))
<1>1. s.axes \in Nat
  BY DEF ParetoSetting
<1>2. PointsIn(s, E) \subseteq VectorsOf(s.axes)
  BY PointTypes
<1>3. PointsIn(s, H) \subseteq PointsIn(s, E)
  BY DEF PointsIn
<1>4. \A e \in PointsIn(s, E) : \E p \in PointsIn(s, H) :
        \A k \in 1 .. s.axes : p[k] <= e[k]
  BY DEF PointsIn, CoversIn, NoWorseIn
<1>5. FS!Minimal(PointsIn(s, H)) = FS!Minimal(PointsIn(s, E))
  BY <1>1, <1>2, <1>3, <1>4, SameMinimal
<1> QED
  BY <1>5, FrontPoints

\* What covers a set and covers another covers both.
LEMMA CoversBoth ==
  ASSUME NEW s, ParetoSetting(s), NEW H \in SUBSET s.layouts, NEW G \in SUBSET s.layouts,
         NEW E \in SUBSET s.layouts, CoversIn(s, H, G), CoversIn(s, G, E)
  PROVE  CoversIn(s, H, E)
<1> SUFFICES ASSUME NEW e \in E PROVE \E h \in H : NoWorseIn(s, h, e)
  BY DEF CoversIn
<1>1. PICK g \in G : NoWorseIn(s, g, e)
  BY DEF CoversIn
<1>2. PICK h \in H : NoWorseIn(s, h, g)
  BY DEF CoversIn
<1> QED
  BY <1>1, <1>2, NoWorseOrders

\* A population and others together cover what the population covered, and the others.
LEMMA BothCover ==
  ASSUME NEW s, ParetoSetting(s), NEW H \in SUBSET s.layouts, NEW G \in SUBSET s.layouts,
         NEW E, CoversIn(s, H, E), NEW both, both = H \cup G
  PROVE  CoversIn(s, both, E \cup G)
<1> SUFFICES ASSUME NEW e \in E \cup G PROVE \E h \in both : NoWorseIn(s, h, e)
  BY DEF CoversIn
<1>1. CASE e \in E
  BY <1>1 DEF CoversIn
<1>2. CASE e \in G
  BY <1>2, NoWorseOrders
<1> QED
  BY <1>1, <1>2

\* The first front of a set covers it.
LEMMA FrontCovers ==
  ASSUME NEW s, ParetoSetting(s), NEW S \in SUBSET s.layouts,
         NEW H \in SUBSET S, FrontIn(s, S) \subseteq H
  PROVE  CoversIn(s, H, S)
BY FrontBelow DEF CoversIn

-----------------------------------------------------------------------------
(* Populations.                                                            *)

\* The image of a finite set under a function is finite.
LEMMA FiniteImage ==
  ASSUME NEW S, IsFiniteSet(S), NEW f, DOMAIN f = S
  PROVE  IsFiniteSet({f[x] : x \in S})
<1>1. PICK T : T = {f[x] : x \in S}
  OBVIOUS
<1>2. PICK g : g = [x \in S |-> f[x]]
  OBVIOUS
<1>3. g \in Surjection(S, T)
  BY <1>1, <1>2 DEF Surjection
<1>4. IsFiniteSet(T)
  BY <1>3, FS_Surjection
<1> QED
  BY <1>1, <1>4

\* A layout of a population counts as often as it occurs.
LEMMA CopiesFinite ==
  ASSUME NEW s, ParetoSetting(s), NEW pop \in [s.layouts -> Nat]
  PROVE  /\ IsFiniteSet(CopiesIn(s, pop))
         /\ CountIn(s, pop) \in Nat
         /\ \A x : x \in CopiesIn(s, pop) <=>
              \E l \in s.layouts : \E i \in 1 .. pop[l] : x = <<l, i>>
<1>1. PICK f : f = [l \in s.layouts |-> {l} \X (1 .. pop[l])]
  OBVIOUS
<1>2. PICK C : C = {f[l] : l \in s.layouts}
  OBVIOUS
<1>3. IsFiniteSet(C)
  <2>1. DOMAIN f = s.layouts /\ IsFiniteSet(s.layouts)
    BY <1>1 DEF ParetoSetting
  <2> QED
    BY <1>2, <2>1, FiniteImage
<1>4. ASSUME NEW U \in C PROVE IsFiniteSet(U)
  <2>1. PICK l \in s.layouts : U = {l} \X (1 .. pop[l])
    BY <1>1, <1>2
  <2>2. IsFiniteSet({l}) /\ IsFiniteSet(1 .. pop[l])
    <3>1. pop[l] \in Int /\ 1 \in Int
      OBVIOUS
    <3>2. IsFiniteSet(1 .. pop[l])
      BY <3>1, FS_Interval
    <3> QED
      BY <3>2, FS_Singleton
  <2> QED
    BY <2>1, <2>2, FS_Product
<1>5. CopiesIn(s, pop) = UNION C
  BY <1>1, <1>2 DEF CopiesIn
<1>6. IsFiniteSet(CopiesIn(s, pop))
  BY <1>3, <1>4, <1>5, FS_UNION
<1> QED
  BY <1>6, FS_CardinalityType DEF CountIn, CopiesIn

\* A population with no more of any layout has no more copies, and fewer if it has fewer
\* of one.
LEMMA FewerCopies ==
  ASSUME NEW s, ParetoSetting(s), NEW pop \in [s.layouts -> Nat],
         NEW kept \in [s.layouts -> Nat], \A l \in s.layouts : kept[l] <= pop[l]
  PROVE  /\ CountIn(s, kept) <= CountIn(s, pop)
         /\ \A l \in s.layouts : kept[l] < pop[l] => CountIn(s, kept) < CountIn(s, pop)
<1>1. CopiesIn(s, kept) \subseteq CopiesIn(s, pop)
  <2>1. ASSUME NEW x \in CopiesIn(s, kept) PROVE x \in CopiesIn(s, pop)
    <3>1. PICK l \in s.layouts : \E i \in 1 .. kept[l] : x = <<l, i>>
      BY CopiesFinite
    <3>2. PICK i \in 1 .. kept[l] : x = <<l, i>>
      BY <3>1
    <3>3. i \in 1 .. pop[l]
      BY <3>2
    <3> QED
      BY <3>2, <3>3, CopiesFinite
  <2> QED
    BY <2>1
<1>2. IsFiniteSet(CopiesIn(s, pop))
  BY CopiesFinite
<1>3. CountIn(s, kept) <= CountIn(s, pop)
  BY <1>1, <1>2, FS_Subset DEF CountIn
<1>4. ASSUME NEW l \in s.layouts, kept[l] < pop[l]
      PROVE  CountIn(s, kept) < CountIn(s, pop)
  <2>1. <<l, pop[l]>> \in CopiesIn(s, pop)
    <3>1. pop[l] \in 1 .. pop[l]
      BY <1>4
    <3> QED
      BY <3>1, CopiesFinite
  <2>2. <<l, pop[l]>> \notin CopiesIn(s, kept)
    <3>1. \A i \in 1 .. kept[l] : i # pop[l]
      BY <1>4
    <3> QED
      BY <3>1, CopiesFinite
  <2>3. CopiesIn(s, kept) # CopiesIn(s, pop)
    BY <2>1, <2>2
  <2>4. CountIn(s, kept) # CountIn(s, pop)
    BY <1>1, <1>2, <2>3, FS_Subset DEF CountIn
  <2>5. CountIn(s, kept) \in Nat /\ CountIn(s, pop) \in Nat
    BY CopiesFinite
  <2> QED
    BY <1>3, <2>4, <2>5
<1> QED
  BY <1>3, <1>4

\* A population that counts something has a member.
LEMMA CountedMembers ==
  ASSUME NEW s, ParetoSetting(s), NEW pop \in [s.layouts -> Nat]
  PROVE  CountIn(s, pop) > 0 <=> MembersIn(s, pop) # {}
<1>1. ASSUME NEW l \in MembersIn(s, pop) PROVE CountIn(s, pop) > 0
  <2>1. l \in s.layouts /\ pop[l] > 0
    BY <1>1 DEF MembersIn
  <2>2. 1 \in 1 .. pop[l]
    BY <2>1
  <2>3. <<l, 1>> \in CopiesIn(s, pop)
    BY <2>1, <2>2, CopiesFinite
  <2>4. CountIn(s, pop) # 0
    BY <2>3, CopiesFinite, FS_EmptySet DEF CountIn
  <2> QED
    BY <2>4, CopiesFinite
<1>2. ASSUME CountIn(s, pop) > 0 PROVE MembersIn(s, pop) # {}
  <2>1. CopiesIn(s, pop) # {}
    BY <1>2, FS_EmptySet DEF CountIn
  <2>2. PICK x : x \in CopiesIn(s, pop)
    BY <2>1
  <2>3. PICK l \in s.layouts : \E i \in 1 .. pop[l] : x = <<l, i>>
    BY <2>2, CopiesFinite
  <2>4. pop[l] > 0
    BY <2>3
  <2> QED
    BY <2>4 DEF MembersIn
<1> QED
  BY <1>1, <1>2

\* Two populations together have the members of both.
LEMMA MembersTogether ==
  ASSUME NEW s, NEW pop \in [s.layouts -> Nat], NEW others \in [s.layouts -> Nat]
  PROVE  /\ TogetherIn(s, pop, others) \in [s.layouts -> Nat]
         /\ MembersIn(s, TogetherIn(s, pop, others)) =
              MembersIn(s, pop) \cup MembersIn(s, others)
<1>1. TogetherIn(s, pop, others) \in [s.layouts -> Nat]
  BY DEF TogetherIn
<1>2. \A l \in s.layouts : TogetherIn(s, pop, others)[l] > 0 <=> pop[l] > 0 \/ others[l] > 0
  BY DEF TogetherIn
<1> QED
  BY <1>1, <1>2 DEF MembersIn

\* The copies of the layouts of a set.
LEMMA MembersOfPart ==
  ASSUME NEW s, NEW pop \in [s.layouts -> Nat], NEW S \in SUBSET MembersIn(s, pop)
  PROVE  /\ PartIn(s, pop, S) \in [s.layouts -> Nat]
         /\ MembersIn(s, PartIn(s, pop, S)) = S
<1>1. PartIn(s, pop, S) \in [s.layouts -> Nat]
  BY DEF PartIn
<1>2. \A l \in s.layouts : PartIn(s, pop, S)[l] > 0 <=> l \in S
  BY DEF PartIn, MembersIn
<1> QED
  BY <1>1, <1>2 DEF MembersIn

\* A sample has its size, and members of what it is taken from only.
LEMMA SampleSound ==
  ASSUME NEW s, ParetoSetting(s), NEW pop \in [s.layouts -> Nat], NEW n \in Nat \ {0},
         NEW kept \in SamplesIn(s, pop, n)
  PROVE  /\ kept \in [s.layouts -> Nat]
         /\ \A l \in s.layouts : kept[l] <= pop[l]
         /\ CountIn(s, kept) = n
         /\ MembersIn(s, kept) \subseteq MembersIn(s, pop)
         /\ MembersIn(s, kept) # {}
<1>1. kept \in [s.layouts -> 0 .. n] /\ CountIn(s, kept) = n
      /\ \A l \in s.layouts : kept[l] <= pop[l]
  BY DEF SamplesIn
<1>2. kept \in [s.layouts -> Nat]
  BY <1>1
<1>3. MembersIn(s, kept) \subseteq MembersIn(s, pop)
  BY <1>1, <1>2 DEF MembersIn
<1>4. MembersIn(s, kept) # {}
  BY <1>1, <1>2, CountedMembers
<1> QED
  BY <1>1, <1>2, <1>3, <1>4

-----------------------------------------------------------------------------
(* Survivors.                                                              *)

\* What is left by rank: of a front that is cut nothing behind it, so that a first front
\* with room for it survives, and one that is cut is all that survives.
LEMMA RankClosedSound ==
  ASSUME NEW s, ParetoSetting(s), NEW pop \in [s.layouts -> Nat],
         NEW kept \in RankClosedIn(s, pop)
  PROVE  /\ kept \in SamplesIn(s, pop, s.size)
         /\ kept \in [s.layouts -> Nat]
         /\ CountIn(s, kept) = s.size
         /\ MembersIn(s, kept) \subseteq MembersIn(s, pop)
         /\ MembersIn(s, kept) # {}
         /\ \/ \A l \in FrontIn(s, MembersIn(s, pop)) : kept[l] = pop[l]
            \/ MembersIn(s, kept) \subseteq FrontIn(s, MembersIn(s, pop))
<1>1. PICK S : S = MembersIn(s, pop)
  OBVIOUS
<1>2. PICK rank : rank = [l \in S |-> RankIn(s, S, l)]
  OBVIOUS
<1>3. /\ kept \in SamplesIn(s, pop, s.size)
      /\ \A l \in S, m \in MembersIn(s, kept) : rank[l] < rank[m] => kept[l] = pop[l]
  BY <1>1, <1>2 DEF RankClosedIn
<1>4. s.size \in Nat \ {0}
  BY DEF ParetoSetting
<1>5. /\ kept \in [s.layouts -> Nat]
      /\ CountIn(s, kept) = s.size
      /\ MembersIn(s, kept) \subseteq MembersIn(s, pop)
      /\ MembersIn(s, kept) # {}
  BY <1>3, <1>4, SampleSound
<1>6. S \in SUBSET s.layouts
  BY <1>1 DEF MembersIn
<1>7. \A l \in S : rank[l] \in Nat /\ (rank[l] = 0 <=> l \in FrontIn(s, S))
  <2>1. ASSUME NEW l \in S PROVE rank[l] \in Nat /\ (rank[l] = 0 <=> l \in FrontIn(s, S))
    <3>1. rank[l] = RankIn(s, S, l)
      BY <1>2
    <3> QED
      BY <1>6, <3>1, RankOnFront
  <2> QED
    BY <2>1
<1>8. ASSUME NEW m \in MembersIn(s, kept), m \notin FrontIn(s, S),
             NEW l \in FrontIn(s, S)
      PROVE  kept[l] = pop[l]
  <2>1. l \in S /\ m \in S
    BY <1>1, <1>5 DEF FrontIn
  <2>2. rank[l] = 0 /\ rank[m] > 0
    BY <1>7, <1>8, <2>1
  <2> QED
    BY <1>3, <2>1, <2>2
<1> QED
  BY <1>1, <1>3, <1>5, <1>8

\* A first front that has room survives whole.
LEMMA FrontSurvives ==
  ASSUME NEW s, ParetoSetting(s), NEW pop \in [s.layouts -> Nat],
         NEW kept \in RankClosedIn(s, pop), ~OutgrownIn(s, pop)
  PROVE  FrontIn(s, MembersIn(s, pop)) \subseteq MembersIn(s, kept)
<1>1. PICK F : F = FrontIn(s, MembersIn(s, pop))
  OBVIOUS
<1>2. PICK part : part = PartIn(s, pop, F)
  OBVIOUS
<1>3. F \in SUBSET MembersIn(s, pop)
  BY <1>1 DEF FrontIn
<1>4. part \in [s.layouts -> Nat] /\ CountIn(s, part) <= s.size
  <2>1. part \in [s.layouts -> Nat]
    BY <1>2, <1>3, MembersOfPart
  <2>2. CountIn(s, part) \in Nat /\ s.size \in Nat
    BY <2>1, CopiesFinite DEF ParetoSetting
  <2> QED
    BY <1>1, <1>2, <2>1, <2>2 DEF OutgrownIn
<1>5. /\ kept \in [s.layouts -> Nat] /\ CountIn(s, kept) = s.size
      /\ \A l \in s.layouts : kept[l] <= pop[l]
  <2>1. s.size \in Nat \ {0}
    BY DEF ParetoSetting
  <2> QED
    BY <2>1, RankClosedSound, SampleSound
<1>6. \A l \in F : kept[l] = pop[l]
  <2>1. SUFFICES ASSUME MembersIn(s, kept) \subseteq F, NEW l \in F, kept[l] # pop[l]
                 PROVE  FALSE
    BY <1>1, RankClosedSound
  <2>2. \A m \in s.layouts : kept[m] <= part[m]
    <3>1. ASSUME NEW m \in s.layouts PROVE kept[m] <= part[m]
      <4>1. CASE m \in F
        BY <1>2, <1>5, <4>1 DEF PartIn
      <4>2. CASE m \notin F
        <5>1. m \notin MembersIn(s, kept)
          BY <2>1, <4>2
        <5>2. kept[m] \in Nat /\ ~(kept[m] > 0)
          BY <1>5, <5>1 DEF MembersIn
        <5>3. part[m] = 0
          BY <1>2, <4>2 DEF PartIn
        <5> QED
          BY <5>2, <5>3
      <4> QED
        BY <4>1, <4>2
    <3> QED
      BY <3>1
  <2>3. l \in s.layouts /\ kept[l] < part[l]
    <3>1. l \in s.layouts
      BY <1>3 DEF MembersIn
    <3>2. part[l] = pop[l] /\ kept[l] <= pop[l] /\ kept[l] \in Nat /\ pop[l] \in Nat
      BY <1>2, <1>5, <3>1 DEF PartIn
    <3> QED
      BY <2>1, <3>1, <3>2
  <2>4. CountIn(s, kept) < CountIn(s, part)
    BY <1>4, <1>5, <2>2, <2>3, FewerCopies
  <2>5. CountIn(s, part) \in Nat /\ s.size \in Nat
    BY <1>4, CopiesFinite DEF ParetoSetting
  <2> QED
    BY <1>4, <1>5, <2>4, <2>5
<1>7. ASSUME NEW l \in F PROVE l \in MembersIn(s, kept)
  <2>1. l \in s.layouts /\ pop[l] > 0
    BY <1>3 DEF MembersIn
  <2> QED
    BY <1>6, <2>1 DEF MembersIn
<1> QED
  BY <1>1, <1>7

\* With room for both ends of a front on each axis, a layout with the least objective of
\* all survives on each.
LEMMA MinimaSurvive ==
  ASSUME NEW s, ParetoSetting(s), NEW pop \in [s.layouts -> Nat],
         NEW kept \in CrowdedFirstIn(s, pop), s.size >= 2 * Cardinality(1 .. s.axes),
         NEW k \in 1 .. s.axes
  PROVE  \E m \in MembersIn(s, kept) : \A l \in MembersIn(s, pop) :
           s.objective[m][k] <= s.objective[l][k]
<1>1. PICK S : S = MembersIn(s, pop)
  OBVIOUS
<1>2. PICK F : F = FrontIn(s, S)
  OBVIOUS
<1>3. PICK rank : rank = [l \in S |-> RankIn(s, S, l)]
  OBVIOUS
<1>4. S \in SUBSET s.layouts /\ F \subseteq S /\ s.axes \in Nat /\ s.size \in Nat \ {0}
  BY <1>1, <1>2 DEF MembersIn, FrontIn, ParetoSetting
<1>5. Cardinality(1 .. s.axes) = s.axes
  BY <1>4, FS_Interval
<1>6. kept \in RankClosedIn(s, pop)
  BY DEF CrowdedFirstIn
<1>7. /\ kept \in [s.layouts -> Nat] /\ CountIn(s, kept) = s.size
      /\ \A l \in s.layouts : kept[l] <= pop[l]
      /\ MembersIn(s, kept) \subseteq S /\ MembersIn(s, kept) # {}
  BY <1>1, <1>4, <1>6, RankClosedSound, SampleSound
<1>8. \A l, m \in s.layouts : s.objective[l][k] \in Nat /\ s.objective[m][k] \in Nat
  BY ObjectiveTypes
<1>9. ASSUME NEW h \in MembersIn(s, kept), \A l \in F : s.objective[h][k] <= s.objective[l][k]
      PROVE  \A l \in S : s.objective[h][k] <= s.objective[l][k]
  <2>1. ASSUME NEW l \in S PROVE s.objective[h][k] <= s.objective[l][k]
    <3>1. PICK m \in F : NoWorseIn(s, m, l)
      BY <1>2, <1>4, FrontBelow
    <3>2. s.objective[h][k] <= s.objective[m][k] /\ s.objective[m][k] <= s.objective[l][k]
      BY <1>9, <3>1 DEF NoWorseIn
    <3>3. h \in s.layouts /\ m \in s.layouts /\ l \in s.layouts
      BY <1>4, <1>7
    <3> QED
      BY <1>8, <3>2, <3>3
  <2> QED
    BY <2>1
<1>10. F = {l \in S : rank[l] = 0}
  <2>1. ASSUME NEW l \in S PROVE rank[l] = 0 <=> l \in F
    <3>1. rank[l] = RankIn(s, S, l)
      BY <1>3
    <3> QED
      BY <1>2, <1>4, <3>1, RankOnFront
  <2> QED
    BY <1>4, <2>1
<1>11. PICK part : part = PartIn(s, kept, F)
  OBVIOUS
<1>12. CASE CountIn(s, part) >= 2 * Cardinality(1 .. s.axes)
  <2>1. PICK f : f \in F
    <3>1. PICK l : l \in S
      BY <1>7
    <3> QED
      BY <1>2, <1>4, <3>1, FrontBelow
  <2>2. rank[f] = 0 /\ f \in S
    BY <1>10, <2>1
  <2>3. F \in {{l \in S : rank[l] = n} : n \in {rank[l] : l \in S}}
    BY <1>10, <2>2
  <2>4. LeastIn(s, F, k) \cap MembersIn(s, kept) # {}
    BY <1>1, <1>3, <1>11, <1>12, <2>3 DEF CrowdedFirstIn
  <2>5. PICK h \in MembersIn(s, kept) : \A l \in F : s.objective[h][k] <= s.objective[l][k]
    BY <2>4 DEF LeastIn
  <2> QED
    BY <1>1, <1>9, <2>5
<1>13. CASE ~(CountIn(s, part) >= 2 * Cardinality(1 .. s.axes))
  <2>1. ~(MembersIn(s, kept) \subseteq F)
    <3>1. SUFFICES ASSUME MembersIn(s, kept) \subseteq F PROVE FALSE
      OBVIOUS
    <3>2. part \in [s.layouts -> Nat]
      BY <1>7, <1>11 DEF PartIn
    <3>3. \A l \in s.layouts : kept[l] <= part[l]
      <4>1. ASSUME NEW l \in s.layouts PROVE kept[l] <= part[l]
        <5>1. CASE l \in F
          BY <1>7, <1>11, <5>1 DEF PartIn
        <5>2. CASE l \notin F
          <6>1. kept[l] \in Nat /\ ~(kept[l] > 0)
            BY <1>7, <3>1, <5>2 DEF MembersIn
          <6>2. part[l] = 0
            BY <1>11, <5>2 DEF PartIn
          <6> QED
            BY <6>1, <6>2
        <5> QED
          BY <5>1, <5>2
      <4> QED
        BY <4>1
    <3>4. CountIn(s, kept) <= CountIn(s, part)
      BY <1>7, <3>2, <3>3, FewerCopies
    <3>5. CountIn(s, part) \in Nat
      BY <3>2, CopiesFinite
    <3> QED
      BY <1>4, <1>5, <1>7, <1>13, <3>4, <3>5
  <2>2. \A l \in F : kept[l] = pop[l]
    BY <1>1, <1>2, <1>6, <2>1, RankClosedSound
  <2>3. F \subseteq MembersIn(s, kept)
    <3>1. ASSUME NEW l \in F PROVE l \in MembersIn(s, kept)
      <4>1. l \in s.layouts /\ pop[l] > 0
        BY <1>1, <1>4 DEF MembersIn
      <4> QED
        BY <2>2, <4>1 DEF MembersIn
    <3> QED
      BY <3>1
  <2>4. PICK T : T = {s.objective[l][k] : l \in F}
    OBVIOUS
  <2>5. T \in SUBSET Nat /\ T # {}
    <3>1. PICK l : l \in S
      BY <1>7
    <3>2. F # {}
      BY <1>2, <1>4, <3>1, FrontBelow
    <3>3. \A v \in T : v \in Nat
      BY <1>4, <1>8, <2>4
    <3>4. T # {}
      BY <2>4, <3>2
    <3> QED
      BY <3>3, <3>4
  <2>6. PICK v \in T : \A w \in T : v <= w
    BY <2>5, LeastNumber
  <2>7. PICK h \in F : v = s.objective[h][k]
    BY <2>4
  <2>8. \A l \in F : s.objective[h][k] <= s.objective[l][k]
    BY <2>4, <2>6, <2>7
  <2> QED
    BY <1>1, <1>9, <2>3, <2>8
<1> QED
  BY <1>12, <1>13

\* On every axis a member of H is as good as any of E.
MinimaIn(s, H, E) ==
  \A k \in 1 .. s.axes : \E m \in H : \A l \in E : s.objective[m][k] <= s.objective[l][k]

\* What a population knows of the layouts of E that were evaluated: as long as no front was
\* cut, one that is no worse than each.
Knows(s, pop, E, cut) ==
  /\ pop \in [s.layouts -> Nat]
  /\ E \in SUBSET s.layouts
  /\ MembersIn(s, pop) \subseteq E
  /\ cut \in BOOLEAN
  /\ ~cut => CoversIn(s, MembersIn(s, pop), E)

\* A population and a batch together.
Joined(s, pop, others, both) ==
  others \in [s.layouts -> Nat] /\ both = TogetherIn(s, pop, others)

\* What a population knows, its survivors know after a batch.
LEMMA SurvivalSound ==
  ASSUME NEW s, ParetoSetting(s), NEW pop, NEW E, NEW cut, Knows(s, pop, E, cut),
         NEW others, NEW both, Joined(s, pop, others, both),
         NEW kept \in RankClosedIn(s, both)
  PROVE  /\ Knows(s, kept, E \cup MembersIn(s, others), cut \/ OutgrownIn(s, both))
         /\ CountIn(s, kept) = s.size
         /\ MembersIn(s, kept) # {}
<1> USE DEF Knows, Joined
<1>1. both = TogetherIn(s, pop, others)
  OBVIOUS
<1>2. /\ both \in [s.layouts -> Nat]
      /\ MembersIn(s, both) = MembersIn(s, pop) \cup MembersIn(s, others)
  BY <1>1, MembersTogether
<1>3. /\ kept \in [s.layouts -> Nat] /\ CountIn(s, kept) = s.size
      /\ MembersIn(s, kept) \subseteq MembersIn(s, both) /\ MembersIn(s, kept) # {}
  BY <1>1, <1>2, RankClosedSound
<1>4. PICK F : F = E \cup MembersIn(s, others)
  OBVIOUS
<1>5. MembersIn(s, kept) \subseteq F /\ F \in SUBSET s.layouts
  BY <1>2, <1>3, <1>4 DEF MembersIn
<1>6. ASSUME ~cut, ~OutgrownIn(s, both) PROVE CoversIn(s, MembersIn(s, kept), F)
  <2>1. MembersIn(s, both) \in SUBSET s.layouts /\ MembersIn(s, kept) \in SUBSET s.layouts
    BY DEF MembersIn
  <2>2. FrontIn(s, MembersIn(s, both)) \subseteq MembersIn(s, kept)
    BY <1>1, <1>2, <1>6, FrontSurvives
  <2>3. CoversIn(s, MembersIn(s, kept), MembersIn(s, both))
    BY <1>3, <2>1, <2>2, FrontCovers
  <2>4. CoversIn(s, MembersIn(s, both), F)
    <3>1. MembersIn(s, pop) \in SUBSET s.layouts /\ MembersIn(s, others) \in SUBSET s.layouts
      BY DEF MembersIn
    <3> QED
      BY <1>2, <1>4, <1>6, <3>1, BothCover
  <2> QED
    BY <1>5, <2>1, <2>3, <2>4, CoversBoth
<1>7. (cut \/ OutgrownIn(s, both)) \in BOOLEAN
  BY DEF OutgrownIn
<1> QED
  BY <1>1, <1>3, <1>4, <1>5, <1>6, <1>7

\* So they do of the minima.
LEMMA MinimaGoOn ==
  ASSUME NEW s, ParetoSetting(s), NEW pop \in [s.layouts -> Nat],
         NEW others \in [s.layouts -> Nat], NEW E \in SUBSET s.layouts,
         E = {} \/ MinimaIn(s, MembersIn(s, pop), E), MembersIn(s, pop) \subseteq E,
         s.size >= 2 * Cardinality(1 .. s.axes),
         NEW kept \in CrowdedFirstIn(s, TogetherIn(s, pop, others))
  PROVE  MinimaIn(s, MembersIn(s, kept), E \cup MembersIn(s, others))
<1>1. PICK both : both = TogetherIn(s, pop, others)
  OBVIOUS
<1>2. /\ both \in [s.layouts -> Nat]
      /\ MembersIn(s, both) = MembersIn(s, pop) \cup MembersIn(s, others)
  BY <1>1, MembersTogether
<1>3. SUFFICES ASSUME NEW k \in 1 .. s.axes
               PROVE  \E m \in MembersIn(s, kept) : \A l \in E \cup MembersIn(s, others) :
                        s.objective[m][k] <= s.objective[l][k]
  BY DEF MinimaIn
<1>4. PICK m \in MembersIn(s, kept) : \A l \in MembersIn(s, both) :
        s.objective[m][k] <= s.objective[l][k]
  BY <1>1, <1>2, MinimaSurvive
<1>5. \A l \in s.layouts : s.objective[l][k] \in Nat
  BY ObjectiveTypes
<1>6. ASSUME NEW l \in E PROVE s.objective[m][k] <= s.objective[l][k]
  <2>1. PICK o \in MembersIn(s, pop) : s.objective[o][k] <= s.objective[l][k]
    BY DEF MinimaIn
  <2>2. s.objective[m][k] <= s.objective[o][k]
    BY <1>2, <1>4
  <2>3. m \in s.layouts /\ o \in s.layouts /\ l \in s.layouts
    BY DEF MembersIn
  <2> QED
    BY <1>5, <2>1, <2>2, <2>3
<1> QED
  BY <1>2, <1>4, <1>6

\* The corners of a set of points.
MinIn(s, P) == [k \in 1 .. s.axes |-> Min({p[k] : p \in P})]

MaxIn(s, P) == [k \in 1 .. s.axes |-> Max({p[k] : p \in P})]

\* The points of a set of layouts are finitely many.
LEMMA PointsFinite ==
  ASSUME NEW s, ParetoSetting(s), NEW S \in SUBSET s.layouts
  PROVE  IsFiniteSet(PointsIn(s, S))
<1>1. PICK f : f = [l \in S |-> s.objective[l]]
  OBVIOUS
<1>2. IsFiniteSet(S)
  BY FS_Subset DEF ParetoSetting
<1>3. IsFiniteSet({f[l] : l \in S})
  BY <1>1, <1>2, FiniteImage
<1>4. PointsIn(s, S) = {f[l] : l \in S}
  BY <1>1 DEF PointsIn
<1> QED
  BY <1>3, <1>4

\* Some minimal point is no worse than a given one.
LEMMA MinimalPoint ==
  ASSUME NEW n \in Nat, NEW P \in SUBSET VectorsOf(n), IsFiniteSet(P), NEW p \in P
  PROVE  \E q \in FS!Minimal(P) : \A k \in 1 .. n : q[k] <= p[k]
<1>1. PICK R : R = {x \in P \X P : FS!Below(x[1], x[2])}
  OBVIOUS
<1>2. \A x, y \in P : <<x, y>> \in R <=> FS!Below(x, y)
  BY <1>1
<1>3. \A x \in P : ~FS!Below(x, x)
  BY DEF FS!Below
<1>4. ASSUME NEW x \in P, NEW y \in P, NEW z \in P, FS!Below(x, y), FS!Below(y, z)
      PROVE  FS!Below(x, z)
  <2>1. x \in VectorsOf(n) /\ y \in VectorsOf(n) /\ z \in VectorsOf(n)
    OBVIOUS
  <2>2. \A k \in 1 .. n : x[k] \in Nat /\ y[k] \in Nat /\ z[k] \in Nat
    BY <2>1 DEF VectorsOf
  <2>3. /\ \A k \in 1 .. n : x[k] <= y[k]
        /\ \A k \in 1 .. n : y[k] <= z[k]
    BY <1>4, <2>1, BelowMeans
  <2>4. PICK k \in 1 .. n : x[k] < y[k]
    BY <1>4, <2>1, BelowMeans
  <2>5. x[k] < z[k] /\ \A j \in 1 .. n : x[j] <= z[j]
    BY <2>2, <2>3, <2>4
  <2> QED
    BY <2>1, <2>5, BelowMeans
<1>5. StrictOrder(R, P)
  BY <1>2, <1>3, <1>4 DEF StrictOrder
<1>6. PICK q \in P : (q = p \/ <<q, p>> \in R) /\ \A y \in P : <<y, q>> \notin R
  BY <1>5, MinimalBelow
<1>7. q \in FS!Minimal(P)
  BY <1>2, <1>6 DEF FS!Minimal
<1>8. \A k \in 1 .. n : q[k] <= p[k]
  <2>1. q \in VectorsOf(n) /\ p \in VectorsOf(n)
    OBVIOUS
  <2>2. CASE q = p
    <3>1. \A k \in 1 .. n : p[k] \in Nat
      BY <2>1 DEF VectorsOf
    <3> QED
      BY <2>2, <3>1
  <2>3. CASE <<q, p>> \in R
    BY <1>2, <2>1, <2>3, BelowMeans
  <2> QED
    BY <1>6, <2>2, <2>3
<1> QED
  BY <1>7, <1>8

\* Two sets of numbers with each member matched or beaten in the other have one least.
LEMMA SameMin ==
  ASSUME NEW T \in SUBSET Nat, NEW U \in SUBSET Nat, T # {}, U # {},
         \A v \in T : \E u \in U : u <= v, \A u \in U : \E v \in T : v <= u
  PROVE  Min(T) = Min(U)
<1>1. PICK t, u : t = Min(T) /\ u = Min(U)
  OBVIOUS
<1>2. /\ t \in T /\ \A v \in T : t <= v
      /\ u \in U /\ \A v \in U : u <= v
  BY <1>1, MinSound
<1>3. PICK w \in U : w <= t
  BY <1>2
<1>4. PICK v \in T : v <= u
  BY <1>2
<1>5. u <= w /\ t <= v /\ t \in Nat /\ u \in Nat /\ v \in Nat /\ w \in Nat
  BY <1>2
<1> QED
  BY <1>1, <1>3, <1>4, <1>5

\* The coordinates of a set of points.
LEMMA Coordinates ==
  ASSUME NEW n \in Nat, NEW P \in SUBSET VectorsOf(n), NEW k \in 1 .. n
  PROVE  /\ {p[k] : p \in P} \in SUBSET Nat
         /\ P # {} => {p[k] : p \in P} # {}
         /\ IsFiniteSet(P) => IsFiniteSet({p[k] : p \in P})
<1>1. \A p \in P : p[k] \in Nat
  BY DEF VectorsOf
<1>2. ASSUME IsFiniteSet(P) PROVE IsFiniteSet({p[k] : p \in P})
  <2>1. PICK f : f = [p \in P |-> p[k]]
    OBVIOUS
  <2>2. IsFiniteSet({f[p] : p \in P})
    BY <1>2, <2>1, FiniteImage
  <2>3. {p[k] : p \in P} = {f[p] : p \in P}
    BY <2>1
  <2> QED
    BY <2>2, <2>3
<1> QED
  BY <1>1, <1>2

\* The corners enclose the points.
LEMMA CornersEnclose ==
  ASSUME NEW s, ParetoSetting(s), NEW P \in SUBSET VectorsOf(s.axes), P # {}
  PROVE  /\ MinIn(s, P) \in VectorsOf(s.axes)
         /\ \A k \in 1 .. s.axes :
              /\ \A p \in P : MinIn(s, P)[k] <= p[k]
              /\ \E p \in P : MinIn(s, P)[k] = p[k]
         /\ IsFiniteSet(P) => \A k \in 1 .. s.axes :
              /\ MaxIn(s, P)[k] \in Nat
              /\ \A p \in P : p[k] <= MaxIn(s, P)[k]
<1>1. s.axes \in Nat
  BY DEF ParetoSetting
<1>2. ASSUME NEW k \in 1 .. s.axes
      PROVE  /\ MinIn(s, P)[k] \in Nat
             /\ \A p \in P : MinIn(s, P)[k] <= p[k]
             /\ \E p \in P : MinIn(s, P)[k] = p[k]
             /\ IsFiniteSet(P) => /\ MaxIn(s, P)[k] \in Nat
                                  /\ \A p \in P : p[k] <= MaxIn(s, P)[k]
  <2>1. PICK T : T = {p[k] : p \in P}
    OBVIOUS
  <2>2. T \in SUBSET Nat /\ T # {} /\ (IsFiniteSet(P) => IsFiniteSet(T))
    BY <1>1, <2>1, Coordinates
  <2>3. MinIn(s, P)[k] = Min(T) /\ MaxIn(s, P)[k] = Max(T)
    BY <2>1 DEF MinIn, MaxIn
  <2>4. Min(T) \in T /\ \A v \in T : Min(T) <= v
    BY <2>2, MinSound
  <2>5. IsFiniteSet(P) => Max(T) \in T /\ \A v \in T : v <= Max(T)
    <3>1. T \in SUBSET Int
      BY <2>2
    <3> QED
      BY <2>2, <3>1, MaxSound
  <2> QED
    BY <2>1, <2>2, <2>3, <2>4, <2>5
<1>3. MinIn(s, P) \in VectorsOf(s.axes)
  BY <1>2 DEF MinIn, VectorsOf
<1> QED
  BY <1>2, <1>3

\* Points seen, a batch of new ones, and those known among the first.
PointsSeen(n, E, A, known) ==
  /\ E \in SUBSET VectorsOf(n) /\ A \in SUBSET VectorsOf(n) /\ n \in Nat
  /\ IsFiniteSet(E) /\ IsFiniteSet(A) /\ A # {}
  /\ known \in SUBSET E

\* The points a corner is taken from.
CornerSources(s, E, A, known, front, corner) ==
  /\ PointsSeen(s.axes, E, A, known)
  /\ front = FS!Minimal(known \cup A)
  /\ corner = IF E = {} THEN {} ELSE {MinIn(s, E)}

\* The lower corner of everything so far stays that when it is taken from the front of
\* what is kept and what is new, and from itself.
LEMMA CornerGoesOn ==
  ASSUME NEW s, ParetoSetting(s), NEW E, NEW A, NEW known, NEW front, NEW corner,
         CornerSources(s, E, A, known, front, corner)
  PROVE  MinIn(s, front \cup corner) = MinIn(s, E \cup A)
<1> USE DEF CornerSources, PointsSeen
<1>1. front = FS!Minimal(known \cup A)
  OBVIOUS
<1>2. PICK P : P = front \cup corner
  OBVIOUS
<1>3. s.axes \in Nat
  BY DEF ParetoSetting
<1>4. front \subseteq known \cup A /\ front \subseteq E \cup A
  BY <1>1 DEF FS!Minimal
<1>5. \A p \in A : \E q \in front : \A k \in 1 .. s.axes : q[k] <= p[k]
  <2>1. IsFiniteSet(known \cup A)
    BY FS_Subset, FS_Union
  <2>2. (known \cup A) \in SUBSET VectorsOf(s.axes)
    OBVIOUS
  <2> QED
    BY <1>1, <1>3, <2>1, <2>2, MinimalPoint
<1>6. front # {}
  BY <1>5
<1>7. E # {} => MinIn(s, E) \in VectorsOf(s.axes)
  BY CornersEnclose
<1>8. P \in SUBSET VectorsOf(s.axes) /\ P # {} /\ E \cup A \in SUBSET VectorsOf(s.axes)
      /\ E \cup A # {}
  BY <1>2, <1>4, <1>6, <1>7
<1>9. ASSUME NEW k \in 1 .. s.axes
      PROVE  Min({p[k] : p \in P}) = Min({p[k] : p \in E \cup A})
  <2>1. PICK T, U : T = {p[k] : p \in P} /\ U = {p[k] : p \in E \cup A}
    OBVIOUS
  <2>2. T \in SUBSET Nat /\ T # {} /\ U \in SUBSET Nat /\ U # {}
    BY <1>3, <1>8, <2>1, Coordinates
  <2>3. ASSUME NEW v \in T PROVE v \in U
    <3>1. PICK p \in P : v = p[k]
      BY <2>1
    <3>2. CASE p \in front
      BY <1>4, <2>1, <3>1, <3>2
    <3>3. CASE p \notin front
      <4>1. E # {} /\ p = MinIn(s, E)
        BY <1>2, <3>1, <3>3
      <4>2. \E q \in E : p[k] = q[k]
        BY <4>1, CornersEnclose
      <4> QED
        BY <2>1, <3>1, <4>2
    <3> QED
      BY <3>2, <3>3
  <2>4. ASSUME NEW u \in U PROVE \E v \in T : v <= u
    <3>1. PICK p \in E \cup A : u = p[k]
      BY <2>1
    <3>2. CASE p \in A
      <4>1. PICK q \in front : q[k] <= p[k]
        BY <1>5, <3>2
      <4>2. q[k] \in T
        BY <1>2, <2>1, <4>1
      <4> QED
        BY <3>1, <4>1, <4>2
    <3>3. CASE p \in E
      <4>1. MinIn(s, E)[k] <= p[k]
        BY <3>3, CornersEnclose
      <4>2. MinIn(s, E) \in P
        BY <1>2, <3>3
      <4>3. MinIn(s, E)[k] \in T
        BY <2>1, <4>2
      <4> QED
        BY <3>1, <4>1, <4>3
    <3> QED
      BY <3>2, <3>3
  <2>5. \A v \in T : \E u \in U : u <= v
    BY <2>2, <2>3
  <2> QED
    BY <2>1, <2>2, <2>4, <2>5, SameMin
<1> QED
  BY <1>1, <1>2, <1>9 DEF MinIn

\* An archive thinned to a part of its front: what it knows as long as nothing is cut.
LEMMA ArchiveGoesOn ==
  ASSUME NEW n, NEW E, NEW A, NEW known, PointsSeen(n, E, A, known),
         NEW kept \in SUBSET FS!Minimal(known \cup A)
  PROVE  /\ kept \subseteq E \cup A
         /\ FS!Minimal(kept) = kept
         /\ known = FS!Minimal(E) /\ kept = FS!Minimal(known \cup A) =>
              kept = FS!Minimal(E \cup A)
<1> USE DEF PointsSeen
<1>1. kept \subseteq E \cup A
  BY DEF FS!Minimal
<1>2. FS!Minimal(kept) = kept
  BY PartOfMinimal
<1>3. ASSUME known = FS!Minimal(E), kept = FS!Minimal(known \cup A)
      PROVE  kept = FS!Minimal(E \cup A)
  <2>1. \A e \in E : \E q \in known : \A k \in 1 .. n : q[k] <= e[k]
    BY <1>3, MinimalPoint
  <2>2. \A e \in A : \A k \in 1 .. n : e[k] <= e[k]
    BY DEF VectorsOf
  <2>3. \A e \in E \cup A : \E q \in known \cup A : \A k \in 1 .. n : q[k] <= e[k]
    BY <2>1, <2>2
  <2>4. E \cup A \in SUBSET VectorsOf(n) /\ known \cup A \in SUBSET (E \cup A)
    OBVIOUS
  <2> QED
    BY <1>3, <2>3, <2>4, SameMinimal
<1> QED
  BY <1>1, <1>2, <1>3

-----------------------------------------------------------------------------
(* The run.                                                                *)

\* The setting of the search that is run.
Case == Setting[algorithm]

\* What every search counts: the evaluations of generations, or of batches up to a budget.
RunInv ==
  /\ algorithm \in Chosen
  /\ ParetoSetting(Case)
  /\ evaluated \subseteq Case.layouts
  /\ pc = "init" <=> evaluated = {}
  /\ truncated \in BOOLEAN
  /\ generation \in Nat /\ evaluations \in Nat
  /\ pc = "init" => generation = 0 /\ evaluations = 0
  /\ algorithm # "tmoea" =>
       /\ Case.generations \in Nat /\ generation <= Case.generations
       /\ pc # "init" => evaluations = Case.size * (generation + 1)
       /\ pc = "done" => generation = Case.generations
  /\ algorithm = "tmoea" =>
       /\ BudgetSetting(Case) /\ evaluations <= Case.budget
       /\ pc = "done" => evaluations = Case.budget

\* The evaluations a run needs.
WorkIn(a, s) == IF a = "tmoea" THEN s.budget ELSE s.size * (s.generations + 1)

\* A batch is evaluated.
BatchStep ==
  /\ pc # "done" /\ pc' # "done"
  /\ evaluations' > evaluations
  /\ evaluated \subseteq evaluated'
  /\ truncated' \in {truncated, TRUE}

\* Layouts held are exchanged.
SettleStep ==
  /\ pc # "done" /\ pc' # "done" /\ pc # "init" /\ pc' # "init"
  /\ truncated /\ truncated'
  /\ evaluations' = evaluations /\ evaluated' = evaluated

\* The run returns with its evaluations spent.
FinishStep ==
  /\ pc \notin {"done", "init"} /\ pc' = "done"
  /\ evaluations = WorkIn(algorithm, Case)
  /\ evaluations' = evaluations /\ evaluated' = evaluated /\ truncated' = truncated
  /\ population' = population /\ archive' = archive

GoesOn == algorithm' = algorithm /\ (BatchStep \/ SettleStep \/ FinishStep)

\* A run of generations begins with a batch.
LEMMA RunBegins ==
  ASSUME RunInv, algorithm' = algorithm, pc = "init", pc' = "loop",
         NEW S \in SUBSET Case.layouts, S # {},
         evaluations' = evaluations + Case.size, evaluated' = evaluated \cup S,
         generation' = generation, truncated' \in {truncated, TRUE}
  PROVE  RunInv' /\ GoesOn
<1>1. Case' = Case /\ Chosen' = Chosen
  BY DEF Case, Chosen
<1>2. Case.size \in Nat \ {0}
  BY DEF RunInv, ParetoSetting
<1>3. /\ generation = 0 /\ evaluations = 0
      /\ generation' = 0 /\ evaluations' = Case.size
  BY <1>2 DEF RunInv
<1>4. evaluated' \subseteq Case.layouts /\ evaluated' # {}
  BY DEF RunInv
<1>5. algorithm # "tmoea" => evaluations' = Case.size * (generation' + 1)
  BY <1>2, <1>3
<1>6. algorithm = "tmoea" => evaluations' <= Case.budget
  BY <1>2, <1>3 DEF RunInv, BudgetSetting
<1>7. RunInv'
  BY <1>1, <1>2, <1>3, <1>4, <1>5, <1>6 DEF RunInv
<1>8. evaluations' > evaluations
  BY <1>2, <1>3
<1>9. BatchStep
  BY <1>8 DEF BatchStep
<1> QED
  BY <1>7, <1>9 DEF GoesOn

\* It goes on with one.
LEMMA RunGenerates ==
  ASSUME RunInv, algorithm' = algorithm, pc = "loop", pc' \in {"loop", "replace"},
         algorithm # "tmoea", generation < Case.generations,
         NEW S \in SUBSET Case.layouts,
         evaluations' = evaluations + Case.size, evaluated' = evaluated \cup S,
         generation' = generation + 1, truncated' \in {truncated, TRUE}
  PROVE  RunInv' /\ GoesOn
<1>1. Case' = Case /\ Chosen' = Chosen
  BY DEF Case, Chosen
<1>2. /\ Case.size \in Nat \ {0} /\ generation \in Nat /\ evaluations \in Nat
      /\ Case.generations \in Nat /\ evaluations = Case.size * (generation + 1)
  BY DEF RunInv, ParetoSetting
<1>3. /\ evaluations' \in Nat /\ evaluations' > evaluations
      /\ generation' \in Nat /\ generation' <= Case.generations
  BY <1>2
<1>4. evaluations' = Case.size * (generation' + 1)
  <2>1. \A n, g \in Nat : n * (g + 1) + n = n * ((g + 1) + 1)
    OBVIOUS
  <2> QED
    BY <1>2, <2>1
<1>5. evaluated' \subseteq Case.layouts /\ evaluated' # {}
  BY DEF RunInv
<1>6. RunInv'
  BY <1>1, <1>3, <1>4, <1>5 DEF RunInv
<1>7. BatchStep
  BY <1>3 DEF BatchStep, RunInv
<1> QED
  BY <1>6, <1>7 DEF GoesOn

\* A search with a budget goes on with a batch the budget pays for.
LEMMA RunSpends ==
  ASSUME RunInv, algorithm' = algorithm, pc = "loop", pc' = "loop",
         algorithm = "tmoea", evaluations < Case.budget,
         NEW S \in SUBSET Case.layouts, NEW n,
         n = IF Case.size <= Case.budget - evaluations THEN Case.size
                                                       ELSE Case.budget - evaluations,
         evaluations' = evaluations + n, evaluated' = evaluated \cup S,
         generation' = generation + 1, truncated' \in {truncated, TRUE}
  PROVE  RunInv' /\ GoesOn
<1>1. Case' = Case /\ Chosen' = Chosen
  BY DEF Case, Chosen
<1>2. /\ Case.size \in Nat \ {0} /\ generation \in Nat /\ evaluations \in Nat
      /\ BudgetSetting(Case) /\ Case.budget \in Nat
  BY DEF RunInv, ParetoSetting, BudgetSetting
<1>3. /\ evaluations' \in Nat /\ evaluations' > evaluations /\ evaluations' <= Case.budget
      /\ generation' \in Nat
  BY <1>2
<1>4. evaluated' \subseteq Case.layouts /\ evaluated' # {}
  BY DEF RunInv
<1>5. RunInv'
  BY <1>1, <1>2, <1>3, <1>4 DEF RunInv
<1>6. BatchStep
  BY <1>3 DEF BatchStep
<1> QED
  BY <1>5, <1>6 DEF GoesOn

\* It returns when its generations, or its budget, are spent.
LEMMA RunReturns ==
  ASSUME RunInv, algorithm' = algorithm, pc = "loop", pc' = "done",
         IF algorithm = "tmoea" THEN ~(evaluations < Case.budget)
                                ELSE ~(generation < Case.generations),
         UNCHANGED <<evaluations, evaluated, generation, truncated, population, archive>>
  PROVE  RunInv' /\ GoesOn
<1>1. Case' = Case /\ Chosen' = Chosen
  BY DEF Case, Chosen
<1>2. algorithm # "tmoea" =>
        generation = Case.generations /\ evaluations = Case.size * (Case.generations + 1)
  BY DEF RunInv
<1>3. algorithm = "tmoea" => evaluations = Case.budget
  BY DEF RunInv, BudgetSetting
<1>4. RunInv'
  BY <1>1, <1>2, <1>3 DEF RunInv
<1>5. FinishStep
  BY <1>2, <1>3 DEF FinishStep, WorkIn
<1> QED
  BY <1>4, <1>5 DEF GoesOn

\* Objectives, layouts and sizes of the search that is run.
LEMMA CaseSame ==
  /\ \A S : PointsOf(S) = PointsIn(Case, S)
  /\ \A S : FirstFront(S) = FrontIn(Case, S)
  /\ \A pop : Members(pop) = MembersIn(Case, pop)
  /\ Work = WorkIn(algorithm, Case)
BY DEF PointsOf, PointsIn, FirstFront, FrontIn, Members, MembersIn, Work, WorkOf, WorkIn, Case,
       Objective, Layouts, Dominates, DominatesIn, Axes

-----------------------------------------------------------------------------
(* NondominatedSorting.                                                    *)

\* What is chosen for it.
LEMMA SortingCase ==
  ASSUME algorithm \in Chosen, algorithm \in Sorting!Algorithms
  PROVE  /\ ParetoSetting(Case)
         /\ algorithm = "tmoea" => BudgetSetting(Case)
         /\ algorithm # "tmoea" => GenerationsSetting(Case) /\ CrossoverSetting(Case)
<1>1. Sorting!SettingOK(Case)
  BY SettingAssumption DEF Case
<1>2. ParetoSetting(Case)
  BY <1>1 DEF Sorting!SettingOK, Sorting!ParetoSetting, ParetoSetting, Sorting!IsFiniteSet,
              IsFiniteSet
<1>3. algorithm = "tmoea" => BudgetSetting(Case)
  BY SettingAssumption DEF Case
<1>4. algorithm # "tmoea" => GenerationsSetting(Case) /\ CrossoverSetting(Case)
  BY SettingAssumption DEF Case, Sorting!Algorithms
<1> QED
  BY <1>2, <1>3, <1>4

\* Its operators are those of the setting.
LEMMA SortingSame ==
  /\ Sorting!Layouts = Case.layouts /\ Sorting!PopulationSize = Case.size
  /\ Sorting!Axes = 1 .. Case.axes
  /\ \A l, k : Sorting!Objective[l][k] = Case.objective[l][k]
  /\ \A pop : Sorting!Members(pop) = MembersIn(Case, pop)
  /\ \A pop : Sorting!Count(pop) = CountIn(Case, pop)
  /\ \A pop, others : Sorting!Together(pop, others) = TogetherIn(Case, pop, others)
  /\ \A S, n : Sorting!Populations(S, n) = PopulationsIn(Case, S, n)
BY DEF Sorting!Layouts, Sorting!PopulationSize, Sorting!Axes, Sorting!Members, MembersIn,
       Sorting!Count, CountIn, Sorting!Copies, CopiesIn, Sorting!Together, TogetherIn,
       Sorting!Populations, PopulationsIn, Case, Sorting!Cardinality, Cardinality,
       Sorting!Objective

\* Its survivors are those of the setting.
LEMMA SortingSurvivors ==
  /\ \A S : Sorting!FirstFront(S) = FrontIn(Case, S)
  /\ \A pop : Sorting!Outgrown(pop) <=> OutgrownIn(Case, pop)
  /\ \A pop : Sorting!CrowdedFirst(pop) = CrowdedFirstIn(Case, pop)
<1>1. \A S : Sorting!FirstFront(S) = FrontIn(Case, S)
  BY DEF Sorting!FirstFront, FrontIn, Case, Sorting!Dominates, DominatesIn,
         Sorting!Objective, Sorting!Axes
<1>2. \A pop : Sorting!Outgrown(pop) <=> OutgrownIn(Case, pop)
  BY DEF Sorting!FirstFront, FrontIn, Case, Sorting!Dominates, DominatesIn,
         Sorting!Objective, Sorting!Axes, Sorting!Outgrown, OutgrownIn, Sorting!Count, CountIn,
         Sorting!Copies, CopiesIn, Sorting!Layouts, Sorting!Part, PartIn, Sorting!Members,
         MembersIn, Sorting!PopulationSize, Sorting!Cardinality, Cardinality
<1>3. \A pop : Sorting!CrowdedFirst(pop) = CrowdedFirstIn(Case, pop)
  BY DEF Sorting!CrowdedFirst, CrowdedFirstIn, Sorting!RankClosed, RankClosedIn,
         Sorting!Rank, RankIn, Sorting!ChainsAbove, ChainsIn, Sorting!Samples, SamplesIn,
         Case, Sorting!Dominates, DominatesIn, Sorting!Objective, Sorting!Axes,
         Sorting!Count, CountIn, Sorting!Copies, CopiesIn, Sorting!Layouts,
         Sorting!Part, PartIn, Sorting!Members, MembersIn, Sorting!PopulationSize,
         Sorting!Cardinality, Cardinality, Sorting!Max, Max, Sorting!Least, LeastIn,
         Sorting!Greatest, GreatestIn
<1> QED
  BY <1>1, <1>2, <1>3

\* What NSGA-II and T-MOEA hold.
SortingInv ==
  /\ RunInv
  /\ pc \in {"init", "loop", "done"}
  /\ pc # "init" =>
       /\ Knows(Case, population, evaluated, truncated)
       /\ Case.size >= 2 * Cardinality(1 .. Case.axes) =>
            MinimaIn(Case, MembersIn(Case, population), evaluated)
       /\ algorithm = "nsgaii" => \A l \in evaluated : l \subseteq pool

\* A population drawn from a set.
LEMMA DrawnSound ==
  ASSUME NEW s, ParetoSetting(s), NEW S, NEW n \in Nat, NEW pop \in PopulationsIn(s, S, n)
  PROVE  /\ pop \in [s.layouts -> Nat] /\ CountIn(s, pop) = n
         /\ MembersIn(s, pop) \subseteq S /\ MembersIn(s, pop) \subseteq s.layouts
         /\ n > 0 => MembersIn(s, pop) # {}
<1>1. pop \in [s.layouts -> Nat] /\ CountIn(s, pop) = n /\ MembersIn(s, pop) \subseteq S
  BY DEF PopulationsIn
<1> QED
  BY <1>1, CountedMembers DEF MembersIn

\* A population is no worse than its own members.
LEMMA KnowsItself ==
  ASSUME NEW s, ParetoSetting(s), NEW S \in SUBSET s.layouts, S # {}
  PROVE  CoversIn(s, S, S) /\ MinimaIn(s, S, S)
<1>1. CoversIn(s, S, S)
  BY NoWorseOrders DEF CoversIn
<1>2. ASSUME NEW k \in 1 .. s.axes
      PROVE  \E m \in S : \A l \in S : s.objective[m][k] <= s.objective[l][k]
  <2>1. PICK T : T = {s.objective[l][k] : l \in S}
    OBVIOUS
  <2>2. \A l \in S : s.objective[l][k] \in Nat
    BY ObjectiveTypes
  <2>3. T # {} /\ \A v \in T : v \in Nat
    BY <2>1, <2>2
  <2>4. PICK v \in T : \A w \in T : v <= w
    BY <2>3, LeastNumber
  <2>5. PICK m \in S : v = s.objective[m][k]
    BY <2>1
  <2> QED
    BY <2>1, <2>4, <2>5
<1> QED
  BY <1>1, <1>2 DEF MinimaIn

\* A child has cells of its parents only.
LEMMA SortingChildren ==
  ASSUME NEW parents, NEW cells, \A p \in parents : p \subseteq cells
  PROVE  \A c \in Sorting!Children(parents) : c \subseteq cells
<1>1. \A p, n : Sorting!Lowest(p, n) \subseteq p
  BY DEF Sorting!Lowest
<1>2. ASSUME NEW p \in parents, NEW q \in parents, NEW cut
      PROVE  Sorting!Child(p, q, cut) \subseteq cells
  <2>1. PICK head : head = Sorting!Lowest(p, cut)
    OBVIOUS
  <2>2. PICK rest : rest = q \ head
    OBVIOUS
  <2>3. Sorting!Child(p, q, cut) = head \cup Sorting!Lowest(rest, Sorting!Turbines - cut)
    BY <2>1, <2>2 DEF Sorting!Child
  <2>4. head \subseteq p /\ Sorting!Lowest(rest, Sorting!Turbines - cut) \subseteq rest
    BY <1>1, <2>1
  <2> QED
    BY <2>2, <2>3, <2>4
<1> QED
  BY <1>2 DEF Sorting!Children

\* A run of NSGA-II or T-MOEA begins with nothing evaluated.
LEMMA SortingInit ==
  ASSUME Init, algorithm \in Sorting!Algorithms
  PROVE  SortingInv /\ pc = "init" /\ evaluations = 0 /\ evaluated = {}
<1>1. Sorting!Init /\ algorithm \in Chosen
  BY DEF Init, Sorting!Algorithms, References!Algorithms, Swarm!Algorithms,
         Decomposed!Algorithms
<1>2. /\ pc = "init" /\ generation = 0 /\ evaluations = 0 /\ evaluated = {}
      /\ truncated = FALSE
  BY <1>1 DEF Sorting!Init, Sorting!RunInit
<1>3. /\ ParetoSetting(Case)
      /\ algorithm = "tmoea" => BudgetSetting(Case) /\ 0 <= Case.budget
      /\ algorithm # "tmoea" => Case.generations \in Nat /\ 0 <= Case.generations
  BY <1>1, SortingCase DEF GenerationsSetting, BudgetSetting
<1>4. RunInv
  BY <1>1, <1>2, <1>3, Zenon DEF RunInv
<1> QED
  BY <1>2, <1>4 DEF SortingInv

\* The first population.
LEMMA SortingBegins ==
  ASSUME SortingInv, algorithm \in Sorting!Algorithms, Sorting!Initialize
  PROVE  SortingInv' /\ GoesOn
<1>1. /\ pc = "init" /\ pc' = "loop" /\ algorithm' = algorithm
      /\ population' \in PopulationsIn(Case, Case.layouts, Case.size)
      /\ evaluations' = evaluations + Case.size
      /\ evaluated' = evaluated \cup MembersIn(Case, population')
      /\ pool' = IF algorithm = "tmoea" THEN {} ELSE UNION MembersIn(Case, population')
      /\ generation' = generation /\ truncated' = truncated
  BY SortingSame DEF Sorting!Initialize, Sorting!Counted, Sorting!Counting
<1>2. RunInv /\ ParetoSetting(Case) /\ Case.size \in Nat \ {0} /\ evaluated = {}
  BY <1>1 DEF SortingInv, RunInv, ParetoSetting
<1>3. /\ population' \in [Case.layouts -> Nat]
      /\ MembersIn(Case, population') \in SUBSET Case.layouts
      /\ MembersIn(Case, population') # {}
  BY <1>1, <1>2, DrawnSound
<1>4. RunInv' /\ GoesOn
  BY <1>1, <1>2, <1>3, RunBegins
<1>5. evaluated' = MembersIn(Case, population')
  BY <1>1, <1>2
<1>6. /\ CoversIn(Case, MembersIn(Case, population'), evaluated')
      /\ MinimaIn(Case, MembersIn(Case, population'), evaluated')
  BY <1>2, <1>3, <1>5, KnowsItself
<1>7. Case' = Case
  BY <1>1 DEF Case
<1>8. algorithm = "nsgaii" => \A l \in evaluated' : l \subseteq pool'
  BY <1>1, <1>5
<1>9. Knows(Case, population', evaluated', truncated')
  BY <1>1, <1>2, <1>3, <1>5, <1>6 DEF Knows, RunInv
<1> QED
  BY <1>1, <1>4, <1>6, <1>7, <1>8, <1>9 DEF SortingInv

\* Parents and offspring together, and the survivors.
LEMMA SortingGoesOn ==
  ASSUME SortingInv, algorithm \in Sorting!Algorithms, Sorting!Generation
  PROVE  SortingInv' /\ GoesOn
<1>1. PICK batch \in Sorting!Batches :
        /\ Sorting!Counted(Sorting!Members(batch), Sorting!Count(batch))
        /\ Sorting!Survive(batch)
        /\ truncated' = (truncated \/ Sorting!Outgrown(Sorting!Together(population, batch)))
  BY DEF Sorting!Generation
<1>2. /\ pc = "loop" /\ pc' = "loop" /\ algorithm' = algorithm /\ pool' = pool
      /\ IF algorithm = "tmoea" THEN evaluations < Case.budget ELSE generation < Case.generations
      /\ generation' = generation + 1
      /\ evaluations' = evaluations + CountIn(Case, batch)
      /\ evaluated' = evaluated \cup MembersIn(Case, batch)
      /\ population' \in CrowdedFirstIn(Case, TogetherIn(Case, population, batch))
      /\ truncated' = (truncated \/ OutgrownIn(Case, TogetherIn(Case, population, batch)))
  BY <1>1, SortingSame, SortingSurvivors
  DEF Sorting!Generation, Sorting!NextGeneration, Sorting!GenerationsLeft, Sorting!Counting,
      Sorting!Counted, Sorting!Survive, Sorting!Budget, Sorting!Generations, Case
<1>3. /\ RunInv /\ ParetoSetting(Case) /\ Case.size \in Nat \ {0}
      /\ evaluated \in SUBSET Case.layouts /\ evaluated # {} /\ truncated \in BOOLEAN
      /\ evaluations \in Nat
      /\ Knows(Case, population, evaluated, truncated)
      /\ Case.size >= 2 * Cardinality(1 .. Case.axes) =>
           MinimaIn(Case, MembersIn(Case, population), evaluated)
      /\ algorithm = "nsgaii" => \A l \in evaluated : l \subseteq pool
  BY <1>2 DEF SortingInv, RunInv, ParetoSetting
<1>4. PICK n : n = IF algorithm = "tmoea" /\ ~(Case.size <= Case.budget - evaluations)
                     THEN Case.budget - evaluations ELSE Case.size
  OBVIOUS
<1>5. n \in Nat
  BY <1>2, <1>3, <1>4 DEF RunInv, BudgetSetting
<1>6. /\ batch \in [Case.layouts -> Nat] /\ CountIn(Case, batch) = n
      /\ MembersIn(Case, batch) \in SUBSET Case.layouts
      /\ algorithm = "nsgaii" => MembersIn(Case, batch) \subseteq
                                   Sorting!Children(MembersIn(Case, population))
  <2>1. CASE algorithm = "tmoea"
    <3>1. batch \in PopulationsIn(Case, Case.layouts, n)
      BY <1>1, <1>4, <2>1, SortingSame
      DEF Sorting!Batches, Sorting!Counting, Sorting!Lesser, Sorting!Budget, Case
    <3> QED
      BY <1>3, <1>5, <2>1, <3>1, DrawnSound
  <2>2. CASE algorithm # "tmoea"
    <3>1. batch \in
            PopulationsIn(Case, Sorting!Children(MembersIn(Case, population)), n)
      BY <1>1, <1>4, <2>2, SortingSame DEF Sorting!Batches, Sorting!Counting, Sorting!Offspring
    <3> QED
      BY <1>3, <1>5, <3>1, DrawnSound
  <2> QED
    BY <2>1, <2>2
<1>7. RunInv' /\ GoesOn
  <2>1. truncated' \in {truncated, TRUE}
    BY <1>2, <1>3
  <2>2. CASE algorithm = "tmoea"
    BY <1>2, <1>3, <1>4, <1>6, <2>1, <2>2, RunSpends
  <2>3. CASE algorithm # "tmoea"
    BY <1>2, <1>3, <1>4, <1>6, <2>1, <2>3, RunGenerates
  <2> QED
    BY <2>2, <2>3
<1>8. population' \in RankClosedIn(Case, TogetherIn(Case, population, batch))
  BY <1>2 DEF CrowdedFirstIn
<1>9. Knows(Case, population', evaluated', truncated')
  <2>1. PICK both : both = TogetherIn(Case, population, batch)
    OBVIOUS
  <2>2. Joined(Case, population, batch, both)
    BY <1>6, <2>1 DEF Joined
  <2> QED
    BY <1>2, <1>3, <1>8, <2>1, <2>2, SurvivalSound
<1>10. Case.size >= 2 * Cardinality(1 .. Case.axes) =>
         MinimaIn(Case, MembersIn(Case, population'), evaluated')
  BY <1>2, <1>3, <1>6, MinimaGoOn DEF Knows
<1>11. algorithm = "nsgaii" => \A l \in evaluated' : l \subseteq pool'
  <2>1. ASSUME algorithm = "nsgaii", NEW l \in MembersIn(Case, batch) PROVE l \subseteq pool
    <3>1. \A p \in MembersIn(Case, population) : p \subseteq pool
      BY <1>3, <2>1 DEF Knows
    <3> QED
      BY <1>6, <2>1, <3>1, SortingChildren
  <2> QED
    BY <1>2, <1>3, <2>1
<1>12. Case' = Case
  BY <1>2 DEF Case
<1> QED
  BY <1>2, <1>7, <1>9, <1>10, <1>11, <1>12 DEF SortingInv

\* Every step of NSGA-II and T-MOEA.
LEMMA SortingStep ==
  ASSUME SortingInv, algorithm \in Sorting!Algorithms, Sorting!Step, archive' = archive
  PROVE  SortingInv' /\ GoesOn
<1>1. CASE Sorting!Initialize
  BY <1>1, SortingBegins
<1>2. CASE Sorting!Generation
  BY <1>2, SortingGoesOn
<1>3. CASE Sorting!Report
  <2>1. /\ pc = "loop" /\ pc' = "done" /\ algorithm' = algorithm
        /\ IF algorithm = "tmoea" THEN ~(evaluations < Case.budget)
                                  ELSE ~(generation < Case.generations)
        /\ UNCHANGED <<evaluations, evaluated, generation, truncated, population, pool>>
    BY <1>3 DEF Sorting!Report, Sorting!Leave, Sorting!GenerationsLeft, Sorting!Counting,
                Sorting!Budget, Sorting!Generations, Case
  <2>2. RunInv' /\ GoesOn
    BY <2>1, RunReturns DEF SortingInv
  <2>3. Case' = Case
    BY <2>1 DEF Case
  <2> QED
    BY <2>1, <2>2, <2>3 DEF SortingInv
<1> QED
  BY <1>1, <1>2, <1>3 DEF Sorting!Step

-----------------------------------------------------------------------------
(* AdaptiveReference.                                                      *)

\* What is chosen for it.
LEMMA ReferencesCase ==
  ASSUME algorithm \in Chosen, algorithm \in References!Algorithms
  PROVE  ParetoSetting(Case) /\ GenerationsSetting(Case)
<1>1. References!SettingOK(Case)
  BY SettingAssumption DEF Case
<1> QED
  BY <1>1 DEF References!SettingOK, References!ParetoSetting, ParetoSetting,
              References!IsFiniteSet, IsFiniteSet, References!GenerationsSetting,
              GenerationsSetting

\* The extents it tells apart.
LEMMA ReferencesWidths ==
  ASSUME algorithm \in Chosen, algorithm \in References!Algorithms
  PROVE  Case.unit \in Nat \ {0} /\ Case.narrow \in 1 .. Case.unit
BY SettingAssumption DEF Case, References!SettingOK

\* Its operators are those of the setting.
LEMMA ReferencesSame ==
  /\ References!Layouts = Case.layouts /\ References!PopulationSize = Case.size
  /\ References!Axes = 1 .. Case.axes
  /\ \A l, k : References!Objective[l][k] = Case.objective[l][k]
  /\ \A pop : References!Members(pop) = MembersIn(Case, pop)
  /\ \A pop, others : References!Together(pop, others) = TogetherIn(Case, pop, others)
  /\ \A S, n : References!Populations(S, n) = PopulationsIn(Case, S, n)
  /\ \A S : References!PointsOf(S) = PointsIn(Case, S)
BY DEF References!Layouts, References!PopulationSize, References!Axes, References!Members,
       MembersIn, References!Count, CountIn, References!Copies, CopiesIn,
       References!Together, TogetherIn, References!Populations, PopulationsIn, Case,
       References!Cardinality, Cardinality, References!Objective, References!PointsOf, PointsIn

\* Its survivors are those of the setting.
LEMMA ReferencesSurvivors ==
  \A pop : References!RankClosed(pop) = RankClosedIn(Case, pop)
BY DEF References!RankClosed, RankClosedIn,
       References!Rank, RankIn, References!ChainsAbove, ChainsIn, References!Samples, SamplesIn,
       Case, References!Dominates, DominatesIn, References!Objective, References!Axes,
       References!Count, CountIn, References!Copies, CopiesIn, References!Layouts,
       References!Members, MembersIn, References!PopulationSize,
       References!Cardinality, Cardinality, References!Max, Max

\* Its corners are those of the setting.
LEMMA ReferencesCorners ==
  \A P : References!MinOf(P) = MinIn(Case, P) /\ References!MaxOf(P) = MaxIn(Case, P)
BY DEF References!MinOf, MinIn, References!MaxOf, MaxIn, References!Axes, Case,
       References!Min, Min, References!Max, Max

\* Its archive is filtered as fronts are.
LEMMA ReferencesFront ==
  ASSUME ParetoSetting(Case), NEW P \in SUBSET VectorsOf(Case.axes)
  PROVE  References!Nondominated(P) = FS!Minimal(P)
<1>1. \A p, q \in P : \A k \in 1 .. Case.axes : p[k] \in Nat /\ q[k] \in Nat
  BY DEF VectorsOf
<1>2. Case.axes \in Nat
  BY DEF ParetoSetting
<1>3. \A p, q \in P : FS!Below(p, q) <=> p # q /\ \A k \in 1 .. Case.axes : p[k] <= q[k]
  BY <1>2, BelowMeans
<1>4. \A p, q \in P : (p = q \/ \E k \in 1 .. Case.axes : p[k] > q[k]) <=> ~FS!Below(p, q)
  BY <1>1, <1>3
<1>5. References!Nondominated(P) =
        {q \in P : \A p \in P : p = q \/ \E k \in 1 .. Case.axes : p[k] > q[k]}
  BY ReferencesSame DEF References!Nondominated
<1> QED
  BY <1>4, <1>5 DEF FS!Minimal

\* What AR-MOEA holds.
ReferencesInv ==
  /\ RunInv
  /\ pc \in {"init", "loop", "done"}
  /\ archive \subseteq PointsIn(Case, evaluated)
  /\ FS!Minimal(archive) = archive
  /\ ~truncated => archive = FS!Minimal(PointsIn(Case, evaluated))
  /\ pc # "init" =>
       /\ population \in [Case.layouts -> Nat]
       /\ MembersIn(Case, population) \subseteq evaluated
       /\ \A l \in evaluated : l \subseteq pool
       /\ rangeMin = MinIn(Case, PointsIn(Case, evaluated))
       /\ generation > 0 => \A k \in 1 .. Case.axes :
            /\ rangeMin[k] + Case.narrow <= rangeMax[k]
            /\ \A l \in MembersIn(Case, population) :
                 Case.objective[l][k] \in rangeMin[k] .. rangeMax[k]

\* A child has cells of its parents only.
LEMMA ReferencesChildren ==
  ASSUME NEW parents, NEW cells, \A p \in parents : p \subseteq cells
  PROVE  \A c \in References!Children(parents) : c \subseteq cells
<1>1. \A p, n : References!Lowest(p, n) \subseteq p
  BY DEF References!Lowest
<1>2. ASSUME NEW p \in parents, NEW q \in parents, NEW cut
      PROVE  References!Child(p, q, cut) \subseteq cells
  <2>1. PICK head : head = References!Lowest(p, cut)
    OBVIOUS
  <2>2. PICK rest : rest = q \ head
    OBVIOUS
  <2>3. References!Child(p, q, cut) =
          head \cup References!Lowest(rest, References!Turbines - cut)
    BY <2>1, <2>2 DEF References!Child
  <2>4. head \subseteq p /\ References!Lowest(rest, References!Turbines - cut) \subseteq rest
    BY <1>1, <2>1
  <2> QED
    BY <2>2, <2>3, <2>4
<1> QED
  BY <1>2 DEF References!Children

\* A run of AR-MOEA begins with nothing evaluated and an empty archive.
LEMMA ReferencesInit ==
  ASSUME Init, algorithm \in References!Algorithms
  PROVE  ReferencesInv /\ pc = "init" /\ evaluations = 0 /\ evaluated = {} /\ archive = {}
<1>1. References!Init /\ algorithm \in Chosen
  BY DEF Init, Sorting!Algorithms, References!Algorithms, Swarm!Algorithms,
         Decomposed!Algorithms
<1>2. /\ pc = "init" /\ generation = 0 /\ evaluations = 0 /\ evaluated = {}
      /\ truncated = FALSE /\ archive = {}
  BY <1>1 DEF References!Init, References!RunInit
<1>3. /\ ParetoSetting(Case) /\ algorithm # "tmoea"
      /\ Case.generations \in Nat /\ 0 <= Case.generations
  BY <1>1, ReferencesCase DEF GenerationsSetting, References!Algorithms
<1>4. RunInv
  BY <1>1, <1>2, <1>3, Zenon DEF RunInv
<1>5. archive = FS!Minimal(PointsIn(Case, evaluated)) /\ FS!Minimal(archive) = archive
  BY <1>2 DEF FS!Minimal, PointsIn
<1> QED
  BY <1>2, <1>4, <1>5 DEF ReferencesInv

\* update_ar_reference, given the points of a batch.
LEMMA ReferencesUpdate ==
  ASSUME ReferencesInv, NEW A \in SUBSET VectorsOf(Case.axes), IsFiniteSet(A), A # {},
         References!UpdateReference(A)
  PROVE  LET all == PointsIn(Case, evaluated) \cup A
         IN /\ archive' \subseteq all /\ FS!Minimal(archive') = archive'
            /\ ~truncated' => archive' = FS!Minimal(all)
            /\ rangeMin' = MinIn(Case, all)
            /\ truncated' \in {truncated, TRUE}
<1>1. /\ RunInv /\ ParetoSetting(Case) /\ evaluated \in SUBSET Case.layouts
      /\ truncated \in BOOLEAN /\ (pc = "init" <=> evaluated = {})
  BY DEF ReferencesInv, RunInv
<1>2. PICK E : E = PointsIn(Case, evaluated)
  OBVIOUS
<1>3. /\ E \in SUBSET VectorsOf(Case.axes) /\ IsFiniteSet(E) /\ archive \in SUBSET E
      /\ Case.axes \in Nat
      /\ E = {} <=> pc = "init"
  <2>1. E \in SUBSET VectorsOf(Case.axes) /\ IsFiniteSet(E)
    BY <1>1, <1>2, PointTypes, PointsFinite
  <2>2. archive \in SUBSET E /\ Case.axes \in Nat
    BY <1>1, <1>2 DEF ReferencesInv, ParetoSetting
  <2>3. E = {} <=> evaluated = {}
    BY <1>2 DEF PointsIn
  <2> QED
    BY <1>1, <2>1, <2>2, <2>3
<1>4. PointsSeen(Case.axes, E, A, archive)
  BY <1>3 DEF PointsSeen
<1>5. PICK front : front = FS!Minimal(archive \cup A)
  OBVIOUS
<1>6. References!UniqueNondominated(A) = front
  <2>1. (archive \cup A) \in SUBSET VectorsOf(Case.axes)
    BY <1>3
  <2> QED
    BY <1>1, <1>5, <2>1, ReferencesFront DEF References!UniqueNondominated
<1>7. /\ archive' \in SUBSET front
      /\ rangeMin' = MinIn(Case, front \cup (IF pc = "init" THEN {} ELSE {rangeMin}))
      /\ truncated' = (truncated \/ archive' # front)
  BY <1>6, ReferencesCorners DEF References!UpdateReference, References!Widened
<1>8. /\ archive' \subseteq E \cup A /\ FS!Minimal(archive') = archive'
      /\ ~(truncated \/ archive' # front) => archive' = FS!Minimal(E \cup A)
  <2>1. ~truncated => archive = FS!Minimal(E)
    BY <1>2 DEF ReferencesInv
  <2>2. archive' \in SUBSET FS!Minimal(archive \cup A)
    BY <1>5, <1>7
  <2> QED
    BY <1>5, <1>4, <2>1, <2>2, ArchiveGoesOn
<1>9. rangeMin' = MinIn(Case, E \cup A)
  <2>1. pc # "init" => rangeMin = MinIn(Case, E)
    BY <1>2 DEF ReferencesInv
  <2>2. PICK corner : corner = IF E = {} THEN {} ELSE {MinIn(Case, E)}
    OBVIOUS
  <2>3. MinIn(Case, front \cup corner) = MinIn(Case, E \cup A)
    <3>1. CornerSources(Case, E, A, archive, front, corner)
      BY <1>5, <1>4, <2>2 DEF CornerSources
    <3> QED
      BY <1>1, <3>1, CornerGoesOn
  <2>4. corner = IF pc = "init" THEN {} ELSE {rangeMin}
    BY <1>3, <2>1, <2>2
  <2> QED
    BY <1>7, <2>3, <2>4
<1> QED
  BY <1>1, <1>2, <1>7, <1>8, <1>9

\* The points of two sets of layouts.
LEMMA PointsTogether ==
  ASSUME NEW s, NEW S, NEW T
  PROVE  PointsIn(s, S \cup T) = PointsIn(s, S) \cup PointsIn(s, T)
BY DEF PointsIn

\* The first population.
LEMMA ReferencesBegins ==
  ASSUME ReferencesInv, algorithm \in References!Algorithms, References!Initialize
  PROVE  ReferencesInv' /\ GoesOn
<1>1. /\ pc = "init" /\ pc' = "loop" /\ algorithm' = algorithm
      /\ population' \in PopulationsIn(Case, Case.layouts, Case.size)
      /\ evaluations' = evaluations + Case.size
      /\ evaluated' = evaluated \cup MembersIn(Case, population')
      /\ pool' = UNION MembersIn(Case, population')
      /\ References!UpdateReference(PointsIn(Case, MembersIn(Case, population')))
      /\ generation' = generation
  BY ReferencesSame DEF References!Initialize, References!Counted
<1>2. /\ RunInv /\ ParetoSetting(Case) /\ Case.size \in Nat \ {0} /\ evaluated = {}
      /\ generation = 0
  BY <1>1 DEF ReferencesInv, RunInv, ParetoSetting
<1>3. /\ population' \in [Case.layouts -> Nat]
      /\ MembersIn(Case, population') \in SUBSET Case.layouts
      /\ MembersIn(Case, population') # {}
  BY <1>1, <1>2, DrawnSound
<1>4. PICK A : A = PointsIn(Case, MembersIn(Case, population'))
  OBVIOUS
<1>5. A \in SUBSET VectorsOf(Case.axes) /\ IsFiniteSet(A) /\ A # {}
  <2>1. A # {}
    BY <1>3, <1>4 DEF PointsIn
  <2> QED
    BY <1>2, <1>3, <1>4, <2>1, PointTypes, PointsFinite
<1>6. PICK all : all = PointsIn(Case, evaluated) \cup A
  OBVIOUS
<1>7. /\ archive' \subseteq all /\ FS!Minimal(archive') = archive'
      /\ ~truncated' => archive' = FS!Minimal(all)
      /\ rangeMin' = MinIn(Case, all)
      /\ truncated' \in {truncated, TRUE}
  BY <1>1, <1>4, <1>5, <1>6, ReferencesUpdate
<1>8. all = PointsIn(Case, evaluated')
  BY <1>1, <1>4, <1>6, PointsTogether
<1>9. RunInv' /\ GoesOn
  BY <1>1, <1>2, <1>3, <1>7, RunBegins
<1>10. Case' = Case
  BY <1>1 DEF Case
<1>11. /\ MembersIn(Case, population') \subseteq evaluated'
       /\ \A l \in evaluated' : l \subseteq pool'
  BY <1>1, <1>2
<1>12. ~(generation' > 0)
  BY <1>1, <1>2
<1> QED
  BY <1>1, <1>3, <1>7, <1>8, <1>9, <1>10, <1>11, <1>12 DEF ReferencesInv

\* A generation: the corners are set around the survivors.
LEMMA ReferencesGoesOn ==
  ASSUME ReferencesInv, algorithm \in References!Algorithms, References!Generation
  PROVE  ReferencesInv' /\ GoesOn
<1>1. PICK batch \in References!Offspring(References!Members(population)) :
        /\ References!Counted(References!Members(batch), References!PopulationSize)
        /\ References!UpdateReference(References!PointsOf(References!Members(batch)))
        /\ population' \in References!RankClosed(References!Together(population, batch))
  BY DEF References!Generation
<1>2. /\ pc = "loop" /\ pc' = "loop" /\ algorithm' = algorithm /\ pool' = pool
      /\ algorithm # "tmoea" /\ generation < Case.generations
      /\ generation' = generation + 1
  BY DEF References!Generation, References!NextGeneration, References!GenerationsLeft,
         References!Counting, References!Counted, References!Generations, Case,
         References!Algorithms
<1>3. /\ evaluations' = evaluations + Case.size
      /\ evaluated' = evaluated \cup MembersIn(Case, batch)
      /\ References!UpdateReference(PointsIn(Case, MembersIn(Case, batch)))
      /\ population' \in RankClosedIn(Case, TogetherIn(Case, population, batch))
      /\ batch \in PopulationsIn(Case, References!Children(MembersIn(Case, population)),
                                 Case.size)
  BY <1>1, ReferencesSame, ReferencesSurvivors DEF References!Counted, References!Offspring
<1>4. rangeMax' = References!Separated(MaxIn(Case, PointsIn(Case, MembersIn(Case, population'))),
                                       rangeMin')
  BY ReferencesSame, ReferencesCorners DEF References!Generation
<1>5. /\ RunInv /\ ParetoSetting(Case) /\ Case.size \in Nat \ {0}
      /\ evaluated \in SUBSET Case.layouts /\ evaluated # {} /\ truncated \in BOOLEAN
      /\ population \in [Case.layouts -> Nat]
      /\ MembersIn(Case, population) \subseteq evaluated
      /\ \A l \in evaluated : l \subseteq pool
  BY <1>2 DEF ReferencesInv, RunInv, ParetoSetting
<1>6. /\ batch \in [Case.layouts -> Nat]
      /\ MembersIn(Case, batch) \in SUBSET Case.layouts /\ MembersIn(Case, batch) # {}
      /\ MembersIn(Case, batch) \subseteq References!Children(MembersIn(Case, population))
  BY <1>3, <1>5, DrawnSound
<1>7. PICK A : A = PointsIn(Case, MembersIn(Case, batch))
  OBVIOUS
<1>8. A \in SUBSET VectorsOf(Case.axes) /\ IsFiniteSet(A) /\ A # {}
  <2>1. A # {}
    BY <1>6, <1>7 DEF PointsIn
  <2> QED
    BY <1>5, <1>6, <1>7, <2>1, PointTypes, PointsFinite
<1>9. PICK all : all = PointsIn(Case, evaluated) \cup A
  OBVIOUS
<1>10. /\ archive' \subseteq all /\ FS!Minimal(archive') = archive'
       /\ ~truncated' => archive' = FS!Minimal(all)
       /\ rangeMin' = MinIn(Case, all)
       /\ truncated' \in {truncated, TRUE}
  BY <1>3, <1>7, <1>8, <1>9, ReferencesUpdate
<1>11. all = PointsIn(Case, evaluated')
  BY <1>3, <1>7, <1>9, PointsTogether
<1>12. RunInv' /\ GoesOn
  BY <1>2, <1>3, <1>5, <1>6, <1>10, RunGenerates
<1>13. /\ population' \in [Case.layouts -> Nat]
       /\ MembersIn(Case, population') \subseteq evaluated'
       /\ MembersIn(Case, population') # {}
  <2>1. PICK both : both = TogetherIn(Case, population, batch)
    OBVIOUS
  <2>2. /\ both \in [Case.layouts -> Nat]
        /\ MembersIn(Case, both) = MembersIn(Case, population) \cup MembersIn(Case, batch)
    BY <1>5, <1>6, <2>1, MembersTogether
  <2>3. /\ population' \in [Case.layouts -> Nat]
        /\ MembersIn(Case, population') \subseteq MembersIn(Case, both)
        /\ MembersIn(Case, population') # {}
    BY <1>3, <1>5, <2>1, <2>2, RankClosedSound
  <2> QED
    BY <1>3, <1>5, <2>2, <2>3
<1>14. \A l \in evaluated' : l \subseteq pool'
  <2>1. ASSUME NEW l \in MembersIn(Case, batch) PROVE l \subseteq pool
    <3>1. \A p \in MembersIn(Case, population) : p \subseteq pool
      BY <1>5
    <3> QED
      BY <1>6, <2>1, <3>1, ReferencesChildren
  <2> QED
    BY <1>2, <1>3, <1>5, <2>1
<1>15. ASSUME NEW k \in 1 .. Case.axes
       PROVE  /\ rangeMin'[k] + Case.narrow <= rangeMax'[k]
              /\ \A l \in MembersIn(Case, population') :
                   Case.objective[l][k] \in rangeMin'[k] .. rangeMax'[k]
  <2>1. PICK P : P = PointsIn(Case, MembersIn(Case, population'))
    OBVIOUS
  <2>2. PICK upper : upper = MaxIn(Case, P)
    OBVIOUS
  <2>3. MembersIn(Case, population') \in SUBSET Case.layouts
    BY DEF MembersIn
  <2>4. P \in SUBSET VectorsOf(Case.axes) /\ P # {} /\ IsFiniteSet(P) /\ P \subseteq all
    <3>1. P # {}
      BY <1>13, <2>1 DEF PointsIn
    <3>2. P \subseteq all
      BY <1>11, <1>13, <2>1 DEF PointsIn
    <3> QED
      BY <1>5, <2>1, <2>3, <3>1, <3>2, PointTypes, PointsFinite
  <2>5. upper[k] \in Nat /\ \A p \in P : p[k] <= upper[k]
    BY <1>5, <2>2, <2>4, CornersEnclose
  <2>6. all \in SUBSET VectorsOf(Case.axes) /\ all # {}
    BY <1>5, <1>8, <1>9, PointTypes
  <2>7. rangeMin'[k] \in Nat /\ \A p \in all : rangeMin'[k] <= p[k]
    <3>1. rangeMin' \in VectorsOf(Case.axes)
      BY <1>5, <1>10, <2>6, CornersEnclose
    <3>2. \A p \in all : rangeMin'[k] <= p[k]
      BY <1>5, <1>10, <2>6, CornersEnclose
    <3> QED
      BY <3>1, <3>2 DEF VectorsOf
  <2>8. /\ rangeMax'[k] = IF upper[k] - rangeMin'[k] < Case.narrow
                             THEN rangeMin'[k] + Case.unit ELSE upper[k]
        /\ Case.unit \in Nat /\ Case.narrow \in 1 .. Case.unit
    <3>1. Case.unit \in Nat /\ Case.narrow \in 1 .. Case.unit
      BY <1>2, <1>5, ReferencesWidths DEF RunInv
    <3> QED
      BY <1>4, <2>1, <2>2, <3>1, ReferencesSame
         DEF References!Separated, References!Narrow, References!Unit, Case
  <2>9. ASSUME NEW p \in P
        PROVE  /\ p[k] \in Nat /\ rangeMin'[k] <= p[k] /\ p[k] <= upper[k]
               /\ p[k] <= rangeMax'[k] /\ rangeMin'[k] + Case.narrow <= rangeMax'[k]
    <3>1. p[k] \in Nat
      BY <2>4 DEF VectorsOf
    <3>2. rangeMin'[k] <= p[k] /\ p[k] <= upper[k]
      BY <2>4, <2>5, <2>7
    <3> QED
      BY <2>5, <2>7, <2>8, <3>1, <3>2
  <2>10. rangeMax'[k] \in Nat
    BY <2>5, <2>7, <2>8
  <2>11. \A p \in P : p[k] \in rangeMin'[k] .. rangeMax'[k]
    BY <2>7, <2>9, <2>10
  <2>12. rangeMin'[k] + Case.narrow <= rangeMax'[k]
    BY <2>4, <2>9
  <2>13. \A l \in MembersIn(Case, population') : Case.objective[l] \in P
    BY <2>1 DEF PointsIn
  <2> QED
    BY <2>11, <2>12, <2>13
<1>16. Case' = Case
  BY <1>2 DEF Case
<1> QED
  BY <1>2, <1>10, <1>11, <1>12, <1>13, <1>14, <1>15, <1>16 DEF ReferencesInv

\* Every step of AR-MOEA.
LEMMA ReferencesStep ==
  ASSUME ReferencesInv, algorithm \in References!Algorithms, References!Step
  PROVE  ReferencesInv' /\ GoesOn
<1>1. CASE References!Initialize
  BY <1>1, ReferencesBegins
<1>2. CASE References!Generation
  BY <1>2, ReferencesGoesOn
<1>3. CASE References!Report
  <2>1. /\ pc = "loop" /\ pc' = "done" /\ algorithm' = algorithm /\ algorithm # "tmoea"
        /\ ~(generation < Case.generations)
        /\ UNCHANGED <<evaluations, evaluated, generation, truncated, population, pool,
                       archive, rangeMin, rangeMax>>
    BY <1>3 DEF References!Report, References!Leave, References!GenerationsLeft,
                References!Counting, References!Generations, Case, References!Algorithms
  <2>2. RunInv' /\ GoesOn
    BY <2>1, RunReturns DEF ReferencesInv
  <2>3. Case' = Case
    BY <2>1 DEF Case
  <2> QED
    BY <2>1, <2>2, <2>3 DEF ReferencesInv
<1> QED
  BY <1>1, <1>2, <1>3 DEF References!Step

-----------------------------------------------------------------------------
(* ArchiveSwarm.                                                           *)

\* The rows of a swarm as a population.
RowsIn(s, rows) == [l \in s.layouts |-> Cardinality({i \in DOMAIN rows : rows[i] = l})]

\* The population of the rows has exactly their layouts as members.
LEMMA RowsCounted ==
  ASSUME NEW s, ParetoSetting(s), NEW rows \in [1 .. s.size -> s.layouts]
  PROVE  /\ RowsIn(s, rows) \in [s.layouts -> Nat]
         /\ MembersIn(s, RowsIn(s, rows)) = {rows[i] : i \in 1 .. s.size}
         /\ {rows[i] : i \in 1 .. s.size} \in SUBSET s.layouts
         /\ {rows[i] : i \in 1 .. s.size} # {}
<1>1. s.size \in Nat \ {0} /\ IsFiniteSet(1 .. s.size) /\ 1 \in 1 .. s.size
  BY FS_Interval DEF ParetoSetting
<1>2. ASSUME NEW l \in s.layouts
      PROVE  /\ RowsIn(s, rows)[l] \in Nat
             /\ RowsIn(s, rows)[l] > 0 <=> \E i \in 1 .. s.size : rows[i] = l
  <2>1. PICK T : T = {i \in 1 .. s.size : rows[i] = l}
    OBVIOUS
  <2>2. RowsIn(s, rows)[l] = Cardinality(T)
    BY <2>1 DEF RowsIn
  <2>3. IsFiniteSet(T) /\ Cardinality(T) \in Nat
    BY <1>1, <2>1, FS_Subset, FS_CardinalityType
  <2>4. Cardinality(T) = 0 <=> T = {}
    BY <2>3, FS_EmptySet
  <2>5. T # {} <=> \E i \in 1 .. s.size : rows[i] = l
    BY <2>1
  <2> QED
    BY <2>2, <2>3, <2>4, <2>5
<1>3. RowsIn(s, rows) \in [s.layouts -> Nat]
  BY <1>2 DEF RowsIn
<1>4. MembersIn(s, RowsIn(s, rows)) = {rows[i] : i \in 1 .. s.size}
  BY <1>2 DEF MembersIn
<1> QED
  BY <1>1, <1>3, <1>4

\* Everything, or what thinning leaves.
LeftIn(s, front) ==
  IF CountIn(s, front) <= s.size THEN {front} ELSE SamplesIn(s, front, s.size)

\* No layout of a set dominates another.
Unbeaten(s, S) == FrontIn(s, S) = S

\* What is left of the first front of a population.
ThinnedIn(s, pop) == LeftIn(s, PartIn(s, pop, FrontIn(s, MembersIn(s, pop))))

\* What a population knows of everything evaluated, the archive of nondominated layouts
\* knows after a batch.
LEMMA ArchiveKeeps ==
  ASSUME NEW s, ParetoSetting(s), NEW pop, NEW E, NEW cut, Knows(s, pop, E, cut),
         NEW others, NEW both, Joined(s, pop, others, both), MembersIn(s, others) # {},
         NEW kept \in ThinnedIn(s, both)
  PROVE  /\ Knows(s, kept, E \cup MembersIn(s, others), cut \/ OutgrownIn(s, both))
         /\ CountIn(s, kept) \in 1 .. s.size
         /\ MembersIn(s, kept) # {}
         /\ Unbeaten(s, MembersIn(s, kept))
<1> USE DEF Knows, Joined, ThinnedIn, Unbeaten
<1>1. PICK F : F = FrontIn(s, MembersIn(s, both))
  OBVIOUS
<1>2. /\ both \in [s.layouts -> Nat]
      /\ MembersIn(s, both) = MembersIn(s, pop) \cup MembersIn(s, others)
      /\ MembersIn(s, both) \in SUBSET s.layouts
  BY MembersTogether DEF MembersIn
<1>3. F \in SUBSET MembersIn(s, both)
  BY <1>1 DEF FrontIn
<1>4. F # {}
  <2>1. PICK l : l \in MembersIn(s, both)
    BY <1>2
  <2> QED
    BY <1>2, <1>1, <2>1, FrontBelow
<1>5. PICK part : part = PartIn(s, both, F)
  OBVIOUS
<1>6. part \in [s.layouts -> Nat] /\ MembersIn(s, part) = F
  BY <1>2, <1>3, <1>5, MembersOfPart
<1>7. CountIn(s, part) \in Nat /\ CountIn(s, part) > 0 /\ s.size \in Nat \ {0}
  BY <1>4, <1>6, CopiesFinite, CountedMembers DEF ParetoSetting
<1>8. /\ kept \in [s.layouts -> Nat] /\ CountIn(s, kept) \in 1 .. s.size
      /\ MembersIn(s, kept) \subseteq F /\ MembersIn(s, kept) # {}
      /\ CountIn(s, part) <= s.size => kept = part
  <2>1. CASE CountIn(s, part) <= s.size
    <3>1. kept = part
      BY <1>5, <1>1, <2>1 DEF LeftIn
    <3> QED
      BY <1>4, <1>6, <1>7, <2>1, <3>1
  <2>2. CASE ~(CountIn(s, part) <= s.size)
    <3>1. kept \in SamplesIn(s, part, s.size)
      BY <1>5, <1>1, <2>2 DEF LeftIn
    <3>2. /\ kept \in [s.layouts -> Nat] /\ CountIn(s, kept) = s.size
          /\ MembersIn(s, kept) \subseteq F /\ MembersIn(s, kept) # {}
      BY <1>6, <1>7, <3>1, SampleSound
    <3> QED
      BY <1>7, <2>2, <3>2
  <2> QED
    BY <2>1, <2>2
<1>9. FrontIn(s, MembersIn(s, kept)) = MembersIn(s, kept)
  <2>1. \A l, m \in F : ~DominatesIn(s, m, l)
    BY <1>1 DEF FrontIn
  <2> QED
    BY <1>8, <2>1 DEF FrontIn
<1>10. ASSUME ~cut, ~OutgrownIn(s, both)
      PROVE  CoversIn(s, MembersIn(s, kept), E \cup MembersIn(s, others))
  <2>1. MembersIn(s, kept) = F
    <3>1. CountIn(s, part) <= s.size
      BY <1>5, <1>7, <1>10, <1>1 DEF OutgrownIn
    <3> QED
      BY <1>6, <1>8, <3>1
  <2>2. CoversIn(s, F, MembersIn(s, both))
    BY <1>2, <1>3, <1>1, FrontCovers
  <2>3. CoversIn(s, MembersIn(s, both), E \cup MembersIn(s, others))
    <3>1. MembersIn(s, pop) \in SUBSET s.layouts /\ MembersIn(s, others) \in SUBSET s.layouts
      BY DEF MembersIn
    <3> QED
      BY <1>2, <1>10, <3>1, BothCover
  <2>4. E \cup MembersIn(s, others) \in SUBSET s.layouts /\ F \in SUBSET s.layouts
    BY <1>2, <1>3
  <2> QED
    BY <1>2, <2>1, <2>2, <2>3, <2>4, CoversBoth
<1>11. (cut \/ OutgrownIn(s, both)) \in BOOLEAN
  BY DEF OutgrownIn
<1> QED
  BY <1>2, <1>3, <1>8, <1>9, <1>10, <1>11

\* What is chosen for it.
LEMMA SwarmCase ==
  ASSUME algorithm \in Chosen, algorithm \in Swarm!Algorithms
  PROVE  ParetoSetting(Case) /\ GenerationsSetting(Case)
<1>1. Swarm!SettingOK(Case)
  BY SettingAssumption DEF Case
<1> QED
  BY <1>1 DEF Swarm!SettingOK, Swarm!ParetoSetting, ParetoSetting,
              Swarm!IsFiniteSet, IsFiniteSet, Swarm!GenerationsSetting,
              GenerationsSetting

\* Its operators are those of the setting.
LEMMA SwarmSame ==
  /\ Swarm!Layouts = Case.layouts /\ Swarm!PopulationSize = Case.size
  /\ Swarm!Axes = 1 .. Case.axes /\ Swarm!Slots = 1 .. Case.size
  /\ \A l, k : Swarm!Objective[l][k] = Case.objective[l][k]
  /\ \A l, m : Swarm!Dominates(l, m) <=> DominatesIn(Case, l, m)
  /\ \A pop : Swarm!Members(pop) = MembersIn(Case, pop)
  /\ \A pop : Swarm!Count(pop) = CountIn(Case, pop)
  /\ \A pop, others : Swarm!Together(pop, others) = TogetherIn(Case, pop, others)
  /\ \A pop, S : Swarm!Part(pop, S) = PartIn(Case, pop, S)
  /\ \A rows : Swarm!PopulationOf(rows) = RowsIn(Case, rows)
  /\ Swarm!Nobody = [l \in Case.layouts |-> 0]
BY DEF Swarm!Layouts, Swarm!PopulationSize, Swarm!Axes, Swarm!Members, Swarm!Slots,
       MembersIn, Swarm!Count, CountIn, Swarm!Copies, CopiesIn,
       Swarm!Together, TogetherIn, Swarm!Part, PartIn, Case,
       Swarm!Cardinality, Cardinality, Swarm!Objective, Swarm!PopulationOf, RowsIn,
       Swarm!Nobody, Swarm!Dominates, DominatesIn

\* What is left in its archive is that of the setting.
LEMMA SwarmSurvivors ==
  /\ \A S : Swarm!FirstFront(S) = FrontIn(Case, S)
  /\ \A pop : Swarm!Outgrown(pop) <=> OutgrownIn(Case, pop)
  /\ \A pop : Swarm!CrowdedFirst(pop) = CrowdedFirstIn(Case, pop)
  /\ \A pop : Swarm!LeftOf(pop) = LeftIn(Case, pop)
<1>1. \A S : Swarm!FirstFront(S) = FrontIn(Case, S)
  BY DEF Swarm!FirstFront, FrontIn, Case, Swarm!Dominates, DominatesIn,
         Swarm!Objective, Swarm!Axes
<1>2. \A pop : Swarm!Outgrown(pop) <=> OutgrownIn(Case, pop)
  BY DEF Swarm!FirstFront, FrontIn, Case, Swarm!Dominates, DominatesIn,
         Swarm!Objective, Swarm!Axes, Swarm!Outgrown, OutgrownIn, Swarm!Count, CountIn,
         Swarm!Copies, CopiesIn, Swarm!Layouts, Swarm!Part, PartIn, Swarm!Members,
         MembersIn, Swarm!PopulationSize, Swarm!Cardinality, Cardinality
<1>3. \A pop : Swarm!CrowdedFirst(pop) = CrowdedFirstIn(Case, pop)
  BY DEF Swarm!CrowdedFirst, CrowdedFirstIn, Swarm!RankClosed, RankClosedIn,
         Swarm!Rank, RankIn, Swarm!ChainsAbove, ChainsIn, Swarm!Samples, SamplesIn,
         Case, Swarm!Dominates, DominatesIn, Swarm!Objective, Swarm!Axes,
         Swarm!Count, CountIn, Swarm!Copies, CopiesIn, Swarm!Layouts,
         Swarm!Part, PartIn, Swarm!Members, MembersIn, Swarm!PopulationSize,
         Swarm!Cardinality, Cardinality, Swarm!Max, Max, Swarm!Least, LeastIn,
         Swarm!Greatest, GreatestIn
<1>4. \A pop : Swarm!LeftOf(pop) = LeftIn(Case, pop)
  BY DEF Swarm!LeftOf, LeftIn, Swarm!Samples, SamplesIn, Case, Swarm!Count, CountIn,
         Swarm!Copies, CopiesIn, Swarm!Layouts, Swarm!PopulationSize,
         Swarm!Cardinality, Cardinality
<1> QED
  BY <1>1, <1>2, <1>3, <1>4

\* What MOPSO and MORIME hold.
SwarmInv ==
  /\ RunInv
  /\ pc \in {"init", "loop", "done"}
  /\ Knows(Case, archive, evaluated, truncated)
  /\ report \subseteq evaluated
  /\ pc # "init" =>
       /\ MembersIn(Case, archive) # {} /\ CountIn(Case, archive) \in 1 .. Case.size
       /\ algorithm = "mopso" => Unbeaten(Case, MembersIn(Case, archive))
       /\ personalBest \in [1 .. Case.size -> Case.layouts]
       /\ \A i \in 1 .. Case.size : personalBest[i] \in evaluated

\* A run of MOPSO or MORIME begins with an empty archive.
LEMMA SwarmInit ==
  ASSUME Init, algorithm \in Swarm!Algorithms
  PROVE  SwarmInv /\ pc = "init" /\ evaluations = 0 /\ evaluated = {}
<1>1. Swarm!Init /\ algorithm \in Chosen /\ report = {}
  BY DEF Init, Sorting!Algorithms, References!Algorithms, Swarm!Algorithms,
         Decomposed!Algorithms
<1>2. /\ pc = "init" /\ generation = 0 /\ evaluations = 0 /\ evaluated = {}
      /\ truncated = FALSE /\ archive = [l \in Case.layouts |-> 0]
  BY <1>1, SwarmSame DEF Swarm!Init, Swarm!RunInit
<1>3. /\ ParetoSetting(Case) /\ algorithm # "tmoea"
      /\ Case.generations \in Nat /\ 0 <= Case.generations
  BY <1>1, SwarmCase DEF GenerationsSetting, Swarm!Algorithms
<1>4. RunInv
  BY <1>1, <1>2, <1>3, Zenon DEF RunInv
<1>5. archive \in [Case.layouts -> Nat] /\ MembersIn(Case, archive) = {}
  BY <1>2 DEF MembersIn
<1>6. Knows(Case, archive, evaluated, truncated)
  BY <1>2, <1>5 DEF Knows, CoversIn
<1> QED
  BY <1>1, <1>2, <1>4, <1>5, <1>6 DEF SwarmInv

\* The archive takes in a batch.
LEMMA SwarmUpdate ==
  ASSUME SwarmInv, algorithm \in Swarm!Algorithms,
         NEW rows \in [1 .. Case.size -> Case.layouts],
         Swarm!UpdateArchive(Swarm!PopulationOf(rows)), NEW moved, moved = RowsIn(Case, rows)
  PROVE  /\ Knows(Case, archive', evaluated \cup MembersIn(Case, moved), truncated')
         /\ CountIn(Case, archive') \in 1 .. Case.size
         /\ MembersIn(Case, archive') # {}
         /\ algorithm = "mopso" => Unbeaten(Case, MembersIn(Case, archive'))
         /\ truncated' \in {truncated, TRUE}
<1>1. /\ ParetoSetting(Case) /\ truncated \in BOOLEAN /\ Case.size \in Nat \ {0}
      /\ Knows(Case, archive, evaluated, truncated)
  BY DEF SwarmInv, RunInv, ParetoSetting
<1>2. /\ moved \in [Case.layouts -> Nat] /\ MembersIn(Case, moved) # {}
  BY <1>1, RowsCounted
<1>3. PICK both : both = TogetherIn(Case, archive, moved)
  OBVIOUS
<1>4. Joined(Case, archive, moved, both)
  BY <1>2, <1>3 DEF Joined
<1>5. /\ truncated' = (truncated \/ OutgrownIn(Case, both))
      /\ archive' \in IF algorithm = "mopso"
                        THEN ThinnedIn(Case, both)
                        ELSE CrowdedFirstIn(Case, both)
  BY <1>3, SwarmSame, SwarmSurvivors
  DEF Swarm!UpdateArchive, Swarm!NondominatedArchive, Swarm!CrowdingArchive, ThinnedIn
<1>6. /\ truncated' = (truncated \/ OutgrownIn(Case, both))
      /\ truncated' \in {truncated, TRUE}
  BY <1>1, <1>5
<1>7. CASE algorithm = "mopso"
  <2>1. archive' \in ThinnedIn(Case, both)
    BY <1>5, <1>7
  <2>2. Knows(Case, archive', evaluated \cup MembersIn(Case, moved),
              truncated \/ OutgrownIn(Case, both))
    BY <1>1, <1>2, <1>4, <2>1, ArchiveKeeps
  <2>3. CountIn(Case, archive') \in 1 .. Case.size
    BY <1>1, <1>2, <1>4, <2>1, ArchiveKeeps
  <2>4. MembersIn(Case, archive') # {}
    <3>1. archive' \in [Case.layouts -> Nat] /\ CountIn(Case, archive') > 0
      BY <2>2, <2>3 DEF Knows
    <3> QED
      BY <1>1, <3>1, CountedMembers
  <2>5. Unbeaten(Case, MembersIn(Case, archive'))
    BY <1>1, <1>2, <1>4, <2>1, ArchiveKeeps
  <2> QED
    BY <1>6, <2>2, <2>3, <2>4, <2>5, Zenon
<1>8. CASE algorithm # "mopso"
  <2>1. archive' \in RankClosedIn(Case, both)
    BY <1>5, <1>8 DEF CrowdedFirstIn
  <2>2. /\ Knows(Case, archive', evaluated \cup MembersIn(Case, moved),
                 truncated \/ OutgrownIn(Case, both))
        /\ CountIn(Case, archive') = Case.size
        /\ MembersIn(Case, archive') # {}
    BY <1>1, <1>4, <2>1, SurvivalSound
  <2>3. CountIn(Case, archive') \in 1 .. Case.size
    BY <1>1, <2>2
  <2> QED
    BY <1>8, <1>6, <2>2, <2>3, Zenon
<1> QED
  BY <1>7, <1>8

\* The first positions.
LEMMA SwarmBegins ==
  ASSUME SwarmInv, algorithm \in Swarm!Algorithms, Swarm!Initialize
  PROVE  SwarmInv' /\ GoesOn
<1>1. PICK rows \in [1 .. Case.size -> Case.layouts] :
        /\ evaluations' = evaluations + Case.size
        /\ evaluated' = evaluated \cup {rows[i] : i \in 1 .. Case.size}
        /\ Swarm!UpdateArchive(Swarm!PopulationOf(rows))
        /\ personalBest' = rows
  BY SwarmSame DEF Swarm!Initialize, Swarm!Counted
<1>2. /\ pc = "init" /\ pc' = "loop" /\ algorithm' = algorithm
      /\ generation' = generation /\ report' = report
  BY DEF Swarm!Initialize, Swarm!Counted
<1>3. PICK moved : moved = RowsIn(Case, rows)
  OBVIOUS
<1>4. RunInv /\ ParetoSetting(Case)
  BY DEF SwarmInv, RunInv
<1>5. /\ MembersIn(Case, moved) = {rows[i] : i \in 1 .. Case.size}
      /\ MembersIn(Case, moved) \in SUBSET Case.layouts /\ MembersIn(Case, moved) # {}
  BY <1>3, <1>4, RowsCounted
<1>6. /\ Knows(Case, archive', evaluated \cup MembersIn(Case, moved), truncated')
      /\ CountIn(Case, archive') \in 1 .. Case.size
      /\ MembersIn(Case, archive') # {}
      /\ algorithm = "mopso" => Unbeaten(Case, MembersIn(Case, archive'))
      /\ truncated' \in {truncated, TRUE}
  BY <1>1, <1>3, SwarmUpdate
<1>7. RunInv' /\ GoesOn
  BY <1>1, <1>2, <1>4, <1>5, <1>6, RunBegins
<1>8. Case' = Case
  BY <1>2 DEF Case
<1>9. evaluated' = evaluated \cup MembersIn(Case, moved)
  BY <1>1, <1>5
<1>10. /\ \A i \in 1 .. Case.size : personalBest'[i] \in evaluated'
       /\ report' \subseteq evaluated'
  BY <1>1, <1>2 DEF SwarmInv
<1> QED
  BY <1>1, <1>2, <1>6, <1>7, <1>8, <1>9, <1>10 DEF SwarmInv

\* The swarm moves.
LEMMA SwarmGoesOn ==
  ASSUME SwarmInv, algorithm \in Swarm!Algorithms, Swarm!Generation
  PROVE  SwarmInv' /\ GoesOn /\ (algorithm = "mopso" => Swarm!PersonalBestKept)
<1>1. PICK rows \in [1 .. Case.size -> Case.layouts] :
        /\ evaluations' = evaluations + Case.size
        /\ evaluated' = evaluated \cup {rows[i] : i \in 1 .. Case.size}
        /\ Swarm!UpdateArchive(Swarm!PopulationOf(rows))
        /\ IF algorithm = "mopso" THEN personalBest' \in Swarm!NewPersonalBests(rows)
                                  ELSE personalBest' = rows
  BY SwarmSame DEF Swarm!Generation, Swarm!Counted
<1>2. /\ pc = "loop" /\ pc' = "loop" /\ algorithm' = algorithm /\ algorithm # "tmoea"
      /\ generation < Case.generations
      /\ generation' = generation + 1 /\ report' = report
  BY DEF Swarm!Generation, Swarm!Counted, Swarm!NextGeneration, Swarm!GenerationsLeft,
         Swarm!Counting, Swarm!Generations, Case, Swarm!Algorithms
<1>3. PICK moved : moved = RowsIn(Case, rows)
  OBVIOUS
<1>4. /\ RunInv /\ ParetoSetting(Case)
      /\ personalBest \in [1 .. Case.size -> Case.layouts]
      /\ \A i \in 1 .. Case.size : personalBest[i] \in evaluated
  BY <1>2 DEF SwarmInv, RunInv
<1>5. /\ MembersIn(Case, moved) = {rows[i] : i \in 1 .. Case.size}
      /\ MembersIn(Case, moved) \in SUBSET Case.layouts
  BY <1>3, <1>4, RowsCounted
<1>6. /\ Knows(Case, archive', evaluated \cup MembersIn(Case, moved), truncated')
      /\ CountIn(Case, archive') \in 1 .. Case.size
      /\ MembersIn(Case, archive') # {}
      /\ algorithm = "mopso" => Unbeaten(Case, MembersIn(Case, archive'))
      /\ truncated' \in {truncated, TRUE}
  BY <1>1, <1>3, SwarmUpdate
<1>7. RunInv' /\ GoesOn
  BY <1>1, <1>2, <1>4, <1>5, <1>6, RunGenerates
<1>8. Case' = Case
  BY <1>2 DEF Case
<1>9. evaluated' = evaluated \cup MembersIn(Case, moved)
  BY <1>1, <1>5
<1>10. algorithm = "mopso" =>
         /\ personalBest' \in [1 .. Case.size -> Case.layouts]
         /\ \A i \in 1 .. Case.size :
              /\ personalBest'[i] \in {rows[i], personalBest[i]}
              /\ DominatesIn(Case, rows[i], personalBest[i]) => personalBest'[i] = rows[i]
              /\ DominatesIn(Case, personalBest[i], rows[i]) =>
                   personalBest'[i] = personalBest[i]
  BY <1>1, SwarmSame DEF Swarm!NewPersonalBests
<1>11. /\ personalBest' \in [1 .. Case.size -> Case.layouts]
       /\ \A i \in 1 .. Case.size : personalBest'[i] \in evaluated'
       /\ report' \subseteq evaluated'
  <2>1. personalBest' \in [1 .. Case.size -> Case.layouts]
    BY <1>1, <1>10
  <2>2. \A i \in 1 .. Case.size : personalBest'[i] \in {rows[i], personalBest[i]}
    BY <1>1, <1>10
  <2>3. report' \subseteq evaluated'
    BY <1>1, <1>2 DEF SwarmInv
  <2> QED
    BY <1>1, <1>4, <2>1, <2>2, <2>3
<1>12. SwarmInv'
  BY <1>2, <1>6, <1>7, <1>8, <1>9, <1>11 DEF SwarmInv
<1>13. ASSUME algorithm = "mopso", NEW i \in 1 .. Case.size
       PROVE  ~DominatesIn(Case, personalBest[i], personalBest'[i])
  <2>1. personalBest[i] \in Case.layouts
    BY <1>4
  <2>2. ~DominatesIn(Case, personalBest[i], personalBest[i])
    BY <1>4, <2>1, DominanceOrders
  <2> QED
    BY <1>10, <1>13, <2>2
<1>14. algorithm = "mopso" => Swarm!PersonalBestKept
  BY <1>13, SwarmSame DEF Swarm!PersonalBestKept
<1> QED
  BY <1>7, <1>12, <1>14

\* Every step of MOPSO and MORIME.
LEMMA SwarmStep ==
  ASSUME SwarmInv, algorithm \in Swarm!Algorithms, Swarm!Step, population' = population
  PROVE  SwarmInv' /\ GoesOn /\ (algorithm = "mopso" => Swarm!PersonalBestKept)
<1>1. CASE Swarm!Initialize
  <2>1. pc # "loop"
    BY <1>1 DEF Swarm!Initialize
  <2> QED
    BY <1>1, <2>1, SwarmBegins DEF Swarm!PersonalBestKept
<1>2. CASE Swarm!Generation
  BY <1>2, SwarmGoesOn
<1>3. CASE Swarm!Report
  <2>1. /\ pc = "loop" /\ pc' = "done" /\ algorithm' = algorithm /\ algorithm # "tmoea"
        /\ ~(generation < Case.generations)
        /\ UNCHANGED <<evaluations, evaluated, generation, truncated, archive, personalBest>>
        /\ report' = FrontIn(Case, {personalBest[i] : i \in 1 .. Case.size})
    BY <1>3, SwarmSame, SwarmSurvivors
    DEF Swarm!Report, Swarm!Leave, Swarm!GenerationsLeft, Swarm!Counting, Swarm!Generations,
        Case, Swarm!Algorithms
  <2>2. RunInv' /\ GoesOn
    BY <2>1, RunReturns DEF SwarmInv
  <2>3. Case' = Case
    BY <2>1 DEF Case
  <2>4. /\ ParetoSetting(Case)
        /\ personalBest \in [1 .. Case.size -> Case.layouts]
        /\ \A i \in 1 .. Case.size : personalBest[i] \in evaluated
    BY <2>1 DEF SwarmInv, RunInv
  <2>5. report' \subseteq evaluated'
    BY <2>1, <2>4 DEF FrontIn
  <2>6. SwarmInv'
    BY <2>1, <2>2, <2>3, <2>5 DEF SwarmInv
  <2>7. \A i \in 1 .. Case.size : ~DominatesIn(Case, personalBest[i], personalBest'[i])
    BY <2>1, <2>4, DominanceOrders
  <2>8. Swarm!PersonalBestKept
    BY <2>7, SwarmSame DEF Swarm!PersonalBestKept
  <2> QED
    BY <2>2, <2>6, <2>8
<1> QED
  BY <1>1, <1>2, <1>3 DEF Swarm!Step

-----------------------------------------------------------------------------
(* Decomposition.                                                          *)

\* Objectives, the value of a layout for a subproblem, and the ideal point.
InfinityIn(s) == Max(UNION {{s.objective[l][k] : k \in 1 .. s.axes} : l \in s.layouts}) + 1

ValueIn(s, layout, point, slot) ==
  Max({s.weight[slot][k] * (s.objective[layout][k] - point[k]) : k \in 1 .. s.axes})

LoweredIn(s, point, S) ==
  [k \in 1 .. s.axes |-> Min({point[k]} \cup {s.objective[l][k] : l \in S})]

IdealIn(s, E) == [k \in 1 .. s.axes |-> Min({s.objective[l][k] : l \in E})]

\* The point is the ideal point of what was evaluated.
Remembers(s, point, E) ==
  point = IF E = {} THEN [k \in 1 .. s.axes |-> InfinityIn(s)] ELSE IdealIn(s, E)

\* Every subproblem has a positive weight on each axis.
WeightsIn(s) == s.weight \in [1 .. s.size -> [1 .. s.axes -> Nat \ {0}]]

\* The neighborhood of each slot, nearest first.
HoodsIn(s) ==
  /\ s.neighborhood \in [1 .. s.size -> Seq(1 .. s.size)]
  /\ \A i \in 1 .. s.size : Len(s.neighborhood[i]) \in 2 .. s.size

\* No objective is beyond the first ideal point.
LEMMA InfinitySound ==
  ASSUME NEW s, ParetoSetting(s)
  PROVE  /\ InfinityIn(s) \in Nat
         /\ \A l \in s.layouts : \A k \in 1 .. s.axes : s.objective[l][k] < InfinityIn(s)
<1>1. PICK T : T = UNION {{s.objective[l][k] : k \in 1 .. s.axes} : l \in s.layouts}
  OBVIOUS
<1>2. T \subseteq Nat /\ T # {}
  <2>1. \A v \in T : v \in Nat
    BY <1>1, ObjectiveTypes
  <2>2. PICK l \in s.layouts : 1 \in 1 .. s.axes
    BY DEF ParetoSetting
  <2>3. s.objective[l][1] \in T
    BY <1>1, <2>2
  <2> QED
    BY <2>1, <2>3
<1>3. IsFiniteSet(T)
  <2>1. PICK D : D = s.layouts \X (1 .. s.axes)
    OBVIOUS
  <2>2. IsFiniteSet(D)
    <3>1. IsFiniteSet(s.layouts) /\ s.axes \in Int
      BY DEF ParetoSetting
    <3>2. IsFiniteSet(1 .. s.axes)
      BY <3>1, FS_Interval
    <3> QED
      BY <2>1, <3>1, <3>2, FS_Product
  <2>3. PICK f : f = [x \in D |-> s.objective[x[1]][x[2]]]
    OBVIOUS
  <2>4. IsFiniteSet({f[x] : x \in D})
    BY <2>2, <2>3, FiniteImage
  <2>5. T = {f[x] : x \in D}
    <3>1. ASSUME NEW v \in T PROVE v \in {f[x] : x \in D}
      <4>1. PICK l \in s.layouts : \E k \in 1 .. s.axes : v = s.objective[l][k]
        BY <1>1
      <4>2. PICK k \in 1 .. s.axes : v = s.objective[l][k]
        BY <4>1
      <4>3. <<l, k>> \in D /\ f[<<l, k>>] = v
        BY <2>1, <2>3, <4>2
      <4> QED
        BY <4>3
    <3>2. ASSUME NEW x \in D PROVE f[x] \in T
      BY <1>1, <2>1, <2>3
    <3> QED
      BY <3>1, <3>2
  <2> QED
    BY <2>4, <2>5
<1>4. Max(T) \in T /\ \A v \in T : v <= Max(T)
  <2>1. T \in SUBSET Int
    BY <1>2
  <2> QED
    BY <1>2, <1>3, <2>1, MaxSound
<1>5. InfinityIn(s) = Max(T) + 1 /\ Max(T) \in Nat
  BY <1>1, <1>2, <1>4 DEF InfinityIn
<1>6. ASSUME NEW l \in s.layouts, NEW k \in 1 .. s.axes
      PROVE  s.objective[l][k] < InfinityIn(s)
  <2>1. s.objective[l][k] \in T
    BY <1>1
  <2>2. s.objective[l][k] <= Max(T) /\ s.objective[l][k] \in Nat
    BY <1>2, <1>4, <2>1
  <2> QED
    BY <1>5, <2>2
<1> QED
  BY <1>5, <1>6

\* The ideal point of what was evaluated is no worse, and its coordinates are reached.
LEMMA IdealReached ==
  ASSUME NEW s, ParetoSetting(s), NEW E \in SUBSET s.layouts, E # {}, NEW k \in 1 .. s.axes
  PROVE  /\ IdealIn(s, E)[k] \in Nat
         /\ \A l \in E : IdealIn(s, E)[k] <= s.objective[l][k]
         /\ \E l \in E : IdealIn(s, E)[k] = s.objective[l][k]
<1>1. PICK T : T = {s.objective[l][k] : l \in E}
  OBVIOUS
<1>2. \A l \in E : s.objective[l][k] \in Nat
  BY ObjectiveTypes
<1>3. T \in SUBSET Nat /\ T # {}
  BY <1>1, <1>2
<1>4. IdealIn(s, E)[k] = Min(T)
  BY <1>1 DEF IdealIn
<1>5. Min(T) \in T /\ \A v \in T : Min(T) <= v
  BY <1>3, MinSound
<1> QED
  BY <1>1, <1>3, <1>4, <1>5

\* The point has numbers as coordinates from the start.
LEMMA IdealTypes ==
  ASSUME NEW s, ParetoSetting(s), NEW E \in SUBSET s.layouts, NEW point,
         Remembers(s, point, E)
  PROVE  \A k \in 1 .. s.axes : point[k] \in Nat
<1>1. CASE E = {}
  BY <1>1, InfinitySound DEF Remembers
<1>2. CASE E # {}
  <2>1. point = IdealIn(s, E)
    BY <1>2 DEF Remembers
  <2> QED
    BY <1>2, <2>1, IdealReached
<1> QED
  BY <1>1, <1>2

\* Lowered by a batch, the ideal point is that of everything so far.
LEMMA IdealGoesOn ==
  ASSUME NEW s, ParetoSetting(s), NEW E \in SUBSET s.layouts, NEW S \in SUBSET s.layouts,
         S # {}, NEW point, Remembers(s, point, E)
  PROVE  Remembers(s, LoweredIn(s, point, S), E \cup S)
<1>1. ASSUME NEW k \in 1 .. s.axes
      PROVE  Min({point[k]} \cup {s.objective[l][k] : l \in S}) =
               Min({s.objective[l][k] : l \in E \cup S})
  <2>1. PICK T : T = {point[k]} \cup {s.objective[l][k] : l \in S}
    OBVIOUS
  <2>2. PICK U : U = {s.objective[l][k] : l \in E \cup S}
    OBVIOUS
  <2>3. \A l \in s.layouts : s.objective[l][k] \in Nat
    BY ObjectiveTypes
  <2>4. point[k] \in Nat
    BY IdealTypes
  <2>5. T \in SUBSET Nat /\ T # {} /\ U \in SUBSET Nat /\ U # {}
    <3>1. \A v \in T : v \in Nat
      BY <2>1, <2>3, <2>4
    <3>2. \A v \in U : v \in Nat
      BY <2>2, <2>3
    <3>3. T # {} /\ U # {}
      BY <2>1, <2>2
    <3> QED
      BY <3>1, <3>2, <3>3
  <2>6. \E u \in U : u <= point[k]
    <3>1. CASE E = {}
      <4>1. PICK l \in S : TRUE
        OBVIOUS
      <4>2. s.objective[l][k] < InfinityIn(s) /\ InfinityIn(s) \in Nat
        BY InfinitySound
      <4>3. point[k] = InfinityIn(s)
        BY <3>1 DEF Remembers
      <4>4. s.objective[l][k] \in U /\ s.objective[l][k] \in Nat
        BY <2>2, <2>3
      <4>5. s.objective[l][k] <= point[k]
        BY <4>2, <4>3, <4>4
      <4> QED
        BY <4>4, <4>5
    <3>2. CASE E # {}
      <4>1. point = IdealIn(s, E)
        BY <3>2 DEF Remembers
      <4>2. PICK l \in E : point[k] = s.objective[l][k]
        BY <3>2, <4>1, IdealReached
      <4>3. s.objective[l][k] \in U
        BY <2>2
      <4> QED
        BY <2>4, <4>2, <4>3
    <3> QED
      BY <3>1, <3>2
  <2>7. \A v \in T : \E u \in U : u <= v
    <3>1. ASSUME NEW l \in S
          PROVE  s.objective[l][k] \in U /\ s.objective[l][k] <= s.objective[l][k]
      BY <2>2, <2>3
    <3>2. ASSUME NEW v \in T PROVE \E u \in U : u <= v
      BY <2>1, <2>6, <3>1
    <3> QED
      BY <3>2
  <2>8. \A u \in U : \E v \in T : v <= u
    <3>1. ASSUME NEW l \in E PROVE point[k] <= s.objective[l][k]
      <4>1. E # {} /\ point = IdealIn(s, E)
        BY DEF Remembers
      <4> QED
        BY <4>1, IdealReached
    <3>2. ASSUME NEW l \in S
          PROVE  s.objective[l][k] \in T /\ s.objective[l][k] <= s.objective[l][k]
      BY <2>1, <2>3
    <3>3. point[k] \in T
      BY <2>1
    <3>4. ASSUME NEW u \in U PROVE \E v \in T : v <= u
      <4>1. PICK l \in E \cup S : u = s.objective[l][k]
        BY <2>2
      <4> QED
        BY <3>1, <3>2, <3>3, <4>1
    <3> QED
      BY <3>4
  <2>9. Min(T) = Min(U)
    BY <2>5, <2>7, <2>8, SameMin
  <2> QED
    BY <2>1, <2>2, <2>9
<1>2. E \cup S # {}
  OBVIOUS
<1> QED
  BY <1>1, <1>2 DEF Remembers, LoweredIn, IdealIn

\* The value of a layout for a subproblem is a number.
LEMMA ValueTypes ==
  ASSUME NEW s, ParetoSetting(s), WeightsIn(s), NEW slot \in 1 .. s.size,
         NEW l \in s.layouts, NEW point, \A k \in 1 .. s.axes : point[k] \in Nat
  PROVE  ValueIn(s, l, point, slot) \in Int
<1>1. PICK f : f = [k \in 1 .. s.axes |-> s.weight[slot][k] * (s.objective[l][k] - point[k])]
  OBVIOUS
<1>2. PICK T : T = {f[k] : k \in 1 .. s.axes}
  OBVIOUS
<1>3. ASSUME NEW k \in 1 .. s.axes PROVE f[k] \in Int
  <2>1. s.weight[slot][k] \in Nat /\ s.objective[l][k] \in Nat /\ point[k] \in Nat
    BY ObjectiveTypes DEF WeightsIn
  <2> QED
    BY <1>1, <2>1
<1>4. IsFiniteSet(1 .. s.axes) /\ 1 \in 1 .. s.axes
  <2>1. s.axes \in Nat \ {0} /\ 1 \in Int
    BY DEF ParetoSetting
  <2>2. IsFiniteSet(1 .. s.axes)
    BY <2>1, FS_Interval
  <2> QED
    BY <2>1, <2>2
<1>5. IsFiniteSet(T)
  <2>1. DOMAIN f = 1 .. s.axes
    BY <1>1
  <2>2. IsFiniteSet({f[k] : k \in 1 .. s.axes})
    BY <1>4, <2>1, FiniteImage
  <2> QED
    BY <1>2, <2>2
<1>6. T \in SUBSET Int /\ T # {}
  BY <1>2, <1>3, <1>4
<1>7. Max(T) \in Int
  BY <1>5, <1>6, MaxSound
<1>8. ValueIn(s, l, point, slot) = Max(T)
  BY <1>1, <1>2 DEF ValueIn
<1> QED
  BY <1>7, <1>8

\* Two values are two.
LEMMA PairSize ==
  ASSUME NEW x, NEW y, x # y
  PROVE  IsFiniteSet({x, y}) /\ Cardinality({x, y}) = 2
<1>1. IsFiniteSet({x}) /\ Cardinality({x}) = 1
  BY FS_Singleton
<1>2. y \notin {x} /\ {x} \cup {y} = {x, y}
  OBVIOUS
<1> QED
  BY <1>1, <1>2, FS_AddElement

\* The first two of a set of numbers are two at most, and what they stand for is.
LEMMA FirstTwo ==
  ASSUME NEW A \in SUBSET Nat, IsFiniteSet(A), NEW hood,
         NEW S, S \subseteq {hood[n] : n \in {m \in A : Cardinality({o \in A : o < m}) < 2}}
  PROVE  IsFiniteSet(S) /\ Cardinality(S) <= 2
<1>1. PICK two : two = {m \in A : Cardinality({o \in A : o < m}) < 2}
  OBVIOUS
<1>2. \E a, b : two \subseteq {a, b}
  <2>1. CASE A = {}
    BY <1>1, <2>1
  <2>2. CASE A # {}
    <3>1. PICK a \in A : \A m \in A : a <= m
      BY <2>2, LeastNumber
    <3>2. CASE A \ {a} = {}
      BY <1>1, <3>2
    <3>3. CASE A \ {a} # {}
      <4>1. A \ {a} \in SUBSET Nat
        OBVIOUS
      <4>2. PICK b \in A \ {a} : \A m \in A \ {a} : b <= m
        BY <3>3, <4>1, LeastNumber
      <4>3. ASSUME NEW m \in two, m # a, m # b PROVE FALSE
        <5>1. PICK less : less = {o \in A : o < m}
          OBVIOUS
        <5>2. m \in A /\ Cardinality(less) < 2
          BY <1>1, <5>1
        <5>3. a \in Nat /\ b \in Nat /\ m \in Nat
          BY <5>2
        <5>4. a < m /\ b < m
          BY <3>1, <4>2, <4>3, <5>2, <5>3
        <5>5. {a, b} \subseteq less /\ a # b
          BY <4>2, <5>1, <5>4
        <5>6. IsFiniteSet(less)
          BY <5>1, FS_Subset
        <5>7. Cardinality({a, b}) = 2
          BY <5>5, PairSize
        <5>8. Cardinality({a, b}) <= Cardinality(less)
          BY <5>5, <5>6, FS_Subset
        <5>9. Cardinality(less) \in Nat
          BY <5>6, FS_CardinalityType
        <5> QED
          BY <5>2, <5>7, <5>8, <5>9
      <4> QED
        BY <4>3
    <3> QED
      BY <3>2, <3>3
  <2> QED
    BY <2>1, <2>2
<1>3. PICK a, b : two \subseteq {a, b}
  BY <1>2
<1>4. PICK pair : pair = {hood[a], hood[b]}
  OBVIOUS
<1>5. IsFiniteSet(pair) /\ Cardinality(pair) <= 2
  <2>1. PICK x, y : x = hood[a] /\ y = hood[b]
    OBVIOUS
  <2>2. CASE x = y
    <3>1. pair = {x}
      BY <1>4, <2>1, <2>2
    <3>2. IsFiniteSet({x}) /\ Cardinality({x}) = 1
      BY FS_Singleton
    <3> QED
      BY <3>1, <3>2
  <2>3. CASE x # y
    <3>1. pair = {x, y}
      BY <1>4, <2>1
    <3> QED
      BY <2>3, <3>1, PairSize
  <2> QED
    BY <2>2, <2>3
<1>6. S \subseteq pair
  BY <1>1, <1>3, <1>4
<1>7. IsFiniteSet(S) /\ Cardinality(S) <= Cardinality(pair)
  BY <1>5, <1>6, FS_Subset
<1> QED
  BY <1>5, <1>7, FS_CardinalityType

\* What is chosen for it.
LEMMA DecomposedCase ==
  ASSUME algorithm \in Chosen, algorithm \in Decomposed!Algorithms
  PROVE  ParetoSetting(Case) /\ GenerationsSetting(Case) /\ WeightsIn(Case) /\ HoodsIn(Case)
<1>1. Decomposed!SettingOK(Case)
  BY SettingAssumption DEF Case
<1>2. ParetoSetting(Case) /\ GenerationsSetting(Case)
  BY <1>1 DEF Decomposed!SettingOK, Decomposed!ParetoSetting, ParetoSetting,
              Decomposed!IsFiniteSet, IsFiniteSet, Decomposed!GenerationsSetting,
              GenerationsSetting
<1>3. WeightsIn(Case) /\ HoodsIn(Case)
  BY <1>1 DEF Decomposed!SettingOK, WeightsIn, HoodsIn
<1> QED
  BY <1>2, <1>3

\* Its operators are those of the setting.
LEMMA DecomposedSame ==
  /\ Decomposed!Layouts = Case.layouts /\ Decomposed!PopulationSize = Case.size
  /\ Decomposed!Axes = 1 .. Case.axes /\ Decomposed!Slots = 1 .. Case.size
  /\ Decomposed!Neighborhood = Case.neighborhood
  /\ Decomposed!Infinity = InfinityIn(Case)
  /\ \A l, point, slot : Decomposed!Tchebycheff(l, point, slot) = ValueIn(Case, l, point, slot)
  /\ \A point, S : Decomposed!Lowered(point, S) = LoweredIn(Case, point, S)
BY DEF Decomposed!Layouts, Decomposed!PopulationSize, Decomposed!Axes, Decomposed!Slots,
       Decomposed!Neighborhood, Decomposed!Infinity, InfinityIn, Decomposed!Tchebycheff,
       ValueIn, Decomposed!Weight, Decomposed!Objective, Decomposed!Lowered, LoweredIn, Case,
       Decomposed!Max, Max, Decomposed!Min, Min

\* Rows of evaluated layouts, one for each slot.
RowsOf(s, rows, E) ==
  rows \in [1 .. s.size -> s.layouts] /\ \A i \in 1 .. s.size : rows[i] \in E

\* What MOEA/D holds.
DecomposedInv ==
  /\ RunInv
  /\ pc \in {"init", "loop", "replace", "done"}
  /\ truncated = TRUE
  /\ WeightsIn(Case) /\ HoodsIn(Case)
  /\ Remembers(Case, ideal, evaluated)
  /\ pc # "init" => RowsOf(Case, population, evaluated)
  /\ pc = "replace" =>
       RowsOf(Case, offspring, evaluated) /\ turn \in Nat \ {0}

\* At the start nothing has been evaluated.
LEMMA DecomposedInit ==
  ASSUME Init, algorithm \in Decomposed!Algorithms
  PROVE  DecomposedInv /\ pc = "init" /\ evaluations = 0 /\ evaluated = {}
<1>1. Decomposed!Init /\ algorithm \in Chosen
  BY DEF Init, Sorting!Algorithms, References!Algorithms, Swarm!Algorithms,
         Decomposed!Algorithms
<1>2. /\ pc = "init" /\ generation = 0 /\ evaluations = 0 /\ evaluated = {}
      /\ truncated = TRUE /\ ideal = [k \in 1 .. Case.axes |-> InfinityIn(Case)]
  BY <1>1, DecomposedSame DEF Decomposed!Init, Decomposed!RunInit
<1>3. /\ ParetoSetting(Case) /\ algorithm # "tmoea" /\ WeightsIn(Case) /\ HoodsIn(Case)
      /\ Case.generations \in Nat /\ 0 <= Case.generations
  BY <1>1, DecomposedCase DEF GenerationsSetting, Decomposed!Algorithms
<1>4. RunInv
  BY <1>1, <1>2, <1>3, Zenon DEF RunInv
<1> QED
  BY <1>2, <1>3, <1>4 DEF DecomposedInv, Remembers

\* The rows of a batch are evaluated and lower the ideal point.
LEMMA DecomposedBatch ==
  ASSUME DecomposedInv, algorithm' = algorithm,
         NEW rows \in [1 .. Case.size -> Case.layouts], NEW S,
         S = {rows[i] : i \in 1 .. Case.size},
         evaluated' = evaluated \cup S, ideal' = LoweredIn(Case, ideal, S)
  PROVE  /\ S \in SUBSET Case.layouts /\ S # {}
         /\ Remembers(Case, ideal', evaluated')
         /\ RowsOf(Case, rows, evaluated')
<1>1. ParetoSetting(Case) /\ evaluated \in SUBSET Case.layouts
      /\ Remembers(Case, ideal, evaluated)
  BY DEF DecomposedInv, RunInv
<1>2. S \in SUBSET Case.layouts /\ S # {}
  BY <1>1, RowsCounted
<1>3. Remembers(Case, LoweredIn(Case, ideal, S), evaluated \cup S)
  BY <1>1, <1>2, IdealGoesOn
<1>4. \A i \in 1 .. Case.size : rows[i] \in S
  OBVIOUS
<1> QED
  BY <1>2, <1>3, <1>4 DEF RowsOf

\* The first layouts.
LEMMA DecomposedBegins ==
  ASSUME DecomposedInv, algorithm \in Decomposed!Algorithms, Decomposed!Initialize
  PROVE  DecomposedInv' /\ GoesOn
<1>1. PICK rows \in [1 .. Case.size -> Case.layouts] :
        /\ population' = rows
        /\ evaluations' = evaluations + Case.size
        /\ evaluated' = evaluated \cup {rows[i] : i \in 1 .. Case.size}
        /\ ideal' = LoweredIn(Case, ideal, {rows[i] : i \in 1 .. Case.size})
  BY DecomposedSame DEF Decomposed!Initialize, Decomposed!Counted
<1>2. /\ pc = "init" /\ pc' = "loop" /\ algorithm' = algorithm
      /\ generation' = generation /\ truncated' = truncated
  BY DEF Decomposed!Initialize, Decomposed!Counted
<1>3. PICK S : S = {rows[i] : i \in 1 .. Case.size}
  OBVIOUS
<1>4. /\ S \in SUBSET Case.layouts /\ S # {}
      /\ Remembers(Case, ideal', evaluated')
      /\ RowsOf(Case, rows, evaluated')
  BY <1>1, <1>2, <1>3, DecomposedBatch
<1>5. RunInv /\ truncated = TRUE /\ WeightsIn(Case) /\ HoodsIn(Case)
  BY DEF DecomposedInv
<1>6. RunInv' /\ GoesOn
  BY <1>1, <1>2, <1>3, <1>4, <1>5, RunBegins
<1>7. Case' = Case
  BY <1>2 DEF Case
<1> QED
  BY <1>1, <1>2, <1>4, <1>5, <1>6, <1>7 DEF DecomposedInv

\* Slots are compared by numbers, measured from the ideal point.
LEMMA ValueOfSlot ==
  ASSUME DecomposedInv, pc # "init", NEW rows, RowsOf(Case, rows, evaluated),
         NEW i \in 1 .. Case.size
  PROVE  ValueIn(Case, rows[i], ideal, i) \in Int
<1>1. ParetoSetting(Case) /\ WeightsIn(Case) /\ evaluated \in SUBSET Case.layouts
  BY DEF DecomposedInv, RunInv
<1>2. \A k \in 1 .. Case.axes : ideal[k] \in Nat
  BY <1>1, IdealTypes DEF DecomposedInv
<1>3. rows[i] \in Case.layouts
  BY DEF RowsOf
<1> QED
  BY <1>1, <1>2, <1>3, ValueTypes

\* A step that leaves the slots alone takes nothing from a subproblem.
LEMMA SlotsRest ==
  ASSUME DecomposedInv, DecomposedInv', algorithm' = algorithm, population' = population,
         pc' # "init"
  PROVE  Decomposed!SubproblemKept /\ Decomposed!TakesAtMostTwo
<1>1. Case' = Case
  BY DEF Case
<1>2. ASSUME pc # "init", NEW i \in 1 .. Case.size
      PROVE  ValueIn(Case, population'[i], ideal', i) <= ValueIn(Case, population[i], ideal', i)
  <2>1. ParetoSetting(Case) /\ WeightsIn(Case) /\ population[i] \in Case.layouts
    BY <1>2 DEF DecomposedInv, RunInv, RowsOf
  <2>2. \A k \in 1 .. Case.axes : ideal'[k] \in Nat
    <3>1. evaluated' \in SUBSET Case.layouts /\ Remembers(Case, ideal', evaluated')
      BY <1>1 DEF DecomposedInv, RunInv
    <3> QED
      BY <2>1, <3>1, IdealTypes
  <2>3. ValueIn(Case, population[i], ideal', i) \in Int
    BY <2>1, <2>2, ValueTypes
  <2> QED
    BY <2>3
<1>3. Decomposed!SubproblemKept
  BY <1>2, DecomposedSame DEF Decomposed!SubproblemKept
<1>4. PICK S : S = {i \in 1 .. Case.size : population'[i] # population[i]}
  OBVIOUS
<1>5. S = {}
  BY <1>4
<1>6. Cardinality(S) <= 2
  BY <1>5, FS_EmptySet
<1>7. Decomposed!TakesAtMostTwo
  BY <1>4, <1>6, DecomposedSame DEF Decomposed!TakesAtMostTwo, Decomposed!Cardinality,
                                    Cardinality
<1> QED
  BY <1>3, <1>7

\* The offspring of a generation.
LEMMA DecomposedGenerates ==
  ASSUME DecomposedInv, algorithm \in Decomposed!Algorithms, Decomposed!Generation
  PROVE  DecomposedInv' /\ GoesOn /\ population' = population
<1>1. PICK rows \in [1 .. Case.size -> Case.layouts] :
        /\ offspring' = rows
        /\ evaluations' = evaluations + Case.size
        /\ evaluated' = evaluated \cup {rows[i] : i \in 1 .. Case.size}
        /\ ideal' = LoweredIn(Case, ideal, {rows[i] : i \in 1 .. Case.size})
  BY DecomposedSame DEF Decomposed!Generation, Decomposed!Counted
<1>2. /\ pc = "loop" /\ pc' = "replace" /\ algorithm' = algorithm /\ algorithm # "tmoea"
      /\ generation < Case.generations /\ generation' = generation + 1
      /\ truncated' = truncated /\ population' = population /\ turn' = 1
  BY DEF Decomposed!Generation, Decomposed!Counted, Decomposed!NextGeneration,
         Decomposed!GenerationsLeft, Decomposed!Counting, Decomposed!Generations, Case,
         Decomposed!Algorithms
<1>3. PICK S : S = {rows[i] : i \in 1 .. Case.size}
  OBVIOUS
<1>4. /\ S \in SUBSET Case.layouts /\ S # {}
      /\ Remembers(Case, ideal', evaluated')
      /\ RowsOf(Case, rows, evaluated')
  BY <1>1, <1>2, <1>3, DecomposedBatch
<1>5. RunInv /\ truncated = TRUE /\ WeightsIn(Case) /\ HoodsIn(Case)
      /\ RowsOf(Case, population, evaluated)
  BY <1>2 DEF DecomposedInv
<1>6. RunInv' /\ GoesOn
  BY <1>1, <1>2, <1>3, <1>4, <1>5, RunGenerates
<1>7. Case' = Case
  BY <1>2 DEF Case
<1>8. RowsOf(Case, population, evaluated')
  BY <1>1, <1>5 DEF RowsOf
<1> QED
  BY <1>1, <1>2, <1>4, <1>5, <1>6, <1>7, <1>8 DEF DecomposedInv

\* A step that evaluates nothing, between two of which the run has not returned.
LEMMA RunSettles ==
  ASSUME RunInv, truncated = TRUE, algorithm' = algorithm, pc = "replace",
         pc' \in {"loop", "replace"},
         UNCHANGED <<evaluations, evaluated, generation, truncated>>
  PROVE  RunInv' /\ GoesOn
<1>1. Case' = Case /\ Chosen' = Chosen
  BY DEF Case, Chosen
<1>2. RunInv'
  BY <1>1 DEF RunInv
<1>3. SettleStep
  BY DEF SettleStep
<1> QED
  BY <1>2, <1>3 DEF GoesOn

\* An offspring in its neighborhood.
LEMMA DecomposedReplaces ==
  ASSUME DecomposedInv, algorithm \in Decomposed!Algorithms, Decomposed!Replace
  PROVE  /\ DecomposedInv' /\ GoesOn
         /\ Decomposed!SubproblemKept /\ Decomposed!TakesAtMostTwo
<1>1. PICK replaced :
        replaced = Decomposed!Replaced(offspring[turn], Case.neighborhood[turn])
  OBVIOUS
<1>2. /\ pc = "replace" /\ turn \in 1 .. Case.size
      /\ population' = [i \in 1 .. Case.size |->
                          IF i \in replaced THEN offspring[turn] ELSE population[i]]
      /\ turn' = turn + 1
      /\ UNCHANGED <<algorithm, pc, generation, evaluations, evaluated, truncated, ideal,
                     offspring>>
  BY <1>1, DecomposedSame DEF Decomposed!Replace, Decomposed!runVars
<1>3. /\ RunInv /\ truncated = TRUE /\ WeightsIn(Case) /\ HoodsIn(Case)
      /\ RowsOf(Case, population, evaluated) /\ RowsOf(Case, offspring, evaluated)
      /\ turn \in Nat \ {0}
  BY <1>2 DEF DecomposedInv
<1>4. RunInv' /\ GoesOn
  BY <1>2, <1>3, RunSettles
<1>5. Case' = Case
  BY <1>2 DEF Case
<1>6. RowsOf(Case, population', evaluated')
  BY <1>2, <1>3 DEF RowsOf
<1>7. turn' \in Nat \ {0}
  BY <1>2, <1>3
<1>8. DecomposedInv'
  BY <1>2, <1>3, <1>4, <1>5, <1>6, <1>7 DEF DecomposedInv
<1>9. PICK hood : hood = Case.neighborhood[turn]
  OBVIOUS
<1>10. PICK accepting : accepting = {n \in DOMAIN hood :
         ValueIn(Case, offspring[turn], ideal, hood[n]) <=
           ValueIn(Case, population[hood[n]], ideal, hood[n])}
  OBVIOUS
<1>11. replaced = {hood[n] : n \in {m \in accepting :
                     Cardinality({o \in accepting : o < m}) < 2}}
  <2>1. \A l, slot : Decomposed!Accepts(l, slot) <=>
          ValueIn(Case, l, ideal, slot) <= ValueIn(Case, population[slot], ideal, slot)
    BY DecomposedSame DEF Decomposed!Accepts
  <2>2. accepting = {n \in DOMAIN hood : Decomposed!Accepts(offspring[turn], hood[n])}
    BY <1>10, <2>1
  <2> QED
    BY <1>1, <1>9, <2>2 DEF Decomposed!Replaced, Decomposed!Cardinality, Cardinality
<1>12. accepting \in SUBSET Nat /\ IsFiniteSet(accepting)
  <2>1. hood \in Seq(1 .. Case.size)
    BY <1>2, <1>3, <1>9 DEF HoodsIn
  <2>2. DOMAIN hood = 1 .. Len(hood) /\ Len(hood) \in Nat
    BY <2>1
  <2>3. IsFiniteSet(1 .. Len(hood))
    BY <2>2, FS_Interval
  <2>4. accepting \in SUBSET (1 .. Len(hood))
    BY <1>10, <2>2
  <2>5. IsFiniteSet(accepting)
    BY <2>3, <2>4, FS_Subset
  <2> QED
    BY <2>2, <2>4, <2>5
<1>13. ASSUME NEW i \in 1 .. Case.size
       PROVE  ValueIn(Case, population'[i], ideal', i) <= ValueIn(Case, population[i], ideal', i)
  <2>1. ideal' = ideal
    BY <1>2
  <2>2. CASE i \in replaced
    <3>1. PICK n \in accepting : i = hood[n]
      BY <1>11, <2>2
    <3>2. ValueIn(Case, offspring[turn], ideal, i) <= ValueIn(Case, population[i], ideal, i)
      BY <1>10, <3>1
    <3>3. population'[i] = offspring[turn]
      BY <1>2, <2>2
    <3> QED
      BY <2>1, <3>2, <3>3
  <2>3. CASE i \notin replaced
    <3>1. population'[i] = population[i]
      BY <1>2, <2>3
    <3>2. ValueIn(Case, population[i], ideal, i) \in Int
      BY <1>2, <1>3, ValueOfSlot
    <3> QED
      BY <2>1, <3>1, <3>2
  <2> QED
    BY <2>2, <2>3
<1>14. Decomposed!SubproblemKept
  BY <1>13, DecomposedSame DEF Decomposed!SubproblemKept
<1>15. PICK S : S = {i \in 1 .. Case.size : population'[i] # population[i]}
  OBVIOUS
<1>16. S \subseteq replaced
  BY <1>2, <1>15
<1>17. Cardinality(S) <= 2
  BY <1>11, <1>12, <1>16, FirstTwo
<1>18. Decomposed!TakesAtMostTwo
  BY <1>15, <1>17, DecomposedSame DEF Decomposed!TakesAtMostTwo, Decomposed!Cardinality,
                                      Cardinality
<1> QED
  BY <1>4, <1>8, <1>14, <1>18

\* Every step of MOEA/D.
LEMMA DecomposedStep ==
  ASSUME DecomposedInv, algorithm \in Decomposed!Algorithms, Decomposed!Step,
         archive' = archive
  PROVE  /\ DecomposedInv' /\ GoesOn
         /\ Decomposed!SubproblemKept /\ Decomposed!TakesAtMostTwo
<1>1. CASE Decomposed!Initialize
  <2>1. pc = "init"
    BY <1>1 DEF Decomposed!Initialize
  <2>2. Decomposed!SubproblemKept /\ Decomposed!TakesAtMostTwo
    BY <2>1 DEF Decomposed!SubproblemKept, Decomposed!TakesAtMostTwo
  <2> QED
    BY <1>1, <2>2, DecomposedBegins
<1>2. CASE Decomposed!Generation
  <2>1. DecomposedInv' /\ GoesOn /\ population' = population
    BY <1>2, DecomposedGenerates
  <2>2. algorithm' = algorithm /\ pc' # "init"
    BY <1>2 DEF Decomposed!Generation, Decomposed!Counted
  <2> QED
    BY <2>1, <2>2, SlotsRest
<1>3. CASE Decomposed!Replace
  BY <1>3, DecomposedReplaces
<1>4. CASE Decomposed!EndGeneration
  <2>1. /\ pc = "replace" /\ pc' = "loop"
        /\ UNCHANGED <<algorithm, generation, evaluations, evaluated, truncated, population,
                       ideal>>
    BY <1>4 DEF Decomposed!EndGeneration
  <2>2. RunInv' /\ GoesOn
    BY <2>1, RunSettles DEF DecomposedInv
  <2>3. Case' = Case
    BY <2>1 DEF Case
  <2>4. DecomposedInv'
    BY <2>1, <2>2, <2>3 DEF DecomposedInv
  <2> QED
    BY <2>1, <2>2, <2>4, SlotsRest
<1>5. CASE Decomposed!Report
  <2>1. /\ pc = "loop" /\ pc' = "done" /\ algorithm' = algorithm /\ algorithm # "tmoea"
        /\ ~(generation < Case.generations)
        /\ UNCHANGED <<evaluations, evaluated, generation, truncated, population, ideal>>
    BY <1>5 DEF Decomposed!Report, Decomposed!Leave, Decomposed!GenerationsLeft,
                Decomposed!Counting, Decomposed!Generations, Case, Decomposed!Algorithms
  <2>2. RunInv' /\ GoesOn
    BY <2>1, RunReturns DEF DecomposedInv
  <2>3. Case' = Case
    BY <2>1 DEF Case
  <2>4. DecomposedInv'
    BY <2>1, <2>2, <2>3 DEF DecomposedInv
  <2> QED
    BY <2>1, <2>2, <2>4, SlotsRest
<1> QED
  BY <1>1, <1>2, <1>3, <1>4, <1>5 DEF Decomposed!Step

-----------------------------------------------------------------------------
(* The family.                                                             *)

\* The inductive invariant: what the search that is run holds.
FrontInv ==
  /\ algorithm \in Chosen
  /\ algorithm \in Sorting!Algorithms => SortingInv
  /\ algorithm \in References!Algorithms => ReferencesInv
  /\ algorithm \in Swarm!Algorithms => SwarmInv
  /\ algorithm \in Decomposed!Algorithms => DecomposedInv

\* A search is one of the four kinds.
LEMMA FourKinds ==
  ASSUME NEW a \in Chosen
  PROVE  \/ a \in Sorting!Algorithms \/ a \in References!Algorithms
         \/ a \in Swarm!Algorithms \/ a \in Decomposed!Algorithms
BY SettingAssumption

\* No search is of two kinds.
LEMMA KindsApart ==
  ASSUME NEW a
  PROVE  /\ a \in Sorting!Algorithms =>
              a \notin References!Algorithms \cup Swarm!Algorithms \cup Decomposed!Algorithms
         /\ a \in References!Algorithms =>
              a \notin Sorting!Algorithms \cup Swarm!Algorithms \cup Decomposed!Algorithms
         /\ a \in Swarm!Algorithms =>
              a \notin Sorting!Algorithms \cup References!Algorithms \cup Decomposed!Algorithms
         /\ a \in Decomposed!Algorithms =>
              a \notin Sorting!Algorithms \cup References!Algorithms \cup Swarm!Algorithms
BY DEF Sorting!Algorithms, References!Algorithms, Swarm!Algorithms, Decomposed!Algorithms

\* What every search counts.
LEMMA FamilyRuns ==
  ASSUME FrontInv
  PROVE  RunInv
BY FourKinds DEF FrontInv, SortingInv, ReferencesInv, SwarmInv, DecomposedInv

\* A run begins with nothing evaluated.
LEMMA FamilyInit ==
  ASSUME Init
  PROVE  FrontInv /\ pc = "init" /\ evaluations = 0 /\ evaluated = {}
         /\ (algorithm \in References!Algorithms => archive = {})
<1>1. algorithm \in Chosen
  BY DEF Init
<1>2. CASE algorithm \in Sorting!Algorithms
  BY <1>1, <1>2, SortingInit, KindsApart DEF FrontInv
<1>3. CASE algorithm \in References!Algorithms
  BY <1>1, <1>3, ReferencesInit, KindsApart DEF FrontInv
<1>4. CASE algorithm \in Swarm!Algorithms
  BY <1>1, <1>4, SwarmInit, KindsApart DEF FrontInv
<1>5. CASE algorithm \in Decomposed!Algorithms
  BY <1>1, <1>5, DecomposedInit, KindsApart DEF FrontInv
<1> QED
  BY <1>1, <1>2, <1>3, <1>4, <1>5, FourKinds

\* What HoldsWhatItHas says of a step.
HoldsStep ==
  /\ algorithm \in Decomposed!Algorithms =>
       Decomposed!SubproblemKept /\ Decomposed!TakesAtMostTwo
  /\ algorithm = "mopso" => Swarm!PersonalBestKept

\* Every step of a search leaves it what it holds.
LEMMA FamilyStep ==
  ASSUME FrontInv, Step
  PROVE  FrontInv' /\ GoesOn /\ HoldsStep
<1>1. algorithm \in Chosen /\ Chosen' = Chosen
  BY DEF FrontInv, Chosen
<1>2. CASE RunSorting
  <2>1. algorithm \in Sorting!Algorithms /\ Sorting!Step /\ archive' = archive /\ SortingInv
    BY <1>2 DEF RunSorting, FrontInv
  <2>2. SortingInv' /\ GoesOn
    BY <2>1, SortingStep
  <2>3. algorithm' = algorithm
    BY <2>2 DEF GoesOn
  <2>4. algorithm \notin Decomposed!Algorithms /\ algorithm # "mopso"
    BY <2>1, KindsApart DEF Sorting!Algorithms
  <2> QED
    BY <1>1, <2>1, <2>2, <2>3, <2>4, KindsApart DEF FrontInv, HoldsStep
<1>3. CASE RunReferences
  <2>1. algorithm \in References!Algorithms /\ References!Step /\ ReferencesInv
    BY <1>3 DEF RunReferences, FrontInv
  <2>2. ReferencesInv' /\ GoesOn
    BY <2>1, ReferencesStep
  <2>3. algorithm' = algorithm
    BY <2>2 DEF GoesOn
  <2>4. algorithm \notin Decomposed!Algorithms /\ algorithm # "mopso"
    BY <2>1, KindsApart DEF References!Algorithms
  <2> QED
    BY <1>1, <2>1, <2>2, <2>3, <2>4, KindsApart DEF FrontInv, HoldsStep
<1>4. CASE RunSwarm
  <2>1. algorithm \in Swarm!Algorithms /\ Swarm!Step /\ population' = population /\ SwarmInv
    BY <1>4 DEF RunSwarm, FrontInv
  <2>2. SwarmInv' /\ GoesOn /\ (algorithm = "mopso" => Swarm!PersonalBestKept)
    BY <2>1, SwarmStep
  <2>3. algorithm' = algorithm
    BY <2>2 DEF GoesOn
  <2> QED
    BY <1>1, <2>1, <2>2, <2>3, KindsApart DEF FrontInv, HoldsStep
<1>5. CASE RunDecomposed
  <2>1. /\ algorithm \in Decomposed!Algorithms /\ Decomposed!Step /\ archive' = archive
        /\ DecomposedInv
    BY <1>5 DEF RunDecomposed, FrontInv
  <2>2. /\ DecomposedInv' /\ GoesOn
        /\ Decomposed!SubproblemKept /\ Decomposed!TakesAtMostTwo
    BY <2>1, DecomposedStep
  <2>3. algorithm' = algorithm
    BY <2>2 DEF GoesOn
  <2>4. algorithm # "mopso"
    BY <2>1 DEF Decomposed!Algorithms
  <2> QED
    BY <1>1, <2>1, <2>2, <2>3, <2>4, KindsApart DEF FrontInv, HoldsStep
<1> QED
  BY <1>2, <1>3, <1>4, <1>5 DEF Step

\* Nothing changes.
LEMMA FamilyRests ==
  ASSUME FrontInv, UNCHANGED vars
  PROVE  FrontInv'
<1>1. /\ UNCHANGED <<algorithm, pc, generation, evaluations, evaluated, truncated>>
      /\ UNCHANGED <<population, pool, report, archive, rangeMin, rangeMax, personalBest>>
      /\ UNCHANGED <<ideal, offspring, turn>>
  BY DEF vars, runVars, references, decomposed
<1>2. Case' = Case /\ Chosen' = Chosen
  BY <1>1 DEF Case, Chosen
<1>3. RunInv => RunInv'
  BY <1>1, <1>2 DEF RunInv
<1>4. SortingInv => SortingInv'
  BY <1>1, <1>2, <1>3 DEF SortingInv
<1>5. ReferencesInv => ReferencesInv'
  BY <1>1, <1>2, <1>3 DEF ReferencesInv
<1>6. SwarmInv => SwarmInv'
  BY <1>1, <1>2, <1>3 DEF SwarmInv
<1>7. DecomposedInv => DecomposedInv'
  BY <1>1, <1>2, <1>3 DEF DecomposedInv
<1> QED
  BY <1>1, <1>2, <1>4, <1>5, <1>6, <1>7 DEF FrontInv

\* Every reachable state satisfies it.
LEMMA FamilyInductive == Spec => []FrontInv
<1>1. Init => FrontInv
  BY FamilyInit
<1>2. FrontInv /\ [Next]_vars => FrontInv'
  BY FamilyStep, FamilyRests DEF Next, Ended
<1> QED
  BY <1>1, <1>2, PTL DEF Spec

\* No step gives up what it holds for something worse: a subproblem its layout, to an
\* offspring that takes at most two of them, or a member of a swarm its personal best.
THEOREM NothingIsGivenUp == Spec => HoldsWhatItHas
<1>1. FrontInv /\ [Next]_vars =>
        [/\ algorithm \in Decomposed!Algorithms =>
              Decomposed!SubproblemKept /\ Decomposed!TakesAtMostTwo
         /\ algorithm = "mopso" => Swarm!PersonalBestKept]_vars
  BY FamilyStep DEF Next, Ended, HoldsStep
<1> QED
  BY <1>1, FamilyInductive, PTL DEF Spec, HoldsWhatItHas

\* A leader can always be drawn, from an archive that never outgrows the population, and
\* every leader of MOPSO is nondominated.
THEOREM LeadersAreSound == Spec => []LeadersSound
<1>1. ASSUME FrontInv, algorithm \in Swarm!Algorithms
      PROVE  /\ Swarm!LeadersAvailable
             /\ algorithm = "mopso" => Swarm!LeadersNondominated
  <2>1. SwarmInv
    BY <1>1 DEF FrontInv
  <2>2. Swarm!LeadersAvailable
    BY <2>1, SwarmSame DEF Swarm!LeadersAvailable, Swarm!Leaders, SwarmInv
  <2>3. algorithm = "mopso" => Swarm!LeadersNondominated
    BY <2>1, SwarmSame, SwarmSurvivors
    DEF Swarm!LeadersNondominated, Swarm!Leaders, SwarmInv, Unbeaten
  <2> QED
    BY <2>2, <2>3
<1>2. FrontInv => LeadersSound
  BY <1>1 DEF LeadersSound
<1> QED
  BY <1>2, FamilyInductive, PTL

\* The points by which others are scaled and compared stay those of everything evaluated:
\* the ideal point of MOEA/D and both corners of AR-MOEA.
THEOREM IdealIsRemembered == Spec => []IdealRemembered
<1>1. ASSUME FrontInv, algorithm \in Decomposed!Algorithms
      PROVE  Decomposed!IdealRemembered
  <2>1. DecomposedInv
    BY <1>1 DEF FrontInv
  <2>2. evaluated # {} => ideal = IdealIn(Case, evaluated)
    BY <2>1 DEF DecomposedInv, Remembers
  <2>3. IdealIn(Case, evaluated) =
          [k \in Decomposed!Axes |-> Decomposed!Min({Decomposed!Objective[l][k] : l \in evaluated})]
    BY DEF IdealIn, Decomposed!Axes, Decomposed!Objective, Case, Decomposed!Min, Min
  <2> QED
    BY <2>2, <2>3 DEF Decomposed!IdealRemembered
<1>2. ASSUME FrontInv, algorithm \in References!Algorithms
      PROVE  References!IdealRemembered /\ References!RangeEncloses
  <2>1. ReferencesInv
    BY <1>2 DEF FrontInv
  <2>2. References!IdealRemembered
    BY <2>1, ReferencesSame, ReferencesCorners DEF ReferencesInv, References!IdealRemembered
  <2>3. References!RangeEncloses
    BY <2>1, ReferencesSame
       DEF ReferencesInv, References!RangeEncloses, References!Narrow, Case
  <2> QED
    BY <2>2, <2>3
<1>3. FrontInv => IdealRemembered
  BY <1>1, <1>2 DEF IdealRemembered
<1> QED
  BY <1>3, FamilyInductive, PTL

\* What a run prints knows the best it has evaluated: each least objective for NSGA-II and
\* T-MOEA, and for MOPSO nothing its archive does not know.
THEOREM ReportIsSound == Spec => []ReportSound
<1>1. ASSUME FrontInv, algorithm \in Sorting!Algorithms
      PROVE  Sorting!MinimaKept
  <2>1. SortingInv
    BY <1>1 DEF FrontInv
  <2>2. evaluated # {} => pc # "init"
    BY <2>1 DEF SortingInv, RunInv
  <2>3. evaluated # {} /\ Case.size >= 2 * Cardinality(1 .. Case.axes) =>
          MinimaIn(Case, MembersIn(Case, population), evaluated)
    BY <2>1, <2>2 DEF SortingInv
  <2> QED
    BY <2>3, SortingSame
    DEF Sorting!MinimaKept, MinimaIn, Sorting!Cardinality, Cardinality
<1>2. ASSUME FrontInv, algorithm = "mopso"
      PROVE  Swarm!ReportKnown
  <2>1. SwarmInv
    BY <1>2 DEF FrontInv, Swarm!Algorithms
  <2>2. ~truncated => \A l \in report : \E m \in MembersIn(Case, archive) : NoWorseIn(Case, m, l)
    BY <2>1 DEF SwarmInv, Knows, CoversIn
  <2> QED
    BY <2>2, SwarmSame DEF Swarm!ReportKnown, NoWorseIn
<1>3. FrontInv => ReportSound
  BY <1>1, <1>2 DEF ReportSound
<1> QED
  BY <1>3, FamilyInductive, PTL

\* The order crossover never leaves the cells of the initial population.
THEOREM CellsAreInherited == Spec => []CellsInherited
<1>1. ASSUME FrontInv, algorithm = "nsgaii"
      PROVE  Sorting!CellsInherited
  <2>1. SortingInv
    BY <1>1 DEF FrontInv, Sorting!Algorithms
  <2>2. \A l \in evaluated : l \subseteq pool
    BY <1>1, <2>1 DEF SortingInv, RunInv
  <2> QED
    BY <2>2 DEF Sorting!CellsInherited, Sorting!InheritedFrom
<1>2. ASSUME FrontInv, algorithm = "armoea"
      PROVE  References!CellsInherited
  <2>1. ReferencesInv
    BY <1>2 DEF FrontInv, References!Algorithms
  <2>2. \A l \in evaluated : l \subseteq pool
    BY <2>1 DEF ReferencesInv, RunInv
  <2> QED
    BY <2>2 DEF References!CellsInherited, References!InheritedFrom
<1>3. FrontInv => CellsInherited
  BY <1>1, <1>2 DEF CellsInherited
<1> QED
  BY <1>3, FamilyInductive, PTL

-----------------------------------------------------------------------------
(* The searches as front searches.                                         *)

\* What the front held promises.
FrontSound ==
  IF truncated
    THEN Front \subseteq PointsOf(evaluated) /\ FS!Minimal(Front) = Front
    ELSE Front = FS!Minimal(PointsOf(evaluated))

\* A set of evaluated layouts has a first front of evaluated points, none below another.
LEMMA HeldFront ==
  ASSUME NEW s, ParetoSetting(s), NEW E \in SUBSET s.layouts, NEW H \in SUBSET E
  PROVE  /\ PointsIn(s, FrontIn(s, H)) \subseteq PointsIn(s, E)
         /\ FS!Minimal(PointsIn(s, FrontIn(s, H))) = PointsIn(s, FrontIn(s, H))
<1>1. PICK P : P = PointsIn(s, H)
  OBVIOUS
<1>2. PointsIn(s, FrontIn(s, H)) = FS!Minimal(P)
  BY <1>1, FrontPoints
<1>3. FS!Minimal(FS!Minimal(P)) = FS!Minimal(P)
  BY PartOfMinimal
<1>4. FS!Minimal(P) \subseteq P /\ P \subseteq PointsIn(s, E)
  BY <1>1 DEF FS!Minimal, PointsIn
<1> QED
  BY <1>2, <1>3, <1>4

\* The front a search holds is that of everything it has evaluated until something had to
\* be left out, and evaluated and nondominated in any case.
LEMMA FrontIsSound ==
  ASSUME FrontInv
  PROVE  FrontSound
<1>1. /\ RunInv /\ ParetoSetting(Case) /\ evaluated \in SUBSET Case.layouts
      /\ (pc = "init" <=> evaluated = {}) /\ truncated \in BOOLEAN /\ algorithm \in Chosen
  BY FamilyRuns DEF RunInv
<1>2. PointsOf(evaluated) = PointsIn(Case, evaluated)
  BY CaseSame
<1>3. ASSUME NEW H \in SUBSET evaluated, Front = PointsIn(Case, FrontIn(Case, H)),
             ~truncated => CoversIn(Case, H, evaluated)
      PROVE  FrontSound
  <2>1. /\ Front \subseteq PointsOf(evaluated) /\ FS!Minimal(Front) = Front
    BY <1>1, <1>2, <1>3, HeldFront
  <2>2. ~truncated => Front = FS!Minimal(PointsOf(evaluated))
    BY <1>1, <1>2, <1>3, CoveredFront
  <2> QED
    BY <2>1, <2>2 DEF FrontSound
<1>4. algorithm \notin References!Algorithms => Front = PointsIn(Case, FrontIn(Case, Held))
  BY CaseSame DEF Front
<1>5. CASE pc = "init" /\ algorithm \notin References!Algorithms
  <2>1. Held = {} /\ evaluated = {}
    BY <1>1, <1>5 DEF Held
  <2>2. CoversIn(Case, Held, evaluated)
    BY <2>1 DEF CoversIn
  <2> QED
    BY <1>3, <1>4, <1>5, <2>1, <2>2
<1>6. CASE algorithm \in References!Algorithms
  <2>1. ReferencesInv /\ Front = archive
    BY <1>6 DEF FrontInv, Front
  <2> QED
    BY <1>2, <2>1 DEF ReferencesInv, FrontSound
<1>7. CASE pc # "init" /\ algorithm \in Sorting!Algorithms
  <2>1. SortingInv
    BY <1>7 DEF FrontInv
  <2>2. Held = MembersIn(Case, population)
    BY <1>7, CaseSame, KindsApart DEF Held
  <2>3. Held \in SUBSET evaluated /\ (~truncated => CoversIn(Case, Held, evaluated))
    BY <1>7, <2>1, <2>2 DEF SortingInv, Knows
  <2> QED
    BY <1>3, <1>4, <1>7, <2>3, KindsApart
<1>8. CASE pc # "init" /\ algorithm \in Swarm!Algorithms
  <2>1. SwarmInv
    BY <1>8 DEF FrontInv
  <2>2. Held = MembersIn(Case, archive)
    BY <1>8, CaseSame, KindsApart DEF Held
  <2>3. Held \in SUBSET evaluated /\ (~truncated => CoversIn(Case, Held, evaluated))
    BY <1>8, <2>1, <2>2 DEF SwarmInv, Knows
  <2> QED
    BY <1>3, <1>4, <1>8, <2>3, KindsApart
<1>9. CASE pc # "init" /\ algorithm \in Decomposed!Algorithms
  <2>1. DecomposedInv
    BY <1>9 DEF FrontInv
  <2>2. Held = {population[i] : i \in 1 .. Case.size}
    BY <1>9, KindsApart DEF Held, Slots, PopulationSize, Case
  <2>3. Held \in SUBSET evaluated /\ truncated
    BY <1>9, <2>1, <2>2 DEF DecomposedInv, RowsOf
  <2> QED
    BY <1>3, <1>4, <1>9, <2>3, KindsApart
<1> QED
  BY <1>1, <1>5, <1>6, <1>7, <1>8, <1>9, FourKinds

\* The evaluations of a run are a number.
LEMMA WorkTypes ==
  ASSUME NEW a \in Chosen
  PROVE  WorkOf(a) \in Nat
<1>1. CASE a \in Sorting!Algorithms
  <2>1. Setting[a].size \in Nat
    BY <1>1, SettingAssumption DEF Sorting!SettingOK, Sorting!ParetoSetting
  <2>2. CASE a = "tmoea"
    <3>1. Setting[a].budget \in Nat
      BY <2>2, SettingAssumption DEF BudgetSetting
    <3> QED
      BY <2>2, <3>1 DEF WorkOf
  <2>3. CASE a # "tmoea"
    <3>1. a = "nsgaii"
      BY <1>1, <2>3 DEF Sorting!Algorithms
    <3>2. Setting[a].generations \in Nat
      BY <3>1, SettingAssumption DEF GenerationsSetting
    <3> QED
      BY <2>1, <2>3, <3>2 DEF WorkOf
  <2> QED
    BY <2>2, <2>3
<1>2. CASE a \notin Sorting!Algorithms
  <2>1. Setting[a].size \in Nat /\ Setting[a].generations \in Nat
    <3>1. CASE a \in References!Algorithms
      BY <3>1, SettingAssumption
      DEF References!SettingOK, References!ParetoSetting, References!GenerationsSetting
    <3>2. CASE a \in Swarm!Algorithms
      BY <3>2, SettingAssumption
      DEF Swarm!SettingOK, Swarm!ParetoSetting, Swarm!GenerationsSetting
    <3>3. CASE a \in Decomposed!Algorithms
      BY <3>3, SettingAssumption
      DEF Decomposed!SettingOK, Decomposed!ParetoSetting, Decomposed!GenerationsSetting
    <3> QED
      BY <1>2, <3>1, <3>2, <3>3, FourKinds
  <2>2. a # "tmoea"
    BY <1>2 DEF Sorting!Algorithms
  <2> QED
    BY <2>1, <2>2 DEF WorkOf
<1> QED
  BY <1>1, <1>2

\* No run needs more evaluations than the largest.
LEMMA WorkBound ==
  ASSUME algorithm \in Chosen
  PROVE  LargestWork \in Nat /\ Work \in Nat /\ Work <= LargestWork
<1>1. PICK T : T = {WorkOf(a) : a \in Chosen}
  OBVIOUS
<1>2. \A n \in T : n \in Nat
  BY <1>1, WorkTypes
<1>3. PICK b \in Chosen : \A a \in Chosen : WorkOf(a) <= WorkOf(b)
  BY WorkAssumption
<1>4. \E n \in T : \A m \in T : n >= m
  <2>1. WorkOf(b) \in T
    BY <1>1
  <2>2. ASSUME NEW m \in T PROVE WorkOf(b) >= m
    <3>1. PICK a \in Chosen : m = WorkOf(a)
      BY <1>1
    <3>2. WorkOf(a) \in Nat /\ WorkOf(b) \in Nat /\ WorkOf(a) <= WorkOf(b)
      BY <1>3, WorkTypes
    <3> QED
      BY <3>1, <3>2
  <2> QED
    BY <2>1, <2>2
<1>5. Max(T) \in T /\ \A m \in T : Max(T) >= m
  BY <1>4 DEF Max
<1>6. LargestWork = Max(T)
  BY <1>1 DEF LargestWork
<1>7. Work \in T
  BY <1>1 DEF Work
<1> QED
  BY <1>2, <1>5, <1>6, <1>7

\* A run never spends more than its work.
WorkSound ==
  /\ LargestWork \in Nat /\ Work \in Nat /\ Work <= LargestWork
  /\ evaluations \in Nat /\ evaluations <= Work

\* It is so in every state of the invariant.
LEMMA WorkIsSound ==
  ASSUME FrontInv
  PROVE  WorkSound
<1>1. RunInv /\ Work = WorkIn(algorithm, Case)
  BY FamilyRuns, CaseSame
<1>2. LargestWork \in Nat /\ Work \in Nat /\ Work <= LargestWork
  BY WorkBound DEF FrontInv
<1>3. evaluations \in Nat
  BY <1>1 DEF RunInv
<1>4. CASE algorithm = "tmoea"
  <2>1. evaluations <= Case.budget
    BY <1>1, <1>4 DEF RunInv
  <2> QED
    BY <1>1, <1>2, <1>3, <1>4, <2>1 DEF WorkSound, WorkIn
<1>5. CASE algorithm # "tmoea" /\ pc = "init"
  <2>1. evaluations = 0
    BY <1>1, <1>5 DEF RunInv
  <2> QED
    BY <1>2, <1>3, <2>1 DEF WorkSound
<1>6. CASE algorithm # "tmoea" /\ pc # "init"
  <2>1. /\ Case.size \in Nat /\ generation \in Nat /\ Case.generations \in Nat
        /\ generation <= Case.generations
        /\ evaluations = Case.size * (generation + 1)
    BY <1>1, <1>6 DEF RunInv, ParetoSetting
  <2>2. \A n, g, h \in Nat : g <= h => n * (g + 1) <= n * (h + 1)
    <3>1. ASSUME NEW n \in Nat, NEW g \in Nat, NEW h \in Nat, g <= h
          PROVE  n * (g + 1) <= n * (h + 1)
      <4>1. PICK d \in Nat : h = g + d
        BY <3>1
      <4>2. n * (h + 1) = n * (g + 1) + n * d /\ n * d \in Nat
        BY <4>1
      <4> QED
        BY <4>2
    <3> QED
      BY <3>1
  <2> QED
    BY <1>1, <1>2, <1>3, <1>6, <2>1, <2>2 DEF WorkSound, WorkIn
<1> QED
  BY <1>4, <1>5, <1>6

\* Points of evaluated layouts are points of the cases.
LEMMA PointsKnown ==
  ASSUME FrontInv
  PROVE  PointsOf(evaluated) \subseteq AllPoints
<1>1. algorithm \in Chosen /\ evaluated \subseteq Setting[algorithm].layouts
  BY FamilyRuns DEF FrontInv, RunInv, Case
<1> QED
  BY <1>1 DEF PointsOf, AllPoints, Objective

\* A run begins as a front search does.
LEMMA FrontBegins ==
  ASSUME Init
  PROVE  FS!FSInit
<1>1. /\ FrontInv /\ pc = "init" /\ evaluations = 0 /\ evaluated = {}
      /\ algorithm \in References!Algorithms => archive = {}
  BY FamilyInit
<1>2. WorkSound /\ truncated \in BOOLEAN
  BY <1>1, WorkIsSound, FamilyRuns DEF RunInv
<1>3. LargestWork - (Work - evaluations) \in 0 .. LargestWork
  BY <1>1, <1>2 DEF WorkSound
<1>4. PointsOf(evaluated) = {}
  BY <1>1 DEF PointsOf
<1>5. Front = {}
  BY <1>1 DEF Front, Held, FirstFront, PointsOf
<1> QED
  BY <1>1, <1>2, <1>3, <1>4, <1>5 DEF FS!FSInit

\* What a step of a front search needs to know of a state.
StateSound == FrontInv /\ FrontSound /\ WorkSound /\ PointsOf(evaluated) \subseteq AllPoints

\* It follows from the invariant.
LEMMA StateIsSound ==
  ASSUME FrontInv
  PROVE  StateSound
BY FrontIsSound, WorkIsSound, PointsKnown DEF StateSound

\* The search and its work stay.
LEMMA WorkStays ==
  ASSUME algorithm' = algorithm
  PROVE  /\ Work' = Work /\ LargestWork' = LargestWork /\ AllPoints' = AllPoints
         /\ Objective' = Objective /\ Case' = Case
BY DEF Work, WorkOf, LargestWork, AllPoints, Chosen, Objective, Case

\* A batch is evaluated.
LEMMA BatchGoesOn ==
  ASSUME StateSound, StateSound', algorithm' = algorithm, BatchStep
  PROVE  FS!Batch
<1>1. /\ Work' = Work /\ LargestWork' = LargestWork /\ AllPoints' = AllPoints
      /\ Objective' = Objective
  BY WorkStays
<1>2. LargestWork' - (Work' - evaluations') \in
        (LargestWork - (Work - evaluations)) + 1 .. LargestWork
  <2>1. \A n, w, e, f \in Nat :
          w <= n /\ f <= w /\ f > e => n - (w - f) \in (n - (w - e)) + 1 .. n
    OBVIOUS
  <2>2. /\ LargestWork \in Nat /\ Work \in Nat /\ Work <= LargestWork /\ evaluations \in Nat
        /\ evaluations' \in Nat /\ evaluations' <= Work'
    BY DEF StateSound, WorkSound
  <2>3. evaluations' > evaluations /\ evaluations' <= Work
    BY <1>1, <2>2 DEF BatchStep
  <2>4. LargestWork - (Work - evaluations') \in
          (LargestWork - (Work - evaluations)) + 1 .. LargestWork
    BY <2>1, <2>2, <2>3
  <2> QED
    BY <1>1, <2>4
<1>3. /\ PointsOf(evaluated)' \in SUBSET AllPoints
      /\ PointsOf(evaluated) \subseteq PointsOf(evaluated)'
  BY <1>1 DEF StateSound, BatchStep, PointsOf
<1>4. IF truncated'
        THEN Front' \in SUBSET PointsOf(evaluated)' /\ Front' = FS!Minimal(Front')
        ELSE Front' = FS!Minimal(PointsOf(evaluated)')
  BY DEF StateSound, FrontSound
<1>5. ~(pc = "done") /\ ~(pc' = "done") /\ truncated' \in {truncated, TRUE}
  BY DEF BatchStep
<1> QED
  BY <1>1, <1>2, <1>3, <1>4, <1>5 DEF FS!Batch

\* Layouts held are exchanged.
LEMMA SettleGoesOn ==
  ASSUME StateSound, StateSound', algorithm' = algorithm, SettleStep
  PROVE  FS!Settle
<1>1. /\ Work' = Work /\ LargestWork' = LargestWork /\ Objective' = Objective
      /\ evaluations' = evaluations /\ evaluated' = evaluated
  BY WorkStays DEF SettleStep
<1>2. PointsOf(evaluated)' = PointsOf(evaluated)
  BY <1>1 DEF PointsOf
<1>3. truncated /\ truncated' = truncated
  <2>1. RunInv /\ truncated \in BOOLEAN
    BY FamilyRuns DEF StateSound, RunInv
  <2>2. truncated' \in BOOLEAN
    BY FourKinds DEF StateSound, FrontInv, SortingInv, ReferencesInv, SwarmInv, DecomposedInv,
                     RunInv, Chosen
  <2> QED
    BY <2>1, <2>2 DEF SettleStep
<1>4. Front' \in SUBSET PointsOf(evaluated) /\ Front' = FS!Minimal(Front')
  BY <1>2, <1>3 DEF StateSound, FrontSound
<1>5. ~(pc = "done") /\ ~(pc' = "done")
  BY DEF SettleStep
<1> QED
  BY <1>1, <1>2, <1>3, <1>4, <1>5 DEF FS!Settle

\* The run returns.
LEMMA FinishGoesOn ==
  ASSUME StateSound, algorithm' = algorithm, FinishStep
  PROVE  FS!Finish
<1>1. /\ Work' = Work /\ LargestWork' = LargestWork /\ Objective' = Objective
      /\ Case' = Case
      /\ evaluations' = evaluations /\ evaluated' = evaluated /\ truncated' = truncated
      /\ population' = population /\ archive' = archive
      /\ pc # "init" /\ pc' # "init" /\ pc # "done" /\ pc' = "done"
  BY WorkStays DEF FinishStep
<1>2. PointsOf(evaluated)' = PointsOf(evaluated)
  BY <1>1 DEF PointsOf
<1>3. LargestWork - (Work - evaluations) = LargestWork
  <2>1. evaluations = Work
    BY CaseSame DEF FinishStep
  <2> QED
    BY <2>1 DEF StateSound, WorkSound
<1>4. Front' = Front
  <2>1. Held' = Held
    BY <1>1 DEF Held, Members, Layouts, Slots, PopulationSize, Sorting!Algorithms,
                Swarm!Algorithms, Decomposed!Algorithms
  <2> QED
    BY <1>1, <2>1 DEF Front, PointsOf, FirstFront, Dominates, Axes, References!Algorithms
<1> QED
  BY <1>1, <1>2, <1>3, <1>4 DEF FS!Finish

\* Nothing changes.
LEMMA FrontRests ==
  ASSUME UNCHANGED vars
  PROVE  UNCHANGED FS!fsvars
<1>1. UNCHANGED <<algorithm, pc, evaluations, evaluated, truncated, population, archive>>
  BY DEF vars, runVars
<1>2. Work' = Work /\ LargestWork' = LargestWork /\ Objective' = Objective /\ Case' = Case
  BY <1>1, WorkStays
<1>3. PointsOf(evaluated)' = PointsOf(evaluated)
  BY <1>1, <1>2 DEF PointsOf
<1>4. Front' = Front
  <2>1. Held' = Held
    BY <1>1 DEF Held, Members, Layouts, Slots, PopulationSize, Sorting!Algorithms,
                Swarm!Algorithms, Decomposed!Algorithms
  <2> QED
    BY <1>1, <1>2, <2>1 DEF Front, PointsOf, FirstFront, Dominates, Axes, References!Algorithms
<1> QED
  BY <1>1, <1>2, <1>3, <1>4 DEF FS!fsvars

\* Every search is a front search: the front it holds is the front of everything it has
\* evaluated until that outgrows its room, and a set of evaluated, mutually nondominated
\* points afterwards; it ends with its work done.
THEOREM FamilyIsFrontSearch == Spec => ImplementsFrontSearch
<1>1. Init => FS!FSInit
  BY FrontBegins
<1>2. FrontInv => StateSound
  BY StateIsSound
<1>3. FrontInv /\ StateSound /\ StateSound' /\ [Next]_vars => [FS!FSNext]_FS!fsvars
  <2>1. SUFFICES ASSUME FrontInv, StateSound, StateSound', [Next]_vars
                 PROVE  [FS!FSNext]_FS!fsvars
    OBVIOUS
  <2>2. CASE UNCHANGED vars
    BY <2>2, FrontRests
  <2>3. CASE Step
    <3>1. algorithm' = algorithm /\ (BatchStep \/ SettleStep \/ FinishStep)
      BY <2>1, <2>3, FamilyStep DEF GoesOn
    <3> QED
      BY <2>1, <3>1, BatchGoesOn, SettleGoesOn, FinishGoesOn DEF FS!FSNext
  <2> QED
    BY <2>1, <2>2, <2>3 DEF Next, Ended
<1> QED
  BY <1>1, <1>2, <1>3, FamilyInductive, PTL DEF Spec, ImplementsFrontSearch, FS!FSSpec
=============================================================================
