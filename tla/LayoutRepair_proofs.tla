------------------------- MODULE LayoutRepair_proofs -------------------------
(***************************************************************************)
(* The four repairs of LayoutRepair, for any grid, any set of blocked      *)
(* cells, any number of turbines and any limit of draws: what is written   *)
(* back is feasible and respects the candidate.                            *)
(*                                                                         *)
(* Output takes the first cells of a set, and how many those are is the    *)
(* one fact about data the proof needs: the number of smaller members is   *)
(* an injection of a finite set into as many numbers, so it is onto, and   *)
(* as many members as numbers lie below a bound.                           *)
(***************************************************************************)
EXTENDS LayoutRepair, FunctionTheorems, FiniteSetTheorems, TLAPS

\* The number of smaller members.
Below(S, c) == Cardinality({x \in S : x < c})

\* The members with fewer than n smaller ones.
FirstFew(S, n) == {c \in S : Below(S, c) < n}

-----------------------------------------------------------------------------
\* Smaller members have fewer below them, and none has all.
LEMMA BelowGrows ==
  ASSUME NEW S \in SUBSET Int, IsFiniteSet(S)
  PROVE  /\ \A c \in S : Below(S, c) \in 0 .. Cardinality(S) - 1
         /\ \A c, d \in S : c < d => Below(S, c) < Below(S, d)
<1> DEFINE below(c) == {x \in S : x < c}
<1>1. Cardinality(S) \in Nat
  BY FS_CardinalityType
<1>2. ASSUME NEW c \in S
      PROVE  /\ c \in Int
             /\ IsFiniteSet(below(c)) /\ Below(S, c) \in Nat
             /\ IsFiniteSet(below(c) \cup {c})
             /\ Cardinality(below(c) \cup {c}) = Below(S, c) + 1
  <2>1. c \in Int
    OBVIOUS
  <2>2. IsFiniteSet(below(c))
    <3>1. below(c) \in SUBSET S
      OBVIOUS
    <3> QED
      BY <3>1, FS_Subset
  <2>3. c \notin below(c)
    BY <2>1
  <2>4. Below(S, c) = Cardinality(below(c))
    BY DEF Below
  <2>5. Cardinality(below(c)) \in Nat
    BY <2>2, FS_CardinalityType
  <2>6. /\ IsFiniteSet(below(c) \cup {c})
        /\ Cardinality(below(c) \cup {c}) = Cardinality(below(c)) + 1
    <3> HIDE DEF below
    <3> QED
      BY <2>2, <2>3, FS_AddElement
  <2> QED
    BY <2>1, <2>2, <2>4, <2>5, <2>6
<1>3. ASSUME NEW c \in S PROVE Below(S, c) \in 0 .. Cardinality(S) - 1
  <2>1. below(c) \cup {c} \in SUBSET S
    OBVIOUS
  <2>2. Cardinality(below(c) \cup {c}) <= Cardinality(S)
    BY <2>1, FS_Subset
  <2> HIDE DEF below
  <2> QED
    BY <1>1, <1>2, <2>2
<1>4. ASSUME NEW c \in S, NEW d \in S, c < d PROVE Below(S, c) < Below(S, d)
  <2>1. below(c) \cup {c} \in SUBSET below(d)
    <3>1. c \in Int /\ d \in Int /\ \A x \in S : x \in Int
      OBVIOUS
    <3>2. ASSUME NEW x \in below(c) \cup {c} PROVE x \in S /\ x <= c
      BY <3>1
    <3>3. ASSUME NEW x \in below(c) \cup {c} PROVE x \in below(d)
      <4>1. x \in S /\ x \in Int /\ x <= c
        BY <3>1, <3>2
      <4> QED
        BY <1>4, <3>1, <4>1
    <3> HIDE DEF below
    <3> QED
      BY <3>3
  <2>2. Below(S, d) = Cardinality(below(d))
    BY DEF Below
  <2> HIDE DEF below
  <2>3. Cardinality(below(c) \cup {c}) <= Cardinality(below(d))
    BY <1>2, <2>1, FS_Subset
  <2>4. Below(S, c) \in Nat /\ Below(S, d) \in Nat
    BY <1>2
  <2>5. Cardinality(below(c) \cup {c}) = Below(S, c) + 1
    BY <1>2
  <2> QED
    BY <2>2, <2>3, <2>4, <2>5
<1> QED
  BY <1>3, <1>4

\* A finite set of numbers has as many first members as are asked for.
LEMMA FirstFewCount ==
  ASSUME NEW S \in SUBSET Int, IsFiniteSet(S), NEW n \in Nat, n <= Cardinality(S)
  PROVE  IsFiniteSet(FirstFew(S, n)) /\ Cardinality(FirstFew(S, n)) = n
<1> DEFINE rank == [c \in S |-> Below(S, c)]
           few == FirstFew(S, n)
           among == [c \in few |-> Below(S, c)]
<1>1. Cardinality(S) \in Nat
  BY FS_CardinalityType
<1>2. rank \in Injection(S, 0 .. Cardinality(S) - 1)
  <2>1. rank \in [S -> 0 .. Cardinality(S) - 1]
    BY BelowGrows
  <2>2. ASSUME NEW c \in S, NEW d \in S, rank[c] = rank[d] PROVE c = d
    <3>1. Below(S, c) = Below(S, d) /\ Below(S, c) \in Int
      BY <2>2, BelowGrows
    <3>2. ~(c < d) /\ ~(d < c)
      BY <3>1, BelowGrows
    <3> QED
      BY <3>2
  <2> QED
    BY <2>1, <2>2 DEF Injection, IsInjective
<1>3. /\ IsFiniteSet(0 .. Cardinality(S) - 1)
      /\ Cardinality(0 .. Cardinality(S) - 1) = Cardinality(S)
  <2>1. 0 \in Int /\ Cardinality(S) - 1 \in Int
    BY <1>1
  <2> QED
    BY <1>1, <2>1, FS_Interval
<1>4. rank \in Surjection(S, 0 .. Cardinality(S) - 1)
  BY <1>2, <1>3, FS_Injection
<1>5. /\ IsFiniteSet(0 .. n - 1)
      /\ Cardinality(0 .. n - 1) = n
  BY FS_Interval
<1>6. among \in Injection(few, 0 .. n - 1)
  <2>1. ASSUME NEW c \in few PROVE Below(S, c) \in 0 .. n - 1
    <3>1. c \in S /\ Below(S, c) < n
      BY DEF FirstFew
    <3>2. Below(S, c) \in 0 .. Cardinality(S) - 1
      BY <3>1, BelowGrows
    <3> QED
      BY <1>1, <3>1, <3>2
  <2>2. ASSUME NEW c \in few, NEW d \in few, among[c] = among[d] PROVE c = d
    <3>1. c \in S /\ d \in S /\ rank[c] = rank[d]
      BY <2>2 DEF FirstFew
    <3> QED
      BY <3>1, <1>2 DEF Injection, IsInjective
  <2> QED
    BY <2>1, <2>2 DEF Injection, IsInjective
<1>7. among \in Surjection(few, 0 .. n - 1)
  <2>1. ASSUME NEW k \in 0 .. n - 1 PROVE \E c \in few : among[c] = k
    <3>1. PICK c \in S : rank[c] = k
      <4>1. k \in 0 .. Cardinality(S) - 1
        BY <1>1
      <4> QED
        BY <1>4, <4>1 DEF Surjection
    <3>2. c \in few
      BY <3>1 DEF FirstFew
    <3> QED
      BY <3>1, <3>2
  <2> QED
    BY <1>6, <2>1 DEF Surjection, Injection
<1>8. IsFiniteSet(few) /\ Cardinality(few) <= n
  BY <1>5, <1>6, FS_Injection
<1>9. n <= Cardinality(few)
  BY <1>5, <1>7, <1>8, FS_Surjection
<1> QED
  BY <1>8, <1>9, FS_CardinalityType

\* A set with one or two members at most.
LEMMA FewMembers ==
  ASSUME NEW S, NEW T,
         \A x, y \in S : x = y, \A x, y \in T : x = y
  PROVE  /\ IsFiniteSet(S) /\ Cardinality(S) \in {0, 1}
         /\ IsFiniteSet(S \cup T) /\ Cardinality(S \cup T) \in {0, 1, 2}
<1>1. S = {} \/ \E x : S = {x}
  OBVIOUS
<1>2. T = {} \/ \E x : T = {x}
  OBVIOUS
<1>3. IsFiniteSet(S) /\ Cardinality(S) \in {0, 1}
  BY <1>1, FS_EmptySet, FS_Singleton
<1>4. CASE T = {}
  BY <1>3, <1>4
<1>5. ASSUME NEW x, T = {x} PROVE IsFiniteSet(S \cup T) /\ Cardinality(S \cup T) \in {0, 1, 2}
  BY <1>3, <1>5, FS_AddElement
<1> QED
  BY <1>2, <1>3, <1>4, <1>5

-----------------------------------------------------------------------------
Types ==
  /\ program \in {"fode", "wflop", "gga", "tmoea"}
  /\ asked \in Nat /\ marked \in 0 .. asked /\ draw \in Nat
  /\ program # "gga" => asked = Turbines
  /\ pc \in {"mark", "fill", "done"}
  /\ occupied \subseteq Available /\ wanted \subseteq Available

\* While coordinates are looked at, no more cells are taken than coordinates, and T-MOEA
\* takes what is asked for until it has enough.
Marking ==
  pc = "mark" =>
    /\ program \in OnGrid => wanted \subseteq occupied /\ Cardinality(occupied) <= marked
    /\ program = "gga" => occupied = wanted
    /\ program = "tmoea" =>
         /\ Cardinality(occupied) <= Turbines
         /\ \/ occupied = wanted
            \/ occupied \subseteq wanted /\ Cardinality(occupied) = Turbines

\* While turbines are missing nothing asked for is given up, while there are too many
\* nothing else is kept; only FODE's fallback leaves one cell too many.
Filling ==
  pc = "fill" =>
    /\ placed = Cardinality(occupied)
    /\ program # "gga" => placed <= Turbines \/ (program = "fode" /\ draw > DrawLimit)
    /\ placed <= Turbines + 1 \/ program = "gga"
    /\ program \in OnGrid => wanted \subseteq occupied
    /\ program \notin OnGrid =>
         \/ occupied \subseteq wanted /\ placed >= Turbines
         \/ wanted \subseteq occupied /\ placed <= Turbines

IInv == Types /\ Marking /\ Filling /\ Feasible /\ ProposalKept

-----------------------------------------------------------------------------
\* Whatever cells are at hand, there are finitely many.
LEMMA Finite ==
  ASSUME NEW S \in SUBSET Available
  PROVE  IsFiniteSet(S) /\ Cardinality(S) \in Nat /\ S \in SUBSET Int
<1>1. IsFiniteSet(Cells) /\ Cells \in SUBSET Int
  BY RepairAssumption, FS_Interval DEF Cells
<1>2. S \in SUBSET Cells
  BY DEF Available
<1>3. IsFiniteSet(S)
  BY <1>1, <1>2, FS_Subset
<1> QED
  BY <1>1, <1>2, <1>3, FS_CardinalityType

\* As many turbines as there are cells for them, at least one.
LEMMA SomeTurbines == Turbines \in Nat \ {0}
<1>1. IsFiniteSet(Cells \ Blocked)
  <2>1. IsFiniteSet(Cells) /\ Cells \ Blocked \in SUBSET Cells
    BY RepairAssumption, FS_Interval DEF Cells
  <2> QED
    BY <2>1, FS_Subset
<1>2. Cardinality(Cells \ Blocked) \in Nat
  BY <1>1, FS_CardinalityType
<1> QED
  BY <1>2, RepairAssumption

THEOREM InitOK == Init => IInv
<1> SUFFICES ASSUME Init PROVE IInv
  OBVIOUS
<1>1. Types
  BY SomeTurbines, RepairAssumption DEF Init, Types, OnGrid
<1>2. Marking
  BY SomeTurbines, FS_EmptySet DEF Init, Marking
<1> QED
  BY <1>1, <1>2 DEF Init, IInv, Filling, Feasible, ProposalKept

\* A coordinate adds its cell, a drawn one, or none.
LEMMA MarkOK == ASSUME IInv, Mark PROVE IInv'
<1> USE DEF Mark
<1>1. PICK cell \in Proposed : MarkCell(cell)
  OBVIOUS
<1>2. Available' = Available
  BY DEF Available
<1>3. PICK c : \/ occupied' = occupied \cup ({c} \cap Available)
               \/ /\ program = "tmoea" /\ Cardinality(occupied) = Turbines
                  /\ occupied' = occupied
  BY <1>1 DEF MarkCell
<1>4. /\ wanted' = wanted \cup ({cell} \cap Available)
      /\ occupied' \in SUBSET Available /\ wanted' \in SUBSET Available
  BY <1>1, <1>3 DEF IInv, Types, MarkCell
<1>5. /\ IsFiniteSet(occupied) /\ Cardinality(occupied) \in Nat
      /\ Cardinality(occupied') \in Nat
  BY <1>4, Finite DEF IInv, Types
<1>6. Cardinality(occupied') <= Cardinality(occupied) + 1
  <2>1. occupied' = occupied \/ occupied' = occupied \cup {c}
    BY <1>3
  <2> QED
    BY <2>1, <1>5, FS_AddElement
<1>7. Types'
  BY <1>2, <1>4 DEF IInv, Types
<1>8. Marking'
  <2>1. CASE program \in OnGrid
    <3>1. {cell} \cap Available \subseteq occupied'
      <4>1. cell \in Available => cell \in Cells
        BY DEF Available
      <4> QED
        BY <1>1, <2>1, <4>1 DEF MarkCell, OnGrid
    <3>2. occupied \subseteq occupied'
      BY <1>3
    <3>3. program \notin {"gga", "tmoea"} /\ marked \in Nat
      BY <2>1 DEF OnGrid, IInv, Types
    <3> QED
      BY <1>4, <1>5, <1>6, <2>1, <3>1, <3>2, <3>3 DEF IInv, Marking
  <2>2. CASE program = "gga"
    BY <1>1, <1>4, <2>2 DEF IInv, Marking, MarkCell, OnGrid
  <2>3. CASE program = "tmoea"
    <3>1. CASE Cardinality(occupied) = Turbines
      <4>1. occupied' = occupied
        BY <1>1, <2>3, <3>1 DEF MarkCell, OnGrid
      <4> QED
        BY <1>4, <2>3, <3>1, <4>1, SomeTurbines DEF IInv, Marking, OnGrid
    <3>2. CASE Cardinality(occupied) # Turbines
      <4>1. occupied' = occupied \cup ({cell} \cap Available)
        BY <1>1, <2>3, <3>2 DEF MarkCell, OnGrid
      <4>2. occupied = wanted /\ Cardinality(occupied) <= Turbines
        BY <2>3, <3>2 DEF IInv, Marking
      <4>3. Cardinality(occupied') <= Turbines
        BY <1>5, <1>6, <3>2, <4>2, SomeTurbines
      <4> QED
        BY <1>4, <2>3, <4>1, <4>2, <4>3 DEF Marking, OnGrid
    <3> QED
      BY <3>1, <3>2
  <2> QED
    BY <2>1, <2>2, <2>3 DEF IInv, Types, OnGrid
<1> QED
  BY <1>7, <1>8 DEF IInv, Filling, Feasible, ProposalKept

\* All coordinates have been looked at.
LEMMA CountOK == ASSUME IInv, CountPlaced PROVE IInv'
<1> USE DEF CountPlaced
<1>1. Cardinality(occupied) \in Nat
  BY Finite DEF IInv, Types
<1>2. Types' /\ Marking'
  BY DEF IInv, Types, Marking, Available
<1>3. Filling'
  <2>1. CASE program \in OnGrid
    <3>1. Cardinality(occupied) <= Turbines /\ program # "gga"
      BY <2>1 DEF IInv, Types, Marking, OnGrid
    <3> QED
      BY <1>1, <2>1, <3>1, SomeTurbines DEF IInv, Marking, Filling
  <2>2. CASE program = "gga"
    BY <1>1, <2>2, SomeTurbines DEF IInv, Marking, Filling, OnGrid
  <2>3. CASE program = "tmoea"
    BY <1>1, <2>3, SomeTurbines DEF IInv, Marking, Filling, OnGrid
  <2> QED
    BY <2>1, <2>2, <2>3 DEF IInv, Types, OnGrid
<1> QED
  BY <1>2, <1>3 DEF IInv, Feasible, ProposalKept

\* Taking free cells adds as many as there are.
LEMMA TakeCounts ==
  ASSUME IInv, pc = "fill", NEW S \in SUBSET FreeCells(occupied), Take(S)
  PROVE  /\ occupied \subseteq occupied' /\ occupied' \in SUBSET Available
         /\ placed' = Cardinality(occupied')
         /\ placed' = placed + Cardinality(S)
         /\ Cardinality(S) \in Nat /\ placed \in Nat
<1>1. S \in SUBSET Available /\ occupied \in SUBSET Available
  BY DEF FreeCells, IInv, Types
<1>2. S \cap occupied = {}
  BY DEF FreeCells
<1>3. /\ IsFiniteSet(S) /\ Cardinality(S) \in Nat
      /\ IsFiniteSet(occupied) /\ Cardinality(occupied) \in Nat
  BY <1>1, Finite
<1>4. Cardinality(occupied \cup S) = Cardinality(occupied) + Cardinality(S)
  <2>1. Cardinality(occupied \cap S) = 0
    BY <1>2, FS_EmptySet
  <2>2. Cardinality(occupied \cup S) =
          Cardinality(occupied) + Cardinality(S) - Cardinality(occupied \cap S)
    BY <1>3, FS_Union
  <2> QED
    BY <1>3, <2>1, <2>2
<1>5. placed = Cardinality(occupied)
  BY DEF IInv, Filling
<1> QED
  BY <1>1, <1>3, <1>4, <1>5 DEF Take

\* FODE: a draw and the fallback place at most two, and two only past the limit.
LEMMA FillOK == ASSUME IInv, Fill PROVE IInv'
<1> USE DEF Fill
<1>1. PICK cell \in Cells :
        LET drawn == {cell} \cap FreeCells(occupied)
        IN Take(drawn \cup Fallback(occupied \cup drawn))
  OBVIOUS
<1> DEFINE drawn == {cell} \cap FreeCells(occupied)
           more == Fallback(occupied \cup drawn)
<1>2. drawn \cup more \in SUBSET FreeCells(occupied)
  BY DEF Fallback, FirstOf, FreeCells
<1>3. \A x, y \in more : x = y
  <2> SUFFICES ASSUME NEW x \in more, NEW y \in more PROVE x = y
    OBVIOUS
  <2>1. x <= y /\ y <= x
    BY DEF Fallback, FirstOf
  <2>2. x \in Int /\ y \in Int
    BY <1>2, Finite DEF FreeCells
  <2> QED
    BY <2>1, <2>2
<1>4. \A x, y \in drawn : x = y
  OBVIOUS
<1>5. /\ Cardinality(drawn) \in {0, 1}
      /\ Cardinality(drawn \cup more) \in {0, 1, 2}
  <2> HIDE DEF drawn, more
  <2> QED
    BY <1>3, <1>4, FewMembers
<1>6. Cardinality(drawn \cup more) = 2 => draw' > DrawLimit
  <2>1. draw' > DrawLimit \/ more = {}
    BY DEF Fallback
  <2>2. more = {} => drawn \cup more = drawn
    OBVIOUS
  <2> HIDE DEF drawn, more
  <2>3. more = {} => Cardinality(drawn \cup more) = Cardinality(drawn)
    BY <2>2
  <2> QED
    BY <1>5, <2>1, <2>3
<1>7. /\ occupied \subseteq occupied' /\ occupied' \in SUBSET Available
      /\ placed' = Cardinality(occupied')
      /\ placed' = placed + Cardinality(drawn \cup more)
      /\ placed \in Nat
  <2>1. Take(drawn \cup more)
    BY <1>1
  <2> HIDE DEF drawn, more
  <2> QED
    BY <1>2, <2>1, TakeCounts
<1> HIDE DEF drawn, more
<1>8. placed' <= Turbines + 1 /\ (placed' <= Turbines \/ draw' > DrawLimit)
  BY <1>5, <1>6, <1>7, SomeTurbines
<1>9. Types'
  BY <1>7 DEF IInv, Types, Available
<1>10. Filling'
  BY <1>7, <1>8 DEF IInv, Filling, OnGrid
<1> QED
  BY <1>9, <1>10 DEF IInv, Marking, Feasible, ProposalKept

\* The others: one draw.
LEMMA DrawOK == ASSUME IInv, NEW cell \in Cells, Draw(cell) PROVE IInv'
<1> USE DEF Draw
<1> DEFINE drawn == {cell} \cap FreeCells(occupied)
<1>1. Cardinality(drawn) \in {0, 1}
  <2>1. \A x, y \in drawn : x = y
    OBVIOUS
  <2> HIDE DEF drawn
  <2> QED
    BY <2>1, FewMembers
<1>2. /\ occupied \subseteq occupied' /\ occupied' \in SUBSET Available
      /\ placed' = Cardinality(occupied')
      /\ placed' = placed + Cardinality(drawn)
      /\ placed \in Nat
  <2>1. Take(drawn) /\ drawn \in SUBSET FreeCells(occupied)
    OBVIOUS
  <2> HIDE DEF drawn
  <2> QED
    BY <2>1, TakeCounts
<1> HIDE DEF drawn
<1>3. placed' <= Turbines
  BY <1>1, <1>2, SomeTurbines
<1>4. Types'
  BY <1>2 DEF IInv, Types, Available
<1>5. program \notin OnGrid => wanted \subseteq occupied
  BY <1>2, SomeTurbines DEF IInv, Filling
<1>6. Filling'
  BY <1>2, <1>3, <1>5, SomeTurbines DEF IInv, Filling
<1> QED
  BY <1>4, <1>6 DEF IInv, Marking, Feasible, ProposalKept

\* GGA gives up cells while it has too many, all of them asked for.
LEMMA DropOK == ASSUME IInv, Drop PROVE IInv'
<1> USE DEF Drop
<1>1. PICK cell \in occupied : occupied' = occupied \ {cell}
  OBVIOUS
<1>2. IsFiniteSet(occupied) /\ Cardinality(occupied) \in Nat /\ placed = Cardinality(occupied)
  BY Finite DEF IInv, Types, Filling
<1>3. Cardinality(occupied') = Cardinality(occupied) - 1
  BY <1>1, <1>2, FS_RemoveElement
<1>4. occupied \subseteq wanted
  BY <1>2, SomeTurbines DEF IInv, Filling, OnGrid
<1>5. Types'
  BY <1>1 DEF IInv, Types, Available
<1>6. Filling'
  BY <1>1, <1>2, <1>3, <1>4, SomeTurbines DEF Filling, OnGrid
<1> QED
  BY <1>5, <1>6 DEF IInv, Marking, Feasible, ProposalKept

\* What is written back are the first cells, all of them unless one is too many.
LEMMA EmitOK == ASSUME IInv, Emit PROVE IInv'
<1> USE DEF Emit
<1>1. /\ IsFiniteSet(occupied) /\ Cardinality(occupied) \in Nat /\ occupied \in SUBSET Int
      /\ placed = Cardinality(occupied)
  BY Finite DEF IInv, Types, Filling
<1>2. Output = FirstFew(occupied, Turbines)
  BY DEF Output, FirstFew, Below
<1>3. IsFiniteSet(Output) /\ Cardinality(Output) = Turbines /\ Output \in SUBSET occupied
  <2>1. Turbines \in Nat /\ Turbines <= Cardinality(occupied)
    BY <1>1, SomeTurbines
  <2>2. IsFiniteSet(FirstFew(occupied, Turbines))
          /\ Cardinality(FirstFew(occupied, Turbines)) = Turbines
    BY <1>1, <2>1, FirstFewCount
  <2> QED
    BY <1>2, <2>2 DEF FirstFew
<1>4. Feasible'
  BY <1>3 DEF IInv, Types, Feasible, Available
<1>5. placed = Turbines => Output = occupied
  BY <1>1, <1>3, FS_Subset
<1>6. Cardinality(wanted \ Output) <= 1 \/ program \notin OnGrid
  <2> SUFFICES ASSUME program \in OnGrid PROVE Cardinality(wanted \ Output) <= 1
    OBVIOUS
  <2>1. wanted \subseteq occupied /\ placed <= Turbines + 1
    BY SomeTurbines DEF IInv, Types, Filling, OnGrid
  <2>2. IsFiniteSet(occupied \ Output)
          /\ Cardinality(occupied \ Output) = Cardinality(occupied) - Cardinality(occupied \cap Output)
    BY <1>1, FS_Difference
  <2>3. Cardinality(occupied \cap Output) = Turbines
    <3>1. occupied \cap Output = Output
      BY <1>3
    <3> QED
      BY <1>3, <3>1
  <2>4. Cardinality(occupied \ Output) <= 1
    BY <1>1, <1>3, <2>1, <2>2, <2>3, SomeTurbines
  <2>5. wanted \ Output \in SUBSET (occupied \ Output)
    BY <2>1
  <2>6. /\ Cardinality(wanted \ Output) <= Cardinality(occupied \ Output)
        /\ Cardinality(wanted \ Output) \in Nat
    BY <2>2, <2>5, FS_Subset, FS_CardinalityType
  <2>7. Cardinality(occupied \ Output) \in Nat
    BY <2>2, FS_CardinalityType
  <2> QED
    BY <2>4, <2>6, <2>7
<1>7. draw <= DrawLimit => placed = Turbines
  <2>1. draw \in Nat /\ DrawLimit \in Nat
    BY RepairAssumption DEF IInv, Types
  <2> QED
    BY <1>1, <2>1, SomeTurbines DEF IInv, Filling
<1>8. placed = Turbines => wanted \subseteq Output \/ Output \subseteq wanted
  BY <1>5 DEF IInv, Filling
<1>9. ProposalKept'
  BY <1>6, <1>7, <1>8 DEF ProposalKept, OnGrid
<1>10. Types'
  BY DEF IInv, Types, Available
<1> QED
  BY <1>4, <1>9, <1>10 DEF IInv, Marking, Filling

\* Every step keeps the invariant.
THEOREM StepOK == IInv /\ [Next]_vars => IInv'
<1> SUFFICES ASSUME IInv, [Next]_vars PROVE IInv'
  OBVIOUS
<1>1. ASSUME UNCHANGED vars PROVE IInv'
  BY <1>1 DEF vars, IInv, Types, Marking, Filling, Feasible, ProposalKept, Available, OnGrid
<1>2. CASE Mark
  BY <1>2, MarkOK
<1>3. CASE CountPlaced
  BY <1>3, CountOK
<1>4. CASE Fill
  BY <1>4, FillOK
<1>5. ASSUME NEW cell \in Cells, Draw(cell) PROVE IInv'
  BY <1>5, DrawOK
<1>6. CASE Drop
  BY <1>6, DropOK
<1>7. CASE Emit
  BY <1>7, EmitOK
<1>8. CASE Done
  BY <1>1, <1>8 DEF Done
<1> QED
  BY <1>1, <1>2, <1>3, <1>4, <1>5, <1>6, <1>7, <1>8 DEF Next

\* What is written back is always a feasible layout: one available cell per turbine, all
\* different, whatever was asked for and drawn, in each of the four repairs.
THEOREM AlwaysFeasible == Spec => []Feasible
<1>1. IInv => Feasible
  BY DEF IInv
<1> QED
  BY <1>1, InitOK, StepOK, PTL DEF Spec

\* Repair keeps what the search asked for, as far as there is room; only FODE's fallback
\* may push out a cell, one, and only past the limit of draws.
THEOREM ProposalRespected == Spec => []ProposalKept
<1>1. IInv => ProposalKept
  BY DEF IInv
<1> QED
  BY <1>1, InitOK, StepOK, PTL DEF Spec
=============================================================================
