--------------------------- MODULE Evaluator_proofs ---------------------------
(***************************************************************************)
(* Proofs about Evaluator, for any number of threads, any grid, any        *)
(* directions and speeds, and any batch: no index of a parallel loop       *)
(* disturbs another, what a call answers is a function of its arguments,   *)
(* whichever schedule and interleaving it took, and that function is the   *)
(* physics of BatchEvaluation.                                             *)
(*                                                                         *)
(* The argument has three parts.  The first is arithmetic: the position    *)
(* k * n + t of a block tells k and t apart, so that different indices     *)
(* write different cells, all of them within the arrays.  The second is    *)
(* that a loop never writes the arrays it reads.  The third compares the   *)
(* sums of the code, over the turbines in the order of the sort, with      *)
(* those over the turbines upwind: the others take a share of zero.        *)
(***************************************************************************)
EXTENDS Evaluator, FiniteSetTheorems, TLAPS

-----------------------------------------------------------------------------
(* Flat positions.                                                         *)

\* A position within a block of m tells the block and the place in it.
LEMMA PositionsApart ==
  ASSUME NEW m \in Nat \ {0}, NEW a \in Int, NEW b \in Int,
         NEW t \in 0 .. m - 1, NEW u \in 0 .. m - 1, a * m + t = b * m + u
  PROVE  a = b /\ t = u
<1>1. ASSUME NEW p \in Int, NEW q \in Int, p < q PROVE p * m + m <= q * m
  <2>1. PICK k \in Nat : q = p + 1 + k
    <3>1. q - p - 1 \in Nat /\ q = p + 1 + (q - p - 1)
      BY <1>1
    <3> QED
      BY <3>1
  <2>2. q * m = p * m + m + k * m
    BY <2>1
  <2>3. k * m >= 0 /\ p * m \in Int /\ k * m \in Int /\ q * m \in Int
    OBVIOUS
  <2> QED
    BY <2>2, <2>3
<1>2. a * m \in Int /\ b * m \in Int
  OBVIOUS
<1>3. ~(a < b)
  <2> SUFFICES ASSUME a < b PROVE FALSE
    OBVIOUS
  <2>1. a * m + m <= b * m
    BY <1>1
  <2> QED
    BY <1>2, <2>1
<1>4. ~(b < a)
  <2> SUFFICES ASSUME b < a PROVE FALSE
    OBVIOUS
  <2>1. b * m + m <= a * m
    BY <1>1
  <2> QED
    BY <1>2, <2>1
<1>5. a = b
  BY <1>3, <1>4
<1> QED
  BY <1>2, <1>5

\* The blocks of r rows fill the positions below r * m.
LEMMA PositionWithin ==
  ASSUME NEW m \in Nat \ {0}, NEW r \in Nat, NEW a \in 0 .. r - 1, NEW t \in 0 .. m - 1
  PROVE  a * m + t \in 0 .. r * m - 1
<1>1. PICK k \in Nat : r = a + 1 + k
  <2>1. r - a - 1 \in Nat /\ r = a + 1 + (r - a - 1)
    OBVIOUS
  <2> QED
    BY <2>1
<1>2. r * m = a * m + m + k * m
  BY <1>1
<1>3. k * m >= 0 /\ a * m >= 0 /\ a * m \in Int /\ k * m \in Int /\ r * m \in Int
  OBVIOUS
<1> QED
  BY <1>2, <1>3

\* A position below r * m is decoded to its row and its place in the row.
LEMMA Decoded ==
  ASSUME NEW m \in Nat \ {0}, NEW r \in Nat, NEW k \in 0 .. r * m - 1
  PROVE  /\ k \div m \in 0 .. r - 1
         /\ k % m \in 0 .. m - 1
         /\ k = (k \div m) * m + (k % m)
         /\ k - (k \div m) * m \in 0 .. m - 1
<1>1. k \div m \in Nat /\ k % m \in 0 .. m - 1 /\ k = (k \div m) * m + (k % m)
  OBVIOUS
<1>2. PICK q \in Nat : q = k \div m
  BY <1>1
<1>3. q < r
  <2> SUFFICES ASSUME r <= q PROVE FALSE
    BY <1>2
  <2>1. PICK d \in Nat : q = r + d
    <3>1. q - r \in Nat /\ q = r + (q - r)
      OBVIOUS
    <3> QED
      BY <3>1
  <2>2. q * m = r * m + d * m
    BY <2>1
  <2>3. d * m >= 0 /\ r * m \in Int /\ d * m \in Int /\ q * m \in Int
    OBVIOUS
  <2> QED
    BY <1>1, <1>2, <2>2, <2>3
<1>4. q * m \in Int
  OBVIOUS
<1> QED
  BY <1>1, <1>2, <1>3, <1>4

\* A position in a block is decoded to that block.
LEMMA DecodedBlock ==
  ASSUME NEW m \in Nat \ {0}, NEW r \in Nat, NEW a \in 0 .. r - 1, NEW t \in 0 .. m - 1
  PROVE  (a * m + t) \div m = a /\ (a * m + t) % m = t
<1>1. PICK k : k = a * m + t
  OBVIOUS
<1>2. k \in 0 .. r * m - 1
  BY <1>1, PositionWithin
<1>3. /\ k \div m \in Int /\ k % m \in 0 .. m - 1
      /\ (k \div m) * m + (k % m) = a * m + t
  BY <1>1, <1>2, Decoded
<1>4. a \in Int
  OBVIOUS
<1>5. k \div m = a /\ k % m = t
  BY <1>3, <1>4, PositionsApart
<1> QED
  BY <1>1, <1>5

-----------------------------------------------------------------------------
(* The stable sort.                                                        *)

Earlier(key, u, t) == key[u] < key[t] \/ (key[u] = key[t] /\ u < t)

AllEarlier(key, t) == {u \in DOMAIN key : Earlier(key, u, t)}

\* What comes later has more before it.
LEMMA EarlierGrows ==
  ASSUME NEW m \in Nat, NEW key \in [0 .. m - 1 -> Int]
  PROVE  /\ \A t \in 0 .. m - 1 : Cardinality(AllEarlier(key, t)) \in 0 .. m - 1
         /\ \A t, u \in 0 .. m - 1 : Earlier(key, t, u) =>
              Cardinality(AllEarlier(key, t)) < Cardinality(AllEarlier(key, u))
<1>1. IsFiniteSet(0 .. m - 1) /\ Cardinality(0 .. m - 1) = m
  BY FS_Interval
<1>2. ASSUME NEW t \in 0 .. m - 1
      PROVE  /\ Cardinality(AllEarlier(key, t)) \in Nat
             /\ IsFiniteSet(AllEarlier(key, t) \cup {t})
             /\ Cardinality(AllEarlier(key, t) \cup {t}) = Cardinality(AllEarlier(key, t)) + 1
  <2>1. AllEarlier(key, t) \in SUBSET (0 .. m - 1)
    BY DEF AllEarlier
  <2>2. IsFiniteSet(AllEarlier(key, t))
    BY <1>1, <2>1, FS_Subset
  <2>3. t \notin AllEarlier(key, t)
    BY DEF AllEarlier, Earlier
  <2> QED
    BY <2>2, <2>3, FS_AddElement, FS_CardinalityType
<1>3. ASSUME NEW t \in 0 .. m - 1 PROVE Cardinality(AllEarlier(key, t)) \in 0 .. m - 1
  <2>1. AllEarlier(key, t) \cup {t} \in SUBSET (0 .. m - 1)
    BY DEF AllEarlier
  <2>2. Cardinality(AllEarlier(key, t) \cup {t}) <= m
    BY <1>1, <2>1, FS_Subset
  <2>3. /\ Cardinality(AllEarlier(key, t)) \in Nat
        /\ Cardinality(AllEarlier(key, t) \cup {t}) = Cardinality(AllEarlier(key, t)) + 1
    BY <1>2
  <2> QED
    BY <2>2, <2>3
<1>4. ASSUME NEW t \in 0 .. m - 1, NEW u \in 0 .. m - 1, Earlier(key, t, u)
      PROVE  Cardinality(AllEarlier(key, t)) < Cardinality(AllEarlier(key, u))
  <2>1. AllEarlier(key, t) \cup {t} \in SUBSET AllEarlier(key, u)
    BY <1>4 DEF AllEarlier, Earlier
  <2>2. IsFiniteSet(AllEarlier(key, u))
    BY <1>2, FS_Subset
  <2>3. Cardinality(AllEarlier(key, t) \cup {t}) <= Cardinality(AllEarlier(key, u))
    BY <2>1, <2>2, FS_Subset
  <2>4. /\ Cardinality(AllEarlier(key, t)) \in Nat /\ Cardinality(AllEarlier(key, u)) \in Nat
        /\ Cardinality(AllEarlier(key, t) \cup {t}) = Cardinality(AllEarlier(key, t)) + 1
    BY <1>2
  <2> QED
    BY <2>3, <2>4
<1> QED
  BY <1>3, <1>4

\* An order of m turbines: each of them at one place.
OrderOf(m, order) ==
  /\ order \in [0 .. m - 1 -> 0 .. m - 1]
  /\ \A p, q \in 0 .. m - 1 : order[p] = order[q] => p = q
  /\ \A t \in 0 .. m - 1 : \E p \in 0 .. m - 1 : order[p] = t

\* The stable sort of any keys is an order of the turbines.
LEMMA StableOrderSound ==
  ASSUME NEW m \in Nat, NEW key \in [0 .. m - 1 -> Int]
  PROVE  OrderOf(m, StableOrder(key))
<1> DEFINE place == [t \in 0 .. m - 1 |-> Cardinality(AllEarlier(key, t))]
<1>1. place \in Injection(0 .. m - 1, 0 .. m - 1)
  <2>1. place \in [0 .. m - 1 -> 0 .. m - 1]
    BY EarlierGrows
  <2>2. ASSUME NEW t \in 0 .. m - 1, NEW u \in 0 .. m - 1, place[t] = place[u] PROVE t = u
    <3>1. /\ Cardinality(AllEarlier(key, t)) = Cardinality(AllEarlier(key, u))
          /\ Cardinality(AllEarlier(key, t)) \in Int
      BY <2>2, EarlierGrows
    <3>2. ~Earlier(key, t, u) /\ ~Earlier(key, u, t)
      BY <3>1, EarlierGrows
    <3> QED
      BY <3>2 DEF Earlier
  <2> QED
    BY <2>1, <2>2 DEF Injection, IsInjective
<1>2. IsFiniteSet(0 .. m - 1)
  BY FS_Interval
<1>3. place \in Surjection(0 .. m - 1, 0 .. m - 1)
  BY <1>1, <1>2, FS_Injection
<1>4. DOMAIN key = 0 .. m - 1
  OBVIOUS
<1>5. ASSUME NEW p \in 0 .. m - 1
      PROVE  /\ StableOrder(key)[p] \in 0 .. m - 1
             /\ Cardinality(AllEarlier(key, StableOrder(key)[p])) = p
  <2>1. \E t \in 0 .. m - 1 : place[t] = p
    <3> HIDE DEF place
    <3> QED
      BY <1>3 DEF Surjection
  <2>2. \E t \in 0 .. m - 1 : Cardinality(AllEarlier(key, t)) = p
    BY <2>1
  <2>3. StableOrder(key)[p] = CHOOSE t \in 0 .. m - 1 : Cardinality(AllEarlier(key, t)) = p
    BY <1>4 DEF StableOrder, AllEarlier, Earlier
  <2> QED
    BY <2>2, <2>3
<1>6. StableOrder(key) \in [0 .. m - 1 -> 0 .. m - 1]
  BY <1>4, <1>5 DEF StableOrder
<1>7. ASSUME NEW p \in 0 .. m - 1, NEW q \in 0 .. m - 1, StableOrder(key)[p] = StableOrder(key)[q]
      PROVE  p = q
  BY <1>5, <1>7
<1>8. \A t \in 0 .. m - 1 : \E p \in 0 .. m - 1 : StableOrder(key)[p] = t
  <2>1. StableOrder(key) \in Injection(0 .. m - 1, 0 .. m - 1)
    BY <1>6, <1>7 DEF Injection, IsInjective
  <2>2. StableOrder(key) \in Surjection(0 .. m - 1, 0 .. m - 1)
    BY <1>2, <2>1, FS_Injection
  <2> QED
    BY <2>2 DEF Surjection
<1> QED
  BY <1>6, <1>7, <1>8 DEF OrderOf

-----------------------------------------------------------------------------
(* The answer to one layout, a function from the turbines to their cells.  *)

\* The coordinates of a cell, and of the turbines seen along a direction.
XOf(cell) == 2 * ((cell - 1) - ((cell - 1) \div GridCols) * GridCols) + 1
YOf(cell) == 2 * ((cell - 1) \div GridCols) + 1

AcrossOf(l, d) == [t \in DOMAIN l |-> Theta[d + 1][1] * XOf(l[t]) - Theta[d + 1][2] * YOf(l[t])]
AlongOf(l, d) == [t \in DOMAIN l |-> Theta[d + 1][2] * XOf(l[t]) + Theta[d + 1][1] * YOf(l[t])]

OrderFor(l, d) == UpstreamOrder(AlongOf(l, d))

\* The losses of the turbine at a position, and of a turbine.
LossesAt(l, d, position) == Losses(AcrossOf(l, d), AlongOf(l, d), OrderFor(l, d), position)

PositionOf(l, d, t) == CHOOSE p \in DOMAIN l : OrderFor(l, d)[p] = t

LossesOf(l, d, t) ==
  IF PositionOf(l, d, t) = 0 THEN <<>> ELSE LossesAt(l, d, PositionOf(l, d, t))

YieldOf(l, t) ==
  [k \in 1 .. Directions * Speeds |->
     Addend(LossesOf(l, (k - 1) \div Speeds, t), (k - 1) \div Speeds, (k - 1) % Speeds)]

YieldsOf(l) == [t \in DOMAIN l |-> YieldOf(l, t)]

\* The turbines from the weakest to the strongest.
WeakestOf(l) == StableOrder([t \in DOMAIN l |-> PowerValue(YieldsOf(l)[t])])

-----------------------------------------------------------------------------
(* What each index of each loop owes, whatever the memory holds.           *)

Rows == 0 .. job.batch - 1
States == 0 .. StateCount - 1

LayoutAt(row) == [t \in Turbines |-> Index(row, t)]

\* What a caller must be told of a row: the arguments decide it, not the memory.
AnswerTo(row) ==
  LET power == YieldsOf(LayoutAt(row))
      order == WeakestOf(LayoutAt(row))
  IN  [fitness |-> [k \in 1 .. n |-> PowerValue(power[order[k - 1]])],
       ranked  |-> IF job.detail = "TotalAndPerTurbine"
                     THEN [k \in 1 .. n |-> [power |-> power[order[k - 1]],
                                             cell  |-> Index(row, order[k - 1])]]
                     ELSE <<>>]

\* The layout and the direction of a state.
LayoutOf(state) == LayoutAt(RowOf(state))

StateOrder(state) == OrderFor(LayoutOf(state), DirectionOf(state))

OwedRotate(state) ==
  [a \in {"transformed_x", "transformed_y", "upstream_order"} \X Block(state) |->
     CASE a[1] = "transformed_x" -> AcrossOf(LayoutOf(state), DirectionOf(state))[a[2] - state * n]
       [] a[1] = "transformed_y" -> AlongOf(LayoutOf(state), DirectionOf(state))[a[2] - state * n]
       [] OTHER -> StateOrder(state)[a[2] - state * n]]

TaskState(task) == task \div (n - 1)
TaskPosition(task) == (task % (n - 1)) + 1

OwedWake(task) ==
  Writing(<<"wake", TaskState(task) * n + StateOrder(TaskState(task))[TaskPosition(task)]>>,
          LossesAt(LayoutOf(TaskState(task)), DirectionOf(TaskState(task)), TaskPosition(task)))

OwedState(state) ==
  [a \in {"wake"} \X {state * n + StateOrder(state)[p] : p \in 1 .. n - 1} |->
     LossesOf(LayoutOf(state), DirectionOf(state), a[2] - state * n)]

OwedPower(task) ==
  Writing(<<"accumulated", task>>, YieldOf(LayoutAt(task \div n), task - (task \div n) * n))

OwedRank(row) == Ranked(row, YieldsOf(LayoutAt(row)))

OwedReduce(row) ==
  Over([a \in {"accumulated"} \X Block(row) |-> YieldsOf(LayoutAt(row))[a[2] - row * n]],
       OwedRank(row))

Owed(i) ==
  CASE Current.work = "place" -> Place(i)
    [] Current.work = "rotate" -> OwedRotate(i)
    [] Current.work = "wake" -> OwedWake(i)
    [] Current.work = "power" -> OwedPower(i)
    [] Current.work = "rank" -> OwedRank(i)
    [] Current.work = "state" -> OwedState(i)
    [] Current.work = "reduce" -> OwedReduce(i)

Matches(i) == \A a \in DOMAIN Owed(i) : memory[a] = Owed(i)[a]

-----------------------------------------------------------------------------
(* The inductive invariant.                                                *)

\* The cells of the arrays.
Addresses ==
  (({"x", "y", "position_order"} \X (0 .. job.batch * n - 1))
     \cup ({"transformed_x", "transformed_y", "upstream_order"} \X (0 .. StateCount * n - 1)))
  \cup (({"wake"} \X (0 .. StateCount * n - 1))
          \cup ({"accumulated", "turbine_power"} \X (0 .. job.batch * n - 1))
          \cup ({"fitness"} \X (0 .. job.batch - 1)))

\* Nothing has been written for the turbine farthest upwind, and nothing will.
Untouched == \A state \in States : memory[<<"wake", state * n + StateOrder(state)[0]>>] = <<>>

AllPlaced ==
  \A row \in Rows, t \in Turbines :
    /\ memory[<<"x", row * n + t>>] = XOf(Index(row, t))
    /\ memory[<<"y", row * n + t>>] = YOf(Index(row, t))

AllRotated ==
  \A state \in States, t \in Turbines :
    /\ memory[<<"transformed_x", state * n + t>>]
         = AcrossOf(LayoutOf(state), DirectionOf(state))[t]
    /\ memory[<<"transformed_y", state * n + t>>]
         = AlongOf(LayoutOf(state), DirectionOf(state))[t]
    /\ memory[<<"upstream_order", state * n + t>>] = StateOrder(state)[t]

AllLost ==
  \A state \in States, t \in Turbines :
    memory[<<"wake", state * n + t>>] = LossesOf(LayoutOf(state), DirectionOf(state), t)

AllSummed ==
  \A row \in Rows, t \in Turbines :
    memory[<<"accumulated", row * n + t>>] = YieldOf(LayoutAt(row), t)

AllAnswered == \A row \in Rows : Result(row) = AnswerTo(row)

\* What the loop at hand reads, and what a later loop will read that no loop writes.
Ready ==
  /\ Current.work \in {"place", "rotate", "wake", "state"} => Untouched
  /\ Current.work \in {"rotate", "state"} => AllPlaced
  /\ Current.work = "wake" => AllRotated
  /\ Current.work \in {"power", "reduce"} => AllLost
  /\ Current.work = "rank" => AllSummed

\* What the loops before the present one have left.
StageInv ==
  /\ stage \in 1 .. Len(Loops) + 1
  /\ Addresses \subseteq DOMAIN memory
  /\ stage <= Len(Loops) => Ready
  /\ stage > Len(Loops) => AllAnswered

\* What the indices of the present loop have left: those in flight will write what they
\* owe, those that ended have written it.
LoopInv ==
  /\ phase = "running" =>
       /\ stage <= Len(Loops) /\ Current.parallel /\ cursor = 0
       /\ todo \subseteq 0 .. Current.size - 1
       /\ DOMAIN busy \subseteq todo
       /\ \A i \in DOMAIN busy : busy[i] = Owed(i)
       /\ \A i \in (0 .. Current.size - 1) \ todo : Matches(i)
  /\ phase = "idle" /\ stage <= Len(Loops) =>
       /\ Current.parallel => cursor = 0
       /\ ~Current.parallel => cursor \in 0 .. Current.size
       /\ \A i \in 0 .. cursor - 1 : Matches(i)

EInv ==
  /\ job \in Jobs
  /\ pc \in {"called", "stages", "returned", "invalid_argument"}
  /\ phase \in {"idle", "running"}
  /\ phase = "running" => pc = "stages"
  /\ phase = "idle" => todo = {} /\ DOMAIN busy = {}
  /\ pc = "called" => stage = 1 /\ cursor = 0
  /\ pc = "stages" => Valid /\ StageInv /\ LoopInv
  /\ pc = "returned" => Valid /\ AllAnswered
  /\ pc = "invalid_argument" => ~Valid

-----------------------------------------------------------------------------
(* A valid call.                                                           *)

Called == job \in Jobs /\ Valid

\* The numbers of a call.
LEMMA CallNumbers ==
  ASSUME Called
  PROVE  /\ n \in Nat \ {0} /\ job.batch \in Nat \ {0}
         /\ Directions \in Nat \ {0} /\ Speeds \in Nat \ {0}
         /\ StateCount \in Nat \ {0} /\ StateCount = job.batch * Directions
         /\ n - 1 \in Nat /\ DownstreamTasks = StateCount * (n - 1) /\ DownstreamTasks \in Nat
         /\ job.batch * n \in Nat \ {0} /\ StateCount * n \in Nat \ {0}
         /\ Turbines = 0 .. n - 1
         /\ GridCols \in Nat \ {0}
<1>1. n \in Nat \ {0} /\ job.batch \in Nat \ {0}
  BY EvaluatorAssumption DEF Called, Valid, n
<1>2. Directions \in Nat /\ Speeds \in Nat
  BY WakeAssumption DEF Directions, Speeds
<1>3. Directions \in Nat \ {0} /\ Speeds \in Nat \ {0} /\ GridCols \in Nat \ {0}
  BY <1>2, WakeAssumption
<1>4. \A a, b \in Nat \ {0} : a * b \in Nat \ {0}
  <2>1. ASSUME NEW a \in Nat \ {0}, NEW b \in Nat \ {0} PROVE a * b \in Nat \ {0}
    <3>1. PICK c \in Nat : a = c + 1
      <4>1. a - 1 \in Nat /\ a = (a - 1) + 1
        OBVIOUS
      <4> QED
        BY <4>1
    <3>2. a * b = c * b + b
      BY <3>1
    <3>3. c * b \in Nat
      OBVIOUS
    <3> QED
      BY <3>2, <3>3
  <2> QED
    BY <2>1
<1>5. StateCount = job.batch * Directions /\ StateCount \in Nat \ {0}
  BY <1>1, <1>3, <1>4 DEF StateCount
<1>6. job.batch * n \in Nat \ {0} /\ StateCount * n \in Nat \ {0}
  BY <1>1, <1>4, <1>5
<1>7. n - 1 \in Nat
  BY <1>1
<1>8. DownstreamTasks = StateCount * (n - 1) /\ DownstreamTasks \in Nat
  BY <1>5, <1>7 DEF DownstreamTasks
<1> QED
  BY <1>1, <1>3, <1>5, <1>6, <1>7, <1>8 DEF Turbines

\* A state is a row and a direction.
LEMMA StateDecoded ==
  ASSUME Called, NEW state \in States
  PROVE  RowOf(state) \in Rows /\ DirectionOf(state) \in 0 .. Directions - 1
<1>1. /\ job.batch \in Nat \ {0} /\ Directions \in Nat \ {0}
      /\ state \in 0 .. job.batch * Directions - 1
  BY CallNumbers DEF States
<1> QED
  BY <1>1, Decoded DEF RowOf, DirectionOf, Rows

\* The state of a row and a direction.
LEMMA StateEncoded ==
  ASSUME Called, NEW row \in Rows, NEW d \in 0 .. Directions - 1
  PROVE  /\ row * Directions + d \in States
         /\ RowOf(row * Directions + d) = row /\ DirectionOf(row * Directions + d) = d
<1>1. job.batch \in Nat \ {0} /\ Directions \in Nat \ {0} /\ row \in 0 .. job.batch - 1
  BY CallNumbers DEF Rows
<1>2. row * Directions + d \in States
  BY <1>1, CallNumbers, PositionWithin DEF States
<1>3. RowOf(row * Directions + d) = row
  BY <1>1, DecodedBlock DEF RowOf
<1>4. DirectionOf(row * Directions + d) = d
  <2>1. row * Directions \in Int /\ d \in Int
    BY <1>1
  <2> QED
    BY <1>3, <2>1 DEF DirectionOf
<1> QED
  BY <1>2, <1>3, <1>4

\* The cells of a layout lie on the grid.
LEMMA LayoutCells ==
  ASSUME Called, NEW row \in Rows
  PROVE  /\ DOMAIN LayoutAt(row) = Turbines
         /\ \A t \in Turbines : LayoutAt(row)[t] = Index(row, t) /\ Index(row, t) \in Nat \ {0}
<1>1. \A t \in Turbines : Index(row, t) \in 1 .. GridRows * GridCols
  BY DEF Called, Valid, Rows
<1>2. GridRows * GridCols \in Nat
  BY WakeAssumption
<1> QED
  BY <1>1, <1>2 DEF LayoutAt

\* Coordinates are numbers.
LEMMA AlongNumbers ==
  ASSUME Called, NEW row \in Rows, NEW d \in 0 .. Directions - 1
  PROVE  AlongOf(LayoutAt(row), d) \in [Turbines -> Int]
<1>1. Theta[d + 1] \in Int \X Int
  <2>1. d + 1 \in 1 .. Len(Theta)
    BY CallNumbers DEF Directions
  <2> QED
    BY <2>1, WakeAssumption
<1>2. PICK c \in Int, s \in Int : c = Theta[d + 1][1] /\ s = Theta[d + 1][2]
  BY <1>1
<1>3. ASSUME NEW t \in Turbines
      PROVE  XOf(LayoutAt(row)[t]) \in Int /\ YOf(LayoutAt(row)[t]) \in Int
  <2>1. PICK k \in Nat : k = LayoutAt(row)[t] - 1
    BY LayoutCells
  <2>2. GridCols \in Nat \ {0}
    BY CallNumbers
  <2>3. k \div GridCols \in Int
    BY <2>2
  <2>4. (k \div GridCols) * GridCols \in Int
    BY <2>2, <2>3
  <2> QED
    BY <2>1, <2>3, <2>4 DEF XOf, YOf
<1>4. \A t \in Turbines : s * XOf(LayoutAt(row)[t]) + c * YOf(LayoutAt(row)[t]) \in Int
  BY <1>3
<1> QED
  BY <1>2, <1>4, LayoutCells DEF AlongOf

\* The turbines of a state, the farthest upwind first, are an order of the turbines.
LEMMA UpstreamSound ==
  ASSUME Called, NEW row \in Rows, NEW d \in 0 .. Directions - 1
  PROVE  OrderOf(n, OrderFor(LayoutAt(row), d))
<1>1. PICK along : along = AlongOf(LayoutAt(row), d)
  OBVIOUS
<1>2. along \in [0 .. n - 1 -> Int]
  BY <1>1, AlongNumbers, CallNumbers
<1>3. PICK key : key = [t \in DOMAIN along |-> 0 - along[t]]
  OBVIOUS
<1>4. key \in [0 .. n - 1 -> Int]
  BY <1>2, <1>3
<1>5. OrderOf(n, StableOrder(key))
  BY <1>4, CallNumbers, StableOrderSound
<1> QED
  BY <1>1, <1>3, <1>5 DEF OrderFor, UpstreamOrder

\* So each turbine of a state has a position of its own.
LEMMA StateOrderSound ==
  ASSUME Called, NEW state \in States
  PROVE  /\ StateOrder(state) \in [0 .. n - 1 -> 0 .. n - 1]
         /\ \A p, q \in 0 .. n - 1 : StateOrder(state)[p] = StateOrder(state)[q] => p = q
         /\ \A t \in 0 .. n - 1 : \E p \in 0 .. n - 1 : StateOrder(state)[p] = t
         /\ 0 \in 0 .. n - 1
<1>1. OrderOf(n, StateOrder(state))
  BY StateDecoded, UpstreamSound DEF StateOrder, LayoutOf
<1>2. /\ StateOrder(state) \in [0 .. n - 1 -> 0 .. n - 1]
      /\ \A p, q \in 0 .. n - 1 : StateOrder(state)[p] = StateOrder(state)[q] => p = q
      /\ \A t \in 0 .. n - 1 : \E p \in 0 .. n - 1 : StateOrder(state)[p] = t
  BY <1>1 DEF OrderOf
<1>3. 0 \in 0 .. n - 1
  BY CallNumbers
<1> QED
  BY <1>2, <1>3

\* The losses at a position are those of the turbine there.
LEMMA LossesAtPosition ==
  ASSUME Called, NEW state \in States, NEW p \in 0 .. n - 1
  PROVE  LossesOf(LayoutOf(state), DirectionOf(state), StateOrder(state)[p])
           = IF p = 0 THEN <<>> ELSE LossesAt(LayoutOf(state), DirectionOf(state), p)
<1>1. DOMAIN LayoutOf(state) = 0 .. n - 1
  BY StateDecoded, LayoutCells, CallNumbers DEF LayoutOf
<1>2. PositionOf(LayoutOf(state), DirectionOf(state), StateOrder(state)[p]) = p
  <2>1. \A q \in DOMAIN LayoutOf(state) : StateOrder(state)[q] = StateOrder(state)[p] <=> q = p
    BY <1>1, StateOrderSound
  <2> QED
    BY <1>1, <2>1 DEF PositionOf, StateOrder
<1> QED
  BY <1>2 DEF LossesOf

-----------------------------------------------------------------------------
(* What an index writes is what it owes.                                   *)

\* The coordinates of a state are those of its layout.
LEMMA RotatedIs ==
  ASSUME Called, AllPlaced, NEW state \in States
  PROVE  /\ RotatedX(state) = AcrossOf(LayoutOf(state), DirectionOf(state))
         /\ RotatedY(state) = AlongOf(LayoutOf(state), DirectionOf(state))
<1>1. RowOf(state) \in Rows
  BY StateDecoded
<1>2. \A t \in Turbines :
        /\ memory[<<"x", RowOf(state) * n + t>>] = XOf(LayoutOf(state)[t])
        /\ memory[<<"y", RowOf(state) * n + t>>] = YOf(LayoutOf(state)[t])
  BY <1>1, LayoutCells DEF AllPlaced, LayoutOf
<1>3. DOMAIN LayoutOf(state) = Turbines
  BY <1>1, LayoutCells DEF LayoutOf
<1>4. RotatedX(state) = AcrossOf(LayoutOf(state), DirectionOf(state))
  BY <1>2, <1>3 DEF RotatedX, AcrossOf
<1>5. RotatedY(state) = AlongOf(LayoutOf(state), DirectionOf(state))
  BY <1>2, <1>3 DEF RotatedY, AlongOf
<1> QED
  BY <1>4, <1>5

\* Rotating a state whose row is placed writes the coordinates and the order of its layout.
LEMMA RotateIsOwed ==
  ASSUME Called, AllPlaced, NEW state \in States
  PROVE  Rotate(state) = OwedRotate(state)
<1>1. PICK tx : tx = RotatedX(state)
  OBVIOUS
<1>2. PICK ty : ty = RotatedY(state)
  OBVIOUS
<1>3. PICK order : order = UpstreamOrder(ty)
  OBVIOUS
<1>4. /\ tx = AcrossOf(LayoutOf(state), DirectionOf(state))
      /\ ty = AlongOf(LayoutOf(state), DirectionOf(state))
  BY <1>1, <1>2, RotatedIs
<1>5. order = StateOrder(state)
  BY <1>3, <1>4 DEF StateOrder, OrderFor
<1>6. Rotate(state) =
        [a \in {"transformed_x", "transformed_y", "upstream_order"} \X Block(state) |->
           CASE a[1] = "transformed_x" -> tx[a[2] - state * n]
             [] a[1] = "transformed_y" -> ty[a[2] - state * n]
             [] OTHER -> order[a[2] - state * n]]
  BY <1>1, <1>2, <1>3 DEF Rotate
<1> QED
  BY <1>4, <1>5, <1>6 DEF OwedRotate

\* A downstream task is a state and a position after the first.
LEMMA TaskDecoded ==
  ASSUME Called, NEW task \in 0 .. DownstreamTasks - 1
  PROVE  /\ n - 1 \in Nat \ {0}
         /\ TaskState(task) \in States /\ TaskPosition(task) \in 1 .. n - 1
         /\ task = TaskState(task) * (n - 1) + (TaskPosition(task) - 1)
<1>1. /\ n - 1 \in Nat /\ StateCount \in Nat \ {0}
      /\ task \in 0 .. StateCount * (n - 1) - 1
  BY CallNumbers
<1>2. n - 1 # 0
  <2> SUFFICES ASSUME n - 1 = 0 PROVE FALSE
    OBVIOUS
  <2>1. StateCount * (n - 1) = 0
    BY <1>1
  <2> QED
    BY <1>1, <2>1
<1>3. PICK m \in Nat \ {0} : m = n - 1
  BY <1>1, <1>2
<1>4. task \in 0 .. StateCount * m - 1
  BY <1>1, <1>3
<1>5. /\ task \div m \in 0 .. StateCount - 1 /\ task % m \in 0 .. m - 1
      /\ task = (task \div m) * m + (task % m)
  BY <1>1, <1>4, Decoded
<1>6. TaskState(task) = task \div m /\ TaskPosition(task) = (task % m) + 1
  BY <1>3 DEF TaskState, TaskPosition
<1>7. (task % m) + 1 \in 1 .. m /\ ((task % m) + 1) - 1 = task % m
  BY <1>5
<1>8. task = TaskState(task) * (n - 1) + (TaskPosition(task) - 1)
  BY <1>3, <1>5, <1>6, <1>7
<1> QED
  BY <1>3, <1>5, <1>6, <1>7, <1>8 DEF States

\* A task of a rotated state writes the losses at its position.
LEMMA WakeIsOwed ==
  ASSUME Called, AllRotated, NEW task \in 0 .. DownstreamTasks - 1
  PROVE  Wake(task) = OwedWake(task)
<1>1. PICK state : state = TaskState(task)
  OBVIOUS
<1>2. state \in States
  BY <1>1, TaskDecoded
<1>3. DOMAIN LayoutOf(state) = Turbines
  BY <1>2, StateDecoded, LayoutCells DEF LayoutOf
<1>4. [t \in Turbines |-> memory[<<"transformed_x", state * n + t>>]]
        = AcrossOf(LayoutOf(state), DirectionOf(state))
  <2>1. \A t \in Turbines : memory[<<"transformed_x", state * n + t>>]
                              = AcrossOf(LayoutOf(state), DirectionOf(state))[t]
    BY <1>2 DEF AllRotated
  <2> QED
    BY <1>3, <2>1 DEF AcrossOf
<1>5. [t \in Turbines |-> memory[<<"transformed_y", state * n + t>>]]
        = AlongOf(LayoutOf(state), DirectionOf(state))
  <2>1. \A t \in Turbines : memory[<<"transformed_y", state * n + t>>]
                              = AlongOf(LayoutOf(state), DirectionOf(state))[t]
    BY <1>2 DEF AllRotated
  <2> QED
    BY <1>3, <2>1 DEF AlongOf
<1>6. [t \in Turbines |-> memory[<<"upstream_order", state * n + t>>]] = StateOrder(state)
  <2>1. \A t \in Turbines : memory[<<"upstream_order", state * n + t>>] = StateOrder(state)[t]
    BY <1>2 DEF AllRotated
  <2>2. StateOrder(state) \in [Turbines -> Turbines]
    BY <1>2, StateOrderSound, CallNumbers
  <2>3. StateOrder(state) = [t \in Turbines |-> StateOrder(state)[t]]
    BY <2>2
  <2> QED
    BY <2>1, <2>3
<1>7. PICK tx : tx = [t \in Turbines |-> memory[<<"transformed_x", state * n + t>>]]
  OBVIOUS
<1>8. PICK ty : ty = [t \in Turbines |-> memory[<<"transformed_y", state * n + t>>]]
  OBVIOUS
<1>9. PICK order : order = [t \in Turbines |-> memory[<<"upstream_order", state * n + t>>]]
  OBVIOUS
<1>10. Wake(task) = Writing(<<"wake", state * n + order[TaskPosition(task)]>>,
                            Losses(tx, ty, order, TaskPosition(task)))
  BY <1>1, <1>7, <1>8, <1>9 DEF Wake, TaskState, TaskPosition
<1>11. order = OrderFor(LayoutOf(state), DirectionOf(state)) /\ order = StateOrder(state)
  BY <1>6, <1>9 DEF StateOrder
<1>12. Losses(tx, ty, order, TaskPosition(task))
         = LossesAt(LayoutOf(state), DirectionOf(state), TaskPosition(task))
  BY <1>4, <1>5, <1>7, <1>8, <1>11 DEF LossesAt
<1> QED
  BY <1>1, <1>10, <1>11, <1>12 DEF OwedWake

\* The fused loop writes the losses of every turbine of a state but the farthest upwind.
LEMMA StateIsOwed ==
  ASSUME Called, AllPlaced, NEW state \in States
  PROVE  EvaluateState(state) = OwedState(state)
<1>1. PICK tx : tx = RotatedX(state)
  OBVIOUS
<1>2. PICK ty : ty = RotatedY(state)
  OBVIOUS
<1>3. PICK order : order = UpstreamOrder(ty)
  OBVIOUS
<1>4. /\ tx = AcrossOf(LayoutOf(state), DirectionOf(state))
      /\ ty = AlongOf(LayoutOf(state), DirectionOf(state))
  BY <1>1, <1>2, RotatedIs
<1>5. order = StateOrder(state) /\ order = OrderFor(LayoutOf(state), DirectionOf(state))
  BY <1>3, <1>4 DEF StateOrder, OrderFor
<1>6. PICK Cells : Cells = {"wake"} \X {state * n + order[p] : p \in 1 .. n - 1}
  OBVIOUS
<1>7. EvaluateState(state) =
        [a \in Cells |->
           Losses(tx, ty, order, CHOOSE p \in 1 .. n - 1 : state * n + order[p] = a[2])]
  BY <1>1, <1>2, <1>3, <1>6 DEF EvaluateState
<1>8. OwedState(state) =
        [a \in Cells |-> LossesOf(LayoutOf(state), DirectionOf(state), a[2] - state * n)]
  BY <1>5, <1>6 DEF OwedState
<1>9. ASSUME NEW a \in Cells
      PROVE  Losses(tx, ty, order, CHOOSE p \in 1 .. n - 1 : state * n + order[p] = a[2])
               = LossesOf(LayoutOf(state), DirectionOf(state), a[2] - state * n)
  <2>1. PICK p \in 1 .. n - 1 : a[2] = state * n + order[p]
    BY <1>6
  <2>0. n \in Nat \ {0} /\ state \in Int
    BY CallNumbers DEF States
  <2>9. state * n \in Int /\ p \in 0 .. n - 1 /\ p # 0
    BY <2>0
  <2>10. /\ order \in [0 .. n - 1 -> 0 .. n - 1]
         /\ \A q, r \in 0 .. n - 1 : order[q] = order[r] => q = r
    <3>1. OrderOf(n, order)
      BY <1>5, StateDecoded, UpstreamSound DEF LayoutOf
    <3> QED
      BY <3>1 DEF OrderOf
  <2>2. /\ n \in Nat \ {0} /\ state \in Int /\ state * n \in Int
        /\ order \in [0 .. n - 1 -> 0 .. n - 1]
        /\ \A q, r \in 0 .. n - 1 : order[q] = order[r] => q = r
        /\ p \in 0 .. n - 1 /\ p # 0
    BY <2>0, <2>9, <2>10
  <2>3. order[p] \in Int /\ a[2] - state * n = order[p]
    BY <2>1, <2>2
  <2>4. \A q \in 1 .. n - 1 : state * n + order[q] = a[2] <=> q = p
    <3>1. ASSUME NEW q \in 1 .. n - 1, state * n + order[q] = a[2] PROVE q = p
      <4>1. q \in 0 .. n - 1
        BY <2>2
      <4>2. order[q] = order[p]
        <5>1. order[q] \in Int
          BY <2>2, <4>1
        <5> QED
          BY <2>1, <2>2, <2>3, <3>1, <5>1
      <4> QED
        BY <2>2, <4>1, <4>2
    <3> QED
      BY <2>1, <3>1
  <2>5. (CHOOSE q \in 1 .. n - 1 : state * n + order[q] = a[2]) = p
    BY <2>4
  <2>6. Losses(tx, ty, order, p) = LossesAt(LayoutOf(state), DirectionOf(state), p)
    BY <1>4, <1>5 DEF LossesAt
  <2>7. LossesOf(LayoutOf(state), DirectionOf(state), order[p])
          = LossesAt(LayoutOf(state), DirectionOf(state), p)
    BY <1>5, <2>2, LossesAtPosition
  <2> QED
    BY <2>3, <2>5, <2>6, <2>7
<1> QED
  BY <1>7, <1>8, <1>9

\* The power of a turbine, once its losses are known.
LEMMA PowerIs ==
  ASSUME Called, AllLost, NEW row \in Rows, NEW t \in Turbines
  PROVE  PowerOf(row, t) = YieldOf(LayoutAt(row), t)
<1>1. ASSUME NEW k \in 1 .. Directions * Speeds
      PROVE  memory[<<"wake", (row * Directions + ((k - 1) \div Speeds)) * n + t>>]
               = LossesOf(LayoutAt(row), (k - 1) \div Speeds, t)
  <2>0. Directions \in Nat /\ Speeds \in Nat \ {0}
    BY CallNumbers
  <2>1. Directions * Speeds \in Nat
    BY <2>0
  <2>2. k - 1 \in 0 .. Directions * Speeds - 1
    BY <2>1
  <2>3. PICK d : d = (k - 1) \div Speeds
    OBVIOUS
  <2>4. d \in 0 .. Directions - 1
    BY <2>0, <2>2, <2>3, Decoded
  <2>5. PICK state : state = row * Directions + d
    OBVIOUS
  <2>6. state \in States /\ RowOf(state) = row /\ DirectionOf(state) = d
    BY <2>4, <2>5, StateEncoded
  <2>7. memory[<<"wake", state * n + t>>] = LossesOf(LayoutAt(row), d, t)
    BY <2>6 DEF AllLost, LayoutOf
  <2> QED
    BY <2>3, <2>5, <2>7
<1> QED
  BY <1>1 DEF PowerOf, YieldOf

\* A task of the power loop writes the yield of its turbine.
LEMMA PowerIsOwed ==
  ASSUME Called, AllLost, NEW task \in 0 .. job.batch * n - 1
  PROVE  Power(task) = OwedPower(task)
<1>1. task \div n \in Rows /\ task - (task \div n) * n \in Turbines
  <2>1. n \in Nat \ {0} /\ job.batch \in Nat /\ Turbines = 0 .. n - 1
    BY CallNumbers
  <2> QED
    BY <2>1, Decoded DEF Rows
<1> QED
  BY <1>1, PowerIs DEF Power, OwedPower

\* Ranking a row that is summed writes its answer.
LEMMA RankIsOwed ==
  ASSUME Called, AllSummed, NEW row \in Rows
  PROVE  Rank(row) = OwedRank(row)
<1>1. [t \in Turbines |-> memory[<<"accumulated", row * n + t>>]] = YieldsOf(LayoutAt(row))
  BY LayoutCells DEF AllSummed, YieldsOf
<1> QED
  BY <1>1 DEF Rank, OwedRank

\* The fused loop sums a row and ranks it.
LEMMA ReduceIsOwed ==
  ASSUME Called, AllLost, NEW row \in Rows
  PROVE  Reduce(row) = OwedReduce(row)
<1>1. [t \in Turbines |-> PowerOf(row, t)] = YieldsOf(LayoutAt(row))
  BY PowerIs, LayoutCells DEF YieldsOf
<1> QED
  BY <1>1 DEF Reduce, OwedReduce, OwedRank

-----------------------------------------------------------------------------
(* The cells an index writes.                                              *)

\* One cell written.
LEMMA WritingIs ==
  ASSUME NEW address, NEW value
  PROVE  /\ DOMAIN Writing(address, value) = {address}
         /\ Writing(address, value)[address] = value
BY DEF Writing

\* Cells written over others.
LEMMA OverIs ==
  ASSUME NEW writes, NEW cells
  PROVE  /\ DOMAIN Over(writes, cells) = DOMAIN writes \cup DOMAIN cells
         /\ \A a \in DOMAIN writes : Over(writes, cells)[a] = writes[a]
         /\ \A a \in DOMAIN cells : a \notin DOMAIN writes => Over(writes, cells)[a] = cells[a]
BY DEF Over

\* A position tells its block.
LEMMA BlocksApart ==
  ASSUME Called, NEW k \in Int, NEW l \in Int, NEW t \in Turbines, NEW u \in Turbines,
         k * n + t = l * n + u
  PROVE  k = l /\ t = u
<1>1. n \in Nat \ {0} /\ t \in 0 .. n - 1 /\ u \in 0 .. n - 1
  BY CallNumbers
<1> QED
  BY <1>1, PositionsApart

\* The blocks of the rows and of the states lie within the arrays.
LEMMA BlocksWithin ==
  ASSUME Called, NEW t \in Turbines
  PROVE  /\ \A row \in Rows : row \in Int /\ row * n + t \in 0 .. job.batch * n - 1
         /\ \A state \in States : state \in Int /\ state * n + t \in 0 .. StateCount * n - 1
<1>1. /\ n \in Nat \ {0} /\ job.batch \in Nat /\ StateCount \in Nat
      /\ t \in 0 .. n - 1
  BY CallNumbers
<1> QED
  BY <1>1, PositionWithin DEF Rows, States

\* The order of the turbines of a row from their powers, and their powers in it.
RankOrder(power) == StableOrder([t \in Turbines |-> PowerValue(power[t])])
FitnessOf(power) == [k \in 1 .. n |-> PowerValue(power[RankOrder(power)[k - 1]])]

\* What ranking a row writes.
LEMMA RankedCells ==
  ASSUME NEW row, NEW power
  PROVE  /\ <<"fitness", row>> \in DOMAIN Ranked(row, power)
         /\ DOMAIN Ranked(row, power) \subseteq
              {<<"fitness", row>>} \cup ({"turbine_power", "position_order"} \X Block(row))
         /\ Ranked(row, power)[<<"fitness", row>>] = FitnessOf(power)
<1>1. PICK Ranks : Ranks = [a \in {"turbine_power", "position_order"} \X Block(row) |->
                              LET turbine == RankOrder(power)[a[2] - row * n]
                              IN  IF a[1] = "turbine_power" THEN power[turbine]
                                                            ELSE Index(row, turbine)]
  OBVIOUS
<1>2. PICK first : first = Writing(<<"fitness", row>>, FitnessOf(power))
  OBVIOUS
<1>3. PICK rest : rest = IF job.detail = "TotalAndPerTurbine" THEN Ranks ELSE NoWrites
  OBVIOUS
<1>4. Ranked(row, power) = Over(first, rest)
  BY <1>1, <1>2, <1>3 DEF Ranked, RankOrder, FitnessOf
<1>5. DOMAIN first = {<<"fitness", row>>} /\ first[<<"fitness", row>>] = FitnessOf(power)
  BY <1>2, WritingIs
<1>6. DOMAIN rest \subseteq {"turbine_power", "position_order"} \X Block(row)
  BY <1>1, <1>3 DEF NoWrites
<1>7. DOMAIN Ranked(row, power) = DOMAIN first \cup DOMAIN rest
  BY <1>4, OverIs
<1>8. <<"fitness", row>> \in DOMAIN first
  BY <1>5
<1>9. Over(first, rest)[<<"fitness", row>>] = first[<<"fitness", row>>]
  BY <1>8 DEF Over
<1> QED
  BY <1>4, <1>5, <1>6, <1>7, <1>8, <1>9

\* And what it writes when the turbines are asked for.
LEMMA RankedTurbines ==
  ASSUME job.detail = "TotalAndPerTurbine", NEW row, NEW power, NEW b \in Block(row)
  PROVE  /\ <<"turbine_power", b>> \in DOMAIN Ranked(row, power)
         /\ <<"position_order", b>> \in DOMAIN Ranked(row, power)
         /\ Ranked(row, power)[<<"turbine_power", b>>] = power[RankOrder(power)[b - row * n]]
         /\ Ranked(row, power)[<<"position_order", b>>]
              = Index(row, RankOrder(power)[b - row * n])
<1>1. PICK Ranks : Ranks = [a \in {"turbine_power", "position_order"} \X Block(row) |->
                              LET turbine == RankOrder(power)[a[2] - row * n]
                              IN  IF a[1] = "turbine_power" THEN power[turbine]
                                                            ELSE Index(row, turbine)]
  OBVIOUS
<1>2. PICK first : first = Writing(<<"fitness", row>>, FitnessOf(power))
  OBVIOUS
<1>3. Ranked(row, power) = Over(first, Ranks)
  BY <1>1, <1>2 DEF Ranked, RankOrder, FitnessOf
<1>4. DOMAIN first = {<<"fitness", row>>}
  BY <1>2, WritingIs
<1>5. /\ <<"turbine_power", b>> \in DOMAIN Ranks /\ <<"position_order", b>> \in DOMAIN Ranks
      /\ <<"turbine_power", b>> \notin DOMAIN first /\ <<"position_order", b>> \notin DOMAIN first
  BY <1>1, <1>4
<1>6. /\ Ranks[<<"turbine_power", b>>] = power[RankOrder(power)[b - row * n]]
      /\ Ranks[<<"position_order", b>>] = Index(row, RankOrder(power)[b - row * n])
  BY <1>1
<1>7. /\ <<"turbine_power", b>> \in DOMAIN Over(first, Ranks)
      /\ <<"position_order", b>> \in DOMAIN Over(first, Ranks)
      /\ Over(first, Ranks)[<<"turbine_power", b>>] = Ranks[<<"turbine_power", b>>]
      /\ Over(first, Ranks)[<<"position_order", b>>] = Ranks[<<"position_order", b>>]
  BY <1>5 DEF Over
<1> QED
  BY <1>3, <1>6, <1>7

\* The cells that the indices of each loop write.
LEMMA OwedCells ==
  ASSUME NEW i
  PROVE  /\ Current.work = "place" => DOMAIN Owed(i) = {"x", "y"} \X Block(i)
         /\ Current.work = "rotate" =>
              DOMAIN Owed(i) = {"transformed_x", "transformed_y", "upstream_order"} \X Block(i)
         /\ Current.work = "wake" =>
              DOMAIN Owed(i) =
                {<<"wake", TaskState(i) * n + StateOrder(TaskState(i))[TaskPosition(i)]>>}
         /\ Current.work = "power" => DOMAIN Owed(i) = {<<"accumulated", i>>}
         /\ Current.work = "rank" => DOMAIN Owed(i) = DOMAIN OwedRank(i)
         /\ Current.work = "state" =>
              DOMAIN Owed(i) = {"wake"} \X {i * n + StateOrder(i)[p] : p \in 1 .. n - 1}
         /\ Current.work = "reduce" =>
              DOMAIN Owed(i) = ({"accumulated"} \X Block(i)) \cup DOMAIN OwedRank(i)
<1>1. ASSUME Current.work = "place" PROVE DOMAIN Owed(i) = {"x", "y"} \X Block(i)
  <2>1. Owed(i) = Place(i)
    BY <1>1 DEF Owed
  <2>2. DOMAIN Place(i) = {"x", "y"} \X Block(i)
    BY DEF Place
  <2> QED
    BY <2>1, <2>2
<1>2. ASSUME Current.work = "rotate"
      PROVE  DOMAIN Owed(i) = {"transformed_x", "transformed_y", "upstream_order"} \X Block(i)
  <2>1. Owed(i) = OwedRotate(i)
    BY <1>2 DEF Owed
  <2>2. DOMAIN OwedRotate(i) = {"transformed_x", "transformed_y", "upstream_order"} \X Block(i)
    BY DEF OwedRotate
  <2> QED
    BY <2>1, <2>2
<1>3. ASSUME Current.work = "wake"
      PROVE  DOMAIN Owed(i) =
               {<<"wake", TaskState(i) * n + StateOrder(TaskState(i))[TaskPosition(i)]>>}
  <2>1. Owed(i) = OwedWake(i)
    BY <1>3 DEF Owed
  <2>2. DOMAIN OwedWake(i) =
          {<<"wake", TaskState(i) * n + StateOrder(TaskState(i))[TaskPosition(i)]>>}
    BY WritingIs DEF OwedWake
  <2> QED
    BY <2>1, <2>2
<1>4. ASSUME Current.work = "power" PROVE DOMAIN Owed(i) = {<<"accumulated", i>>}
  <2>1. Owed(i) = OwedPower(i)
    BY <1>4 DEF Owed
  <2>2. DOMAIN OwedPower(i) = {<<"accumulated", i>>}
    BY WritingIs DEF OwedPower
  <2> QED
    BY <2>1, <2>2
<1>5. ASSUME Current.work = "rank" PROVE DOMAIN Owed(i) = DOMAIN OwedRank(i)
  BY <1>5 DEF Owed
<1>6. ASSUME Current.work = "state"
      PROVE  DOMAIN Owed(i) = {"wake"} \X {i * n + StateOrder(i)[p] : p \in 1 .. n - 1}
  <2>1. Owed(i) = OwedState(i)
    BY <1>6 DEF Owed
  <2>2. DOMAIN OwedState(i) = {"wake"} \X {i * n + StateOrder(i)[p] : p \in 1 .. n - 1}
    BY DEF OwedState
  <2> QED
    BY <2>1, <2>2
<1>7. ASSUME Current.work = "reduce"
      PROVE  DOMAIN Owed(i) = ({"accumulated"} \X Block(i)) \cup DOMAIN OwedRank(i)
  <2>1. PICK sums : sums = [a \in {"accumulated"} \X Block(i) |->
                              YieldsOf(LayoutAt(i))[a[2] - i * n]]
    OBVIOUS
  <2>2. OwedReduce(i) = Over(sums, OwedRank(i)) /\ Owed(i) = OwedReduce(i)
    BY <1>7, <2>1 DEF OwedReduce, Owed
  <2>3. DOMAIN Over(sums, OwedRank(i)) = DOMAIN sums \cup DOMAIN OwedRank(i)
    BY OverIs
  <2> QED
    BY <2>1, <2>2, <2>3
<1> QED
  BY <1>1, <1>2, <1>3, <1>4, <1>5, <1>6, <1>7

\* The turbines of a state but the farthest upwind.
LEMMA Downwind ==
  ASSUME Called, NEW state \in States, NEW p \in 1 .. n - 1
  PROVE  /\ p \in 0 .. n - 1 /\ p # 0
         /\ StateOrder(state)[p] \in Turbines /\ StateOrder(state)[0] \in Turbines
         /\ StateOrder(state)[p] # StateOrder(state)[0]
<1>1. p \in 0 .. n - 1 /\ p # 0 /\ 0 \in 0 .. n - 1
  BY CallNumbers
<1>2. /\ StateOrder(state) \in [0 .. n - 1 -> 0 .. n - 1]
      /\ \A q, r \in 0 .. n - 1 : StateOrder(state)[q] = StateOrder(state)[r] => q = r
  BY StateOrderSound
<1>3. Turbines = 0 .. n - 1
  BY CallNumbers
<1> QED
  BY <1>1, <1>2, <1>3

-----------------------------------------------------------------------------
(* The loop at hand.                                                       *)

AtStage == Called /\ stage \in 1 .. Len(Loops)

Indices == 0 .. Current.size - 1

\* The loops of a call, and the numbers of their indices.
LEMMA CurrentIs ==
  ASSUME AtStage
  PROVE  /\ Current.work \in {"place", "rotate", "wake", "power", "rank", "state", "reduce"}
         /\ Current.size \in Nat
         /\ Current.work = "place" => Indices = Rows
         /\ Current.work = "rotate" => Indices = States
         /\ Current.work = "wake" => Indices = 0 .. DownstreamTasks - 1
         /\ Current.work = "power" => Indices = 0 .. job.batch * n - 1
         /\ Current.work = "rank" => Indices = Rows
         /\ Current.work = "state" => Indices = States
         /\ Current.work = "reduce" => Indices = Rows
<1>1. /\ job.batch \in Nat /\ StateCount \in Nat /\ DownstreamTasks \in Nat
      /\ job.batch * n \in Nat
  BY CallNumbers DEF AtStage
<1>2. CASE job.schedule = "GranularityAware"
  <2>1. stage \in {1, 2, 3} /\ Current = FusedLoops[stage]
    BY <1>2 DEF AtStage, Loops, FusedLoops, Current
  <2> QED
    BY <1>1, <2>1 DEF FusedLoops, Loop, Indices, Rows, States
<1>3. CASE job.schedule # "GranularityAware"
  <2>1. stage \in {1, 2, 3, 4, 5} /\ Current = StagedLoops[stage]
    BY <1>3 DEF AtStage, Loops, StagedLoops, Current
  <2> QED
    BY <1>1, <2>1 DEF StagedLoops, Loop, Indices, Rows, States
<1> QED
  BY <1>2, <1>3

\* Each body, with its inputs in place, writes what it owes.
LEMMA WrittenIsOwed ==
  ASSUME AtStage, Ready, NEW i \in Indices
  PROVE  Written(i) = Owed(i)
<1>1. Called
  BY DEF AtStage
<1>2. CASE Current.work = "place"
  BY <1>2 DEF Written, Owed
<1>3. CASE Current.work = "rotate"
  <2>1. AllPlaced /\ i \in States
    BY <1>3, CurrentIs DEF Ready
  <2>2. Rotate(i) = OwedRotate(i)
    BY <1>1, <2>1, RotateIsOwed
  <2> QED
    BY <1>3, <2>2 DEF Written, Owed
<1>4. CASE Current.work = "wake"
  <2>1. AllRotated /\ i \in 0 .. DownstreamTasks - 1
    BY <1>4, CurrentIs DEF Ready
  <2>2. Wake(i) = OwedWake(i)
    BY <1>1, <2>1, WakeIsOwed
  <2> QED
    BY <1>4, <2>2 DEF Written, Owed
<1>5. CASE Current.work = "power"
  <2>1. AllLost /\ i \in 0 .. job.batch * n - 1
    BY <1>5, CurrentIs DEF Ready
  <2>2. Power(i) = OwedPower(i)
    BY <1>1, <2>1, PowerIsOwed
  <2> QED
    BY <1>5, <2>2 DEF Written, Owed
<1>6. CASE Current.work = "rank"
  <2>1. AllSummed /\ i \in Rows
    BY <1>6, CurrentIs DEF Ready
  <2>2. Rank(i) = OwedRank(i)
    BY <1>1, <2>1, RankIsOwed
  <2> QED
    BY <1>6, <2>2 DEF Written, Owed
<1>7. CASE Current.work = "state"
  <2>1. AllPlaced /\ i \in States
    BY <1>7, CurrentIs DEF Ready
  <2>2. EvaluateState(i) = OwedState(i)
    BY <1>1, <2>1, StateIsOwed
  <2> QED
    BY <1>7, <2>2 DEF Written, Owed
<1>8. CASE Current.work = "reduce"
  <2>1. AllLost /\ i \in Rows
    BY <1>8, CurrentIs DEF Ready
  <2>2. Reduce(i) = OwedReduce(i)
    BY <1>1, <2>1, ReduceIsOwed
  <2> QED
    BY <1>8, <2>2 DEF Written, Owed
<1> QED
  BY <1>2, <1>3, <1>4, <1>5, <1>6, <1>7, <1>8, CurrentIs

-----------------------------------------------------------------------------
(* Where the indices of a loop write.                                      *)

\* The arrays a loop writes.
ArraysOf(work) ==
  CASE work = "place" -> {"x", "y"}
    [] work = "rotate" -> {"transformed_x", "transformed_y", "upstream_order"}
    [] work \in {"wake", "state"} -> {"wake"}
    [] work = "power" -> {"accumulated"}
    [] work = "rank" -> {"fitness", "turbine_power", "position_order"}
    [] OTHER -> {"accumulated", "fitness", "turbine_power", "position_order"}

\* The cell of an array in the block of a row or of a state is a cell of the array.
LEMMA BlockCells ==
  ASSUME Called
  PROVE  /\ \A row \in Rows : \A b \in Block(row) : b \in 0 .. job.batch * n - 1
         /\ \A state \in States : \A b \in Block(state) : b \in 0 .. StateCount * n - 1
BY BlocksWithin DEF Block

\* The cells that ranking a row writes.
LEMMA RankCells ==
  ASSUME NEW row, NEW a \in DOMAIN OwedRank(row)
  PROVE  \/ a = <<"fitness", row>>
         \/ \E b \in Block(row) : a = <<"turbine_power", b>> \/ a = <<"position_order", b>>
<1>1. DOMAIN OwedRank(row) \subseteq
        {<<"fitness", row>>} \cup ({"turbine_power", "position_order"} \X Block(row))
  <2>1. PICK power : power = YieldsOf(LayoutAt(row))
    OBVIOUS
  <2> QED
    BY <2>1, RankedCells DEF OwedRank
<1> QED
  BY <1>1

\* What a downstream task and a state write: never the turbine farthest upwind.
LEMMA WakeCells ==
  ASSUME Called, NEW state \in States, NEW p \in 1 .. n - 1
  PROVE  /\ StateOrder(state)[p] \in Turbines
         /\ state * n + StateOrder(state)[p] \in 0 .. StateCount * n - 1
         /\ \A s \in States : state * n + StateOrder(state)[p] # s * n + StateOrder(s)[0]
<1>1. /\ StateOrder(state)[p] \in Turbines
      /\ StateOrder(state)[p] # StateOrder(state)[0]
  BY Downwind
<1>2. state \in Int /\ state * n + StateOrder(state)[p] \in 0 .. StateCount * n - 1
  BY <1>1, BlocksWithin
<1>3. ASSUME NEW s \in States, state * n + StateOrder(state)[p] = s * n + StateOrder(s)[0]
      PROVE  FALSE
  <2>1. s \in Int /\ StateOrder(s)[0] \in Turbines
    <3>1. s \in Int
      BY CallNumbers DEF States
    <3>2. StateOrder(s)[0] \in Turbines
      BY StateOrderSound, CallNumbers
    <3> QED
      BY <3>1, <3>2
  <2>2. state = s /\ StateOrder(state)[p] = StateOrder(s)[0]
    BY <1>1, <1>2, <1>3, <2>1, BlocksApart
  <2> QED
    BY <1>1, <2>2
<1> QED
  BY <1>1, <1>2, <1>3

\* An index writes in the arrays of its loop, within them, and never the losses of the
\* turbine farthest upwind in a state.
LEMMA OwedWithin ==
  ASSUME AtStage, NEW i \in Indices, NEW a \in DOMAIN Owed(i)
  PROVE  /\ a \in Addresses
         /\ a[1] \in ArraysOf(Current.work)
         /\ \A s \in States : a # <<"wake", s * n + StateOrder(s)[0]>>
<1>1. Called
  BY DEF AtStage
<1>2. CASE Current.work = "place"
  <2>0. a \in {"x", "y"} \X Block(i)
    BY <1>2, OwedCells
  <2>1. PICK b \in Block(i) : a = <<"x", b>> \/ a = <<"y", b>>
    BY <2>0
  <2>2. b \in 0 .. job.batch * n - 1
    BY <1>1, <1>2, BlockCells, CurrentIs
  <2> QED
    BY <1>2, <2>1, <2>2 DEF Addresses, ArraysOf
<1>3. CASE Current.work = "rotate"
  <2>0. a \in {"transformed_x", "transformed_y", "upstream_order"} \X Block(i)
    BY <1>3, OwedCells
  <2>1. PICK b \in Block(i) :
          \/ a = <<"transformed_x", b>> \/ a = <<"transformed_y", b>>
          \/ a = <<"upstream_order", b>>
    BY <2>0
  <2>2. b \in 0 .. StateCount * n - 1
    BY <1>1, <1>3, BlockCells, CurrentIs
  <2> QED
    BY <1>3, <2>1, <2>2 DEF Addresses, ArraysOf
<1>4. CASE Current.work = "wake"
  <2>1. /\ TaskState(i) \in States /\ TaskPosition(i) \in 1 .. n - 1
        /\ a = <<"wake", TaskState(i) * n + StateOrder(TaskState(i))[TaskPosition(i)]>>
    <3>1. TaskState(i) \in States /\ TaskPosition(i) \in 1 .. n - 1
      BY <1>1, <1>4, CurrentIs, TaskDecoded
    <3>2. a = <<"wake", TaskState(i) * n + StateOrder(TaskState(i))[TaskPosition(i)]>>
      BY <1>4, OwedCells
    <3> QED
      BY <3>1, <3>2
  <2>2. PICK c : /\ a = <<"wake", c>> /\ c \in 0 .. StateCount * n - 1
                 /\ \A s \in States : c # s * n + StateOrder(s)[0]
    BY <1>1, <2>1, WakeCells
  <2> QED
    BY <1>4, <2>2 DEF Addresses, ArraysOf
<1>5. CASE Current.work = "power"
  <2>1. a = <<"accumulated", i>> /\ i \in 0 .. job.batch * n - 1
    BY <1>5, OwedCells, CurrentIs
  <2> QED
    BY <1>5, <2>1 DEF Addresses, ArraysOf
<1>6. ASSUME NEW row \in Rows, NEW c \in DOMAIN OwedRank(row)
      PROVE  /\ c \in Addresses
             /\ c[1] \in {"fitness", "turbine_power", "position_order"}
             /\ \A s \in States : c # <<"wake", s * n + StateOrder(s)[0]>>
  <2>1. CASE c = <<"fitness", row>>
    BY <2>1 DEF Addresses, Rows
  <2>2. ASSUME NEW b \in Block(row), c = <<"turbine_power", b>> \/ c = <<"position_order", b>>
        PROVE  /\ c \in Addresses
               /\ c[1] \in {"fitness", "turbine_power", "position_order"}
               /\ \A s \in States : c # <<"wake", s * n + StateOrder(s)[0]>>
    <3>1. b \in 0 .. job.batch * n - 1
      BY <1>1, BlockCells
    <3> QED
      BY <2>2, <3>1 DEF Addresses
  <2> QED
    BY <2>1, <2>2, RankCells
<1>7. CASE Current.work = "rank"
  <2>1. i \in Rows /\ a \in DOMAIN OwedRank(i)
    BY <1>7, CurrentIs, OwedCells
  <2> QED
    BY <1>6, <1>7, <2>1 DEF ArraysOf
<1>8. CASE Current.work = "state"
  <2>1. i \in States
    BY <1>8, CurrentIs
  <2>0. a \in {"wake"} \X {i * n + StateOrder(i)[p] : p \in 1 .. n - 1}
    BY <1>8, OwedCells
  <2>2. PICK p \in 1 .. n - 1 : a = <<"wake", i * n + StateOrder(i)[p]>>
    BY <2>0
  <2>3. PICK c : /\ a = <<"wake", c>> /\ c \in 0 .. StateCount * n - 1
                 /\ \A s \in States : c # s * n + StateOrder(s)[0]
    BY <1>1, <2>1, <2>2, WakeCells
  <2> QED
    BY <1>8, <2>3 DEF Addresses, ArraysOf
<1>9. CASE Current.work = "reduce"
  <2>1. i \in Rows
    BY <1>9, CurrentIs
  <2>2. CASE a \in DOMAIN OwedRank(i)
    BY <1>6, <1>9, <2>1, <2>2 DEF ArraysOf
  <2>3. CASE a \notin DOMAIN OwedRank(i)
    <3>0. a \in {"accumulated"} \X Block(i)
      BY <1>9, <2>3, OwedCells
    <3>1. PICK b \in Block(i) : a = <<"accumulated", b>>
      BY <3>0
    <3>2. b \in 0 .. job.batch * n - 1
      BY <1>1, <2>1, BlockCells
    <3> QED
      BY <1>9, <3>1, <3>2 DEF Addresses, ArraysOf
  <2> QED
    BY <2>2, <2>3
<1> QED
  BY <1>2, <1>3, <1>4, <1>5, <1>7, <1>8, <1>9, CurrentIs

\* Blocks of different rows, or of different states, have no cell in common.
LEMMA BlocksDisjoint ==
  ASSUME Called, NEW i \in Int, NEW k \in Int, NEW b \in Block(i), b \in Block(k)
  PROVE  i = k
<1>1. PICK t \in Turbines : b = i * n + t
  BY DEF Block
<1>2. PICK u \in Turbines : b = k * n + u
  BY DEF Block
<1> QED
  BY <1>1, <1>2, BlocksApart

\* Two indices of a loop write different cells.
LEMMA OwedApart ==
  ASSUME AtStage, NEW i \in Indices, NEW k \in Indices,
         NEW a \in DOMAIN Owed(i), a \in DOMAIN Owed(k)
  PROVE  i = k
<1>1. Called
  BY DEF AtStage
<1>2. i \in Int /\ k \in Int
  BY CurrentIs DEF Indices
<1>3. ASSUME NEW Names, a \in Names \X Block(i), a \in Names \X Block(k) PROVE i = k
  <2>1. a[2] \in Block(i) /\ a[2] \in Block(k)
    BY <1>3
  <2> QED
    BY <1>1, <1>2, <2>1, BlocksDisjoint
<1>4. CASE Current.work = "place"
  <2>1. a \in {"x", "y"} \X Block(i) /\ a \in {"x", "y"} \X Block(k)
    BY <1>4, OwedCells
  <2> QED
    BY <1>3, <2>1
<1>5. CASE Current.work = "rotate"
  <2>1. /\ a \in {"transformed_x", "transformed_y", "upstream_order"} \X Block(i)
        /\ a \in {"transformed_x", "transformed_y", "upstream_order"} \X Block(k)
    BY <1>5, OwedCells
  <2> QED
    BY <1>3, <2>1
<1>6. ASSUME NEW s \in States, NEW r \in States, NEW p \in 1 .. n - 1, NEW q \in 1 .. n - 1,
             s * n + StateOrder(s)[p] = r * n + StateOrder(r)[q]
      PROVE  s = r /\ p = q
  <2>1. s \in Int /\ r \in Int
    BY <1>1, CallNumbers DEF States
  <2>2. StateOrder(s)[p] \in Turbines /\ StateOrder(r)[q] \in Turbines
    BY <1>1, WakeCells
  <2>3. s = r /\ StateOrder(s)[p] = StateOrder(r)[q]
    BY <1>1, <1>6, <2>1, <2>2, BlocksApart
  <2>4. p \in 0 .. n - 1 /\ q \in 0 .. n - 1
    BY <1>1, Downwind
  <2> QED
    BY <1>1, <2>3, <2>4, StateOrderSound
<1>7. CASE Current.work = "wake"
  <2>1. i \in 0 .. DownstreamTasks - 1 /\ k \in 0 .. DownstreamTasks - 1
    BY <1>7, CurrentIs
  <2>2. /\ TaskState(i) \in States /\ TaskPosition(i) \in 1 .. n - 1
        /\ TaskState(k) \in States /\ TaskPosition(k) \in 1 .. n - 1
        /\ i = TaskState(i) * (n - 1) + (TaskPosition(i) - 1)
        /\ k = TaskState(k) * (n - 1) + (TaskPosition(k) - 1)
    BY <1>1, <2>1, TaskDecoded
  <2>3. /\ a = <<"wake", TaskState(i) * n + StateOrder(TaskState(i))[TaskPosition(i)]>>
        /\ a = <<"wake", TaskState(k) * n + StateOrder(TaskState(k))[TaskPosition(k)]>>
    BY <1>7, OwedCells
  <2>4. TaskState(i) * n + StateOrder(TaskState(i))[TaskPosition(i)]
          = TaskState(k) * n + StateOrder(TaskState(k))[TaskPosition(k)]
    BY <2>3
  <2>5. TaskState(i) = TaskState(k) /\ TaskPosition(i) = TaskPosition(k)
    BY <1>6, <2>2, <2>4
  <2> QED
    BY <2>2, <2>5
<1>8. CASE Current.work = "power"
  <2>1. a = <<"accumulated", i>> /\ a = <<"accumulated", k>>
    BY <1>8, OwedCells
  <2> QED
    BY <2>1
<1>9. ASSUME a \in DOMAIN OwedRank(i), a \in DOMAIN OwedRank(k) PROVE i = k
  <2>1. CASE a = <<"fitness", i>>
    <3>1. a = <<"fitness", k>>
      BY <1>9, <2>1, RankCells
    <3> QED
      BY <2>1, <3>1
  <2>2. ASSUME NEW b \in Block(i), a = <<"turbine_power", b>> \/ a = <<"position_order", b>>
        PROVE  i = k
    <3>1. b \in Block(k)
      BY <1>9, <2>2, RankCells
    <3> QED
      BY <1>1, <1>2, <3>1, BlocksDisjoint
  <2> QED
    BY <1>9, <2>1, <2>2, RankCells
<1>10. CASE Current.work = "rank"
  BY <1>9, <1>10, OwedCells
<1>11. CASE Current.work = "state"
  <2>1. i \in States /\ k \in States
    BY <1>11, CurrentIs
  <2>2. /\ a \in {"wake"} \X {i * n + StateOrder(i)[p] : p \in 1 .. n - 1}
        /\ a \in {"wake"} \X {k * n + StateOrder(k)[p] : p \in 1 .. n - 1}
    BY <1>11, OwedCells
  <2>3. PICK p \in 1 .. n - 1 : a[2] = i * n + StateOrder(i)[p]
    BY <2>2
  <2>4. PICK q \in 1 .. n - 1 : a[2] = k * n + StateOrder(k)[q]
    BY <2>2
  <2> QED
    BY <1>6, <2>1, <2>3, <2>4
<1>12. CASE Current.work = "reduce"
  <2>1. /\ a \in ({"accumulated"} \X Block(i)) \cup DOMAIN OwedRank(i)
        /\ a \in ({"accumulated"} \X Block(k)) \cup DOMAIN OwedRank(k)
    BY <1>12, OwedCells
  <2>2. ASSUME NEW row, a \in DOMAIN OwedRank(row) PROVE a[1] # "accumulated"
    BY <2>2, RankCells
  <2>3. CASE a[1] = "accumulated"
    <3>1. a \in {"accumulated"} \X Block(i) /\ a \in {"accumulated"} \X Block(k)
      BY <2>1, <2>2, <2>3
    <3> QED
      BY <1>3, <3>1
  <2>4. CASE a[1] # "accumulated"
    <3>1. a \in DOMAIN OwedRank(i) /\ a \in DOMAIN OwedRank(k)
      BY <2>1, <2>4
    <3> QED
      BY <1>9, <3>1
  <2> QED
    BY <2>3, <2>4
<1> QED
  BY <1>4, <1>5, <1>7, <1>8, <1>10, <1>11, <1>12, CurrentIs

-----------------------------------------------------------------------------
(* One index of a loop ends.                                               *)

\* What does not depend on the memory stays with the arguments.
LEMMA CallStays ==
  ASSUME job' = job
  PROVE  /\ n' = n /\ Rows' = Rows /\ States' = States /\ Turbines' = Turbines
         /\ Addresses' = Addresses /\ Loops' = Loops
         /\ Valid' = Valid
         /\ \A row : LayoutAt(row)' = LayoutAt(row) /\ Block(row)' = Block(row)
         /\ \A row, t : Index(row, t)' = Index(row, t)
         /\ \A state : LayoutOf(state)' = LayoutOf(state) /\ StateOrder(state)' = StateOrder(state)
<1>1. n' = n /\ StateCount' = StateCount
  BY DEF n, StateCount
<1>2. Turbines' = Turbines /\ Rows' = Rows /\ States' = States
  BY <1>1 DEF Turbines, Rows, States
<1>3. Addresses' = Addresses
  BY <1>1 DEF Addresses
<1>4. Loops' = Loops
  BY <1>1 DEF Loops, FusedLoops, StagedLoops, DownstreamTasks
<1>5. \A row, t : Index(row, t)' = Index(row, t)
  BY <1>1 DEF Index
<1>6. Valid' = Valid
  BY <1>1, <1>2, <1>5 DEF Valid
<1>7. \A row : LayoutAt(row)' = LayoutAt(row)
  BY <1>2, <1>5 DEF LayoutAt
<1>8. \A row : Block(row)' = Block(row)
  BY <1>1, <1>2 DEF Block
<1>9. \A state : LayoutOf(state)' = LayoutOf(state)
  BY <1>7 DEF LayoutOf
<1>10. \A state : StateOrder(state)' = StateOrder(state)
  BY <1>9 DEF StateOrder
<1> QED
  BY <1>1, <1>2, <1>3, <1>4, <1>5, <1>6, <1>7, <1>8, <1>9, <1>10

\* What an index owes stays while the loop does.
LEMMA OwedStays ==
  ASSUME job' = job, stage' = stage
  PROVE  /\ Current' = Current
         /\ \A i : Owed(i)' = Owed(i)
<1>1. Current' = Current
  BY CallStays DEF Current
<1>2. ASSUME NEW i PROVE Owed(i)' = Owed(i)
  <2>1. Place(i)' = Place(i)
    BY CallStays DEF Place
  <2>2. OwedRotate(i)' = OwedRotate(i)
    BY CallStays DEF OwedRotate
  <2>3. OwedWake(i)' = OwedWake(i)
    BY CallStays DEF OwedWake, TaskState, TaskPosition
  <2>4. OwedState(i)' = OwedState(i)
    BY CallStays DEF OwedState
  <2>5. OwedPower(i)' = OwedPower(i)
    BY CallStays DEF OwedPower
  <2>6. OwedRank(i)' = OwedRank(i)
    <3>1. PICK power : power = YieldsOf(LayoutAt(i))
      OBVIOUS
    <3>2. PICK order : order = StableOrder([t \in Turbines |-> PowerValue(power[t])])
      OBVIOUS
    <3>3. power = YieldsOf(LayoutAt(i))'
      BY <3>1, CallStays
    <3>4. order = StableOrder([t \in Turbines |-> PowerValue(power[t])])'
      BY <3>2, CallStays
    <3>5. Ranked(i, power)' = Ranked(i, power)
      BY <3>2, <3>4, CallStays DEF Ranked
    <3> QED
      BY <3>1, <3>3, <3>5 DEF OwedRank
  <2>7. OwedReduce(i)' = OwedReduce(i)
    BY <2>6, CallStays DEF OwedReduce
  <2> QED
    BY <1>1, <2>1, <2>2, <2>3, <2>4, <2>5, <2>6, <2>7 DEF Owed
<1> QED
  BY <1>1, <1>2

\* The cells of the turbines of the rows and of the states.
LEMMA CellsAre ==
  ASSUME Called, NEW t \in Turbines
  PROVE  /\ \A row \in Rows :
              /\ <<"x", row * n + t>> \in Addresses /\ <<"y", row * n + t>> \in Addresses
              /\ <<"accumulated", row * n + t>> \in Addresses
         /\ \A state \in States :
              /\ <<"transformed_x", state * n + t>> \in Addresses
              /\ <<"transformed_y", state * n + t>> \in Addresses
              /\ <<"upstream_order", state * n + t>> \in Addresses
              /\ <<"wake", state * n + t>> \in Addresses
BY BlocksWithin DEF Addresses

IndexEnds(k) == memory' = Over(Owed(k), memory) /\ job' = job /\ stage' = stage

\* The memory when an index has ended: what it owed, and else what was there.
LEMMA MemoryAfter ==
  ASSUME AtStage, Addresses \subseteq DOMAIN memory, NEW k \in Indices, IndexEnds(k)
  PROVE  /\ Addresses \subseteq DOMAIN memory'
         /\ \A a \in DOMAIN Owed(k) : memory'[a] = Owed(k)[a]
         /\ \A a \in Addresses : a \notin DOMAIN Owed(k) => memory'[a] = memory[a]
<1>1. DOMAIN memory' = DOMAIN Owed(k) \cup DOMAIN memory
  BY OverIs DEF IndexEnds
<1>2. ASSUME NEW a \in DOMAIN Owed(k) PROVE memory'[a] = Owed(k)[a]
  <2>1. a \in DOMAIN Over(Owed(k), memory)
    BY OverIs
  <2> QED
    BY <2>1 DEF IndexEnds, Over
<1>3. ASSUME NEW a \in Addresses, a \notin DOMAIN Owed(k) PROVE memory'[a] = memory[a]
  <2>1. a \in DOMAIN memory
    OBVIOUS
  <2> QED
    BY <1>3, <2>1 DEF IndexEnds, Over
<1> QED
  BY <1>1, <1>2, <1>3

\* No index of a loop disturbs what the loop reads.
LEMMA ReadyStays ==
  ASSUME AtStage, Addresses \subseteq DOMAIN memory, Ready, NEW k \in Indices, IndexEnds(k)
  PROVE  Ready'
<1>1. Called /\ job' = job /\ stage' = stage
  BY DEF AtStage, IndexEnds
<1>2. Current' = Current
  BY <1>1, OwedStays
<1>3. ASSUME NEW a \in Addresses,
             \/ a[1] \notin ArraysOf(Current.work)
             \/ \E s \in States : a = <<"wake", s * n + StateOrder(s)[0]>>
      PROVE  memory'[a] = memory[a]
  <2>1. a \notin DOMAIN Owed(k)
    BY <1>3, OwedWithin
  <2> QED
    BY <2>1, MemoryAfter
<1>4. ASSUME Current.work \in {"place", "rotate", "wake", "state"} PROVE Untouched'
  <2>1. Untouched
    BY <1>4 DEF Ready
  <2>2. ASSUME NEW state \in States
        PROVE  memory'[<<"wake", state * n + StateOrder(state)[0]>>] = <<>>
    <3>1. StateOrder(state)[0] \in Turbines
      BY <1>1, StateOrderSound, CallNumbers
    <3>2. <<"wake", state * n + StateOrder(state)[0]>> \in Addresses
      BY <1>1, <3>1, CellsAre
    <3> QED
      BY <1>3, <2>1, <3>2 DEF Untouched
  <2> QED
    BY <1>1, <2>2, CallStays DEF Untouched
<1>5. ASSUME Current.work \in {"rotate", "state"} PROVE AllPlaced'
  <2>1. AllPlaced /\ "x" \notin ArraysOf(Current.work) /\ "y" \notin ArraysOf(Current.work)
    BY <1>5 DEF Ready, ArraysOf
  <2>2. ASSUME NEW row \in Rows, NEW t \in Turbines
        PROVE  /\ memory'[<<"x", row * n + t>>] = XOf(Index(row, t))
               /\ memory'[<<"y", row * n + t>>] = YOf(Index(row, t))
    <3>1. <<"x", row * n + t>> \in Addresses /\ <<"y", row * n + t>> \in Addresses
      BY <1>1, CellsAre
    <3> QED
      BY <1>3, <2>1, <3>1 DEF AllPlaced
  <2> QED
    BY <1>1, <2>2, CallStays DEF AllPlaced
<1>6. ASSUME Current.work = "wake" PROVE AllRotated'
  <2>1. /\ AllRotated /\ "transformed_x" \notin ArraysOf(Current.work)
        /\ "transformed_y" \notin ArraysOf(Current.work)
        /\ "upstream_order" \notin ArraysOf(Current.work)
    BY <1>6 DEF Ready, ArraysOf
  <2>2. ASSUME NEW state \in States, NEW t \in Turbines
        PROVE  /\ memory'[<<"transformed_x", state * n + t>>]
                    = AcrossOf(LayoutOf(state), DirectionOf(state))[t]
               /\ memory'[<<"transformed_y", state * n + t>>]
                    = AlongOf(LayoutOf(state), DirectionOf(state))[t]
               /\ memory'[<<"upstream_order", state * n + t>>] = StateOrder(state)[t]
    <3>1. /\ <<"transformed_x", state * n + t>> \in Addresses
          /\ <<"transformed_y", state * n + t>> \in Addresses
          /\ <<"upstream_order", state * n + t>> \in Addresses
      BY <1>1, CellsAre
    <3> QED
      BY <1>3, <2>1, <3>1 DEF AllRotated
  <2> QED
    BY <1>1, <2>2, CallStays DEF AllRotated
<1>7. ASSUME Current.work \in {"power", "reduce"} PROVE AllLost'
  <2>1. AllLost /\ "wake" \notin ArraysOf(Current.work)
    BY <1>7 DEF Ready, ArraysOf
  <2>2. ASSUME NEW state \in States, NEW t \in Turbines
        PROVE  memory'[<<"wake", state * n + t>>]
                 = LossesOf(LayoutOf(state), DirectionOf(state), t)
    <3>1. <<"wake", state * n + t>> \in Addresses
      BY <1>1, CellsAre
    <3> QED
      BY <1>3, <2>1, <3>1 DEF AllLost
  <2> QED
    BY <1>1, <2>2, CallStays DEF AllLost
<1>8. ASSUME Current.work = "rank" PROVE AllSummed'
  <2>1. AllSummed /\ "accumulated" \notin ArraysOf(Current.work)
    BY <1>8 DEF Ready, ArraysOf
  <2>2. ASSUME NEW row \in Rows, NEW t \in Turbines
        PROVE  memory'[<<"accumulated", row * n + t>>] = YieldOf(LayoutAt(row), t)
    <3>1. <<"accumulated", row * n + t>> \in Addresses
      BY <1>1, CellsAre
    <3> QED
      BY <1>3, <2>1, <3>1 DEF AllSummed
  <2> QED
    BY <1>1, <2>2, CallStays DEF AllSummed
<1> QED
  BY <1>2, <1>4, <1>5, <1>6, <1>7, <1>8 DEF Ready

\* The index that ended has paid, and those that had paid before still have.
LEMMA MatchesStays ==
  ASSUME AtStage, Addresses \subseteq DOMAIN memory, NEW k \in Indices, IndexEnds(k)
  PROVE  /\ Matches(k)'
         /\ \A i \in Indices : Matches(i) => Matches(i)'
<1>1. \A i : Owed(i)' = Owed(i)
  BY OwedStays DEF IndexEnds
<1>2. Matches(k)'
  BY <1>1, MemoryAfter DEF Matches
<1>3. ASSUME NEW i \in Indices, Matches(i), i # k PROVE Matches(i)'
  <2>1. ASSUME NEW a \in DOMAIN Owed(i) PROVE memory'[a] = Owed(i)[a]
    <3>1. a \in Addresses /\ a \notin DOMAIN Owed(k)
      BY <1>3, OwedWithin, OwedApart
    <3>2. memory[a] = Owed(i)[a]
      BY <1>3 DEF Matches
    <3> QED
      BY <3>1, <3>2, MemoryAfter
  <2> QED
    BY <1>1, <2>1 DEF Matches
<1> QED
  BY <1>2, <1>3

-----------------------------------------------------------------------------
(* A loop is over.                                                         *)

AllPaid == \A i \in Indices : Matches(i)

\* The loops leave in the memory what the next ones read.
LEMMA PlaceDone ==
  ASSUME AtStage, AllPaid, Current.work = "place"
  PROVE  AllPlaced
<1> SUFFICES ASSUME NEW row \in Rows, NEW t \in Turbines
             PROVE  /\ memory[<<"x", row * n + t>>] = XOf(Index(row, t))
                    /\ memory[<<"y", row * n + t>>] = YOf(Index(row, t))
  BY DEF AllPlaced
<1>1. Owed(row) = Place(row) /\ Matches(row)
  BY CurrentIs DEF Owed, AllPaid
<1>2. row * n + t \in Block(row)
  BY DEF Block
<1>3. /\ <<"x", row * n + t>> \in DOMAIN Place(row)
      /\ <<"y", row * n + t>> \in DOMAIN Place(row)
  BY <1>2 DEF Place
<1>4. /\ Place(row)[<<"x", row * n + t>>] = XOf(Index(row, t))
      /\ Place(row)[<<"y", row * n + t>>] = YOf(Index(row, t))
  BY <1>2 DEF Place, XOf, YOf, Index
<1> QED
  BY <1>1, <1>3, <1>4 DEF Matches

\* After the rotations, the coordinates and the order of every state are there.
LEMMA RotateDone ==
  ASSUME AtStage, AllPaid, Current.work = "rotate"
  PROVE  AllRotated
<1> SUFFICES ASSUME NEW state \in States, NEW t \in Turbines
             PROVE  /\ memory[<<"transformed_x", state * n + t>>]
                         = AcrossOf(LayoutOf(state), DirectionOf(state))[t]
                    /\ memory[<<"transformed_y", state * n + t>>]
                         = AlongOf(LayoutOf(state), DirectionOf(state))[t]
                    /\ memory[<<"upstream_order", state * n + t>>] = StateOrder(state)[t]
  BY DEF AllRotated
<1>1. Owed(state) = OwedRotate(state) /\ Matches(state)
  BY CurrentIs DEF Owed, AllPaid
<1>2. PICK b : b = state * n + t
  OBVIOUS
<1>3. b \in Block(state) /\ b - state * n = t
  <2>1. state * n \in Int /\ t \in Int
    BY CallNumbers DEF AtStage, States
  <2> QED
    BY <1>2, <2>1 DEF Block
<1>4. /\ <<"transformed_x", b>> \in DOMAIN OwedRotate(state)
      /\ <<"transformed_y", b>> \in DOMAIN OwedRotate(state)
      /\ <<"upstream_order", b>> \in DOMAIN OwedRotate(state)
  BY <1>3 DEF OwedRotate
<1>5. OwedRotate(state)[<<"transformed_x", b>>]
        = AcrossOf(LayoutOf(state), DirectionOf(state))[b - state * n]
  BY <1>3 DEF OwedRotate
<1>6. OwedRotate(state)[<<"transformed_y", b>>]
        = AlongOf(LayoutOf(state), DirectionOf(state))[b - state * n]
  BY <1>3 DEF OwedRotate
<1>7. OwedRotate(state)[<<"upstream_order", b>>] = StateOrder(state)[b - state * n]
  BY <1>3 DEF OwedRotate
<1> QED
  BY <1>1, <1>2, <1>3, <1>4, <1>5, <1>6, <1>7 DEF Matches

\* Every turbine of a state but the farthest upwind had its task, and that one keeps its zero.
LEMMA WakeDone ==
  ASSUME AtStage, AllPaid, Untouched, Current.work \in {"wake", "state"}
  PROVE  AllLost
<1> SUFFICES ASSUME NEW state \in States, NEW t \in Turbines
             PROVE  memory[<<"wake", state * n + t>>]
                      = LossesOf(LayoutOf(state), DirectionOf(state), t)
  BY DEF AllLost
<1>1. Called /\ n \in Nat \ {0} /\ t \in 0 .. n - 1
  BY CallNumbers DEF AtStage
<1>2. PICK p \in 0 .. n - 1 : StateOrder(state)[p] = t
  BY <1>1, StateOrderSound
<1>3. CASE p = 0
  <2>1. memory[<<"wake", state * n + t>>] = <<>>
    BY <1>2, <1>3 DEF Untouched
  <2>2. LossesOf(LayoutOf(state), DirectionOf(state), t) = <<>>
    BY <1>1, <1>2, <1>3, LossesAtPosition
  <2> QED
    BY <2>1, <2>2
<1>4. CASE p # 0 /\ Current.work = "state"
  <2>1. Owed(state) = OwedState(state) /\ Matches(state)
    BY <1>4, CurrentIs DEF Owed, AllPaid
  <2>2. PICK b : b = state * n + t
    OBVIOUS
  <2>3. b - state * n = t
    <3>1. state * n \in Int /\ t \in Int
      BY <1>1 DEF States
    <3> QED
      BY <2>2, <3>1
  <2>4. <<"wake", b>> \in {"wake"} \X {state * n + StateOrder(state)[q] : q \in 1 .. n - 1}
    <3>1. p \in 1 .. n - 1
      BY <1>1, <1>4
    <3> QED
      BY <1>2, <2>2, <3>1
  <2>5. /\ <<"wake", b>> \in DOMAIN OwedState(state)
        /\ OwedState(state)[<<"wake", b>>]
             = LossesOf(LayoutOf(state), DirectionOf(state), b - state * n)
    BY <2>4 DEF OwedState
  <2>6. memory[<<"wake", b>>] = LossesOf(LayoutOf(state), DirectionOf(state), t)
    BY <2>1, <2>3, <2>5 DEF Matches
  <2> QED
    BY <2>2, <2>6
<1>5. CASE p # 0 /\ Current.work = "wake"
  <2>1. n - 1 \in Nat \ {0} /\ p - 1 \in 0 .. (n - 1) - 1 /\ p \in Int
    BY <1>1, <1>5
  <2>2. PICK m \in Nat \ {0} : m = n - 1
    BY <2>1
  <2>3. PICK task : task = state * m + (p - 1)
    OBVIOUS
  <2>4. /\ StateCount \in Nat /\ state \in 0 .. StateCount - 1 /\ p - 1 \in 0 .. m - 1
    BY <1>1, <2>1, <2>2, CallNumbers DEF States
  <2>5. task \in 0 .. StateCount * m - 1
    BY <2>3, <2>4, PositionWithin
  <2>6. task \in Indices
    <3>1. task \in 0 .. DownstreamTasks - 1
      BY <1>1, <2>2, <2>5, CallNumbers
    <3> QED
      BY <1>5, <3>1, CurrentIs
  <2>7. task \div m = state /\ task % m = p - 1
    BY <2>3, <2>4, DecodedBlock
  <2>8. TaskState(task) = state
    BY <2>2, <2>7 DEF TaskState
  <2>9. TaskPosition(task) = p
    BY <2>1, <2>2, <2>7 DEF TaskPosition
  <2>10. Owed(task) = OwedWake(task) /\ Matches(task)
    BY <1>5, <2>6 DEF Owed, AllPaid
  <2>11. OwedWake(task) = Writing(<<"wake", state * n + t>>,
                                  LossesAt(LayoutOf(state), DirectionOf(state), p))
    BY <1>2, <2>8, <2>9 DEF OwedWake
  <2>12. memory[<<"wake", state * n + t>>] = LossesAt(LayoutOf(state), DirectionOf(state), p)
    BY <2>10, <2>11 DEF Matches, Writing
  <2>13. LossesOf(LayoutOf(state), DirectionOf(state), t)
           = LossesAt(LayoutOf(state), DirectionOf(state), p)
    BY <1>1, <1>2, <1>5, LossesAtPosition
  <2> QED
    BY <2>12, <2>13
<1> QED
  BY <1>3, <1>4, <1>5

\* After the power loop, every turbine has its yield.
LEMMA PowerDone ==
  ASSUME AtStage, AllPaid, Current.work = "power"
  PROVE  AllSummed
<1> SUFFICES ASSUME NEW row \in Rows, NEW t \in Turbines
             PROVE  memory[<<"accumulated", row * n + t>>] = YieldOf(LayoutAt(row), t)
  BY DEF AllSummed
<1>1. /\ n \in Nat \ {0} /\ job.batch \in Nat /\ row \in 0 .. job.batch - 1 /\ t \in 0 .. n - 1
  BY CallNumbers DEF AtStage, Rows
<1>2. PICK task : task = row * n + t
  OBVIOUS
<1>3. task \in 0 .. job.batch * n - 1 /\ task \div n = row
  BY <1>1, <1>2, PositionWithin, DecodedBlock
<1>4. task - (task \div n) * n = t
  <2>1. row * n \in Int /\ t \in Int
    BY <1>1
  <2> QED
    BY <1>2, <1>3, <2>1
<1>5. Owed(task) = OwedPower(task) /\ Matches(task)
  BY <1>3, CurrentIs DEF Owed, AllPaid
<1>6. OwedPower(task) = Writing(<<"accumulated", task>>, YieldOf(LayoutAt(row), t))
  BY <1>3, <1>4 DEF OwedPower
<1>7. memory[<<"accumulated", task>>] = YieldOf(LayoutAt(row), t)
  BY <1>5, <1>6 DEF Matches, Writing
<1> QED
  BY <1>2, <1>7

\* The rows are ranked, whichever loop did it.
LEMMA RankDone ==
  ASSUME AtStage, AllPaid, Current.work \in {"rank", "reduce"}
  PROVE  AllAnswered
<1> SUFFICES ASSUME NEW row \in Rows PROVE Result(row) = AnswerTo(row)
  BY DEF AllAnswered
<1>1. Called /\ n \in Nat \ {0} /\ row \in Int
  BY CallNumbers DEF AtStage, Rows
<1>2. Matches(row)
  BY CurrentIs DEF AllPaid
<1>3. ASSUME NEW a \in DOMAIN OwedRank(row) PROVE memory[a] = OwedRank(row)[a]
  <2>1. CASE Current.work = "rank"
    <3>1. Owed(row) = OwedRank(row)
      BY <2>1 DEF Owed
    <3> QED
      BY <1>2, <3>1 DEF Matches
  <2>2. CASE Current.work = "reduce"
    <3>1. PICK sums : sums = [c \in {"accumulated"} \X Block(row) |->
                                YieldsOf(LayoutAt(row))[c[2] - row * n]]
      OBVIOUS
    <3>2. Owed(row) = Over(sums, OwedRank(row))
      BY <2>2, <3>1 DEF Owed, OwedReduce
    <3>3. a \notin DOMAIN sums
      BY <3>1, RankCells
    <3>4. a \in DOMAIN Over(sums, OwedRank(row)) /\ Over(sums, OwedRank(row))[a] = OwedRank(row)[a]
      BY <3>3 DEF Over
    <3> QED
      BY <1>2, <3>2, <3>4 DEF Matches
  <2> QED
    BY <2>1, <2>2
<1>4. PICK power : power = YieldsOf(LayoutAt(row))
  OBVIOUS
<1>5. PICK order : order = RankOrder(power)
  OBVIOUS
<1>6. order = WeakestOf(LayoutAt(row))
  BY <1>1, <1>4, <1>5, LayoutCells DEF WeakestOf, RankOrder
<1>7. OwedRank(row) = Ranked(row, power)
  BY <1>4 DEF OwedRank
<1>8. memory[<<"fitness", row>>] = [k \in 1 .. n |-> PowerValue(power[order[k - 1]])]
  <2>1. /\ <<"fitness", row>> \in DOMAIN OwedRank(row)
        /\ OwedRank(row)[<<"fitness", row>>] = FitnessOf(power)
    BY <1>7, RankedCells
  <2>2. FitnessOf(power) = [k \in 1 .. n |-> PowerValue(power[order[k - 1]])]
    BY <1>5 DEF FitnessOf
  <2> QED
    BY <1>3, <2>1, <2>2
<1>9. ASSUME job.detail = "TotalAndPerTurbine", NEW k \in 1 .. n
      PROVE  /\ memory[<<"turbine_power", row * n + k - 1>>] = power[order[k - 1]]
             /\ memory[<<"position_order", row * n + k - 1>>] = Index(row, order[k - 1])
  <2>1. PICK b : b = row * n + k - 1
    OBVIOUS
  <2>2. b \in Block(row) /\ b - row * n = k - 1
    <3>1. row * n \in Int /\ k \in Int /\ k - 1 \in 0 .. n - 1
      BY <1>1
    <3>2. b = row * n + (k - 1) /\ b - row * n = k - 1
      BY <2>1, <3>1
    <3>3. k - 1 \in Turbines
      BY <1>1, <3>1, CallNumbers
    <3> QED
      BY <3>2, <3>3 DEF Block
  <2>3. /\ <<"turbine_power", b>> \in DOMAIN OwedRank(row)
        /\ <<"position_order", b>> \in DOMAIN OwedRank(row)
        /\ OwedRank(row)[<<"turbine_power", b>>] = power[order[b - row * n]]
        /\ OwedRank(row)[<<"position_order", b>>] = Index(row, order[b - row * n])
    BY <1>5, <1>7, <1>9, <2>2, RankedTurbines
  <2>4. /\ memory[<<"turbine_power", b>>] = power[order[k - 1]]
        /\ memory[<<"position_order", b>>] = Index(row, order[k - 1])
    BY <1>3, <2>2, <2>3
  <2> QED
    BY <2>1, <2>4
<1>10. Result(row) =
         [fitness |-> [k \in 1 .. n |-> PowerValue(power[order[k - 1]])],
          ranked  |-> IF job.detail = "TotalAndPerTurbine"
                        THEN [k \in 1 .. n |-> [power |-> power[order[k - 1]],
                                                cell  |-> Index(row, order[k - 1])]]
                        ELSE <<>>]
  <2>1. CASE job.detail = "TotalAndPerTurbine"
    BY <1>8, <1>9, <2>1 DEF Result
  <2>2. CASE job.detail # "TotalAndPerTurbine"
    BY <1>8, <2>2 DEF Result
  <2> QED
    BY <2>1, <2>2
<1> QED
  BY <1>4, <1>6, <1>10 DEF AnswerTo

\* What the memory says stays while the memory does.
LEMMA FactsStay ==
  ASSUME job' = job, memory' = memory
  PROVE  /\ Untouched' = Untouched /\ AllPlaced' = AllPlaced /\ AllRotated' = AllRotated
         /\ AllLost' = AllLost /\ AllSummed' = AllSummed /\ AllAnswered' = AllAnswered
<1>1. Untouched' = Untouched
  BY CallStays DEF Untouched
<1>2. AllPlaced' = AllPlaced
  BY CallStays DEF AllPlaced
<1>3. AllRotated' = AllRotated
  BY CallStays DEF AllRotated
<1>4. AllLost' = AllLost
  BY CallStays DEF AllLost
<1>5. AllSummed' = AllSummed
  BY CallStays DEF AllSummed
<1>6. AllAnswered' = AllAnswered
  <2>1. ASSUME NEW row PROVE Result(row)' = Result(row) /\ AnswerTo(row)' = AnswerTo(row)
    <3>1. Result(row)' = Result(row)
      BY CallStays DEF Result
    <3>2. AnswerTo(row)' = AnswerTo(row)
      BY CallStays DEF AnswerTo
    <3> QED
      BY <3>1, <3>2
  <2> QED
    BY <2>1, CallStays DEF AllAnswered
<1> QED
  BY <1>1, <1>2, <1>3, <1>4, <1>5, <1>6

\* When a loop is over, the next one has its inputs, and after the last the call its answer.
LEMMA LoopDone ==
  ASSUME AtStage, Ready, Addresses \subseteq DOMAIN memory, AllPaid,
         job' = job, memory' = memory, stage' = stage + 1
  PROVE  StageInv'
<1>1. /\ Current.work = "place" => AllPlaced
      /\ Current.work = "rotate" => AllRotated
      /\ Current.work \in {"wake", "state"} => AllLost
      /\ Current.work = "power" => AllSummed
      /\ Current.work \in {"rank", "reduce"} => AllAnswered
  <2>1. Current.work \in {"wake", "state"} => Untouched
    BY DEF Ready
  <2> QED
    BY <2>1, PlaceDone, RotateDone, WakeDone, PowerDone, RankDone
<1>2. Current.work \in {"place", "rotate"} => Untouched
  BY DEF Ready
<1>3. /\ Untouched' = Untouched /\ AllPlaced' = AllPlaced /\ AllRotated' = AllRotated
      /\ AllLost' = AllLost /\ AllSummed' = AllSummed /\ AllAnswered' = AllAnswered
  BY FactsStay
<1>4. Loops' = Loops /\ Addresses' = Addresses
  BY CallStays
<1>5. Current' = Loops[stage + 1]
  BY <1>4 DEF Current
<1>6. CASE job.schedule = "GranularityAware"
  <2>1. Loops = FusedLoops /\ Len(Loops) = 3
    BY <1>6 DEF Loops, FusedLoops
  <2>2. stage \in {1, 2, 3}
    BY <2>1 DEF AtStage
  <2>3. /\ stage = 1 => Current.work = "place" /\ Current'.work = "state"
        /\ stage = 2 => Current.work = "state" /\ Current'.work = "reduce"
        /\ stage = 3 => Current.work = "reduce"
    BY <1>5, <2>1 DEF FusedLoops, Current, Loop
  <2> QED
    BY <1>1, <1>2, <1>3, <1>4, <2>1, <2>2, <2>3 DEF StageInv, Ready
<1>7. CASE job.schedule # "GranularityAware"
  <2>1. Loops = StagedLoops /\ Len(Loops) = 5
    BY <1>7 DEF Loops, StagedLoops
  <2>2. stage \in {1, 2, 3, 4, 5}
    BY <2>1 DEF AtStage
  <2>3. /\ stage = 1 => Current.work = "place" /\ Current'.work = "rotate"
        /\ stage = 2 => Current.work = "rotate" /\ Current'.work = "wake"
        /\ stage = 3 => Current.work = "wake" /\ Current'.work = "power"
        /\ stage = 4 => Current.work = "power" /\ Current'.work = "rank"
        /\ stage = 5 => Current.work = "rank"
    BY <1>5, <2>1 DEF StagedLoops, Current, Loop
  <2> QED
    BY <1>1, <1>2, <1>3, <1>4, <2>1, <2>2, <2>3 DEF StageInv, Ready
<1> QED
  BY <1>6, <1>7

-----------------------------------------------------------------------------
(* The inductive invariant, one action after another.                      *)

\* There are three loops or five.
LEMMA LoopsAre ==
  ASSUME Called
  PROVE  /\ Len(Loops) \in {3, 5}
         /\ \A s \in 1 .. Len(Loops) : Loops[s].size \in Nat
<1>1. /\ job.batch \in Nat /\ StateCount \in Nat /\ DownstreamTasks \in Nat
      /\ job.batch * n \in Nat
  BY CallNumbers
<1>2. CASE job.schedule = "GranularityAware"
  <2>1. Loops = FusedLoops /\ Len(Loops) = 3
    BY <1>2 DEF Loops, FusedLoops
  <2> QED
    BY <1>1, <2>1 DEF FusedLoops, Loop
<1>3. CASE job.schedule # "GranularityAware"
  <2>1. Loops = StagedLoops /\ Len(Loops) = 5
    BY <1>3 DEF Loops, StagedLoops
  <2> QED
    BY <1>1, <2>1 DEF StagedLoops, Loop
<1> QED
  BY <1>2, <1>3

\* No index of a loop has begun.
LEMMA FreshLoop ==
  ASSUME Called, job' = job, cursor' = 0, phase' = "idle", stage' \in Nat, stage' >= 1
  PROVE  LoopInv'
<1>1. Loops' = Loops
  BY CallStays
<1>2. ASSUME stage' <= Len(Loops) PROVE Current'.size \in Nat
  <2>1. stage' \in 1 .. Len(Loops)
    BY <1>2, LoopsAre
  <2> QED
    BY <1>1, <2>1, LoopsAre DEF Current
<1> QED
  BY <1>1, <1>2 DEF LoopInv

\* The arrays of a call as they are constructed.
LEMMA ArraysAre ==
  ASSUME Called
  PROVE  /\ DOMAIN Arrays = Addresses
         /\ \A b \in 0 .. StateCount * n - 1 : Arrays[<<"wake", b>>] = <<>>
<1>1. DOMAIN Arrays = Addresses
  BY DEF Arrays, Addresses
<1>2. ASSUME NEW b \in 0 .. StateCount * n - 1 PROVE Arrays[<<"wake", b>>] = <<>>
  <2>1. <<"wake", b>> \in Addresses
    BY DEF Addresses
  <2>2. <<"wake", b>> \notin
          ({"x", "y", "position_order"} \X (0 .. job.batch * n - 1))
            \cup ({"transformed_x", "transformed_y", "upstream_order"}
                    \X (0 .. StateCount * n - 1))
    OBVIOUS
  <2> QED
    BY <1>1, <2>1, <2>2 DEF Arrays
<1> QED
  BY <1>1, <1>2

\* The invariant holds before the call.
LEMMA InitSound == Init => EInv
BY DEF Init, EInv, NoWrites

\* A call with an infeasible layout is refused.
LEMMA RejectStep ==
  ASSUME EInv, Reject
  PROVE  EInv'
<1>1. /\ job' = job /\ stage' = stage /\ cursor' = cursor /\ busy' = busy
      /\ phase' = phase /\ todo' = todo /\ pc = "called" /\ pc' = "invalid_argument" /\ ~Valid
  BY DEF Reject, executor
<1>2. ~Valid'
  BY <1>1, CallStays
<1> QED
  BY <1>1, <1>2 DEF EInv

\* The arrays are constructed, and no index of the first loop has begun.
LEMMA EnterStep ==
  ASSUME EInv, Enter
  PROVE  EInv'
<1>1. /\ job' = job /\ stage' = stage /\ cursor' = cursor /\ busy' = busy
      /\ phase' = phase /\ todo' = todo /\ pc = "called" /\ pc' = "stages" /\ Valid
      /\ memory' = Arrays
  BY DEF Enter, executor
<1>2. /\ Called /\ job \in Jobs /\ stage = 1 /\ cursor = 0 /\ phase = "idle"
      /\ todo = {} /\ DOMAIN busy = {}
  BY <1>1 DEF EInv, Called
<1>3. Valid' /\ Loops' = Loops /\ Addresses' = Addresses
  BY <1>1, CallStays
<1>4. Addresses' \subseteq DOMAIN memory'
  BY <1>1, <1>2, <1>3, ArraysAre
<1>5. Untouched'
  <2>1. ASSUME NEW state \in States
        PROVE  memory'[<<"wake", state * n + StateOrder(state)[0]>>] = <<>>
    <3>1. StateOrder(state)[0] \in Turbines
      BY <1>2, StateOrderSound, CallNumbers
    <3>2. state * n + StateOrder(state)[0] \in 0 .. StateCount * n - 1
      BY <1>2, <3>1, BlocksWithin
    <3> QED
      BY <1>1, <1>2, <3>2, ArraysAre
  <2> QED
    BY <1>1, <2>1, CallStays DEF Untouched
<1>6. Current'.work = "place" /\ Len(Loops) \in {3, 5}
  <2>1. Loops[1].work = "place"
    BY DEF Loops, FusedLoops, StagedLoops, Loop
  <2> QED
    BY <1>1, <1>2, <1>3, <2>1, LoopsAre DEF Current
<1>7. StageInv'
  <2>1. Ready'
    BY <1>5, <1>6 DEF Ready
  <2>2. stage' = 1 /\ Len(Loops)' \in {3, 5}
    BY <1>1, <1>2, <1>3, <1>6
  <2> QED
    BY <1>4, <2>1, <2>2 DEF StageInv
<1>8. LoopInv'
  BY <1>1, <1>2, FreshLoop
<1> QED
  BY <1>1, <1>2, <1>3, <1>7, <1>8 DEF EInv

\* What holds while the loops run.
LEMMA InStages ==
  ASSUME EInv, pc = "stages"
  PROVE  /\ Called /\ job \in Jobs /\ Valid /\ StageInv /\ LoopInv
         /\ phase \in {"idle", "running"}
         /\ phase = "idle" => todo = {} /\ DOMAIN busy = {}
         /\ stage \in Nat /\ stage >= 1 /\ Addresses \subseteq DOMAIN memory
         /\ Len(Loops) \in {3, 5}
         /\ stage <= Len(Loops) => AtStage /\ Ready /\ Current.size \in Nat
<1>1. Called /\ job \in Jobs /\ Valid /\ StageInv /\ LoopInv
  BY DEF EInv, Called
<1>2. Len(Loops) \in {3, 5}
  BY <1>1, LoopsAre
<1>3. stage \in Nat /\ stage >= 1 /\ Addresses \subseteq DOMAIN memory
  BY <1>1, <1>2 DEF StageInv
<1>4. stage <= Len(Loops) => AtStage /\ Ready
  BY <1>1, <1>2, <1>3 DEF StageInv, AtStage
<1>5. stage <= Len(Loops) => Current.size \in Nat
  BY <1>4, CurrentIs
<1> QED
  BY <1>1, <1>2, <1>3, <1>4, <1>5 DEF EInv

\* Nothing is over while no index ends.
LEMMA StageStays ==
  ASSUME job' = job, stage' = stage, memory' = memory, StageInv
  PROVE  StageInv'
<1>1. Current' = Current /\ Loops' = Loops /\ Addresses' = Addresses
  BY CallStays, OwedStays
<1> QED
  BY <1>1, FactsStay DEF StageInv, Ready

\* What the indices that ended left stays while no index ends.
LEMMA PaidStays ==
  ASSUME job' = job, stage' = stage, memory' = memory
  PROVE  \A i : Owed(i)' = Owed(i) /\ Matches(i)' = Matches(i)
BY OwedStays DEF Matches

\* A parallel loop is entered, or skipped when its range is empty.
LEMMA CallStep ==
  ASSUME EInv, CallParallelFor
  PROVE  EInv'
<1>1. /\ job' = job /\ pc' = pc /\ cursor' = cursor /\ memory' = memory /\ busy' = busy
      /\ pc = "stages" /\ stage <= Len(Loops) /\ Current.parallel /\ phase = "idle"
  BY DEF CallParallelFor, AtLoop, FJ!Fork
<1>2. /\ Called /\ job \in Jobs /\ Valid /\ StageInv /\ LoopInv /\ todo = {} /\ DOMAIN busy = {}
      /\ AtStage /\ Ready /\ Current.size \in Nat /\ Addresses \subseteq DOMAIN memory
      /\ stage \in Nat /\ stage >= 1
  BY <1>1, InStages
<1>3. cursor = 0
  BY <1>1, <1>2 DEF LoopInv
<1>4. Valid'
  BY <1>1, <1>2, CallStays
<1>5. CASE Current.size > 0
  <2>1. /\ stage' = stage /\ phase' = "running" /\ todo' = 0 .. Current.size - 1
    BY <1>5 DEF CallParallelFor, FJ!Fork
  <2>2. Current' = Current /\ Loops' = Loops
    BY <1>1, <2>1, OwedStays, CallStays
  <2>3. StageInv'
    BY <1>1, <1>2, <2>1, StageStays
  <2>4. LoopInv'
    BY <1>1, <1>2, <1>3, <2>1, <2>2 DEF LoopInv
  <2> QED
    BY <1>1, <1>2, <1>4, <2>1, <2>3, <2>4 DEF EInv
<1>6. CASE ~(Current.size > 0)
  <2>1. stage' = stage + 1 /\ phase' = phase /\ todo' = todo
    BY <1>6 DEF CallParallelFor, executor
  <2>2. AllPaid
    BY <1>2, <1>6 DEF AllPaid, Indices
  <2>3. StageInv'
    BY <1>1, <1>2, <2>1, <2>2, LoopDone
  <2>4. LoopInv'
    BY <1>1, <1>2, <1>3, <2>1, FreshLoop
  <2> QED
    BY <1>1, <1>2, <1>4, <2>1, <2>3, <2>4 DEF EInv
<1> QED
  BY <1>5, <1>6

\* An index begins: what it has read decides what it will write.
LEMMA BeginStep ==
  ASSUME EInv, NEW i \in todo, Begin(i)
  PROVE  EInv'
<1>1. /\ job' = job /\ pc' = pc /\ stage' = stage /\ cursor' = cursor /\ memory' = memory
      /\ phase' = phase /\ todo' = todo /\ phase = "running" /\ i \notin DOMAIN busy
      /\ busy' = Over(Writing(i, Written(i)), busy)
  BY DEF Begin, executor
<1>2. pc = "stages"
  BY <1>1 DEF EInv
<1>3. /\ Called /\ job \in Jobs /\ Valid /\ StageInv /\ LoopInv /\ stage \in Nat /\ stage >= 1
  BY <1>2, InStages
<1>4. /\ stage <= Len(Loops) /\ Current.parallel /\ cursor = 0
      /\ todo \subseteq Indices /\ DOMAIN busy \subseteq todo
      /\ \A k \in DOMAIN busy : busy[k] = Owed(k)
      /\ \A k \in Indices \ todo : Matches(k)
  BY <1>1, <1>3 DEF LoopInv, Indices
<1>5. Written(i) = Owed(i)
  <2>1. AtStage /\ Ready /\ i \in Indices
    BY <1>2, <1>4, InStages
  <2> QED
    BY <2>1, WrittenIsOwed
<1>6. DOMAIN busy' = {i} \cup DOMAIN busy
  BY <1>1, OverIs, WritingIs
<1>7. ASSUME NEW k \in DOMAIN busy' PROVE busy'[k] = Owed(k)
  <2>1. CASE k = i
    BY <1>1, <1>5, <2>1 DEF Over, Writing
  <2>2. CASE k # i
    <3>1. k \in DOMAIN busy /\ k \notin DOMAIN Writing(i, Written(i))
      BY <1>6, <2>2, WritingIs
    <3>2. busy'[k] = busy[k]
      BY <1>1, <3>1 DEF Over
    <3> QED
      BY <1>4, <3>1, <3>2
  <2> QED
    BY <2>1, <2>2
<1>8. StageInv' /\ Valid'
  BY <1>1, <1>3, StageStays, CallStays
<1>9. Current' = Current /\ Loops' = Loops
  BY <1>1, OwedStays, CallStays
<1>10. \A k : Owed(k)' = Owed(k) /\ Matches(k)' = Matches(k)
  BY <1>1, PaidStays
<1>11. LoopInv'
  BY <1>1, <1>4, <1>6, <1>7, <1>9, <1>10 DEF LoopInv, Indices
<1> QED
  BY <1>1, <1>2, <1>3, <1>8, <1>11 DEF EInv

\* An index ends: it writes what it owes and disturbs nobody.
LEMMA EndStep ==
  ASSUME EInv, NEW i \in todo, End(i)
  PROVE  EInv'
<1>1. /\ job' = job /\ pc' = pc /\ stage' = stage /\ cursor' = cursor
      /\ phase' = phase /\ todo' = todo \ {i} /\ phase = "running" /\ i \in DOMAIN busy
      /\ memory' = Over(busy[i], memory)
      /\ busy' = [k \in DOMAIN busy \ {i} |-> busy[k]]
  BY DEF End, FJ!Finish, Restrict
<1>2. pc = "stages"
  BY <1>1 DEF EInv
<1>3. /\ Called /\ job \in Jobs /\ Valid /\ StageInv /\ LoopInv /\ stage \in Nat /\ stage >= 1
      /\ Addresses \subseteq DOMAIN memory
  BY <1>2, InStages
<1>4. /\ stage <= Len(Loops) /\ Current.parallel /\ cursor = 0
      /\ todo \subseteq Indices /\ DOMAIN busy \subseteq todo
      /\ \A k \in DOMAIN busy : busy[k] = Owed(k)
      /\ \A k \in Indices \ todo : Matches(k)
  BY <1>1, <1>3 DEF LoopInv, Indices
<1>5. AtStage /\ Ready /\ i \in Indices
  BY <1>2, <1>4, InStages
<1>6. IndexEnds(i)
  BY <1>1, <1>4 DEF IndexEnds
<1>7. Current' = Current /\ Loops' = Loops /\ Addresses' = Addresses /\ Valid' = Valid
      /\ \A k : Owed(k)' = Owed(k)
  BY <1>1, OwedStays, CallStays
<1>8. StageInv'
  <2>1. Ready'
    BY <1>3, <1>5, <1>6, ReadyStays
  <2>2. Addresses' \subseteq DOMAIN memory'
    BY <1>3, <1>5, <1>6, <1>7, MemoryAfter
  <2> QED
    BY <1>1, <1>3, <1>4, <1>7, <2>1, <2>2, LoopsAre DEF StageInv
<1>9. \A k \in Indices \ todo' : Matches(k)'
  BY <1>1, <1>3, <1>4, <1>5, <1>6, MatchesStays
<1>10. LoopInv'
  BY <1>1, <1>4, <1>7, <1>9 DEF LoopInv, Indices
<1> QED
  BY <1>1, <1>2, <1>3, <1>7, <1>8, <1>10 DEF EInv

\* parallel_for returns: every index has paid.
LEMMA ReturnStep ==
  ASSUME EInv, ReturnFromParallelFor
  PROVE  EInv'
<1>1. /\ job' = job /\ pc' = pc /\ stage' = stage + 1 /\ cursor' = cursor /\ memory' = memory
      /\ busy' = busy /\ phase = "running" /\ phase' = "idle" /\ todo = {} /\ todo' = todo
  BY DEF ReturnFromParallelFor, FJ!Return
<1>2. pc = "stages"
  BY <1>1 DEF EInv
<1>3. /\ Called /\ job \in Jobs /\ Valid /\ StageInv /\ LoopInv /\ stage \in Nat /\ stage >= 1
      /\ Addresses \subseteq DOMAIN memory
  BY <1>2, InStages
<1>4. /\ stage <= Len(Loops) /\ cursor = 0 /\ DOMAIN busy = {} /\ AllPaid
  BY <1>1, <1>3 DEF LoopInv, Indices, AllPaid
<1>5. AtStage /\ Ready
  BY <1>2, <1>4, InStages
<1>6. StageInv'
  BY <1>1, <1>3, <1>4, <1>5, LoopDone
<1>7. LoopInv' /\ Valid'
  BY <1>1, <1>3, <1>4, FreshLoop, CallStays
<1> QED
  BY <1>1, <1>2, <1>3, <1>4, <1>6, <1>7 DEF EInv

\* One index of a loop on the caller.
LEMMA SerialIndexStep ==
  ASSUME EInv, SerialIndex
  PROVE  EInv'
<1>1. /\ job' = job /\ pc' = pc /\ stage' = stage /\ cursor' = cursor + 1 /\ busy' = busy
      /\ phase' = phase /\ todo' = todo
      /\ pc = "stages" /\ stage <= Len(Loops) /\ ~Current.parallel /\ cursor < Current.size
      /\ memory' = Over(Written(cursor), memory)
  BY DEF SerialIndex, AtLoop, executor
<1>2. /\ Called /\ job \in Jobs /\ Valid /\ StageInv /\ LoopInv /\ stage \in Nat /\ stage >= 1
      /\ Addresses \subseteq DOMAIN memory /\ AtStage /\ Ready /\ Current.size \in Nat
      /\ phase \in {"idle", "running"} /\ (phase = "idle" => todo = {} /\ DOMAIN busy = {})
  BY <1>1, InStages
<1>3. phase = "idle"
  BY <1>1, <1>2 DEF LoopInv
<1>4. cursor \in 0 .. Current.size /\ \A i \in 0 .. cursor - 1 : Matches(i)
  BY <1>1, <1>2, <1>3 DEF LoopInv
<1>5. cursor \in Indices
  BY <1>1, <1>2, <1>4 DEF Indices
<1>6. IndexEnds(cursor)
  BY <1>1, <1>2, <1>5, WrittenIsOwed DEF IndexEnds
<1>7. Current' = Current /\ Loops' = Loops /\ Addresses' = Addresses /\ Valid' = Valid
  BY <1>1, OwedStays, CallStays
<1>8. StageInv'
  <2>1. Ready'
    BY <1>2, <1>5, <1>6, ReadyStays
  <2>2. Addresses' \subseteq DOMAIN memory'
    BY <1>2, <1>5, <1>6, <1>7, MemoryAfter
  <2> QED
    BY <1>1, <1>2, <1>7, <2>1, <2>2, LoopsAre DEF StageInv
<1>9. \A i \in 0 .. cursor : Matches(i)'
  <2>1. ASSUME NEW i \in 0 .. cursor PROVE Matches(i)'
    <3>1. i \in Indices /\ (i # cursor => i \in 0 .. cursor - 1)
      BY <1>2, <1>4, <1>5 DEF Indices
    <3> QED
      BY <1>2, <1>4, <1>5, <1>6, <3>1, MatchesStays
  <2> QED
    BY <2>1
<1>10. cursor' \in 0 .. Current.size /\ cursor' - 1 = cursor
  BY <1>1, <1>2, <1>4
<1>11. LoopInv'
  BY <1>1, <1>3, <1>7, <1>9, <1>10 DEF LoopInv
<1> QED
  BY <1>1, <1>2, <1>3, <1>7, <1>8, <1>11 DEF EInv

\* A loop on the caller is over.
LEMMA SerialEndStep ==
  ASSUME EInv, SerialEnd
  PROVE  EInv'
<1>1. /\ job' = job /\ pc' = pc /\ stage' = stage + 1 /\ cursor' = 0 /\ busy' = busy
      /\ phase' = phase /\ todo' = todo /\ memory' = memory
      /\ pc = "stages" /\ stage <= Len(Loops) /\ ~Current.parallel /\ cursor = Current.size
  BY DEF SerialEnd, AtLoop, executor
<1>2. /\ Called /\ job \in Jobs /\ Valid /\ StageInv /\ LoopInv /\ stage \in Nat /\ stage >= 1
      /\ Addresses \subseteq DOMAIN memory /\ AtStage /\ Ready
      /\ phase \in {"idle", "running"} /\ (phase = "idle" => todo = {} /\ DOMAIN busy = {})
  BY <1>1, InStages
<1>3. phase = "idle"
  BY <1>1, <1>2 DEF LoopInv
<1>4. AllPaid
  BY <1>1, <1>2, <1>3 DEF LoopInv, AllPaid, Indices
<1>5. StageInv'
  BY <1>1, <1>2, <1>4, LoopDone
<1>6. LoopInv' /\ Valid'
  BY <1>1, <1>2, <1>3, FreshLoop, CallStays
<1> QED
  BY <1>1, <1>2, <1>3, <1>5, <1>6 DEF EInv

\* The call returns.
LEMMA ReturnResultStep ==
  ASSUME EInv, ReturnResult
  PROVE  EInv'
<1>1. /\ job' = job /\ stage' = stage /\ cursor' = cursor /\ busy' = busy /\ memory' = memory
      /\ phase' = phase /\ todo' = todo /\ pc = "stages" /\ pc' = "returned"
      /\ stage > Len(Loops)
  BY DEF ReturnResult, executor
<1>2. /\ job \in Jobs /\ Valid /\ StageInv /\ LoopInv /\ stage \in Nat
      /\ Len(Loops) \in {3, 5}
      /\ phase \in {"idle", "running"} /\ (phase = "idle" => todo = {} /\ DOMAIN busy = {})
  BY <1>1, InStages
<1>3. phase = "idle"
  BY <1>1, <1>2 DEF LoopInv
<1>4. AllAnswered' /\ Valid'
  BY <1>1, <1>2, FactsStay, CallStays DEF StageInv
<1> QED
  BY <1>1, <1>2, <1>3, <1>4 DEF EInv

\* Nothing happens.
LEMMA StutterStep ==
  ASSUME EInv, UNCHANGED vars
  PROVE  EInv'
<1>1. /\ job' = job /\ pc' = pc /\ stage' = stage /\ cursor' = cursor /\ memory' = memory
      /\ busy' = busy /\ phase' = phase /\ todo' = todo
  BY DEF vars
<1>2. /\ Valid' = Valid /\ Loops' = Loops /\ Current' = Current
      /\ AllAnswered' = AllAnswered /\ (StageInv => StageInv')
  BY <1>1, CallStays, OwedStays, FactsStay, StageStays
<1>3. \A k : Owed(k)' = Owed(k) /\ Matches(k)' = Matches(k)
  BY <1>1, PaidStays
<1>4. LoopInv => LoopInv'
  BY <1>1, <1>2, <1>3 DEF LoopInv
<1> QED
  BY <1>1, <1>2, <1>4 DEF EInv

\* The invariant is inductive.
LEMMA NextSound ==
  ASSUME EInv, [Next]_vars
  PROVE  EInv'
<1>1. CASE Reject
  BY <1>1, RejectStep
<1>2. CASE Enter
  BY <1>2, EnterStep
<1>3. CASE CallParallelFor
  BY <1>3, CallStep
<1>4. CASE \E i \in todo : Begin(i)
  BY <1>4, BeginStep
<1>5. CASE \E i \in todo : End(i)
  BY <1>5, EndStep
<1>6. CASE ReturnFromParallelFor
  BY <1>6, ReturnStep
<1>7. CASE SerialIndex
  BY <1>7, SerialIndexStep
<1>8. CASE SerialEnd
  BY <1>8, SerialEndStep
<1>9. CASE ReturnResult
  BY <1>9, ReturnResultStep
<1>10. CASE Ended \/ UNCHANGED vars
  BY <1>10, StutterStep DEF Ended
<1> QED
  BY <1>1, <1>2, <1>3, <1>4, <1>5, <1>6, <1>7, <1>8, <1>9, <1>10 DEF Next

\* So it holds in every reachable state.
LEMMA EInvAlways == Spec => []EInv
<1>1. Init => EInv
  BY InitSound
<1>2. EInv /\ [Next]_vars => EInv'
  BY NextSound
<1> QED
  BY <1>1, <1>2, PTL DEF Spec

-----------------------------------------------------------------------------
(* The theorems.                                                           *)

\* In every reachable state, what an index in flight will write is what it would compute
\* from the memory as it is now: the bodies of the loops of evaluate_population_hpc read
\* nothing that another index of the same loop writes, whatever the team and the interleaving.
THEOREM ReadsStayStable == Spec => []ReadsAreStable
<1>1. EInv => ReadsAreStable
  <2> SUFFICES ASSUME EInv, NEW i \in DOMAIN busy PROVE busy[i] = Written(i)
    BY DEF ReadsAreStable
  <2>1. phase = "running" /\ pc = "stages"
    BY DEF EInv
  <2>2. /\ stage <= Len(Loops) /\ i \in Indices /\ busy[i] = Owed(i)
    BY <2>1, InStages DEF LoopInv, Indices
  <2>3. AtStage /\ Ready
    BY <2>1, <2>2, InStages
  <2> QED
    BY <2>2, <2>3, WrittenIsOwed
<1> QED
  BY <1>1, EInvAlways, PTL

\* In every reachable state, no two indices in flight write one cell and none writes outside
\* the arrays: row * n + t, state * n + order[position] and task \div (n - 1) give each cell
\* of a loop one owner, for any batch, any number of turbines and any number of directions.
THEOREM WritesStayApart == Spec => []WritesApart
<1>1. EInv => WritesApart
  <2> SUFFICES ASSUME EInv PROVE WritesApart
    OBVIOUS
  <2>1. ASSUME NEW i \in DOMAIN busy
        PROVE  /\ AtStage /\ i \in Indices /\ busy[i] = Owed(i)
               /\ Addresses \subseteq DOMAIN memory
    <3>1. phase = "running" /\ pc = "stages"
      BY DEF EInv
    <3>2. /\ stage <= Len(Loops) /\ i \in Indices /\ busy[i] = Owed(i)
      BY <3>1, InStages DEF LoopInv, Indices
    <3> QED
      BY <3>1, <3>2, InStages
  <2>2. ASSUME NEW i \in DOMAIN busy PROVE DOMAIN busy[i] \subseteq DOMAIN memory
    BY <2>1, OwedWithin
  <2>3. ASSUME NEW i \in DOMAIN busy, NEW k \in DOMAIN busy, i # k
        PROVE  DOMAIN busy[i] \cap DOMAIN busy[k] = {}
    BY <2>1, <2>3, OwedApart
  <2> QED
    BY <2>2, <2>3 DEF WritesApart
<1> QED
  BY <1>1, EInvAlways, PTL

\* A call that returns has told its caller of every row what the arguments decide, in
\* AnswerTo, where neither the schedule nor the number of threads nor the memory appears; and
\* it returns only if its layouts are valid, and is refused only if they are not.
THEOREM AnswersAreDetermined ==
  Spec => [](/\ pc = "returned" => Valid /\ \A row \in Rows : Result(row) = AnswerTo(row)
             /\ pc = "invalid_argument" => ~Valid)
<1>1. EInv => /\ pc = "returned" => Valid /\ \A row \in Rows : Result(row) = AnswerTo(row)
              /\ pc = "invalid_argument" => ~Valid
  BY DEF EInv, AllAnswered
<1> QED
  BY <1>1, EInvAlways, PTL

-----------------------------------------------------------------------------
(* Induction, for a set of numbers rather than for a predicate.            *)

\* A set with 0, and with the successor of each number in it, has every number.
LEMMA Reaches ==
  ASSUME NEW S, 0 \in S, \A k \in Nat : k \in S => k + 1 \in S, NEW m \in Nat
  PROVE  m \in S
<1> SUFFICES ASSUME m \notin S PROVE FALSE
  OBVIOUS
<1> DEFINE T == {k \in 0 .. m : k \in S}
           next == [k \in T |-> k + 1]
<1>1. next \in [T -> T]
  BY SMT
<1>2. next \in Injection(T, T)
  BY <1>1 DEF Injection, IsInjective
<1>3. IsFiniteSet(T)
  <2>1. IsFiniteSet(0 .. m) /\ T \in SUBSET (0 .. m)
    BY FS_Interval
  <2> QED
    BY <2>1, FS_Subset
<1>4. next \in Surjection(T, T)
  <2> HIDE DEF T, next
  <2> QED
    BY <1>2, <1>3, FS_Injection
<1>5. \E k \in T : next[k] = 0
  <2>1. 0 \in T
    OBVIOUS
  <2> HIDE DEF T, next
  <2> QED
    BY <1>4, <2>1 DEF Surjection
<1> QED
  BY <1>5

\* The same up to a bound.
LEMMA ReachesBelow ==
  ASSUME NEW m \in Nat, NEW S, 0 \in S, \A k \in 0 .. m - 1 : k \in S => k + 1 \in S,
         NEW j \in 0 .. m
  PROVE  j \in S
<1> DEFINE T == {k \in Nat : k <= m => k \in S}
<1>1. 0 \in T
  OBVIOUS
<1>2. ASSUME NEW k \in Nat, k \in T PROVE k + 1 \in T
  BY <1>2
<1>3. j \in T
  <2> HIDE DEF T
  <2> QED
    BY <1>1, <1>2, Reaches
<1> QED
  BY <1>3

-----------------------------------------------------------------------------
(* Folds.                                                                  *)

\* Numbers from 1 to m have a greatest.
LEMMA MaxIs ==
  ASSUME NEW m \in Nat, NEW s \in SUBSET (1 .. m), s # {}
  PROVE  Max(s) \in s /\ \A x \in s : x <= Max(s)
<1> DEFINE S == {k \in Nat : \A r \in SUBSET (1 .. k) : r # {} =>
                                \E y \in r : \A x \in r : y >= x}
<1>1. 0 \in S
  <2>1. \A r \in SUBSET (1 .. 0) : r = {}
    OBVIOUS
  <2> QED
    BY <2>1
<1>2. ASSUME NEW k \in Nat, k \in S PROVE k + 1 \in S
  <2> SUFFICES ASSUME NEW r \in SUBSET (1 .. k + 1), r # {}
               PROVE  \E y \in r : \A x \in r : y >= x
    OBVIOUS
  <2>1. CASE k + 1 \in r
    <3>1. \A x \in r : k + 1 >= x
      OBVIOUS
    <3> QED
      BY <2>1, <3>1
  <2>2. CASE k + 1 \notin r
    <3>1. r \in SUBSET (1 .. k)
      BY <2>2
    <3> QED
      BY <1>2, <3>1
  <2> QED
    BY <2>1, <2>2
<1>3. m \in S
  <2> HIDE DEF S
  <2> QED
    BY <1>1, <1>2, Reaches
<1>4. \E y \in s : \A x \in s : y >= x
  BY <1>3
<1>5. Max(s) \in s /\ \A x \in s : Max(s) >= x
  BY <1>4 DEF Max
<1> QED
  BY <1>5

\* The greatest of the first numbers.
LEMMA MaxOfFirst ==
  ASSUME NEW k \in Nat \ {0}
  PROVE  Max(1 .. k) = k /\ (1 .. k) \ {Max(1 .. k)} = 1 .. (k - 1) /\ 1 .. k # {}
<1>1. k \in 1 .. k
  OBVIOUS
<1>2. Max(1 .. k) \in 1 .. k /\ \A x \in 1 .. k : x <= Max(1 .. k)
  BY <1>1, MaxIs
<1>3. Max(1 .. k) = k
  BY <1>1, <1>2
<1>4. (1 .. k) \ {k} = 1 .. (k - 1)
  OBVIOUS
<1> QED
  BY <1>1, <1>3, <1>4

\* The function over sets that a fold of the library chooses.
Folds(f, A, base, m, G) ==
  /\ f \in [SUBSET (1 .. m) -> A]
  /\ \A s \in SUBSET (1 .. m) :
       f[s] = IF s = {} THEN base ELSE G[<<f[s \ {Max(s)}], Max(s)>>]

HasFold(A, base, m, G) == \E f : Folds(f, A, base, m, G)

\* There is one.
LEMMA FoldExists ==
  ASSUME NEW A, NEW base \in A, NEW m \in Nat, NEW G \in [A \X (1 .. m) -> A]
  PROVE  HasFold(A, base, m, G)
<1> DEFINE S == {k \in Nat : HasFold(A, base, k, G)}
<1>1. 0 \in S
  <2> DEFINE f == [s \in SUBSET (1 .. 0) |-> base]
  <2>1. f \in [SUBSET (1 .. 0) -> A]
    OBVIOUS
  <2>2. \A s \in SUBSET (1 .. 0) : s = {}
    OBVIOUS
  <2>3. Folds(f, A, base, 0, G)
    BY <2>1, <2>2 DEF Folds
  <2> QED
    BY <2>3 DEF HasFold
<1>2. ASSUME NEW k \in 0 .. m - 1, k \in S PROVE k + 1 \in S
  <2>1. PICK f : Folds(f, A, base, k, G)
    BY <1>2 DEF HasFold
  <2>. /\ f \in [SUBSET (1 .. k) -> A]
       /\ \A s \in SUBSET (1 .. k) :
            f[s] = IF s = {} THEN base ELSE G[<<f[s \ {Max(s)}], Max(s)>>]
    BY <2>1 DEF Folds
  <2> DEFINE longer == [s \in SUBSET (1 .. k + 1) |->
                          IF k + 1 \in s THEN G[<<f[s \ {k + 1}], k + 1>>] ELSE f[s]]
  <2>2. ASSUME NEW s \in SUBSET (1 .. k + 1) PROVE s \ {k + 1} \in SUBSET (1 .. k)
    OBVIOUS
  <2>3. ASSUME NEW s \in SUBSET (1 .. k + 1), k + 1 \notin s PROVE s \in SUBSET (1 .. k)
    BY <2>3
  <2>4. longer \in [SUBSET (1 .. k + 1) -> A]
    <3> SUFFICES ASSUME NEW s \in SUBSET (1 .. k + 1)
                 PROVE  (IF k + 1 \in s THEN G[<<f[s \ {k + 1}], k + 1>>] ELSE f[s]) \in A
      OBVIOUS
    <3>1. CASE k + 1 \in s
      <4>1. f[s \ {k + 1}] \in A /\ k + 1 \in 1 .. m
        BY <2>2
      <4> QED
        BY <3>1, <4>1
    <3>2. CASE k + 1 \notin s
      BY <2>3, <3>2
    <3> QED
      BY <3>1, <3>2
  <2>5. ASSUME NEW s \in SUBSET (1 .. k + 1)
        PROVE  longer[s] = IF s = {} THEN base ELSE G[<<longer[s \ {Max(s)}], Max(s)>>]
    <3>1. CASE k + 1 \in s
      <4>0. k + 1 \in Nat /\ s # {}
        BY <3>1
      <4>1. Max(s) \in s /\ \A x \in s : x <= Max(s)
        BY <4>0, MaxIs
      <4>2. Max(s) = k + 1
        <5>1. Max(s) \in 1 .. k + 1 /\ k + 1 <= Max(s)
          BY <3>1, <4>1
        <5> QED
          BY <5>1
      <4>3. s \ {k + 1} \in SUBSET (1 .. k + 1) /\ k + 1 \notin s \ {k + 1}
        OBVIOUS
      <4>4. longer[s \ {k + 1}] = f[s \ {k + 1}]
        BY <4>3
      <4> QED
        BY <3>1, <4>2, <4>4
    <3>2. CASE k + 1 \notin s
      <4>1. s \in SUBSET (1 .. k)
        BY <2>3, <3>2
      <4>2. longer[s] = f[s]
        BY <3>2
      <4>3. s \ {Max(s)} \in SUBSET (1 .. k + 1) /\ k + 1 \notin s \ {Max(s)}
        BY <3>2
      <4>4. longer[s \ {Max(s)}] = f[s \ {Max(s)}]
        BY <4>3
      <4> HIDE DEF longer
      <4> QED
        BY <2>1, <4>1, <4>2, <4>4
    <3> QED
      BY <3>1, <3>2
  <2> HIDE DEF longer
  <2>6. Folds(longer, A, base, k + 1, G)
    BY <2>4, <2>5 DEF Folds
  <2>7. k + 1 \in Nat
    OBVIOUS
  <2> QED
    BY <2>6, <2>7 DEF HasFold
<1>3. m \in S
  <2> HIDE DEF S
  <2>1. m \in 0 .. m
    OBVIOUS
  <2> QED
    BY <1>1, <1>2, <2>1, ReachesBelow
<1> QED
  BY <1>3

\* Its values on the first numbers, one after the other.
Steps(h, A, base, m, G) ==
  /\ h \in [0 .. m -> A]
  /\ h[0] = base
  /\ \A k \in 1 .. m : h[k] = G[<<h[k - 1], k>>]

HasSteps(g, A, base, m, G) == \E h : Steps(h, A, base, m, G) /\ h[m] = g[1 .. m]

\* They follow from what holds from one to the next.
LEMMA FoldSteps ==
  ASSUME NEW A, NEW base \in A, NEW m \in Nat, NEW G \in [A \X (1 .. m) -> A], NEW g,
         g[{}] = base,
         \A k \in 1 .. m : g[1 .. (k - 1)] \in A => g[1 .. k] = G[<<g[1 .. (k - 1)], k>>]
  PROVE  HasSteps(g, A, base, m, G)
<1> DEFINE S == {k \in Nat : g[1 .. k] \in A}
<1>1. 1 .. 0 = {}
  OBVIOUS
<1>2. 0 \in S
  BY <1>1
<1>3. ASSUME NEW k \in 0 .. m - 1, k \in S PROVE k + 1 \in S
  <2>1. k + 1 \in 1 .. m /\ (k + 1) - 1 = k /\ k + 1 \in Nat
    OBVIOUS
  <2>2. g[1 .. k + 1] = G[<<g[1 .. k], k + 1>>]
    BY <1>3, <2>1
  <2> QED
    BY <1>3, <2>1, <2>2
<1>4. \A k \in 0 .. m : g[1 .. k] \in A
  <2> SUFFICES ASSUME NEW k \in 0 .. m PROVE k \in S
    OBVIOUS
  <2> HIDE DEF S
  <2> QED
    BY <1>2, <1>3, ReachesBelow
<1> DEFINE h == [k \in 0 .. m |-> g[1 .. k]]
<1>5. h \in [0 .. m -> A]
  BY <1>4
<1>6. h[0] = base /\ h[m] = g[1 .. m]
  BY <1>1
<1>7. \A k \in 1 .. m : h[k] = G[<<h[k - 1], k>>]
  BY <1>4
<1> HIDE DEF h
<1> QED
  BY <1>5, <1>6, <1>7 DEF HasSteps, Steps

-----------------------------------------------------------------------------
(* What the folds of WakeModel compute, one element after the other.       *)

\* The sum of squares under the root.
LEMMA SquaresAreNumbers ==
  ASSUME NEW m \in Nat, NEW s \in [1 .. m -> Nat]
  PROVE  SumOfSquares(s) \in Nat
<1> DEFINE G == [x \in Nat \X (1 .. m) |-> x[1] + s[x[2]] * s[x[2]]]
           Sums(f) == f = [r \in SUBSET (1 .. m) |->
                             IF r = {} THEN 0
                             ELSE f[r \ {Max(r)}] + s[Max(r)] * s[Max(r)]]
           g == CHOOSE f : Sums(f)
<1>1. G \in [Nat \X (1 .. m) -> Nat]
  <2>1. ASSUME NEW x \in Nat \X (1 .. m) PROVE x[1] + s[x[2]] * s[x[2]] \in Nat
    <3>1. x[1] \in Nat /\ s[x[2]] \in Nat
      OBVIOUS
    <3>2. \A v \in Nat : v * v \in Nat
      OBVIOUS
    <3>3. s[x[2]] * s[x[2]] \in Nat
      BY <3>1, <3>2
    <3> QED
      BY <3>1, <3>3
  <2> QED
    BY <2>1
<1>2. \A u \in Nat, k \in 1 .. m : G[<<u, k>>] = u + s[k] * s[k]
  OBVIOUS
<1>3. HasFold(Nat, 0, m, G)
  <2> HIDE DEF G
  <2>1. 0 \in Nat
    OBVIOUS
  <2> QED
    BY <1>1, <2>1, FoldExists
<1>4. PICK f : Folds(f, Nat, 0, m, G)
  BY <1>3 DEF HasFold
<1> HIDE DEF G
<1>5. Sums(f)
  <2>1. ASSUME NEW r \in SUBSET (1 .. m), r # {}
        PROVE  f[r] = f[r \ {Max(r)}] + s[Max(r)] * s[Max(r)]
    <3>1. Max(r) \in 1 .. m
      BY <2>1, MaxIs
    <3>2. f[r \ {Max(r)}] \in Nat
      BY <1>4 DEF Folds
    <3>3. f[r] = G[<<f[r \ {Max(r)}], Max(r)>>]
      BY <1>4, <2>1 DEF Folds
    <3> QED
      BY <1>2, <3>1, <3>2, <3>3
  <2>2. f \in [SUBSET (1 .. m) -> Nat] /\ \A r \in SUBSET (1 .. m) : r = {} => f[r] = 0
    BY <1>4 DEF Folds
  <2> QED
    BY <2>1, <2>2
<1>6. Sums(g)
  <2> HIDE DEF Sums
  <2> QED
    BY <1>5
<1> HIDE DEF g
<1>7. ASSUME NEW k \in 1 .. m PROVE g[1 .. k] = g[1 .. (k - 1)] + s[k] * s[k]
  <2>1. 1 .. k \in SUBSET (1 .. m) /\ k \in Nat \ {0}
    OBVIOUS
  <2> QED
    BY <1>6, <2>1, MaxOfFirst
<1>8. g[{}] = 0
  BY <1>6
<1>9. g[1 .. m] \in Nat
  <2>1. \A k \in 1 .. m : g[1 .. (k - 1)] \in Nat => g[1 .. k] = G[<<g[1 .. (k - 1)], k>>]
    BY <1>2, <1>7
  <2>2. 0 \in Nat
    OBVIOUS
  <2>3. HasSteps(g, Nat, 0, m, G)
    BY <1>1, <1>8, <2>1, <2>2, FoldSteps
  <2> QED
    BY <2>3 DEF HasSteps, Steps
<1>10. DOMAIN s = 1 .. m
  OBVIOUS
<1> QED
  BY <1>9, <1>10 DEF g, SumOfSquares, FoldLeft, MapThenFoldSet

\* The integer root exists.
LEMMA RootIs ==
  ASSUME NEW sum \in Nat
  PROVE  \E r \in 0 .. sum : r * r <= sum /\ (r + 1) * (r + 1) > sum
<1> DEFINE S == {v \in Nat : \E r \in 0 .. v : r * r <= v /\ (r + 1) * (r + 1) > v}
<1>1. 0 \in S
  <2>1. 0 \in 0 .. 0 /\ 0 * 0 <= 0 /\ (0 + 1) * (0 + 1) > 0
    OBVIOUS
  <2> QED
    BY <2>1
<1>2. ASSUME NEW v \in Nat, v \in S PROVE v + 1 \in S
  <2>1. PICK r \in 0 .. v : r * r <= v /\ (r + 1) * (r + 1) > v
    BY <1>2
  <2>2. PICK q \in Nat : q = (r + 1) * (r + 1)
    OBVIOUS
  <2>3. CASE q > v + 1
    <3>1. r \in 0 .. v + 1 /\ r * r <= v + 1 /\ (r + 1) * (r + 1) > v + 1
      <4>1. r * r \in Int
        OBVIOUS
      <4> QED
        BY <2>1, <2>2, <2>3, <4>1
    <3> QED
      BY <3>1
  <2>4. CASE q <= v + 1
    <3>1. q = v + 1
      BY <2>1, <2>2, <2>4
    <3>2. (r + 1 + 1) * (r + 1 + 1) = q + 2 * r + 3
      BY <2>2
    <3>3. r + 1 \in 0 .. v + 1
      OBVIOUS
    <3>4. (r + 1) * (r + 1) <= v + 1 /\ (r + 1 + 1) * (r + 1 + 1) > v + 1
      BY <2>2, <3>1, <3>2
    <3>5. \E p \in 0 .. v + 1 : p * p <= v + 1 /\ (p + 1) * (p + 1) > v + 1
      BY <3>3, <3>4, Zenon
    <3> QED
      BY <3>5
  <2> QED
    BY <2>2, <2>3, <2>4
<1> HIDE DEF S
<1>3. sum \in S
  BY <1>1, <1>2, Reaches
<1> QED
  BY <1>3 DEF S

\* The root of a sum of squares is a number.
LEMMA RootsAreNumbers ==
  ASSUME NEW m \in Nat, NEW losses \in [1 .. m -> Nat]
  PROVE  RootOfSquares(losses) \in Nat
<1>1. PICK sum \in Nat : sum = SumOfSquares(losses)
  BY SquaresAreNumbers
<1>2. RootOfSquares(losses) = CHOOSE r \in 0 .. sum : r * r <= sum /\ (r + 1) * (r + 1) > sum
  BY <1>1 DEF RootOfSquares
<1>3. \E r \in 0 .. sum : r * r <= sum /\ (r + 1) * (r + 1) > sum
  BY RootIs
<1>4. RootOfSquares(losses) \in 0 .. sum
  BY <1>2, <1>3, Zenon
<1> QED
  BY <1>4

\* The power curve has a number everywhere.
LEMMA PowersAreNumbers ==
  ASSUME NEW v \in Int
  PROVE  TurbinePower(v) \in Int
BY DEF TurbinePower

\* The sum of the addends of a power.
LEMMA PowerSumsAreNumbers ==
  ASSUME NEW m \in Nat, NEW power, DOMAIN power = 1 .. m,
         \A k \in 1 .. m : AddendValue(power[k]) \in Int
  PROVE  PowerValue(power) \in Int
<1> DEFINE G == [x \in Int \X (1 .. m) |-> x[1] + AddendValue(power[x[2]])]
           Sums(f) == f = [r \in SUBSET (1 .. m) |->
                             IF r = {} THEN 0
                             ELSE f[r \ {Max(r)}] + AddendValue(power[Max(r)])]
           g == CHOOSE f : Sums(f)
<1>1. G \in [Int \X (1 .. m) -> Int]
  OBVIOUS
<1>2. \A u \in Int, k \in 1 .. m : G[<<u, k>>] = u + AddendValue(power[k])
  OBVIOUS
<1>3. HasFold(Int, 0, m, G)
  <2> HIDE DEF G
  <2>1. 0 \in Int
    OBVIOUS
  <2> QED
    BY <1>1, <2>1, FoldExists
<1>4. PICK f : Folds(f, Int, 0, m, G)
  BY <1>3 DEF HasFold
<1> HIDE DEF G
<1>5. Sums(f)
  <2>1. ASSUME NEW r \in SUBSET (1 .. m), r # {}
        PROVE  f[r] = f[r \ {Max(r)}] + AddendValue(power[Max(r)])
    <3>1. Max(r) \in 1 .. m
      BY <2>1, MaxIs
    <3>2. f[r \ {Max(r)}] \in Int
      BY <1>4 DEF Folds
    <3>3. f[r] = G[<<f[r \ {Max(r)}], Max(r)>>]
      BY <1>4, <2>1 DEF Folds
    <3> QED
      BY <1>2, <3>1, <3>2, <3>3
  <2>2. f \in [SUBSET (1 .. m) -> Int] /\ \A r \in SUBSET (1 .. m) : r = {} => f[r] = 0
    BY <1>4 DEF Folds
  <2> QED
    BY <2>1, <2>2
<1>6. Sums(g)
  <2> HIDE DEF Sums
  <2> QED
    BY <1>5
<1> HIDE DEF g
<1>7. ASSUME NEW k \in 1 .. m PROVE g[1 .. k] = g[1 .. (k - 1)] + AddendValue(power[k])
  <2>1. 1 .. k \in SUBSET (1 .. m) /\ k \in Nat \ {0}
    OBVIOUS
  <2> QED
    BY <1>6, <2>1, MaxOfFirst
<1>8. g[{}] = 0
  BY <1>6
<1>9. g[1 .. m] \in Int
  <2>1. \A k \in 1 .. m : g[1 .. (k - 1)] \in Int => g[1 .. k] = G[<<g[1 .. (k - 1)], k>>]
    BY <1>2, <1>7
  <2>2. 0 \in Int
    OBVIOUS
  <2>3. HasSteps(g, Int, 0, m, G)
    BY <1>1, <1>8, <2>1, <2>2, FoldSteps
  <2> QED
    BY <2>3 DEF HasSteps, Steps
<1> QED
  BY <1>9 DEF g, PowerValue, FoldLeft, MapThenFoldSet

\* The losses that are not zero, one after the other.
Keeps(h, m, s) ==
  /\ h \in [0 .. m -> Seq(Nat)]
  /\ h[0] = <<>> /\ h[m] = NonZero(s)
  /\ \A k \in 1 .. m : h[k] = IF s[k] = 0 THEN h[k - 1] ELSE Append(h[k - 1], s[k])

\* NonZero goes through a sequence element by element.
LEMMA NonZeroSteps ==
  ASSUME NEW m \in Nat, NEW s \in [1 .. m -> Nat]
  PROVE  \E h : Keeps(h, m, s)
<1> DEFINE G == [x \in Seq(Nat) \X (1 .. m) |->
                   IF s[x[2]] = 0 THEN x[1] ELSE Append(x[1], s[x[2]])]
           Kept(f) == f = [r \in SUBSET (1 .. m) |->
                             IF r = {} THEN <<>>
                             ELSE IF s[Max(r)] = 0 THEN f[r \ {Max(r)}]
                                  ELSE Append(f[r \ {Max(r)}], s[Max(r)])]
           g == CHOOSE f : Kept(f)
<1>1. G \in [Seq(Nat) \X (1 .. m) -> Seq(Nat)]
  OBVIOUS
<1>2. \A u \in Seq(Nat), k \in 1 .. m :
        G[<<u, k>>] = IF s[k] = 0 THEN u ELSE Append(u, s[k])
  OBVIOUS
<1>3. HasFold(Seq(Nat), <<>>, m, G)
  <2> HIDE DEF G
  <2>1. <<>> \in Seq(Nat)
    OBVIOUS
  <2> QED
    BY <1>1, <2>1, FoldExists
<1>4. PICK f : Folds(f, Seq(Nat), <<>>, m, G)
  BY <1>3 DEF HasFold
<1> HIDE DEF G
<1>5. Kept(f)
  <2>1. ASSUME NEW r \in SUBSET (1 .. m), r # {}
        PROVE  f[r] = IF s[Max(r)] = 0 THEN f[r \ {Max(r)}]
                      ELSE Append(f[r \ {Max(r)}], s[Max(r)])
    <3>1. Max(r) \in 1 .. m
      BY <2>1, MaxIs
    <3>2. f[r \ {Max(r)}] \in Seq(Nat)
      BY <1>4 DEF Folds
    <3>3. f[r] = G[<<f[r \ {Max(r)}], Max(r)>>]
      BY <1>4, <2>1 DEF Folds
    <3> QED
      BY <1>2, <3>1, <3>2, <3>3
  <2>2. f \in [SUBSET (1 .. m) -> Seq(Nat)] /\ \A r \in SUBSET (1 .. m) : r = {} => f[r] = <<>>
    BY <1>4 DEF Folds
  <2> QED
    BY <2>1, <2>2
<1>6. Kept(g)
  <2> HIDE DEF Kept
  <2> QED
    BY <1>5
<1> HIDE DEF g
<1>7. ASSUME NEW k \in 1 .. m
      PROVE  g[1 .. k] = IF s[k] = 0 THEN g[1 .. (k - 1)] ELSE Append(g[1 .. (k - 1)], s[k])
  <2>1. 1 .. k \in SUBSET (1 .. m) /\ k \in Nat \ {0}
    OBVIOUS
  <2> QED
    BY <1>6, <2>1, MaxOfFirst
<1>8. g[{}] = <<>>
  BY <1>6
<1>9. HasSteps(g, Seq(Nat), <<>>, m, G)
  <2>1. \A k \in 1 .. m : g[1 .. (k - 1)] \in Seq(Nat) => g[1 .. k] = G[<<g[1 .. (k - 1)], k>>]
    BY <1>2, <1>7
  <2>2. <<>> \in Seq(Nat)
    OBVIOUS
  <2> QED
    BY <1>1, <1>8, <2>1, <2>2, FoldSteps
<1>10. g[1 .. m] = NonZero(s)
  <2>1. DOMAIN s = 1 .. m
    OBVIOUS
  <2> QED
    BY <2>1 DEF g, NonZero, FoldLeft, MapThenFoldSet
<1>11. PICK h : Steps(h, Seq(Nat), <<>>, m, G) /\ h[m] = g[1 .. m]
  BY <1>9 DEF HasSteps
<1>12. /\ h \in [0 .. m -> Seq(Nat)] /\ h[0] = <<>>
       /\ \A k \in 1 .. m : h[k] = G[<<h[k - 1], k>>]
  BY <1>11 DEF Steps
<1>13. \A k \in 1 .. m : h[k] = IF s[k] = 0 THEN h[k - 1] ELSE Append(h[k - 1], s[k])
  <2> SUFFICES ASSUME NEW k \in 1 .. m
               PROVE  h[k] = IF s[k] = 0 THEN h[k - 1] ELSE Append(h[k - 1], s[k])
    OBVIOUS
  <2>1. h[k - 1] \in Seq(Nat)
    BY <1>12
  <2> QED
    BY <1>2, <1>12, <2>1
<1> QED
  BY <1>10, <1>11, <1>12, <1>13 DEF Keeps

\* What it keeps are numbers.
LEMMA NonZeroNumbers ==
  ASSUME NEW m \in Nat, NEW s \in [1 .. m -> Nat]
  PROVE  NonZero(s) \in Seq(Nat)
<1>1. PICK h : Keeps(h, m, s)
  BY NonZeroSteps
<1> QED
  BY <1>1 DEF Keeps

\* Zeros at the end leave no trace.
LEMMA NonZeroPrefix ==
  ASSUME NEW m \in Nat, NEW s \in [1 .. m -> Nat],
         NEW c \in 0 .. m, NEW r \in [1 .. c -> Nat],
         \A k \in 1 .. c : r[k] = s[k],
         \A k \in (c + 1) .. m : s[k] = 0
  PROVE  NonZero(s) = NonZero(r)
<1>1. PICK h : Keeps(h, m, s)
  BY NonZeroSteps
<1>2. c \in Nat
  OBVIOUS
<1>3. PICK g : Keeps(g, c, r)
  BY <1>2, NonZeroSteps
<1> DEFINE S == {k \in Nat : k <= m => h[k] = IF k <= c THEN g[k] ELSE g[c]}
<1>4. 0 \in S
  BY <1>1, <1>3 DEF Keeps
<1>5. ASSUME NEW k \in 0 .. m - 1, k \in S PROVE k + 1 \in S
  <2>1. /\ k + 1 \in 1 .. m /\ (k + 1) - 1 = k /\ k + 1 \in Nat
        /\ h[k] = IF k <= c THEN g[k] ELSE g[c]
    BY <1>5
  <2>2. h[k + 1] = IF s[k + 1] = 0 THEN h[k] ELSE Append(h[k], s[k + 1])
    BY <1>1, <2>1 DEF Keeps
  <2>3. CASE k + 1 <= c
    <3>1. k + 1 \in 1 .. c /\ k <= c
      BY <2>1, <2>3
    <3>2. g[k + 1] = IF r[k + 1] = 0 THEN g[k] ELSE Append(g[k], r[k + 1])
      BY <1>3, <2>1, <3>1 DEF Keeps
    <3> QED
      BY <2>1, <2>2, <3>1, <3>2
  <2>4. CASE ~(k + 1 <= c)
    <3>1. k + 1 \in (c + 1) .. m
      BY <2>1, <2>4
    <3>2. h[k + 1] = h[k]
      BY <2>2, <3>1
    <3>3. h[k] = g[c]
      <4>1. k <= c => k = c
        BY <2>4
      <4> QED
        BY <2>1, <4>1
    <3> QED
      BY <2>1, <2>4, <3>2, <3>3
  <2> QED
    BY <2>3, <2>4
<1>6. m \in S
  <2> HIDE DEF S
  <2>1. m \in 0 .. m
    OBVIOUS
  <2> QED
    BY <1>4, <1>5, <2>1, ReachesBelow
<1>7. h[m] = g[c]
  <2>1. m <= c => m = c
    OBVIOUS
  <2> QED
    BY <1>6, <2>1
<1> QED
  BY <1>1, <1>3, <1>7 DEF Keeps

\* No loss at all.
LEMMA NonZeroOfNothing ==
  ASSUME NEW s \in [1 .. 0 -> Nat]
  PROVE  NonZero(s) = <<>>
<1>1. PICK h : Keeps(h, 0, s)
  <2>1. 0 \in Nat
    OBVIOUS
  <2> QED
    BY <2>1, NonZeroSteps
<1> QED
  BY <1>1 DEF Keeps

\* The value of an addend.
LEMMA AddendsAreNumbers ==
  ASSUME NEW losses \in Seq(Nat), NEW d \in 0 .. Directions - 1, NEW v \in 0 .. Speeds - 1
  PROVE  AddendValue(Addend(losses, d, v)) \in Int
<1>1. Directions \in Nat \ {0} /\ Speeds \in Nat \ {0}
  BY WakeAssumption DEF Directions, Speeds
<1>2. Velocity[v + 1] \in Nat
  <2>1. v + 1 \in 1 .. Len(Velocity)
    BY <1>1 DEF Speeds
  <2> QED
    BY <2>1, WakeAssumption
<1>3. Probability[d * Speeds + v + 1] \in Nat
  <2>1. d * Speeds + v \in 0 .. Directions * Speeds - 1
    BY <1>1, PositionWithin
  <2>2. PICK k \in Nat : k = Len(Probability)
    BY WakeAssumption
  <2>3. k = Directions * Speeds
    BY <2>2, WakeAssumption
  <2>4. PICK i : i = d * Speeds + v
    OBVIOUS
  <2>5. i + 1 \in 1 .. k
    BY <2>1, <2>2, <2>3, <2>4
  <2> QED
    BY <2>2, <2>4, <2>5, WakeAssumption
<1>4. RootOfSquares(losses) \in Nat
  <2>1. Len(losses) \in Nat /\ losses \in [1 .. Len(losses) -> Nat]
    OBVIOUS
  <2> QED
    BY <2>1, RootsAreNumbers
<1>5. PICK root \in Nat, speed \in Nat, share \in Nat :
        /\ root = RootOfSquares(losses) /\ speed = Velocity[v + 1]
        /\ share = Probability[d * Speeds + v + 1]
  BY <1>2, <1>3, <1>4
<1>6. PICK met \in Int : met = (100 - root) * speed
  OBVIOUS
<1>7. met \div 10 \in Int
  OBVIOUS
<1>8. PICK power \in Int : power = TurbinePower(met \div 10)
  BY <1>7, PowersAreNumbers
<1>9. AddendValue(Addend(losses, d, v)) = power * share
  BY <1>5, <1>6, <1>8 DEF AddendValue, Addend
<1>10. power * share \in Int
  OBVIOUS
<1> QED
  BY <1>9, <1>10

-----------------------------------------------------------------------------
(* The stable sort and a sorted sequence.                                  *)

\* Each place has the turbine with as many before it.
LEMMA StableOrderRank ==
  ASSUME NEW m \in Nat, NEW key \in [0 .. m - 1 -> Int]
  PROVE  \A p \in 0 .. m - 1 :
           /\ StableOrder(key)[p] \in 0 .. m - 1
           /\ Cardinality(AllEarlier(key, StableOrder(key)[p])) = p
<1> DEFINE place == [t \in 0 .. m - 1 |-> Cardinality(AllEarlier(key, t))]
<1>1. place \in Injection(0 .. m - 1, 0 .. m - 1)
  <2>1. place \in [0 .. m - 1 -> 0 .. m - 1]
    BY EarlierGrows
  <2>2. ASSUME NEW t \in 0 .. m - 1, NEW u \in 0 .. m - 1, place[t] = place[u] PROVE t = u
    <3>1. /\ Cardinality(AllEarlier(key, t)) = Cardinality(AllEarlier(key, u))
          /\ Cardinality(AllEarlier(key, t)) \in Int
      BY <2>2, EarlierGrows
    <3>2. ~Earlier(key, t, u) /\ ~Earlier(key, u, t)
      BY <3>1, EarlierGrows
    <3> QED
      BY <3>2 DEF Earlier
  <2> QED
    BY <2>1, <2>2 DEF Injection, IsInjective
<1>2. IsFiniteSet(0 .. m - 1)
  BY FS_Interval
<1>3. place \in Surjection(0 .. m - 1, 0 .. m - 1)
  BY <1>1, <1>2, FS_Injection
<1>4. DOMAIN key = 0 .. m - 1
  OBVIOUS
<1> SUFFICES ASSUME NEW p \in 0 .. m - 1
             PROVE  /\ StableOrder(key)[p] \in 0 .. m - 1
                    /\ Cardinality(AllEarlier(key, StableOrder(key)[p])) = p
  OBVIOUS
<1>5. \E t \in 0 .. m - 1 : place[t] = p
  <2> HIDE DEF place
  <2> QED
    BY <1>3 DEF Surjection
<1>6. \E t \in 0 .. m - 1 : Cardinality(AllEarlier(key, t)) = p
  BY <1>5
<1>7. StableOrder(key)[p] = CHOOSE t \in 0 .. m - 1 : Cardinality(AllEarlier(key, t)) = p
  BY <1>4 DEF StableOrder, AllEarlier, Earlier
<1> QED
  BY <1>6, <1>7

\* A later place has a later turbine.
LEMMA StableOrderAscends ==
  ASSUME NEW m \in Nat, NEW key \in [0 .. m - 1 -> Int],
         NEW p \in 0 .. m - 1, NEW q \in 0 .. m - 1, p < q
  PROVE  Earlier(key, StableOrder(key)[p], StableOrder(key)[q])
<1>1. PICK t \in 0 .. m - 1, u \in 0 .. m - 1 :
        /\ t = StableOrder(key)[p] /\ u = StableOrder(key)[q]
        /\ Cardinality(AllEarlier(key, t)) = p /\ Cardinality(AllEarlier(key, u)) = q
  BY StableOrderRank
<1>2. t # u
  BY <1>1
<1>3. ~Earlier(key, u, t)
  <2> SUFFICES ASSUME Earlier(key, u, t) PROVE FALSE
    OBVIOUS
  <2>1. Cardinality(AllEarlier(key, u)) < Cardinality(AllEarlier(key, t))
    BY EarlierGrows
  <2> QED
    BY <1>1, <2>1
<1> QED
  BY <1>1, <1>2, <1>3 DEF Earlier

\* Turbines with the same number before them are the same.
LEMMA RanksApart ==
  ASSUME NEW m \in Nat, NEW key \in [0 .. m - 1 -> Int],
         NEW t \in 0 .. m - 1, NEW u \in 0 .. m - 1,
         Cardinality(AllEarlier(key, t)) = Cardinality(AllEarlier(key, u))
  PROVE  t = u
<1>1. Cardinality(AllEarlier(key, t)) \in Int
  BY EarlierGrows
<1>2. ~Earlier(key, t, u) /\ ~Earlier(key, u, t)
  BY <1>1, EarlierGrows
<1> QED
  BY <1>2 DEF Earlier

\* Some turbines with all that are before them.
WithEarlier(m, key, U) ==
  \A u \in U, v \in 0 .. m - 1 : Earlier(key, v, u) => v \in U

\* A sequence in which each is earlier than the next ones.
Ascends(key, s) == \A i, k \in DOMAIN s : i < k => Earlier(key, s[i], s[k])

\* Turbines are counted.
LEMMA TurbineSet ==
  ASSUME NEW m \in Nat, NEW U \in SUBSET (0 .. m - 1)
  PROVE  /\ IsFiniteSet(U) /\ Cardinality(U) \in 0 .. m
         /\ \A u \in U : u \in 0 .. m - 1
         /\ IsFiniteSet(0 .. Cardinality(U) - 1)
         /\ Cardinality(0 .. Cardinality(U) - 1) = Cardinality(U)
<1>1. IsFiniteSet(0 .. m - 1) /\ Cardinality(0 .. m - 1) = m
  BY FS_Interval
<1>2. IsFiniteSet(U) /\ Cardinality(U) <= m
  BY <1>1, FS_Subset
<1>3. PICK c \in Nat : c = Cardinality(U)
  BY <1>2, FS_CardinalityType
<1>4. IsFiniteSet(0 .. c - 1) /\ Cardinality(0 .. c - 1) = c
  BY FS_Interval
<1> QED
  BY <1>2, <1>3, <1>4

\* They are the first of the order.
LEMMA FirstOfOrder ==
  ASSUME NEW m \in Nat, NEW key \in [0 .. m - 1 -> Int], NEW U \in SUBSET (0 .. m - 1),
         WithEarlier(m, key, U)
  PROVE  /\ Cardinality(U) \in 0 .. m
         /\ \A p \in 0 .. m - 1 : StableOrder(key)[p] \in U <=> p < Cardinality(U)
<1>1. IsFiniteSet(0 .. m - 1) /\ Cardinality(0 .. m - 1) = m
  BY FS_Interval
<1>2. IsFiniteSet(U) /\ Cardinality(U) \in 0 .. m
  BY TurbineSet
<1>3. ASSUME NEW u \in U PROVE Cardinality(AllEarlier(key, u)) \in 0 .. Cardinality(U) - 1
  <2>1. AllEarlier(key, u) \cup {u} \in SUBSET U
    BY <1>3 DEF AllEarlier, WithEarlier
  <2>2. AllEarlier(key, u) \in SUBSET (0 .. m - 1) /\ u \notin AllEarlier(key, u)
    BY DEF AllEarlier, Earlier
  <2>3. IsFiniteSet(AllEarlier(key, u))
    BY <1>1, <2>2, FS_Subset
  <2>4. /\ Cardinality(AllEarlier(key, u)) \in Nat
        /\ Cardinality(AllEarlier(key, u) \cup {u}) = Cardinality(AllEarlier(key, u)) + 1
    BY <2>2, <2>3, FS_AddElement, FS_CardinalityType
  <2>5. Cardinality(AllEarlier(key, u) \cup {u}) <= Cardinality(U)
    BY <1>2, <2>1, FS_Subset
  <2> QED
    BY <1>2, <2>4, <2>5
<1> DEFINE rank == [u \in U |-> Cardinality(AllEarlier(key, u))]
<1>4. rank \in Injection(U, 0 .. Cardinality(U) - 1)
  <2>1. rank \in [U -> 0 .. Cardinality(U) - 1]
    BY <1>3
  <2>2. ASSUME NEW t \in U, NEW u \in U, rank[t] = rank[u] PROVE t = u
    BY <2>2, RanksApart
  <2> QED
    BY <2>1, <2>2 DEF Injection, IsInjective
<1>5. IsFiniteSet(0 .. Cardinality(U) - 1) /\ Cardinality(0 .. Cardinality(U) - 1) = Cardinality(U)
  BY TurbineSet
<1>6. rank \in Surjection(U, 0 .. Cardinality(U) - 1)
  <2> HIDE DEF rank
  <2> QED
    BY <1>4, <1>5, FS_Injection
<1>7. ASSUME NEW p \in 0 .. m - 1, StableOrder(key)[p] \in U PROVE p < Cardinality(U)
  BY <1>2, <1>3, <1>7, StableOrderRank
<1>8. ASSUME NEW p \in 0 .. m - 1, p < Cardinality(U) PROVE StableOrder(key)[p] \in U
  <2>1. p \in 0 .. Cardinality(U) - 1
    BY <1>2, <1>8
  <2>2. \E u \in U : rank[u] = p
    <3> HIDE DEF rank
    <3> QED
      BY <1>6, <2>1 DEF Surjection
  <2>3. PICK u \in U : Cardinality(AllEarlier(key, u)) = p
    BY <2>2
  <2>4. /\ StableOrder(key)[p] \in 0 .. m - 1
        /\ Cardinality(AllEarlier(key, StableOrder(key)[p])) = p
    BY StableOrderRank
  <2>5. StableOrder(key)[p] = u
    BY <2>3, <2>4, RanksApart
  <2> QED
    BY <2>5
<1> QED
  BY <1>2, <1>7, <1>8

\* An ascending sequence of them is that part of the order.
LEMMA SortedIsOrder ==
  ASSUME NEW m \in Nat, NEW key \in [0 .. m - 1 -> Int], NEW U \in SUBSET (0 .. m - 1),
         WithEarlier(m, key, U), NEW s \in [1 .. Cardinality(U) -> U], Ascends(key, s)
  PROVE  \A k \in 1 .. Cardinality(U) : s[k] = StableOrder(key)[k - 1]
<1>0. \A u \in U : u \in 0 .. m - 1
  BY TurbineSet
<1>1. PICK c \in 0 .. m : c = Cardinality(U)
  BY FirstOfOrder
<1>2. \A p \in 0 .. m - 1 : StableOrder(key)[p] \in U <=> p < c
  BY <1>1, FirstOfOrder
<1>3. s \in [1 .. c -> U] /\ \A i, k \in 1 .. c : i < k => Earlier(key, s[i], s[k])
  BY <1>1 DEF Ascends
<1> DEFINE Ahead(k) == Cardinality(AllEarlier(key, s[k]))
<1>4. ASSUME NEW k \in 1 .. c PROVE Ahead(k) \in 0 .. c - 1
  <2>1. s[k] \in U /\ s[k] \in 0 .. m - 1
    BY <1>3
  <2>2. Ahead(k) \in 0 .. m - 1
    BY <2>1, EarlierGrows
  <2>3. /\ StableOrder(key)[Ahead(k)] \in 0 .. m - 1
        /\ Cardinality(AllEarlier(key, StableOrder(key)[Ahead(k)])) = Ahead(k)
    BY <2>2, StableOrderRank
  <2>4. StableOrder(key)[Ahead(k)] = s[k]
    BY <2>1, <2>3, RanksApart
  <2> QED
    BY <1>2, <2>1, <2>2, <2>4
<1>5. ASSUME NEW k \in 1 .. c, k + 1 \in 1 .. c PROVE Ahead(k) < Ahead(k + 1)
  <2>1. s[k] \in 0 .. m - 1 /\ s[k + 1] \in 0 .. m - 1 /\ k < k + 1
    <3>1. s[k] \in U
      BY <1>3
    <3>2. s[k + 1] \in U
      BY <1>3, <1>5
    <3>3. k < k + 1
      OBVIOUS
    <3> QED
      BY <1>0, <3>1, <3>2, <3>3, Zenon
  <2>2. Earlier(key, s[k], s[k + 1])
    BY <1>3, <1>5, <2>1
  <2> QED
    BY <2>1, <2>2, EarlierGrows
<1> HIDE DEF Ahead
<1> DEFINE Low == {k \in Nat : k + 1 \in 1 .. c => Ahead(k + 1) >= k}
           High == {j \in Nat : c - j \in 1 .. c => Ahead(c - j) <= c - 1 - j}
<1>6. \A k \in Nat : k \in Low
  <2>1. 0 \in Low
    BY <1>4
  <2>2. ASSUME NEW k \in Nat, k \in Low PROVE k + 1 \in Low
    <3> SUFFICES ASSUME k + 1 + 1 \in 1 .. c PROVE Ahead(k + 1 + 1) >= k + 1
      OBVIOUS
    <3>1. k + 1 \in 1 .. c
      OBVIOUS
    <3>2. Ahead(k + 1) >= k /\ Ahead(k + 1) < Ahead(k + 1 + 1)
      BY <1>5, <2>2, <3>1
    <3> QED
      BY <1>4, <3>1, <3>2
  <2> HIDE DEF Low
  <2> QED
    BY <2>1, <2>2, Reaches
<1>7. \A j \in Nat : j \in High
  <2>1. 0 \in High
    BY <1>4
  <2>2. ASSUME NEW j \in Nat, j \in High PROVE j + 1 \in High
    <3> SUFFICES ASSUME c - (j + 1) \in 1 .. c PROVE Ahead(c - (j + 1)) <= c - 1 - (j + 1)
      OBVIOUS
    <3>1. c - j \in 1 .. c /\ c - (j + 1) + 1 = c - j
      OBVIOUS
    <3>2. Ahead(c - j) <= c - 1 - j /\ Ahead(c - (j + 1)) < Ahead(c - j)
      BY <1>5, <2>2, <3>1
    <3> QED
      BY <1>4, <3>1, <3>2
  <2> HIDE DEF High
  <2> QED
    BY <2>1, <2>2, Reaches
<1>8. ASSUME NEW k \in 1 .. c PROVE s[k] = StableOrder(key)[k - 1]
  <2>1. k - 1 \in Nat /\ (k - 1) + 1 = k /\ c - k \in Nat /\ c - (c - k) = k
    OBVIOUS
  <2>2. Ahead(k) >= k - 1
    <3>1. k - 1 \in Low
      BY <1>6, <2>1
    <3> QED
      BY <2>1, <3>1
  <2>3. Ahead(k) <= k - 1
    <3>1. c - k \in High
      BY <1>7, <2>1
    <3> QED
      BY <2>1, <3>1
  <2>4. Ahead(k) = k - 1
    <3>1. Ahead(k) \in 0 .. c - 1
      BY <1>4
    <3> QED
      BY <2>1, <2>2, <2>3, <3>1
  <2>5. k - 1 \in 0 .. m - 1 /\ s[k] \in 0 .. m - 1
    <3>1. s[k] \in U
      BY <1>3
    <3>2. k - 1 \in 0 .. m - 1
      OBVIOUS
    <3> QED
      BY <3>1, <3>2, TurbineSet
  <2>6. /\ StableOrder(key)[k - 1] \in 0 .. m - 1
        /\ Cardinality(AllEarlier(key, StableOrder(key)[k - 1])) = k - 1
    BY <2>5, StableOrderRank
  <2> QED
    BY <2>4, <2>5, <2>6, RanksApart DEF Ahead
<1> QED
  BY <1>1, <1>8

-----------------------------------------------------------------------------
(* The abstract specification speaks of the same grid and the same power.  *)

\* Members are counted alike.
LEMMA SameCount == ASSUME NEW S PROVE BE!Cardinality(S) = Cardinality(S)
BY DEF BE!Cardinality, Cardinality

\* A cell lies as far across the wind.
LEMMA SameAcross == ASSUME NEW cell, NEW d PROVE BE!Across(cell, d) = Across(cell, d)
BY DEF BE!Across, Across, BE!CentreX, CentreX, BE!CentreY, CentreY

\* A cell lies as far along the wind.
LEMMA SameAlong == ASSUME NEW cell, NEW d PROVE BE!Along(cell, d) = Along(cell, d)
BY DEF BE!Along, Along, BE!CentreX, CentreX, BE!CentreY, CentreY

\* A wake takes the same share.
LEMMA SameLoss ==
  ASSUME NEW a, NEW b, NEW dy
  PROVE  BE!Deficiency(BE!Distance(a, b), dy) = Deficiency(Distance(a, b), dy)
BY DEF BE!Deficiency, Deficiency, BE!Distance, Distance

\* The same zeros are dropped.
LEMMA SameNonZero == ASSUME NEW s PROVE BE!NonZero(s) = NonZero(s)
BY DEF BE!NonZero, NonZero, BE!FoldLeft, FoldLeft, BE!MapThenFoldSet, MapThenFoldSet, BE!Max, Max

\* The wind has as many directions and speeds.
LEMMA SameSizes == BE!Directions = Directions /\ BE!Speeds = Speeds
BY DEF BE!Directions, Directions, BE!Speeds, Speeds

\* The same losses combine to the same one.
LEMMA SameRoot == ASSUME NEW s PROVE BE!RootOfSquares(s) = RootOfSquares(s)
<1>1. BE!SumOfSquares(s) = SumOfSquares(s)
  BY DEF BE!SumOfSquares, SumOfSquares,
         BE!FoldLeft, FoldLeft, BE!MapThenFoldSet, MapThenFoldSet, BE!Max, Max
<1> QED
  BY <1>1 DEF BE!RootOfSquares, RootOfSquares

\* A share of the yield is the same.
LEMMA SameAddend == ASSUME NEW s, NEW d, NEW v PROVE BE!Addend(s, d, v) = Addend(s, d, v)
BY DEF BE!Addend, Addend

\* The shares add up to the same power.
LEMMA SamePower == ASSUME NEW power PROVE BE!PowerValue(power) = PowerValue(power)
<1>1. ASSUME NEW a PROVE BE!AddendValue(a) = AddendValue(a)
  <2>1. BE!Speeds = Speeds /\ BE!RootOfSquares(a.losses) = RootOfSquares(a.losses)
    BY SameSizes, SameRoot
  <2> QED
    BY <2>1 DEF BE!AddendValue, AddendValue, BE!TurbinePower, TurbinePower
<1> QED
  BY <1>1 DEF BE!PowerValue, PowerValue,
         BE!FoldLeft, FoldLeft, BE!MapThenFoldSet, MapThenFoldSet, BE!Max, Max

\* The turbines strictly upwind, the farthest first.
UpwindOf(l, t, d) == {u \in DOMAIN l : Along(l[u], d) > Along(l[t], d)}

UpwindFirst(l, d, u, v) ==
  Along(l[u], d) > Along(l[v], d) \/ (Along(l[u], d) = Along(l[v], d) /\ u < v)

UpwindSorted(l, d, s) == \A i, k \in DOMAIN s : i < k => UpwindFirst(l, d, s[i], s[k])

SortedUpwind(l, t, d) ==
  CHOOSE s \in [1 .. Cardinality(UpwindOf(l, t, d)) -> UpwindOf(l, t, d)] : UpwindSorted(l, d, s)

LossFrom(l, t, d, u) ==
  Deficiency(Distance(Across(l[t], d), Across(l[u], d)), Along(l[u], d) - Along(l[t], d))

\* The losses it adds up are those from the turbines strictly upwind, in their order.
LEMMA WindLossesAre ==
  ASSUME NEW l, NEW t, NEW d
  PROVE  BE!WindLosses(l, t, d) =
           NonZero([k \in DOMAIN SortedUpwind(l, t, d) |->
                      LossFrom(l, t, d, SortedUpwind(l, t, d)[k])])
<1>1. \A c : BE!Along(c, d) = Along(c, d) /\ BE!Across(c, d) = Across(c, d)
  BY SameAlong, SameAcross
<1>2. \A S : BE!Cardinality(S) = Cardinality(S)
  BY SameCount
<1>3. \A a, b, dy : BE!Deficiency(BE!Distance(a, b), dy) = Deficiency(Distance(a, b), dy)
  BY SameLoss
<1>4. \A s : BE!NonZero(s) = NonZero(s)
  BY SameNonZero
<1> DEFINE up == {u \in DOMAIN l : BE!Along(l[u], d) > BE!Along(l[t], d)}
           Fine(s) == \A i, k \in DOMAIN s : i < k =>
                        \/ BE!Along(l[s[i]], d) > BE!Along(l[s[k]], d)
                        \/ BE!Along(l[s[i]], d) = BE!Along(l[s[k]], d) /\ s[i] < s[k]
           order == CHOOSE s \in [1 .. BE!Cardinality(up) -> up] : Fine(s)
           Loss(u) == BE!Deficiency(BE!Distance(BE!Across(l[t], d), BE!Across(l[u], d)),
                                    BE!Along(l[u], d) - BE!Along(l[t], d))
<1>5. BE!WindLosses(l, t, d) = BE!NonZero([k \in DOMAIN order |-> Loss(order[k])])
  BY DEF BE!WindLosses, BE!Sorted
<1>6. up = UpwindOf(l, t, d)
  BY <1>1 DEF UpwindOf
<1>7. \A s : Fine(s) <=> UpwindSorted(l, d, s)
  BY <1>1 DEF UpwindSorted, UpwindFirst
<1>8. \A u : Loss(u) = LossFrom(l, t, d, u)
  BY <1>1, <1>3 DEF LossFrom
<1>9. order = SortedUpwind(l, t, d)
  <2> HIDE DEF up, Fine
  <2> QED
    BY <1>2, <1>6, <1>7 DEF SortedUpwind
<1> HIDE DEF order, Loss
<1> QED
  BY <1>4, <1>5, <1>8, <1>9

\* The turbines from the weakest to the strongest.
YieldValue(l, t) == PowerValue(BE!TurbineYield(l, t))

WeakerFirst(l, s) ==
  \A i, k \in DOMAIN s : i < k =>
    \/ YieldValue(l, s[i]) < YieldValue(l, s[k])
    \/ YieldValue(l, s[i]) = YieldValue(l, s[k]) /\ s[i] < s[k]

\* Its order of the turbines is one by yield and then by number.
LEMMA WeakestFirstIs ==
  ASSUME NEW l
  PROVE  BE!WeakestFirst(l) =
           CHOOSE s \in [1 .. Cardinality(DOMAIN l) -> DOMAIN l] : WeakerFirst(l, s)
<1>1. \A S : BE!Cardinality(S) = Cardinality(S)
  BY SameCount
<1>2. \A p : BE!PowerValue(p) = PowerValue(p)
  BY SamePower
<1> QED
  BY <1>1, <1>2 DEF BE!WeakestFirst, BE!Sorted, WeakerFirst, YieldValue

\* The yield of a turbine is a share for every direction and speed.
LEMMA TurbineYieldIs ==
  ASSUME NEW l, NEW t
  PROVE  BE!TurbineYield(l, t) =
           [k \in 1 .. Directions * Speeds |->
              Addend(BE!WindLosses(l, t, (k - 1) \div Speeds + 1),
                     (k - 1) \div Speeds, (k - 1) % Speeds)]
<1>1. \A s, d, v : BE!Addend(s, d, v) = Addend(s, d, v)
  BY SameAddend
<1> QED
  BY <1>1, SameSizes DEF BE!TurbineYield

\* Its answer for a row is given by that order and these yields.
LEMMA RowAnswerIs ==
  ASSUME NEW l, NEW detail
  PROVE  BE!RowAnswer(l, detail) =
           [fitness |-> [k \in DOMAIN BE!WeakestFirst(l) |->
                           YieldValue(l, BE!WeakestFirst(l)[k])],
            ranked  |-> IF detail = "TotalAndPerTurbine"
                          THEN [k \in DOMAIN BE!WeakestFirst(l) |->
                                  [power |-> BE!TurbineYield(l, BE!WeakestFirst(l)[k]),
                                   cell  |-> l[BE!WeakestFirst(l)[k]]]]
                          ELSE <<>>]
<1>1. \A p : BE!PowerValue(p) = PowerValue(p)
  BY SamePower
<1> QED
  BY <1>1 DEF BE!RowAnswer, YieldValue

-----------------------------------------------------------------------------
(* The wind losses.                                                        *)

\* A later place has a turbine that is not farther upwind, and a later one
\* if both are level.
LEMMA UpstreamDescends ==
  ASSUME NEW m \in Nat, NEW along \in [0 .. m - 1 -> Int],
         NEW p \in 0 .. m - 1, NEW q \in 0 .. m - 1, p < q
  PROVE  LET t == UpstreamOrder(along)[p]
             u == UpstreamOrder(along)[q]
         IN  /\ t \in 0 .. m - 1 /\ u \in 0 .. m - 1
             /\ along[t] > along[u] \/ (along[t] = along[u] /\ t < u)
<1> DEFINE key == [t \in 0 .. m - 1 |-> 0 - along[t]]
<1>1. key \in [0 .. m - 1 -> Int]
  OBVIOUS
<1>2. UpstreamOrder(along) = StableOrder(key)
  BY DEF UpstreamOrder
<1>3. PICK t, u : t = UpstreamOrder(along)[p] /\ u = UpstreamOrder(along)[q]
  OBVIOUS
<1>4. t \in 0 .. m - 1 /\ u \in 0 .. m - 1 /\ Earlier(key, t, u)
  <2> HIDE DEF key
  <2> QED
    BY <1>1, <1>2, <1>3, StableOrderRank, StableOrderAscends
<1>5. along[t] > along[u] \/ (along[t] = along[u] /\ t < u)
  <2>1. along[t] \in Int /\ along[u] \in Int /\ key[t] = 0 - along[t] /\ key[u] = 0 - along[u]
    BY <1>4
  <2> HIDE DEF key
  <2> QED
    BY <1>4, <2>1 DEF Earlier
<1> QED
  BY <1>3, <1>4, <1>5

\* The turbines strictly upwind of one.
UpwindSet(along, t) == {u \in DOMAIN along : along[u] > along[t]}

\* Turbines by their distance upwind, the farthest first.
Descends(along, s) ==
  \A i, k \in DOMAIN s : i < k =>
    along[s[i]] > along[s[k]] \/ (along[s[i]] = along[s[k]] /\ s[i] < s[k])

\* The turbines strictly upwind are the first of the order.
LEMMA UpwindComesFirst ==
  ASSUME NEW m \in Nat, NEW along \in [0 .. m - 1 -> Int], NEW t \in 0 .. m - 1
  PROVE  /\ Cardinality(UpwindSet(along, t)) \in 0 .. m
         /\ \A p \in 0 .. m - 1 :
              /\ UpstreamOrder(along)[p] \in 0 .. m - 1
              /\ UpstreamOrder(along)[p] \in UpwindSet(along, t) <=> p < Cardinality(UpwindSet(along, t))
         /\ \A s \in [1 .. Cardinality(UpwindSet(along, t)) -> UpwindSet(along, t)] :
              Descends(along, s) => \A k \in 1 .. Cardinality(UpwindSet(along, t)) : s[k] = UpstreamOrder(along)[k - 1]
<1> DEFINE U == UpwindSet(along, t)
<1> DEFINE key == [u \in 0 .. m - 1 |-> 0 - along[u]]
<1>1. key \in [0 .. m - 1 -> Int]
  OBVIOUS
<1>2. UpstreamOrder(along) = StableOrder(key)
  BY DEF UpstreamOrder
<1>4. \A u, v \in 0 .. m - 1 :
        Earlier(key, u, v) <=> along[u] > along[v] \/ (along[u] = along[v] /\ u < v)
  BY DEF Earlier
<1>5. WithEarlier(m, key, U)
  <2> HIDE DEF key
  <2> SUFFICES ASSUME NEW u \in U, NEW v \in 0 .. m - 1, Earlier(key, v, u) PROVE v \in U
    BY DEF WithEarlier
  <2>1. u \in 0 .. m - 1 /\ along[u] > along[t]
    BY DEF UpwindSet
  <2>2. along[v] \in Int /\ along[u] \in Int /\ along[t] \in Int
    BY <2>1
  <2> QED
    BY <1>4, <2>1, <2>2 DEF UpwindSet
<1>6. U \in SUBSET (0 .. m - 1)
  BY DEF UpwindSet
<1> HIDE DEF key, U
<1>7. /\ Cardinality(U) \in 0 .. m
      /\ \A p \in 0 .. m - 1 : StableOrder(key)[p] \in U <=> p < Cardinality(U)
  BY <1>1, <1>5, <1>6, FirstOfOrder
<1>8. \A p \in 0 .. m - 1 : StableOrder(key)[p] \in 0 .. m - 1
  BY <1>1, StableOrderRank
<1>9. ASSUME NEW s \in [1 .. Cardinality(U) -> U], Descends(along, s)
      PROVE  \A k \in 1 .. Cardinality(U) : s[k] = UpstreamOrder(along)[k - 1]
  <2>1. \A i \in 1 .. Cardinality(U) : s[i] \in 0 .. m - 1
    BY <1>6
  <2>2. Ascends(key, s)
    BY <1>4, <1>9, <2>1 DEF Ascends, Descends
  <2>3. \A k \in 1 .. Cardinality(U) : s[k] = StableOrder(key)[k - 1]
    BY <1>1, <1>5, <1>6, <2>2, SortedIsOrder
  <2> QED
    BY <1>2, <2>3
<1>10. \A p \in 0 .. m - 1 :
         /\ UpstreamOrder(along)[p] \in 0 .. m - 1
         /\ UpstreamOrder(along)[p] \in U <=> p < Cardinality(U)
  BY <1>2, <1>7, <1>8
<1>11. \A s \in [1 .. Cardinality(U) -> U] :
         Descends(along, s) => \A k \in 1 .. Cardinality(U) : s[k] = UpstreamOrder(along)[k - 1]
  BY <1>9, Zenon
<1> QED
  BY <1>7, <1>10, <1>11 DEF U

\* A set shifted by one has as many members.
LEMMA ShiftedSet ==
  ASSUME NEW m \in Nat, NEW U \in SUBSET (0 .. m - 1), NEW V \in SUBSET (1 .. m),
         \A u \in 0 .. m - 1 : u \in U <=> u + 1 \in V
  PROVE  Cardinality(V) = Cardinality(U)
<1> DEFINE shift == [u \in U |-> u + 1]
<1>1. IsFiniteSet(U)
  BY TurbineSet
<1>2. IsFiniteSet(V)
  <2>1. IsFiniteSet(1 .. m)
    BY FS_Interval
  <2> QED
    BY <2>1, FS_Subset
<1>3. shift \in Injection(U, V)
  <2>1. shift \in [U -> V]
    <3> SUFFICES ASSUME NEW u \in U PROVE u + 1 \in V
      OBVIOUS
    <3> QED
      OBVIOUS
  <2>2. ASSUME NEW t \in U, NEW u \in U, shift[t] = shift[u] PROVE t = u
    <3>1. t \in Int /\ u \in Int
      OBVIOUS
    <3> QED
      BY <2>2, <3>1
  <2> QED
    BY <2>1, <2>2 DEF Injection, IsInjective
<1>4. shift \in Surjection(U, V)
  <2>1. shift \in [U -> V]
    BY <1>3 DEF Injection
  <2>2. ASSUME NEW v \in V PROVE \E u \in U : shift[u] = v
    <3>1. v - 1 \in 0 .. m - 1 /\ (v - 1) + 1 = v
      OBVIOUS
    <3>2. v - 1 \in U
      BY <3>1
    <3> QED
      BY <3>1, <3>2
  <2> QED
    BY <2>1, <2>2 DEF Surjection
<1> HIDE DEF shift
<1>5. Cardinality(U) = Cardinality(V)
  BY <1>2, <1>3, <1>4, FS_Injection
<1> QED
  BY <1>5

\* The same wind in two layouts, one numbered from 1 and one from 0.
SameWind(l, m, d, along) ==
  /\ DOMAIN l = 1 .. m
  /\ \A t \in 0 .. m - 1 : Along(l[t + 1], d) = along[t]

\* The sorted sequence is the beginning of the order, one further.
LEMMA SortedUpwindIs ==
  ASSUME NEW m \in Nat, NEW along \in [0 .. m - 1 -> Int], NEW l, NEW d,
         SameWind(l, m, d, along), NEW t \in 0 .. m - 1,
         NEW U, U = UpwindSet(along, t)
  PROVE  /\ DOMAIN SortedUpwind(l, t + 1, d) = 1 .. Cardinality(U)
         /\ \A k \in 1 .. Cardinality(U) :
              SortedUpwind(l, t + 1, d)[k] = UpstreamOrder(along)[k - 1] + 1
<1>1. PICK order : order = UpstreamOrder(along)
  OBVIOUS
<1>2. PICK c \in 0 .. m : c = Cardinality(U)
  BY UpwindComesFirst, Zenon
<1>3. \A p \in 0 .. m - 1 : order[p] \in 0 .. m - 1 /\ (order[p] \in U <=> p < c)
  BY <1>1, <1>2, UpwindComesFirst
<1>4. PICK V : V = UpwindOf(l, t + 1, d)
  OBVIOUS
<1>5. V \in SUBSET (1 .. m) /\ \A u \in 0 .. m - 1 : u \in U <=> u + 1 \in V
  <2>1. \A u \in 0 .. m - 1 : u + 1 \in 1 .. m /\ along[u] \in Int /\ Along(l[u + 1], d) = along[u]
    BY DEF SameWind
  <2> QED
    BY <1>4, <2>1 DEF SameWind, UpwindOf, UpwindSet
<1>15. \A v \in V : v \in Int
  BY <1>5
<1>6. Cardinality(V) = c
  <2>1. U \in SUBSET (0 .. m - 1)
    BY DEF UpwindSet
  <2>2. Cardinality(V) = Cardinality(U)
    BY <1>5, <2>1, ShiftedSet
  <2> QED
    BY <1>2, <2>2
<1>7. \A u, v \in V : /\ u - 1 \in U /\ u - 1 \in 0 .. m - 1
                      /\ UpwindFirst(l, d, u, v) <=>
                           \/ along[u - 1] > along[v - 1]
                           \/ along[u - 1] = along[v - 1] /\ u - 1 < v - 1
  <2> SUFFICES ASSUME NEW u \in V, NEW v \in V
               PROVE  /\ u - 1 \in U /\ u - 1 \in 0 .. m - 1
                      /\ UpwindFirst(l, d, u, v) <=>
                           \/ along[u - 1] > along[v - 1]
                           \/ along[u - 1] = along[v - 1] /\ u - 1 < v - 1
    OBVIOUS
  <2>1. /\ u \in Int /\ u - 1 \in 0 .. m - 1 /\ (u - 1) + 1 = u
        /\ v \in Int /\ v - 1 \in 0 .. m - 1 /\ (v - 1) + 1 = v
    BY <1>5
  <2>2. Along(l[u], d) = along[u - 1] /\ Along(l[v], d) = along[v - 1]
    BY <2>1 DEF SameWind
  <2>3. u < v <=> u - 1 < v - 1
    BY <2>1
  <2>4. u - 1 \in U
    BY <1>5, <2>1
  <2> QED
    BY <2>1, <2>2, <2>3, <2>4 DEF UpwindFirst
<1> DEFINE w == [k \in 1 .. c |-> order[k - 1] + 1]
<1>8. w \in [1 .. c -> V] /\ UpwindSorted(l, d, w)
  <2>1. ASSUME NEW k \in 1 .. c
        PROVE  /\ k - 1 \in 0 .. m - 1 /\ k - 1 < c /\ order[k - 1] \in 0 .. m - 1
               /\ w[k] = order[k - 1] + 1 /\ w[k] - 1 = order[k - 1] /\ w[k] \in V
    <3>1. k - 1 \in 0 .. m - 1 /\ k - 1 < c
      OBVIOUS
    <3>2. order[k - 1] \in 0 .. m - 1 /\ order[k - 1] \in U
      BY <1>3, <3>1
    <3>3. order[k - 1] + 1 \in V
      BY <1>5, <3>2
    <3> QED
      BY <3>1, <3>2, <3>3
  <2>2. w \in [1 .. c -> V]
    BY <2>1
  <2>3. ASSUME NEW i \in 1 .. c, NEW k \in 1 .. c, i < k PROVE UpwindFirst(l, d, w[i], w[k])
    <3>1. i - 1 \in 0 .. m - 1 /\ k - 1 \in 0 .. m - 1 /\ i - 1 < k - 1
      BY <2>1, <2>3
    <3>2. \/ along[order[i - 1]] > along[order[k - 1]]
          \/ along[order[i - 1]] = along[order[k - 1]] /\ order[i - 1] < order[k - 1]
      BY <1>1, <3>1, UpstreamDescends
    <3>3. /\ w[i] \in V /\ w[k] \in V
          /\ w[i] - 1 = order[i - 1] /\ w[k] - 1 = order[k - 1]
      BY <2>1
    <3> HIDE DEF w
    <3> QED
      BY <1>7, <3>2, <3>3
  <2> QED
    BY <2>2, <2>3 DEF UpwindSorted
<1> HIDE DEF w
<1>9. PICK s : s = SortedUpwind(l, t + 1, d)
  OBVIOUS
<1>10. s \in [1 .. c -> V] /\ UpwindSorted(l, d, s)
  BY <1>4, <1>6, <1>8, <1>9 DEF SortedUpwind
<1> DEFINE r == [k \in 1 .. c |-> s[k] - 1]
<1>11. /\ r \in [1 .. c -> U]
       /\ \A k \in 1 .. c : s[k] \in Int /\ s[k] \in V /\ r[k] = s[k] - 1
  <2> SUFFICES ASSUME NEW k \in 1 .. c
               PROVE  s[k] \in Int /\ s[k] \in V /\ s[k] - 1 \in U
    OBVIOUS
  <2>1. s[k] \in V
    BY <1>10
  <2>2. s[k] - 1 \in U
    BY <1>7, <2>1
  <2>3. s[k] \in Int
    BY <1>15, <2>1, Zenon
  <2> QED
    BY <2>1, <2>2, <2>3
<1> HIDE DEF r
<1>12. ASSUME NEW i \in 1 .. c, NEW k \in 1 .. c, i < k
       PROVE  along[r[i]] > along[r[k]] \/ (along[r[i]] = along[r[k]] /\ r[i] < r[k])
  <2>1. s[i] \in V /\ s[k] \in V /\ UpwindFirst(l, d, s[i], s[k])
    BY <1>10, <1>12 DEF UpwindSorted
  <2>2. r[i] = s[i] - 1 /\ r[k] = s[k] - 1
    BY <1>11
  <2>3. \/ along[s[i] - 1] > along[s[k] - 1]
        \/ along[s[i] - 1] = along[s[k] - 1] /\ s[i] - 1 < s[k] - 1
    BY <1>7, <2>1
  <2> QED
    BY <2>2, <2>3
<1>13. \A k \in 1 .. c : r[k] = order[k - 1]
  <2>1. r \in [1 .. Cardinality(U) -> U]
    BY <1>2, <1>11
  <2>2. Descends(along, r)
    BY <1>11, <1>12 DEF Descends
  <2>3. \A k \in 1 .. Cardinality(U) : r[k] = UpstreamOrder(along)[k - 1]
    <3>1. \A q \in [1 .. Cardinality(U) -> U] :
            Descends(along, q) => \A k \in 1 .. Cardinality(U) : q[k] = UpstreamOrder(along)[k - 1]
      BY UpwindComesFirst, Zenon
    <3> QED
      BY <2>1, <2>2, <3>1, Zenon
  <2> QED
    BY <1>1, <1>2, <2>3
<1>14. \A k \in 1 .. c : s[k] = order[k - 1] + 1
  BY <1>11, <1>13
<1> QED
  BY <1>1, <1>2, <1>9, <1>10, <1>14

-----------------------------------------------------------------------------
(* A row as the abstract specification sees it, from 1.                    *)

RowLayout(row) == BE!Layout(job, row)

\* Its turbine t + 1 is the turbine t of the row.
LEMMA RowLayoutIs ==
  ASSUME Called, NEW row \in Rows
  PROVE  /\ DOMAIN RowLayout(row) = 1 .. n
         /\ \A t \in 0 .. n - 1 :
              /\ RowLayout(row)[t + 1] = LayoutAt(row)[t]
              /\ LayoutAt(row)[t] \in 1 .. GridRows * GridCols
<1>1. n \in Nat \ {0} /\ row \in Int
  BY CallNumbers DEF Rows
<1>2. ASSUME NEW t \in 0 .. n - 1
      PROVE  /\ t + 1 \in 1 .. n /\ t \in Turbines
             /\ RowLayout(row)[t + 1] = Index(row, t)
  <2>1. t + 1 \in 1 .. n /\ row * n \in Int /\ row * n + (t + 1) = row * n + t + 1
    BY <1>1
  <2>2. RowLayout(row)[t + 1] = job.indices[row * n + (t + 1)]
    BY <2>1 DEF RowLayout, BE!Layout, n
  <2> QED
    BY <2>1, <2>2 DEF Index, Turbines
<1>3. \A t \in 0 .. n - 1 : Index(row, t) \in 1 .. GridRows * GridCols
  BY <1>2 DEF Called, Valid, Rows
<1>4. DOMAIN RowLayout(row) = 1 .. n
  BY DEF RowLayout, BE!Layout, n
<1> QED
  BY <1>2, <1>3, <1>4 DEF LayoutAt

\* The coordinates of a cell.
LEMMA CentreIs ==
  ASSUME NEW cell \in Nat \ {0}
  PROVE  CentreX(cell) = XOf(cell) /\ CentreY(cell) = YOf(cell) /\ XOf(cell) \in Int /\ YOf(cell) \in Int
<1>1. GridCols \in Nat \ {0}
  BY WakeAssumption
<1>2. PICK k \in Nat : k = cell - 1
  OBVIOUS
<1>3. /\ k \div GridCols \in Nat /\ k % GridCols \in 0 .. GridCols - 1
      /\ k = (k \div GridCols) * GridCols + (k % GridCols)
  BY <1>1
<1>4. (k \div GridCols) * GridCols \in Int
  BY <1>1, <1>3
<1>5. k % GridCols = k - (k \div GridCols) * GridCols
  BY <1>3, <1>4
<1> QED
  BY <1>2, <1>3, <1>4, <1>5 DEF CentreX, CentreY, XOf, YOf

\* The turbines of a row seen along a direction.
LEMMA RowWind ==
  ASSUME Called, NEW row \in Rows, NEW d \in 0 .. Directions - 1
  PROVE  /\ AlongOf(LayoutAt(row), d) \in [0 .. n - 1 -> Int]
         /\ SameWind(RowLayout(row), n, d + 1, AlongOf(LayoutAt(row), d))
         /\ \A t \in 0 .. n - 1 :
              Across(RowLayout(row)[t + 1], d + 1) = AcrossOf(LayoutAt(row), d)[t]
<1>1. AlongOf(LayoutAt(row), d) \in [0 .. n - 1 -> Int]
  BY AlongNumbers, CallNumbers
<1>2. DOMAIN LayoutAt(row) = 0 .. n - 1
  BY LayoutCells, CallNumbers
<1>3. ASSUME NEW t \in 0 .. n - 1
      PROVE  /\ Across(RowLayout(row)[t + 1], d + 1) = AcrossOf(LayoutAt(row), d)[t]
             /\ Along(RowLayout(row)[t + 1], d + 1) = AlongOf(LayoutAt(row), d)[t]
  <2>1. PICK cell \in Nat \ {0} : cell = LayoutAt(row)[t] /\ cell = RowLayout(row)[t + 1]
    <3>1. GridRows * GridCols \in Nat
      BY WakeAssumption
    <3> QED
      BY <3>1, RowLayoutIs
  <2>2. CentreX(cell) = XOf(cell) /\ CentreY(cell) = YOf(cell)
    BY CentreIs
  <2> QED
    BY <1>2, <2>1, <2>2 DEF Across, Along, AcrossOf, AlongOf
<1>4. DOMAIN RowLayout(row) = 1 .. n
  BY RowLayoutIs
<1> QED
  BY <1>1, <1>3, <1>4 DEF SameWind

\* What a turbine loses to another is a number.
LEMMA LossNumbers ==
  ASSUME Called, NEW row \in Rows, NEW d \in 0 .. Directions - 1,
         NEW t \in 0 .. n - 1, NEW u \in 0 .. n - 1
  PROVE  Deficiency(Distance(AcrossOf(LayoutAt(row), d)[t], AcrossOf(LayoutAt(row), d)[u]),
                    Distance(AlongOf(LayoutAt(row), d)[t], AlongOf(LayoutAt(row), d)[u])) \in Nat
<1>1. d + 1 \in 1 .. Directions
  BY CallNumbers
<1>2. PICK a \in 1 .. GridRows * GridCols, b \in 1 .. GridRows * GridCols :
        a = RowLayout(row)[t + 1] /\ b = RowLayout(row)[u + 1]
  BY RowLayoutIs
<1>3. Deficiency(Distance(Across(a, d + 1), Across(b, d + 1)),
                 Distance(Along(a, d + 1), Along(b, d + 1))) \in Nat
  BY <1>1, WakeShareAssumption
<1>4. /\ Across(a, d + 1) = AcrossOf(LayoutAt(row), d)[t]
      /\ Across(b, d + 1) = AcrossOf(LayoutAt(row), d)[u]
  BY <1>2, RowWind
<1>5. /\ Along(a, d + 1) = AlongOf(LayoutAt(row), d)[t]
      /\ Along(b, d + 1) = AlongOf(LayoutAt(row), d)[u]
  BY <1>2, RowWind DEF SameWind
<1> QED
  BY <1>3, <1>4, <1>5

\* Up to its own place, a turbine meets those strictly upwind and then those level with it.
LEMMA UpwindThenLevel ==
  ASSUME NEW m \in Nat, NEW along \in [0 .. m - 1 -> Int], NEW p \in 0 .. m - 1,
         NEW t \in 0 .. m - 1, t = UpstreamOrder(along)[p]
  PROVE  /\ Cardinality(UpwindSet(along, t)) \in 0 .. p
         /\ \A q \in 0 .. p :
              /\ UpstreamOrder(along)[q] \in 0 .. m - 1
              /\ IF q < Cardinality(UpwindSet(along, t))
                   THEN along[UpstreamOrder(along)[q]] > along[t]
                   ELSE along[UpstreamOrder(along)[q]] = along[t]
<1>1. PICK order : order = UpstreamOrder(along)
  OBVIOUS
<1>2. PICK c \in 0 .. m : c = Cardinality(UpwindSet(along, t))
  BY UpwindComesFirst
<1>3. \A q \in 0 .. m - 1 : order[q] \in 0 .. m - 1 /\ (order[q] \in UpwindSet(along, t) <=> q < c)
  BY <1>1, <1>2, UpwindComesFirst
<1>4. \A u \in 0 .. m - 1 : along[u] \in Int /\ (u \in UpwindSet(along, t) <=> along[u] > along[t])
  BY DEF UpwindSet
<1>5. \A q \in 0 .. m - 1 : order[q] \in 0 .. m - 1 /\ along[order[q]] \in Int
                            /\ (along[order[q]] > along[t] <=> q < c)
  BY <1>3, <1>4
<1>6. c <= p
  <2>1. along[order[p]] = along[t]
    BY <1>1
  <2>2. along[t] \in Int
    OBVIOUS
  <2>3. ~(p < c)
    BY <1>5, <2>1, <2>2
  <2> QED
    BY <2>3
<1>7. ASSUME NEW q \in 0 .. p, ~(q < c) PROVE along[order[q]] = along[t]
  <2>1. q \in 0 .. m - 1 /\ along[t] \in Int
    OBVIOUS
  <2>2. along[order[q]] \in Int /\ ~(along[order[q]] > along[t])
    BY <1>5, <1>7, <2>1
  <2>3. along[order[q]] >= along[order[p]]
    <3>1. CASE q = p
      BY <2>2, <3>1
    <3>2. CASE q < p
      <4>1. along[order[q]] > along[order[p]] \/ along[order[q]] = along[order[p]]
        BY <1>1, <2>1, <3>2, UpstreamDescends
      <4>2. along[order[p]] \in Int
        BY <1>5
      <4> QED
        BY <2>2, <4>1, <4>2
    <3> QED
      BY <3>1, <3>2
  <2>4. along[order[p]] = along[t]
    BY <1>1
  <2> QED
    BY <2>1, <2>2, <2>3, <2>4
<1>8. \A q \in 0 .. p : q \in 0 .. m - 1
  OBVIOUS
<1>9. \A q \in 0 .. p : /\ order[q] \in 0 .. m - 1
                        /\ IF q < c THEN along[order[q]] > along[t] ELSE along[order[q]] = along[t]
  BY <1>5, <1>7, <1>8
<1> QED
  BY <1>1, <1>2, <1>6, <1>9

\* The wind losses of a turbine are those of its place in the order.
LEMMA WindLossesOfRow ==
  ASSUME Called, NEW row \in Rows, NEW d \in 0 .. Directions - 1, NEW t \in 0 .. n - 1
  PROVE  /\ BE!WindLosses(RowLayout(row), t + 1, d + 1) = LossesOf(LayoutAt(row), d, t)
         /\ LossesOf(LayoutAt(row), d, t) \in Seq(Nat)
<1>1. PICK l, across, along, order :
        /\ l = RowLayout(row)
        /\ across = AcrossOf(LayoutAt(row), d) /\ along = AlongOf(LayoutAt(row), d)
        /\ order = OrderFor(LayoutAt(row), d)
  OBVIOUS
<1>2. n \in Nat \ {0} /\ DOMAIN LayoutAt(row) = 0 .. n - 1
  BY CallNumbers, LayoutCells
<1>3. /\ along \in [0 .. n - 1 -> Int] /\ SameWind(l, n, d + 1, along)
      /\ \A u \in 0 .. n - 1 : Across(l[u + 1], d + 1) = across[u]
  BY <1>1, RowWind
<1>4. \A u \in 0 .. n - 1 : Along(l[u + 1], d + 1) = along[u]
  BY <1>3 DEF SameWind
<1>5. order = UpstreamOrder(along)
  BY <1>1 DEF OrderFor
<1>6. PICK p \in 0 .. n - 1 : p = PositionOf(LayoutAt(row), d, t) /\ order[p] = t
  <2>1. \E q \in 0 .. n - 1 : order[q] = t
    BY <1>1, UpstreamSound DEF OrderOf
  <2> QED
    BY <1>1, <1>2, <2>1 DEF PositionOf
<1>7. PICK c \in 0 .. p : c = Cardinality(UpwindSet(along, t))
  BY <1>2, <1>3, <1>5, <1>6, UpwindThenLevel
<1>8. \A q \in 0 .. p : /\ order[q] \in 0 .. n - 1
                        /\ IF q < c THEN along[order[q]] > along[t] ELSE along[order[q]] = along[t]
  <2>1. t = UpstreamOrder(along)[p] /\ n \in Nat
    BY <1>2, <1>5, <1>6
  <2>2. \A q \in 0 .. p :
          /\ UpstreamOrder(along)[q] \in 0 .. n - 1
          /\ IF q < Cardinality(UpwindSet(along, t))
               THEN along[UpstreamOrder(along)[q]] > along[t]
               ELSE along[UpstreamOrder(along)[q]] = along[t]
    BY <1>3, <2>1, UpwindThenLevel, Zenon
  <2> QED
    BY <1>5, <1>7, <2>2
<1> DEFINE Loss(u) == Deficiency(Distance(across[t], across[u]), Distance(along[t], along[u]))
           full == [k \in 1 .. p + 1 |-> Loss(order[k - 1])]
           strict == [k \in 1 .. c |-> Loss(order[k - 1])]
<1>9. \A u \in 0 .. n - 1 : Loss(u) \in Nat
  BY <1>1, LossNumbers
<1>10. \A k \in 1 .. p + 1 : k - 1 \in 0 .. p /\ Loss(order[k - 1]) \in Nat
  <2> HIDE DEF Loss
  <2> SUFFICES ASSUME NEW k \in 1 .. p + 1
               PROVE  k - 1 \in 0 .. p /\ Loss(order[k - 1]) \in Nat
    OBVIOUS
  <2>1. k - 1 \in 0 .. p
    OBVIOUS
  <2> QED
    BY <1>8, <1>9, <2>1
<1>11. \A k \in (c + 1) .. (p + 1) : Loss(order[k - 1]) = 0
  <2> SUFFICES ASSUME NEW k \in (c + 1) .. (p + 1) PROVE Loss(order[k - 1]) = 0
    OBVIOUS
  <2>1. k - 1 \in 0 .. p /\ ~(k - 1 < c)
    OBVIOUS
  <2>2. along[order[k - 1]] = along[t] /\ along[t] \in Int
    BY <1>3, <1>8, <2>1
  <2>3. Distance(along[t], along[order[k - 1]]) = 0
    BY <2>2 DEF Distance
  <2> QED
    BY <2>3 DEF Deficiency
<1>12. BE!WindLosses(l, t + 1, d + 1) = NonZero(strict)
  <2>1. PICK s : s = SortedUpwind(l, t + 1, d + 1)
    OBVIOUS
  <2>2. DOMAIN s = 1 .. c /\ \A k \in 1 .. c : s[k] = order[k - 1] + 1
    <3>1. /\ DOMAIN s = 1 .. Cardinality(UpwindSet(along, t))
          /\ \A k \in 1 .. Cardinality(UpwindSet(along, t)) : s[k] = UpstreamOrder(along)[k - 1] + 1
      BY <1>2, <1>3, <2>1, SortedUpwindIs
    <3> QED
      BY <1>5, <1>7, <3>1
  <2>3. ASSUME NEW k \in 1 .. c
        PROVE  LossFrom(l, t + 1, d + 1, s[k]) = Loss(order[k - 1])
    <3>1. k - 1 \in 0 .. p /\ k - 1 < c
      OBVIOUS
    <3>2. PICK u \in 0 .. n - 1 : u = order[k - 1] /\ along[u] > along[t] /\ s[k] = u + 1
      BY <1>8, <2>2, <3>1
    <3>3. along[u] \in Int /\ along[t] \in Int
      BY <1>3
    <3>4. Distance(along[t], along[u]) = along[u] - along[t]
      BY <3>2, <3>3 DEF Distance
    <3>5. /\ Across(l[t + 1], d + 1) = across[t] /\ Across(l[u + 1], d + 1) = across[u]
          /\ Along(l[t + 1], d + 1) = along[t] /\ Along(l[u + 1], d + 1) = along[u]
      BY <1>3, <1>4
    <3> QED
      BY <3>2, <3>4, <3>5 DEF LossFrom
  <2>4. [k \in DOMAIN s |-> LossFrom(l, t + 1, d + 1, s[k])] = strict
    <3> HIDE DEF Loss
    <3> QED
      BY <2>2, <2>3
  <2> QED
    BY <2>1, <2>4, WindLossesAre
<1>13. LossesAt(LayoutAt(row), d, p) = NonZero(full)
  BY <1>1, <1>6 DEF LossesAt, Losses
<1>14. full \in [1 .. p + 1 -> Nat] /\ strict \in [1 .. c -> Nat]
  <2> HIDE DEF Loss
  <2>1. \A k \in 1 .. c : k \in 1 .. p + 1
    OBVIOUS
  <2> QED
    BY <1>10, <2>1
<1>15. p + 1 \in Nat /\ c \in 0 .. p + 1 /\ c \in Nat
  OBVIOUS
<1>16. NonZero(full) = NonZero(strict)
  <2>1. \A k \in 1 .. c : strict[k] = full[k]
    <3> HIDE DEF Loss
    <3> QED
      OBVIOUS
  <2>2. \A k \in (c + 1) .. (p + 1) : full[k] = 0
    <3> HIDE DEF Loss
    <3>1. \A k \in (c + 1) .. (p + 1) : k \in 1 .. p + 1
      OBVIOUS
    <3> QED
      BY <1>11, <3>1
  <2> HIDE DEF full, strict
  <2> QED
    BY <1>14, <1>15, <2>1, <2>2, NonZeroPrefix
<1>17. LossesOf(LayoutAt(row), d, t) = NonZero(strict)
  <2>1. CASE p = 0
    <3>1. c = 0
      BY <2>1
    <3>2. NonZero(strict) = <<>>
      <4> HIDE DEF strict
      <4> QED
        BY <1>14, <3>1, NonZeroOfNothing
    <3> HIDE DEF strict
    <3> QED
      BY <1>6, <2>1, <3>2 DEF LossesOf
  <2>2. CASE p # 0
    <3> HIDE DEF full, strict
    <3> QED
      BY <1>6, <1>13, <1>16, <2>2 DEF LossesOf
  <2> QED
    BY <2>1, <2>2
<1>18. NonZero(strict) \in Seq(Nat)
  <2> HIDE DEF strict
  <2> QED
    BY <1>14, <1>15, NonZeroNumbers
<1> HIDE DEF strict
<1> QED
  BY <1>1, <1>12, <1>17, <1>18

-----------------------------------------------------------------------------
(* The power of a row.                                                     *)

\* The yield of a turbine, and its power, a number.
LEMMA YieldOfRow ==
  ASSUME Called, NEW row \in Rows, NEW t \in 0 .. n - 1
  PROVE  /\ BE!TurbineYield(RowLayout(row), t + 1) = YieldOf(LayoutAt(row), t)
         /\ PowerValue(YieldOf(LayoutAt(row), t)) \in Int
<1>1. Directions \in Nat \ {0} /\ Speeds \in Nat \ {0} /\ Directions * Speeds \in Nat
  BY CallNumbers
<1>2. ASSUME NEW k \in 1 .. Directions * Speeds
      PROVE  (k - 1) \div Speeds \in 0 .. Directions - 1 /\ (k - 1) % Speeds \in 0 .. Speeds - 1
  <2>1. k - 1 \in 0 .. Directions * Speeds - 1
    BY <1>1
  <2> QED
    BY <1>1, <2>1, Decoded
<1>3. ASSUME NEW k \in 1 .. Directions * Speeds
      PROVE  /\ BE!WindLosses(RowLayout(row), t + 1, (k - 1) \div Speeds + 1)
                  = LossesOf(LayoutAt(row), (k - 1) \div Speeds, t)
             /\ LossesOf(LayoutAt(row), (k - 1) \div Speeds, t) \in Seq(Nat)
  BY <1>2, WindLossesOfRow
<1>4. BE!TurbineYield(RowLayout(row), t + 1) = YieldOf(LayoutAt(row), t)
  BY <1>3, TurbineYieldIs DEF YieldOf
<1>5. ASSUME NEW k \in 1 .. Directions * Speeds
      PROVE  AddendValue(YieldOf(LayoutAt(row), t)[k]) \in Int
  <2>1. YieldOf(LayoutAt(row), t)[k] =
          Addend(LossesOf(LayoutAt(row), (k - 1) \div Speeds, t), (k - 1) \div Speeds, (k - 1) % Speeds)
    BY DEF YieldOf
  <2> QED
    BY <1>2, <1>3, <2>1, AddendsAreNumbers
<1>6. DOMAIN YieldOf(LayoutAt(row), t) = 1 .. Directions * Speeds
  BY DEF YieldOf
<1>7. PowerValue(YieldOf(LayoutAt(row), t)) \in Int
  BY <1>1, <1>5, <1>6, PowerSumsAreNumbers
<1> QED
  BY <1>4, <1>7

\* Turbines from the weakest to the strongest, numbered from 1, are those of
\* the stable sort, one further.
LEMMA WeakestFirstIsOrder ==
  ASSUME NEW m \in Nat, NEW power \in [0 .. m - 1 -> Int], NEW l, DOMAIN l = 1 .. m,
         \A t \in 0 .. m - 1 : YieldValue(l, t + 1) = power[t]
  PROVE  /\ DOMAIN BE!WeakestFirst(l) = 1 .. m
         /\ \A k \in 1 .. m : BE!WeakestFirst(l)[k] = StableOrder(power)[k - 1] + 1
<1>1. PICK order : order = StableOrder(power)
  OBVIOUS
<1>2. \A p \in 0 .. m - 1 : order[p] \in 0 .. m - 1
  BY <1>1, StableOrderRank
<1>3. Cardinality(0 .. m - 1) = m /\ Cardinality(1 .. m) = m
  BY FS_Interval
<1> DEFINE Weaker(u, v) == \/ YieldValue(l, u) < YieldValue(l, v)
                           \/ YieldValue(l, u) = YieldValue(l, v) /\ u < v
<1>4. ASSUME NEW u \in 0 .. m - 1, NEW v \in 0 .. m - 1
      PROVE  Weaker(u + 1, v + 1) <=> Earlier(power, u, v)
  <2>1. YieldValue(l, u + 1) = power[u] /\ YieldValue(l, v + 1) = power[v]
    OBVIOUS
  <2>2. u + 1 < v + 1 <=> u < v
    OBVIOUS
  <2> QED
    BY <2>1, <2>2 DEF Earlier
<1>5. \A s : WeakerFirst(l, s) <=> \A i, k \in DOMAIN s : i < k => Weaker(s[i], s[k])
  BY DEF WeakerFirst
<1> HIDE DEF Weaker
<1> DEFINE w == [k \in 1 .. m |-> order[k - 1] + 1]
<1>6. w \in [1 .. m -> 1 .. m] /\ WeakerFirst(l, w)
  <2>1. ASSUME NEW k \in 1 .. m
        PROVE  /\ k - 1 \in 0 .. m - 1 /\ order[k - 1] \in 0 .. m - 1
               /\ w[k] = order[k - 1] + 1 /\ w[k] \in 1 .. m
    <3>1. k - 1 \in 0 .. m - 1
      OBVIOUS
    <3>2. order[k - 1] \in 0 .. m - 1
      BY <1>2, <3>1
    <3>3. order[k - 1] + 1 \in 1 .. m
      BY <3>2
    <3> QED
      BY <3>1, <3>2, <3>3
  <2>2. w \in [1 .. m -> 1 .. m]
    BY <2>1
  <2>3. ASSUME NEW i \in 1 .. m, NEW k \in 1 .. m, i < k PROVE Weaker(w[i], w[k])
    <3>1. i - 1 \in 0 .. m - 1 /\ k - 1 \in 0 .. m - 1 /\ i - 1 < k - 1
      BY <2>1, <2>3
    <3>2. Earlier(power, order[i - 1], order[k - 1])
      BY <1>1, <3>1, StableOrderAscends
    <3>3. Weaker(order[i - 1] + 1, order[k - 1] + 1)
      BY <1>4, <2>1, <3>2
    <3> QED
      BY <2>1, <3>3
  <2>4. DOMAIN w = 1 .. m
    OBVIOUS
  <2> HIDE DEF w
  <2> QED
    BY <1>5, <2>2, <2>3, <2>4
<1> HIDE DEF w
<1>7. PICK s : s = BE!WeakestFirst(l)
  OBVIOUS
<1>8. s \in [1 .. m -> 1 .. m] /\ WeakerFirst(l, s)
  <2>1. s = CHOOSE q \in [1 .. m -> 1 .. m] : WeakerFirst(l, q)
    BY <1>3, <1>7, WeakestFirstIs
  <2> QED
    BY <1>6, <2>1
<1> DEFINE r == [k \in 1 .. m |-> s[k] - 1]
<1>9. /\ r \in [1 .. m -> 0 .. m - 1]
      /\ \A k \in 1 .. m : s[k] \in Int /\ r[k] \in 0 .. m - 1 /\ s[k] = r[k] + 1
  <2>1. \A k \in 1 .. m : s[k] \in 1 .. m
    BY <1>8
  <2>2. \A k \in 1 .. m : s[k] \in Int /\ s[k] - 1 \in 0 .. m - 1 /\ s[k] = (s[k] - 1) + 1
    BY <2>1
  <2> QED
    BY <2>2
<1> HIDE DEF r
<1>10. Ascends(power, r)
  <2>1. ASSUME NEW i \in 1 .. m, NEW k \in 1 .. m, i < k PROVE Earlier(power, r[i], r[k])
    <3>1. Weaker(s[i], s[k])
      BY <1>5, <1>8, <2>1
    <3> QED
      BY <1>4, <1>9, <3>1
  <2> QED
    BY <1>9, <2>1 DEF Ascends
<1>11. \A k \in 1 .. m : r[k] = order[k - 1]
  <2>1. PICK U : U = 0 .. m - 1
    OBVIOUS
  <2>2. U \in SUBSET (0 .. m - 1) /\ Cardinality(U) = m
    BY <1>3, <2>1
  <2>3. WithEarlier(m, power, U)
    BY <2>1 DEF WithEarlier
  <2>4. r \in [1 .. Cardinality(U) -> U]
    BY <1>9, <2>1, <2>2
  <2>5. \A k \in 1 .. Cardinality(U) : r[k] = StableOrder(power)[k - 1]
    BY <1>10, <2>2, <2>3, <2>4, SortedIsOrder
  <2> QED
    BY <1>1, <2>2, <2>5
<1> QED
  BY <1>1, <1>7, <1>8, <1>9, <1>11

\* A row is answered as promised.
LEMMA RowAnswered ==
  ASSUME Called, NEW row \in Rows
  PROVE  BE!RowAnswer(RowLayout(row), job.detail) = AnswerTo(row)
<1>1. PICK l, l0, power, order :
        /\ l = RowLayout(row) /\ l0 = LayoutAt(row)
        /\ power = [t \in DOMAIN l0 |-> PowerValue(YieldsOf(l0)[t])]
        /\ order = WeakestOf(l0)
  OBVIOUS
<1>2. n \in Nat /\ DOMAIN l0 = 0 .. n - 1 /\ DOMAIN l = 1 .. n
  BY <1>1, CallNumbers, LayoutCells, RowLayoutIs
<1>3. \A t \in 0 .. n - 1 :
        /\ YieldsOf(l0)[t] = YieldOf(l0, t)
        /\ BE!TurbineYield(l, t + 1) = YieldsOf(l0)[t]
        /\ power[t] \in Int /\ power[t] = PowerValue(YieldsOf(l0)[t])
        /\ YieldValue(l, t + 1) = power[t]
        /\ l[t + 1] = Index(row, t)
  <2> SUFFICES ASSUME NEW t \in 0 .. n - 1
               PROVE  /\ YieldsOf(l0)[t] = YieldOf(l0, t)
                      /\ BE!TurbineYield(l, t + 1) = YieldsOf(l0)[t]
                      /\ power[t] \in Int /\ power[t] = PowerValue(YieldsOf(l0)[t])
                      /\ YieldValue(l, t + 1) = power[t]
                      /\ l[t + 1] = Index(row, t)
    OBVIOUS
  <2>1. YieldsOf(l0)[t] = YieldOf(l0, t)
    BY <1>2 DEF YieldsOf
  <2>2. BE!TurbineYield(l, t + 1) = YieldOf(l0, t) /\ PowerValue(YieldOf(l0, t)) \in Int
    BY <1>1, YieldOfRow
  <2>3. power[t] = PowerValue(YieldsOf(l0)[t])
    BY <1>1, <1>2
  <2>4. YieldValue(l, t + 1) = PowerValue(YieldOf(l0, t))
    BY <2>2 DEF YieldValue
  <2>5. t \in Turbines
    BY CallNumbers
  <2>6. l[t + 1] = Index(row, t)
    BY <1>1, <2>5, RowLayoutIs, LayoutCells
  <2> QED
    BY <2>1, <2>2, <2>3, <2>4, <2>6
<1>4. power \in [0 .. n - 1 -> Int]
  BY <1>1, <1>2, <1>3
<1>5. order = StableOrder(power)
  BY <1>1 DEF WeakestOf
<1>6. \A p \in 0 .. n - 1 : order[p] \in 0 .. n - 1
  BY <1>2, <1>4, <1>5, StableOrderRank
<1>7. PICK s : s = BE!WeakestFirst(l)
  OBVIOUS
<1>8. DOMAIN s = 1 .. n /\ \A k \in 1 .. n : s[k] = order[k - 1] + 1
  BY <1>2, <1>3, <1>4, <1>5, <1>7, WeakestFirstIsOrder
<1>9. ASSUME NEW k \in 1 .. n
      PROVE  /\ YieldValue(l, s[k]) = PowerValue(YieldsOf(l0)[order[k - 1]])
             /\ BE!TurbineYield(l, s[k]) = YieldsOf(l0)[order[k - 1]]
             /\ l[s[k]] = Index(row, order[k - 1])
  <2>1. k - 1 \in 0 .. n - 1
    BY <1>2
  <2>2. PICK t \in 0 .. n - 1 : t = order[k - 1] /\ s[k] = t + 1
    BY <1>6, <1>8, <2>1
  <2> QED
    BY <1>3, <2>2
<1>10. BE!RowAnswer(l, job.detail) =
         [fitness |-> [k \in 1 .. n |-> YieldValue(l, s[k])],
          ranked  |-> IF job.detail = "TotalAndPerTurbine"
                        THEN [k \in 1 .. n |-> [power |-> BE!TurbineYield(l, s[k]), cell |-> l[s[k]]]]
                        ELSE <<>>]
  BY <1>7, <1>8, RowAnswerIs
<1>11. AnswerTo(row) =
         [fitness |-> [k \in 1 .. n |-> PowerValue(YieldsOf(l0)[order[k - 1]])],
          ranked  |-> IF job.detail = "TotalAndPerTurbine"
                        THEN [k \in 1 .. n |-> [power |-> YieldsOf(l0)[order[k - 1]],
                                                cell  |-> Index(row, order[k - 1])]]
                        ELSE <<>>]
  BY <1>1 DEF AnswerTo
<1>12. [k \in 1 .. n |-> YieldValue(l, s[k])] =
         [k \in 1 .. n |-> PowerValue(YieldsOf(l0)[order[k - 1]])]
  BY <1>9
<1>13. [k \in 1 .. n |-> [power |-> BE!TurbineYield(l, s[k]), cell |-> l[s[k]]]] =
         [k \in 1 .. n |-> [power |-> YieldsOf(l0)[order[k - 1]], cell |-> Index(row, order[k - 1])]]
  BY <1>9
<1> QED
  BY <1>1, <1>10, <1>11, <1>12, <1>13

\* The call refuses what is not feasible, and nothing else.
LEMMA ValidIsFeasible ==
  ASSUME job \in Jobs
  PROVE  BE!Feasible(job) <=> Valid
<1>1. n = job.turbines /\ n \in Nat \ {0} /\ Turbines = 0 .. n - 1
  BY EvaluatorAssumption DEF n, Turbines
<1>2. ASSUME NEW row \in 0 .. job.batch - 1
      PROVE  /\ DOMAIN BE!Layout(job, row) = 1 .. n
             /\ \A t \in Turbines : t + 1 \in 1 .. n /\ BE!Layout(job, row)[t + 1] = Index(row, t)
             /\ \A t \in 1 .. n : t - 1 \in Turbines /\ BE!Layout(job, row)[t] = Index(row, t - 1)
  <2>1. row * n \in Int
    BY <1>1
  <2>2. ASSUME NEW t \in 1 .. n
        PROVE  t - 1 \in Turbines /\ BE!Layout(job, row)[t] = Index(row, t - 1)
    <3>1. t - 1 \in Turbines /\ row * n + (t - 1) + 1 = row * n + t
      BY <1>1, <2>1
    <3>2. BE!Layout(job, row)[t] = job.indices[row * n + t]
      BY <1>1 DEF BE!Layout
    <3> QED
      BY <3>1, <3>2 DEF Index
  <2>3. ASSUME NEW t \in Turbines
        PROVE  t + 1 \in 1 .. n /\ BE!Layout(job, row)[t + 1] = Index(row, t)
    <3>1. t + 1 \in 1 .. n /\ (t + 1) - 1 = t
      BY <1>1
    <3> QED
      BY <2>2, <3>1
  <2>4. DOMAIN BE!Layout(job, row) = 1 .. n
    BY <1>1 DEF BE!Layout
  <2> QED
    BY <2>2, <2>3, <2>4
<1>3. ASSUME NEW row \in 0 .. job.batch - 1
      PROVE  (\A t \in 1 .. n : BE!Layout(job, row)[t] \in 1 .. GridRows * GridCols)
               <=> (\A t \in Turbines : Index(row, t) \in 1 .. GridRows * GridCols)
  BY <1>2
<1>4. ASSUME NEW row \in 0 .. job.batch - 1
      PROVE  BE!IsInjective(BE!Layout(job, row))
               <=> (\A t, u \in Turbines : t # u => Index(row, t) # Index(row, u))
  <2>1. BE!IsInjective(BE!Layout(job, row))
          <=> \A t, u \in 1 .. n : BE!Layout(job, row)[t] = BE!Layout(job, row)[u] => t = u
    BY <1>2 DEF BE!IsInjective
  <2>2. ASSUME \A t, u \in 1 .. n : BE!Layout(job, row)[t] = BE!Layout(job, row)[u] => t = u,
               NEW t \in Turbines, NEW u \in Turbines, Index(row, t) = Index(row, u)
        PROVE  t = u
    <3>1. t + 1 = u + 1
      BY <1>2, <2>2
    <3> QED
      BY <1>1, <3>1
  <2>3. ASSUME \A t, u \in Turbines : t # u => Index(row, t) # Index(row, u),
               NEW t \in 1 .. n, NEW u \in 1 .. n, BE!Layout(job, row)[t] = BE!Layout(job, row)[u]
        PROVE  t = u
    <3>1. t - 1 \in Turbines /\ u - 1 \in Turbines /\ Index(row, t - 1) = Index(row, u - 1)
      BY <1>2, <2>3
    <3>2. t - 1 = u - 1
      BY <2>3, <3>1
    <3> QED
      BY <1>1, <3>2
  <2> QED
    BY <2>1, <2>2, <2>3
<1>5. BE!Feasible(job) <=>
        /\ job.batch > 0
        /\ Len(job.indices) = job.batch * n
        /\ \A row \in 0 .. job.batch - 1 :
             /\ \A t \in 1 .. n : BE!Layout(job, row)[t] \in 1 .. GridRows * GridCols
             /\ BE!IsInjective(BE!Layout(job, row))
  BY <1>1 DEF BE!Feasible
<1> QED
  BY <1>3, <1>4, <1>5 DEF Valid

\* Every step is invisible to the caller, or is the one reply.
LEMMA StepImplements ==
  ASSUME EInv, EInv', [Next]_vars
  PROVE  [BE!Reply]_<<job, VisibleAnswer>>
<1> DEFINE Quiet == job' = job /\ ((pc' = pc /\ pc \notin {"returned", "invalid_argument"})
                                   \/ UNCHANGED vars
                                   \/ (pc = "called" /\ pc' = "stages"))
<1>1. CASE Quiet
  <2>1. VisibleAnswer' = VisibleAnswer
    BY <1>1 DEF VisibleAnswer, Result, n, vars
  <2> QED
    BY <1>1, <2>1
<1>2. CASE Reject
  <2>1. job' = job /\ pc = "called" /\ pc' = "invalid_argument" /\ ~Valid
    BY <1>2 DEF Reject
  <2>2. VisibleAnswer = BE!Unanswered
    BY <2>1 DEF VisibleAnswer, BE!Unanswered
  <2>3. VisibleAnswer' = [status |-> "invalid_argument", rows |-> <<>>]
    BY <2>1 DEF VisibleAnswer
  <2>4. BE!Answer(job) = [status |-> "invalid_argument", rows |-> <<>>]
    <3>1. ~BE!Feasible(job)
      BY <2>1, ValidIsFeasible DEF EInv
    <3> QED
      BY <3>1 DEF BE!Answer
  <2>5. VisibleAnswer' # BE!Unanswered
    BY <2>3 DEF BE!Unanswered
  <2> QED
    BY <2>1, <2>2, <2>3, <2>4, <2>5 DEF BE!Reply
<1>3. CASE ReturnResult
  <2>1. job' = job /\ memory' = memory /\ pc = "stages" /\ pc' = "returned"
    BY <1>3 DEF ReturnResult
  <2>2. VisibleAnswer = BE!Unanswered
    BY <2>1 DEF VisibleAnswer, BE!Unanswered
  <2>3. Called /\ AllAnswered
    BY <1>3, <2>1 DEF EInv, Called, StageInv, ReturnResult
  <2>4. VisibleAnswer' = [status |-> "returned", rows |-> [r \in 1 .. job.batch |-> Result(r - 1)']]
    BY <2>1 DEF VisibleAnswer
  <2>5. \A r \in 1 .. job.batch : Result(r - 1)' = BE!RowAnswer(BE!Layout(job, r - 1), job.detail)
    <3> SUFFICES ASSUME NEW r \in 1 .. job.batch
                 PROVE  Result(r - 1)' = BE!RowAnswer(BE!Layout(job, r - 1), job.detail)
      OBVIOUS
    <3>1. r - 1 \in Rows
      BY <2>3, CallNumbers DEF Rows
    <3>2. Result(r - 1) = AnswerTo(r - 1)
      BY <2>3, <3>1 DEF AllAnswered
    <3>3. Result(r - 1)' = Result(r - 1)
      BY <2>1 DEF Result, n
    <3>4. BE!RowAnswer(BE!Layout(job, r - 1), job.detail) = AnswerTo(r - 1)
      BY <2>3, <3>1, RowAnswered DEF RowLayout
    <3> QED
      BY <3>2, <3>3, <3>4
  <2>6. BE!Answer(job) =
          [status |-> "returned",
           rows   |-> [r \in 1 .. job.batch |-> BE!RowAnswer(BE!Layout(job, r - 1), job.detail)]]
    <3>1. BE!Feasible(job)
      BY <2>3, ValidIsFeasible DEF Called
    <3> QED
      BY <3>1 DEF BE!Answer
  <2>7. VisibleAnswer' = BE!Answer(job)
    BY <2>4, <2>5, <2>6
  <2>8. VisibleAnswer' # BE!Unanswered
    BY <2>4 DEF BE!Unanswered
  <2> QED
    BY <2>1, <2>2, <2>7, <2>8 DEF BE!Reply
<1>4. CASE Enter
  BY <1>1, <1>4 DEF Enter
<1>5. CASE CallParallelFor
  <2>1. job' = job /\ pc' = pc /\ pc = "stages"
    BY <1>5 DEF CallParallelFor, AtLoop
  <2> QED
    BY <1>1, <2>1
<1>6. CASE \E i \in todo : Begin(i)
  <2>1. job' = job /\ pc' = pc /\ pc = "stages"
    BY <1>6 DEF Begin, EInv
  <2> QED
    BY <1>1, <2>1
<1>7. CASE \E i \in todo : End(i)
  <2>1. job' = job /\ pc' = pc /\ pc = "stages"
    BY <1>7 DEF End, FJ!Finish, EInv
  <2> QED
    BY <1>1, <2>1
<1>8. CASE ReturnFromParallelFor
  <2>1. job' = job /\ pc' = pc /\ pc = "stages"
    BY <1>8 DEF ReturnFromParallelFor, FJ!Return, EInv
  <2> QED
    BY <1>1, <2>1
<1>9. CASE SerialIndex \/ SerialEnd
  <2>1. job' = job /\ pc' = pc /\ pc = "stages"
    BY <1>9 DEF SerialIndex, SerialEnd, AtLoop
  <2> QED
    BY <1>1, <2>1
<1>10. CASE Ended \/ UNCHANGED vars
  BY <1>1, <1>10 DEF Ended, vars
<1> QED
  BY <1>2, <1>3, <1>4, <1>5, <1>6, <1>7, <1>8, <1>9, <1>10 DEF Next

\* evaluate_population_hpc implements what BatchEvaluation promises, for any number of
\* threads, either schedule, any grid, wind and batch: its one visible step replies with the
\* physics of each layout, every addend in its order, or refuses exactly what is not feasible.
THEOREM EvaluatorIsBatchEvaluation == Spec => ImplementsBatchEvaluation
<1>1. Init => BE!BEInit
  BY DEF Init, BE!BEInit, VisibleAnswer, BE!Unanswered
<1>2. EInv /\ EInv' /\ [Next]_vars => [BE!Reply]_<<job, VisibleAnswer>>
  BY StepImplements
<1> QED
  BY <1>1, <1>2, EInvAlways, PTL DEF Spec, ImplementsBatchEvaluation, BE!BESpec
=============================================================================
