------------------------------- MODULE WakeModel -------------------------------
(***************************************************************************)
(* The wind-farm arithmetic of hpc/fode_cpp/src/evaluator.cpp in integers: *)
(* coordinates in half cells, a rotation as an integer cosine and sine, a  *)
(* wake loss in percent, a velocity in tenths.  A double that is a sum is  *)
(* kept as the sequence of its addends, because the order of an addition   *)
(* decides its rounding; adding 0.0 changes no double, so an addend that   *)
(* is zero is left out.                                                    *)
(***************************************************************************)
EXTENDS Integers, Sequences, FiniteSets, SequencesExt

CONSTANTS
  GridRows, GridCols,   \* rows and cols of the grid of cells
  Theta,                \* <<cosine, sine>> of each wind direction
  Velocity,             \* the wind speeds
  Probability,          \* of each direction and speed, flattened
  WakeShare(_, _)       \* percent lost at a distance across and along the wind

Directions == Len(Theta)
Speeds == Len(Velocity)

ASSUME WakeAssumption ==
  /\ GridRows \in Nat \ {0} /\ GridCols \in Nat \ {0}
  /\ Theta \in Seq(Int \X Int) /\ Directions > 0
  /\ Velocity \in Seq(Nat) /\ Speeds > 0
  /\ Probability \in Seq(Nat)
  /\ Len(Probability) = Directions * Speeds

-----------------------------------------------------------------------------
(* The grid.                                                               *)

\* Centre of a cell, in half cells.
CentreX(cell) == 2 * ((cell - 1) % GridCols) + 1
CentreY(cell) == 2 * ((cell - 1) \div GridCols) + 1

\* The same seen along a wind direction.
Across(cell, d) == Theta[d][1] * CentreX(cell) - Theta[d][2] * CentreY(cell)
Along(cell, d) == Theta[d][2] * CentreX(cell) + Theta[d][1] * CentreY(cell)

Distance(a, b) == IF a > b THEN a - b ELSE b - a

\* A turbine loses nothing to itself nor to one level with it.
Deficiency(dx, dy) == IF dy = 0 THEN 0 ELSE WakeShare(dx, dy)

\* What a turbine in one cell loses to a turbine in another is a number.
ASSUME WakeShareAssumption ==
  \A d \in 1 .. Directions : \A a, b \in 1 .. GridRows * GridCols :
    Deficiency(Distance(Across(a, d), Across(b, d)), Distance(Along(a, d), Along(b, d))) \in Nat

-----------------------------------------------------------------------------
(* Power.                                                                  *)

\* The power curve: v in tenths of a metre per second, 10^-4 kW.
TurbinePower(v) ==
  CASE v < 20 -> 0
    [] v >= 20 /\ v < 128 -> 3 * v * v * v
    [] v >= 128 /\ v < 180 -> 6291000
    [] OTHER -> 0

\* The members of S, each once, in the order Before.
Sorted(S, Before(_, _)) ==
  CHOOSE s \in [1 .. Cardinality(S) -> S] :
    \A i, k \in DOMAIN s : i < k => Before(s[i], s[k])

NonZero(s) == FoldLeft(LAMBDA kept, d : IF d = 0 THEN kept ELSE Append(kept, d), <<>>, s)

SumOfSquares(losses) == FoldLeft(LAMBDA a, d : a + d * d, 0, losses)

\* std::sqrt of a sum of squares, to the percent.
RootOfSquares(losses) ==
  LET sum == SumOfSquares(losses)
  IN  CHOOSE r \in 0 .. sum : r * r <= sum /\ (r + 1) * (r + 1) > sum

\* One addend of the power of a turbine: the wake it stands in for a
\* direction, and a speed.
Addend(losses, direction, speed) ==
  [losses |-> losses, direction |-> direction, speed |-> speed]

AddendValue(a) ==
  TurbinePower(((100 - RootOfSquares(a.losses)) * Velocity[a.speed + 1]) \div 10)
    * Probability[a.direction * Speeds + a.speed + 1]

PowerValue(power) == FoldLeft(LAMBDA s, a : s + AddendValue(a), 0, power)
================================================================================
