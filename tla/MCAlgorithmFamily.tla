-------------------------- MODULE MCAlgorithmFamily --------------------------
\* Instances of AlgorithmFamily for TLC: a case and small parameters for each search.
EXTENDS AlgorithmFamily, TLC

CONSTANTS poor, fair, good, fine

OnThree == [layouts |-> {poor, good, fine}, power |-> (poor :> 1) @@ (good :> 2) @@ (fine :> 3)]

OnFour == [layouts |-> {poor, fair, good, fine},
           power |-> (poor :> 1) @@ (fair :> 2) @@ (good :> 3) @@ (fine :> 4)]

Reduced(size, allowed) ==
  OnThree @@ [size |-> size, floor |-> 3, percent |-> 40, budgets |-> allowed]

\* The cosine plan, rounded, from 4 rows to 3 in 10 evaluations.
HalfWay == [spent \in 0 .. 10 |-> IF spent <= 5 THEN 4 ELSE 3]

InClusters ==
  OnFour @@ [size |-> 4, floor |-> 3, percent |-> 40, restart |-> 40, plan |-> HalfWay,
             budgets |-> {10}]

Fixed(size, half, elite, allowed) ==
  OnThree @@ [size |-> size, half |-> half, elite |-> elite, budgets |-> {allowed}]

Moving(size, stagnant, drawn, allowed) ==
  OnThree @@ [size |-> size, stagnant |-> stagnant, drawn |-> drawn, budgets |-> allowed]

\* Powers with ties, and a least productive cell that is not always at the same place.
OnRows(turbines, free, allowed) ==
  LET rows == {row \in [1 .. turbines -> free] : \A d \in 2 .. turbines : row[d - 1] < row[d]}
  IN [layouts |-> rows, free |-> free, turbines |-> turbines,
      size |-> 2, elite |-> 1, budgets |-> allowed,
      power |-> [row \in rows |-> 1 + ((row[1] + row[2]) % 3)],
      worst |-> [row \in rows |-> row[1 + ((row[1] + row[2]) % 2)]]]

Cases ==
  [lshade |-> Reduced(5, {13}), clshade |-> Reduced(4, {16}), alshade |-> Reduced(4, {12}),
   msshade |-> Reduced(4, {13}), wfadde |-> Reduced(4, {15}), cede |-> Reduced(4, {18, 19}),
   lsde |-> InClusters, ise |-> Fixed(5, 1, 1, 8), bde |-> Fixed(4, 2, 1, 9),
   aiga |-> Fixed(4, 1, 1, 10), ciga |-> Fixed(3, 1, 1, 7), ppga |-> Fixed(4, 1, 2, 10),
   agpso |-> Moving(3, 1, 2, {14}), cgpso |-> Moving(2, 2, 1, {17}), hgpso |-> Moving(3, 1, 2, {14, 15, 16}),
   aga |-> OnRows(2, {1, 2, 4, 5}, {2, 3}), sugga |-> OnRows(3, {1, 2, 4, 5}, {2, 3, 4}),
   gga |-> Fixed(3, 1, 1, 8), geoga |-> Fixed(3, 1, 1, 8)]

EverySearch == [a \in DOMAIN Cases |-> Cases[a]]

OnlyCede == [a \in {"cede"} |-> Reduced(3, {6})]
=============================================================================
