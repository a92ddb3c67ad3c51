---------------------------- MODULE MCFrontFamily ----------------------------
\* Instances of FrontFamily for TLC: a case and small parameters for each search.
EXTENDS FrontFamily, TLC

CONSTANTS a, b, c, d

\* Two extremes, a compromise that ties with one of them, and a layout it dominates.
Tradeoff == (a :> <<1, 3, 2>>) @@ (b :> <<3, 1, 2>>) @@ (c :> <<2, 2, 2>>) @@ (d :> <<2, 4, 3>>)

OnTradeoff(size, generations) ==
  [layouts |-> {a, b, c, d}, axes |-> 3, objective |-> Tradeoff, size |-> size,
   generations |-> generations]

\* The same for two objectives: three on the front, one behind.
OnPlane(size, budget) ==
  [layouts |-> {a, b, c, d}, axes |-> 2, size |-> size, budget |-> budget,
   objective |-> (a :> <<1, 3>>) @@ (b :> <<3, 1>>) @@ (c :> <<2, 2>>) @@ (d :> <<2, 3>>)]

\* The layouts of some turbines on n cells.
OnCells(n, turbines, objective) ==
  [layouts |-> kSubset(turbines, 1 .. n), cells |-> 1 .. n, turbines |-> turbines, axes |-> 3,
   objective |-> objective]

\* Two of three cells: two extremes and a compromise that ties with one of them.
OfThree == OnCells(3, 2, ({2, 3} :> <<1, 3, 2>>) @@ ({1, 3} :> <<3, 1, 2>>) @@ ({1, 2} :> <<2, 2, 2>>))

\* Two of four cells, so that different layouts may leave a cell to neither: three
\* extremes, a compromise that their crossovers lead to, which makes one point more than
\* an archive of three holds, and two that are dominated.
OfFour ==
  OnCells(4, 2, ({1, 4} :> <<1, 3, 3>>) @@ ({2, 4} :> <<3, 1, 3>>) @@ ({3, 4} :> <<3, 3, 1>>)
                  @@ ({1, 2} :> <<2, 2, 2>>) @@ ({2, 3} :> <<2, 3, 3>>) @@ ({1, 3} :> <<3, 3, 3>>))

\* Three weight vectors, the last nearer to the first.
Weighted ==
  [weight |-> <<<<4, 1, 1>>, <<1, 4, 1>>, <<3, 2, 1>>>>,
   neighborhood |-> <<<<1, 3, 2>>, <<2, 3, 1>>, <<3, 1, 2>>>>]

Cases ==
  [nsgaii |-> OfThree @@ [size |-> 6, generations |-> 2],
   tmoea |-> OnPlane(4, 10),
   armoea |-> OfFour @@ [size |-> 3, generations |-> 2, perWeight |-> 1, narrow |-> 2, unit |-> 3],
   mopso |-> OnTradeoff(2, 3),
   morime |-> OnTradeoff(2, 3),
   moead |-> OnTradeoff(3, 2) @@ Weighted,
   moead_p |-> OnTradeoff(3, 2) @@ Weighted]

EverySearch == Cases
=============================================================================
