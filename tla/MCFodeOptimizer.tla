-------------------------- MODULE MCFodeOptimizer ---------------------------
\* Instances of FodeOptimizer for TLC.
EXTENDS FodeOptimizer, TLC

CONSTANTS poor, good, fine

\* good is within five percent of fine, poor is not: a generation that ends on it
\* is not followed by a local search.
PowerOfThree == (poor :> 20) @@ (good :> 39) @@ (fine :> 40)
=============================================================================
