SPECIFICATION Spec
CONSTANTS
  Threads = 3
  GridRows = 2
  GridCols = 3
  Theta <- MCTheta
  Velocity <- MCVelocity
  Probability <- MCProbability
  WakeShare <- MCWakeShare
  Jobs <- MCJobs
INVARIANTS
  ReadsAreStable
  WritesApart
PROPERTIES
  ImplementsBatchEvaluation
