SPECIFICATION FairSpec
CONSTANTS
  Grid = 7
  Blocked = {2, 5}
  Turbines = 4
  DrawLimit = 3
  Longest = 6
  Proposed = {0, 1, 2, 3, 4, 5, 6, 7, 8}
INVARIANTS Feasible ProposalKept
PROPERTIES RepairEnds
