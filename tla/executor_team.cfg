SPECIFICATION FairSpec
CONSTANTS
  Workers = {w1, w2}
  Caller = main
  Ranges <- TwoRanges
  MaxCalls = 2
  SpinLimit = 1
INVARIANTS NoFieldRace NoMissedEpoch NoLostWakeup
PROPERTIES EveryCallReturns ImplementsForkJoin
