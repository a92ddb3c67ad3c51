SPECIFICATION Spec
CONSTANTS
  Workers = {}
  Caller = main
  Ranges <- AllRanges
  MaxCalls = 2
  SpinLimit = 1
INVARIANTS DoneOnReturn
