SPECIFICATION CommandSpec
CONSTANTS
  Absent = Absent
  Cases <- TwoCases
  Requests <- AllRequests
  Invocations = 2
INVARIANTS OutputWhole PairsAsRegistered
