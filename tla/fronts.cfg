SPECIFICATION Spec
CONSTANTS
  a = a
  b = b
  c = c
  d = d
  Setting <- EverySearch
INVARIANTS LeadersSound IdealRemembered ReportSound CellsInherited
PROPERTIES HoldsWhatItHas ImplementsFrontSearch
