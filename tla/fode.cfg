SPECIFICATION FairSpec
CONSTANTS
  poor = poor
  good = good
  fine = fine
  InitialSize = 4
  Floor = 3
  Budget = 23
  ArchivePercent = 40
  Depth = 2
  Layouts = {poor, good, fine}
  Power <- PowerOfThree
INVARIANTS RowsAligned BestCoversSearch ArchiveSound DrawsPossible
PROPERTIES RunEnds EliteKept ImplementsFixedWork
