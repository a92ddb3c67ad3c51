SPECIFICATION Spec
CONSTANTS
  poor = poor
  fair = fair
  good = good
  fine = fine
  NoLayout = NoLayout
  Setting <- EverySearch
INVARIANTS ParallelVectors BestKept MemorySound
PROPERTIES GroundIsKept WeakestLeaves ImplementsFixedWork
