SPECIFICATION Spec
CONSTANTS
  NoFile = NoFile
  Empty = Empty
  Versions = {v1, v2}
  v1 = v1
  v2 = v2
  AdmissionFiles = 2
  PerformanceFiles = 1
  FormalFiles = 1
  Changes = 2
INVARIANTS FormalFollowsGates
