SPECIFICATION Spec
CONSTANTS
  Runs = {l1, l2}
  l1 = l1
  l2 = l2
  Controllers = {d1, d2}
  d1 = d1
  d2 = d2
  Campaigns <- OneCampaign
  Seeds = 2
  Heads = 2
  Staged = {"common"}
  HashesEnvironment = {"bde", "offshore"}
  RebuildsItself = {"pbea", "offshore"}
  NoFile = NoFile
  Empty = Empty
  NoStatus = NoStatus
CHECK_DEADLOCK FALSE
SYMMETRY Interchangeable
INVARIANTS ResultsFromRecordedHead
