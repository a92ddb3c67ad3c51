SPECIFICATION FairSpec
CONSTANTS
  Runs = {l1, l2}
  l1 = l1
  l2 = l2
  Controllers = {d1}
  d1 = d1
  Campaigns <- TwoCampaigns
  Seeds = 2
  Heads = 2
  Staged = {"common"}
  HashesEnvironment = {"bde", "offshore"}
  RebuildsItself = {"pbea", "offshore"}
  NoFile = NoFile
  Empty = Empty
  NoStatus = NoStatus
CHECK_DEADLOCK FALSE
INVARIANTS OneSuiteAtATime CompletedIsBacked OneHeadPerAnalysis
PROPERTIES AcceptedWorkKept ImplementsResumableWork LockFreed
