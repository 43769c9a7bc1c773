\* Two request threads over three commits.
CONSTANTS
  Threads = {t1, t2}
  MaxVersion = 3
  MaxRetries = 2
  Anchor = a
  Target = n
  n = n
  NodesAt <- MCNodesAt
  Reach <- MCNodesAt
  NoThread = NoThread
  Nothing = Nothing
SPECIFICATION Spec
INVARIANTS
  IndexNotAhead
  FailuresExplained
PROPERTIES
  ImplementsFreshReads
  CachesMoveForward
  RequestsFinish
