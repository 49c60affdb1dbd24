SPECIFICATION FairSpec
CONSTANTS
  c1 = c1
  c2 = c2
  Clients = {c1, c2}
  MaxCalls = 1
  LazyRestore = TRUE
  RestoreMayFail = FALSE
PROPERTY ImplementsFairRpc
