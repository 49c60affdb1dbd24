SPECIFICATION FairSpec
CONSTANTS
  d1 = d1
  d2 = d2
  a = a
  b = b
  Self = Self
  Outside = Outside
  Target = Outside
  Dirs <- OneDir
  Names = {a, b}
  Workloads <- Links
  Fails = {}
  MaxOps = 5
  MaxReloads = 0
  Concurrency = 2
PROPERTY FlushIsAnswered
CHECK_DEADLOCK FALSE
