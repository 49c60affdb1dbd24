SPECIFICATION FairSpec
CONSTANTS
  d1 = d1
  d2 = d2
  a = a
  b = b
  Self = Self
  Outside = Outside
  Target = Outside
  Dirs <- TwoDirs
  Names = {a}
  Workloads <- NoLinks
  Fails = {"dir", "write", "remove", "locked"}
  MaxOps = 4
  MaxReloads = 0
  Concurrency = 1
PROPERTY FlushIsAnswered
CHECK_DEADLOCK FALSE
