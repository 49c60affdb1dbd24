SPECIFICATION Spec
CONSTANTS
  d1 = d1
  d2 = d2
  a = a
  b = b
  Self = Self
  Outside = Outside
  Target = Outside
  Dirs <- OneDir
  Names = {a, b}
  Workloads <- Safe
  Fails = {"write", "remove", "locked"}
  MaxOps = 5
  MaxReloads = 1
  Concurrency = 2
INVARIANTS TypeOK NothingForgotten FlushMeansDurable
CHECK_DEADLOCK FALSE
