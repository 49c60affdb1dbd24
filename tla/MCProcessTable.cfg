SPECIFICATION Spec
CONSTANTS
  p1 = p1
  p2 = p2
  p3 = p3
  Pids = {p1, p2, p3}
  Host = Host
  NoPid = NoPid
  MaxPosts = 2
  FailAt = {"worker"}
  PidsCollide = FALSE
SYMMETRY Symmetry
CHECK_DEADLOCK FALSE
INVARIANTS TypeOK ParentsAlive NothingLeaks BlockedIsAwaited EndIsLast EveryEndIsTold
