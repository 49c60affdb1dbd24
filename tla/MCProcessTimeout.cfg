SPECIFICATION FairSpec
CONSTANTS
  p1 = p1
  p2 = p2
  p3 = p3
  Pids = {p1, p2, p3}
  Host = Host
  NoPid = NoPid
  MaxPosts = 1
  FailAt = {"fs", "sync", "net"}
  PidsCollide = TRUE
CHECK_DEADLOCK FALSE
PROPERTY TimeoutFreesCaller
