SPECIFICATION FairSpec
CONSTANTS
  c1 = c1
  c2 = c2
  r1 = r1
  r2 = r2
  a = a
  b = b
  Clients = {c1, c2}
  Roots = {r1, r2}
  Names = {a, b}
  Kinds = {"read", "move", "rmTree"}
  MaxOps = 3
  MaxFaults = 1
INVARIANTS TypeOK RestoreIsSilent
PROPERTIES ImplementsEager DeferredIsServed
CHECK_DEADLOCK FALSE
