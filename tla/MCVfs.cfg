SPECIFICATION Spec
CONSTANTS
  c1 = c1
  c2 = c2
  Names = {"a", "b"}
  Clients = {c1, c2}
  MaxDepth = 2
  MaxLinks = 2
  MaxIno = 5
  MaxFds = 2
  MaxOps = 4
SYMMETRY Symmetry
INVARIANTS TypeOK TreeIsSound FdsAreHeld
PROPERTY ChangesAreReported
CHECK_DEADLOCK FALSE
