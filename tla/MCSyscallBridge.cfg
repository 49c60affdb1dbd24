SPECIFICATION Spec
CONSTANTS
  c1 = c1
  c2 = c2
  Clients = {c1, c2}
  MaxCalls = 2
  LazyRestore = TRUE
  RestoreMayFail = TRUE
SYMMETRY Symmetry
INVARIANTS TypeOK Exclusive WholeRequest AnswersItsRequest NoLostWakeup Handshake
PROPERTIES NoServiceAfterUnregister ImplementsRpc
