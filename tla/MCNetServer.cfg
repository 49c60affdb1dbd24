SPECIFICATION FairSpec
CONSTANTS
  p1 = p1
  p2 = p2
  Procs = {p1, p2}
  Nobody = Nobody
  Protos = {"tcp", "udp"}
  Ports = {1}
  EphemeralStart = 1
  EphemeralEnd = 1
  MaxConns = 1
  MaxWrites = 2
  MaxOps = 5
INVARIANTS TypeOK TablesAgree
PROPERTIES ImplementsPipe EveryoneHears
CHECK_DEADLOCK FALSE
