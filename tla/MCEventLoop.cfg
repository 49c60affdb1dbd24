SPECIFICATION FairSpec
CONSTANTS
  MaxOps = 5
  MaxChain = 2
  Rough = {TRUE, FALSE}
INVARIANTS TypeOK WakeIsOnItsWay
PROPERTIES EndsIdle LoopMakesProgress
CHECK_DEADLOCK FALSE
