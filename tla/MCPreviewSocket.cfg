SPECIFICATION FairSpec
CONSTANTS
  MaxUp = 2
  MaxFrames = 2
INVARIANTS TypeOK EventsEndOnce
PROPERTIES ImplementsWebSocket ClosingEnds
CHECK_DEADLOCK FALSE
