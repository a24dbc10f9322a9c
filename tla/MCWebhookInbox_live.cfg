SPECIFICATION FairSpec
CONSTANTS
  e1 = e1  e2 = e2  e3 = e3  p1 = p1  p2 = p2
  EventIds <- ThreeEvents
  Processors <- OneProcessor
  NoEvent = NoEvent
  MaxAttempts = 3
  Faults = FALSE
  SlowHandlers = FALSE
PROPERTIES
  InOrder
  AcceptedIsSettled
CHECK_DEADLOCK FALSE
