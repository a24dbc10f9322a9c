SPECIFICATION Spec
CONSTANTS
  e1 = e1  e2 = e2  e3 = e3  p1 = p1  p2 = p2
  EventIds <- TwoEvents
  Processors <- TwoProcessors
  NoEvent = NoEvent
  MaxAttempts = 3
  Faults = TRUE
  SlowHandlers = FALSE
SYMMETRY Symmetry
INVARIANTS
  TypeOK
  OneWorker
  CommitsWithinAttempts
PROPERTIES
  ProcessedIsFinal
CHECK_DEADLOCK FALSE
