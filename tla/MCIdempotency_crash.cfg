SPECIFICATION Spec
CONSTANTS
  c1 = c1  c2 = c2  c3 = c3  c4 = c4  b1 = b1  b2 = b2
  Calls <- FourCalls
  BodyOf <- LastDiffers
  NoBody = NoBody
  NoResult = NoResult
  Refused = Refused
  Faults = TRUE
  Slow = FALSE
SYMMETRY Symmetry
INVARIANTS
  TypeOK
  OneRunner
  RunsOneBody
PROPERTIES
  OneOutcome
CHECK_DEADLOCK FALSE
