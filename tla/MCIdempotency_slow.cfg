SPECIFICATION Spec
CONSTANTS
  c1 = c1  c2 = c2  c3 = c3  c4 = c4  b1 = b1  b2 = b2
  Calls <- FourCalls
  BodyOf <- LastDiffers
  NoBody = NoBody
  NoResult = NoResult
  Refused = Refused
  Faults = FALSE
  Slow = TRUE
SYMMETRY Symmetry
INVARIANTS
  TakesEffectOnce
CHECK_DEADLOCK FALSE
