SPECIFICATION Spec
CONSTANTS
  i1 = i1  i2 = i2  w1 = w1  w2 = w2
  Intents <- OneIntent
  Workers <- TwoWorkers
  NoIntent = NoIntent
  Prices = {1, 2}
  BaselinePrice = 1
  Limit = 1
  InitialStock = 1
  MaxVersion = 3
  MaxAttempts = 1
  MaxTries = 2
  Production = FALSE
  OneRequest = FALSE
  Faults = FALSE
  Lapses = TRUE
  LateCapture = FALSE
  ProviderFails = TRUE
SYMMETRY Symmetry
INVARIANTS
  NoUnapprovedAttempt
  ClosedHoldsNothing
PROPERTIES
  FollowsTable
  OrderOutcomeFinal
CHECK_DEADLOCK FALSE
