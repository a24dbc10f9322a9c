SPECIFICATION Spec
CONSTANTS
  i1 = i1  i2 = i2  w1 = w1  w2 = w2
  Intents <- OneIntent
  Workers <- OneWorker
  NoIntent = NoIntent
  Prices = {1, 2}
  BaselinePrice = 1
  Limit = 1
  InitialStock = 2
  MaxVersion = 2
  MaxAttempts = 2
  MaxTries = 1
  Production = TRUE
  OneRequest = FALSE
  Faults = TRUE
  Lapses = FALSE
  LateCapture = TRUE
  ProviderFails = TRUE
SYMMETRY Symmetry
INVARIANTS
  ClosedOrderHoldsNothing
  StockLedger
  CapturedOnce
CHECK_DEADLOCK FALSE
