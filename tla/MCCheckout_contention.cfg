SPECIFICATION Spec
CONSTANTS
  i1 = i1  i2 = i2  w1 = w1  w2 = w2
  Intents <- TwoIntents
  Workers <- TwoWorkers
  NoIntent = NoIntent
  Prices = {1}
  BaselinePrice = 1
  Limit = 1
  InitialStock = 1
  MaxVersion = 2
  MaxAttempts = 1
  MaxTries = 1
  Production = TRUE
  OneRequest = TRUE
  Faults = FALSE
  Lapses = TRUE
  LateCapture = FALSE
  ProviderFails = TRUE
SYMMETRY Symmetry
INVARIANTS
  TypeOK
PROPERTIES
  OnlyLapsedOverpromises
  SellsAsPromised
CHECK_DEADLOCK FALSE
