SPECIFICATION Spec
CONSTANTS
  i1 = i1  i2 = i2  w1 = w1  w2 = w2
  Intents <- OneIntent
  Workers <- OneWorker
  NoIntent = NoIntent
  Prices = {1}
  BaselinePrice = 1
  Limit = 1
  InitialStock = 1
  MaxVersion = 2
  MaxAttempts = 1
  MaxTries = 1
  Production = TRUE
  OneRequest = TRUE
  Faults = FALSE
  Lapses = FALSE
  LateCapture = FALSE
  ProviderFails = TRUE
SYMMETRY Symmetry
PROPERTIES
  CapturedIsFinal
CHECK_DEADLOCK FALSE
