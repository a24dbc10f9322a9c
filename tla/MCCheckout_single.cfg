SPECIFICATION FairSpec
CONSTANTS
  i1 = i1  i2 = i2  w1 = w1  w2 = w2
  Intents <- OneIntent
  Workers <- OneWorker
  NoIntent = NoIntent
  Prices = {1, 2}
  BaselinePrice = 1
  Limit = 1
  InitialStock = 1
  MaxVersion = 3
  MaxAttempts = 2
  MaxTries = 1
  Production = TRUE
  OneRequest = TRUE
  Faults = FALSE
  Lapses = FALSE
  LateCapture = FALSE
  ProviderFails = TRUE
INVARIANTS
  OnePaymentOpen
  ProcessingHoldsReservation
  PaidAsOrdered
  ApprovalBacksOrder
PROPERTIES
  RequestEnds
  PaidIsConfirmed
CHECK_DEADLOCK FALSE
