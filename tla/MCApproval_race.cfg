SPECIFICATION FairSpec
CONSTANTS
  a1 = a1  a2 = a2  b1 = b1  b2 = b2
  Null = Null
  Agents <- OneAgent
  Buyers <- TwoBuyers
  Prices = {1, 2, 3}
  Limit = 1
  Budget = Null
  Rules <- SeededRules
  MaxTime = 1
  TTL = 1
INVARIANTS
  TypeOK
  AllowsOnlyConsented
  ClaimIsResumable
  ExchangedOnce
  KnownApprovalIsBound
PROPERTIES
  FollowsTableButReset
  PreparationEnds
CHECK_DEADLOCK FALSE
