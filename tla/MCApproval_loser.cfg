SPECIFICATION Spec
CONSTANTS
  a1 = a1  a2 = a2  b1 = b1  b2 = b2
  Null = Null
  Agents <- OneAgent
  Buyers <- TwoBuyers
  Prices = {1, 2}
  Limit = 1
  Budget = Null
  Rules <- SeededRules
  MaxTime = 1
  TTL = 1
PROPERTIES
  ExchangeStands
CHECK_DEADLOCK FALSE
