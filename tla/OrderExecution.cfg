SPECIFICATION Spec
CONSTANTS
  NoBroker = NoBroker
  BrokerId = BrokerId
  Quantity = 3
  MaxTime = 3
  MaxLocal = 7
  Events <- MCEvents
INVARIANTS AtMostOneBrokerOrder NeverAheadOfBroker DrainedMeansReconciled DoubtIsUnsafe
PROPERTIES InOrderFillsKept
CHECK_DEADLOCK FALSE
