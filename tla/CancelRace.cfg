SPECIFICATION Spec
CONSTANTS
  NoBroker = NoBroker
  BrokerId = BrokerId
  Quantity = 2
  MaxTime = 2
  MaxLocal = 6
  Events <- MCEvents
INVARIANT CancelConfirmationKept
CHECK_DEADLOCK FALSE
