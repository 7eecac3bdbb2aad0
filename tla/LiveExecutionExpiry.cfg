SPECIFICATION Spec
CONSTANTS
  Quantity = 2
  MaxOrders = 1
  MaxReports = 5
  MaxRestarts = 1
  ExpiresWhileCanceling = TRUE
INVARIANTS
  AgreesOnceTold
CHECK_DEADLOCK FALSE
