SPECIFICATION Spec
CONSTANTS
  Quantity = 2
  MaxOrders = 1
  MaxReports = 4
  MaxRestarts = 1
  ExpiresWhileCanceling = FALSE
INVARIANTS
  FillsAddUp
  AgreesOnceTold
PROPERTIES
  NeverRollsBack
CHECK_DEADLOCK FALSE
