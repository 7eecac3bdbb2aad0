SPECIFICATION Spec
CONSTANTS
  NotANumber = NotANumber
  Ids = {1, 2}
  Amounts <- MCAmounts
  Prices <- MCPrices
  IntentPrices <- MCPrices
  Profits <- MCProfits
  Offsets = {3, 12}
  Reasons <- MCReasons
  MaxSaves = 2
PROPERTY AllRowsPersist
CHECK_DEADLOCK FALSE
