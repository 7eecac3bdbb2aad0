SPECIFICATION Spec
CONSTANTS
  NotANumber = NotANumber
  Ids = {1, 2}
  Amounts <- MCAmounts
  Prices <- MCPrices
  IntentPrices <- MCIntentPrices
  Profits <- MCProfits
  Offsets = {3, 12}
  Reasons <- MCReasons
  MaxSaves = 2
INVARIANTS NoFurtherDrift CheckpointNeverAhead CutFileStillLoads
PROPERTY ImplementsRepository
CHECK_DEADLOCK FALSE
