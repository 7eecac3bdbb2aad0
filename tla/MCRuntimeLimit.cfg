SPECIFICATION Spec
CONSTANTS
  btc = btc
  NoInstrument = NoInstrument
  Instruments <- MCInstruments
  Base <- MCBase
  Quote = "USDT"
  Tolerance = 0
  MaxOrders = 12
  Feed <- MCFeed
  Snapshots <- MCSnapshots
  StrategySlots <- MCStrategySlots
  PluginRequests <- MCPluginRequests
  Backend = "postgres"
  KillSwitch = FALSE
  MaxOrderQuantity = 3
  MaxPositionQuantity = 3
  MaxOrderNotional = 15
  StaleAfter = 1
  MaxEvents = 3
  MaxRestarts = 0
  FirstNow = 5
  MaxNow = 6
INVARIANT
  PositionWithinLimit
CHECK_DEADLOCK FALSE
