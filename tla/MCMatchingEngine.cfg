SPECIFICATION FairSpec
CONSTANTS
  Tolerance = 1
  i1 = i1
  i2 = i2
  NoInstrument = NoInstrument
  Instruments <- MCInstruments
  Requests <- MCRequests
  MarketEvents <- MCMarketEvents
  MaxOrders = 3
INVARIANTS
  TypeOK
  RecordsMatchBooks
  NoCrossedBook
  FillsHonorLimits
  FilledOrdersReported
  Conservation
PROPERTIES
  TerminalIsFinal
  CallsReturn
