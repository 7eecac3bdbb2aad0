SPECIFICATION Spec
CONSTANTS
  Exchanges = {"sim", "other"}
  Venues = {"sim"}
  Quantities = {0, 2, 4}
  Configs <- MCConfigs
  MaxOrders = 3
  MaxRefusals = 1
  MaxRestarts = 2
  MaxReconnects = 2
  StaleAfter = 1
  Grace = 1
  MaxLate = 2
  LastEvent = 3
INVARIANTS FillsMatchReports ClosedStaysClosed
PROPERTY DeadFeedShows
CHECK_DEADLOCK FALSE
