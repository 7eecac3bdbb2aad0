SPECIFICATION Spec
CONSTANTS
  NotANumber = NotANumber
  Sources <- MCSources
  Handlers = 3
  Timers <- MCTimers
  MaxTimers = 2
  MaxNow = 2
  AllowFallback = {TRUE, FALSE}
  Cycles = 2
  Instruments = {1}
  MaxStarts = 3
  MaxFills = 2
INVARIANTS CompletedRunsAddUp FifoDelivery ReplayMatchesHandled
PROPERTY EventsReachEveryHandler
CHECK_DEADLOCK FALSE
