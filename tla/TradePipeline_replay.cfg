SPECIFICATION FairSpec
CONSTANTS
  instruments <- OneInstrument
  max_minute_ticks = 2
  TradeTime = FALSE
  Times <- ReplayTimes
  FakeDays <- Files
  MaxVolume = 6
  MaxTicks = 6
  MaxPending = 2
  MaxSessions = 1
  ONE = "ONE"
  periods <- OnePeriod
  checkup_table <- Table
  k_type <- OnlyOne
  focused <- Some
  nodes <- OneNode
  period_max = 1
  MaxBars = 3
INVARIANTS Delivered OrdersOnFinishedMinutes ArchiveWhole
PROPERTIES BarsPassed PeriodsComposed
CHECK_DEADLOCK FALSE
