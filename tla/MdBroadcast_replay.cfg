SPECIFICATION Spec
CONSTANTS
  subscribe_inst_ <- TwoInstruments
  max_minute_ticks = 2
  TradeTime = FALSE
  Times <- ReplayTimes
  FakeDays <- Files
  MaxVolume = 9
  MaxTicks = 9
  MaxPending = 3
  MaxSessions = 1
INVARIANTS NothingOvertakes
PROPERTIES NoAppendWhileIterating
CHECK_DEADLOCK FALSE
