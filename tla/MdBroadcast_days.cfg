SPECIFICATION Spec
CONSTANTS
  subscribe_inst_ <- OneInstrument
  max_minute_ticks = 2
  TradeTime = TRUE
  Times <- WholeDay
  FakeDays <- NoFile
  MaxVolume = 2
  MaxTicks = 4
  MaxPending = 2
  MaxSessions = 2
INVARIANTS AbortsOnlyAfterRestart NothingOvertakes CompleteBars
CHECK_DEADLOCK FALSE
