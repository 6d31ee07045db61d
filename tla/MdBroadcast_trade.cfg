SPECIFICATION FairSpec
CONSTANTS
  subscribe_inst_ <- OneInstrument
  max_minute_ticks = 2
  TradeTime = TRUE
  Times <- LastMinutes
  FakeDays <- NoFile
  MaxVolume = 3
  MaxTicks = 4
  MaxPending = 2
  MaxSessions = 1
INVARIANTS TypeOK Accounted OneBarPerMinute
PROPERTIES ImplementsMinuteBars MinutePublished TicksDistributed
