SPECIFICATION Spec
CONSTANTS
  instruments <- TwoInstruments
  ONE = "ONE"
  periods <- TwoPeriods
  checkup_table <- Table
  k_type <- OneAndFive
  focused <- Some
  MaxBars = 5
INVARIANTS TypeOK NoMinuteTwice MinutesBeforePeriods SavedBeforeUsed
CHECK_DEADLOCK FALSE
