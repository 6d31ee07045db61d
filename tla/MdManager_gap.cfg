SPECIFICATION Spec
CONSTANTS
  instruments <- TwoInstruments
  ONE = "ONE"
  periods <- OnePeriod
  checkup_table <- Table
  k_type <- OneAndFive
  focused <- Some
  MaxBars = 5
INVARIANTS Gapless
CHECK_DEADLOCK FALSE
