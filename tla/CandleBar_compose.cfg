SPECIFICATION Spec
CONSTANTS
  Prices <- TwoPrices
  compose_mutiple = 2
  MaxTicks = 3
  MaxBars = 4
INVARIANTS ComposedFromTicks WaysAgree
CHECK_DEADLOCK FALSE
