SPECIFICATION Spec
CONSTANTS
  Prices <- SomePrices
  MaxBars = 6
INVARIANTS MirrorImage OrderedAtClose
PROPERTIES NoLookAhead ImplementsMaStrategy
CHECK_DEADLOCK FALSE
