SPECIFICATION FairSpec
CONSTANTS
  nodes <- TwoNodes
  period_max = 1
  MaxBars = 3
INVARIANTS PricedAtTheFork OneOrderPerFork ForksTraded
PROPERTIES CatchesUp
