SPECIFICATION FairSpec
CONSTANTS
  Orderers <- OneStrategy
  MaxOrderRef = 1
  MaxDrops = 1
  MaxOrders = 4
INVARIANTS TypeOK ConfirmsWithinLogin RefsIncrease
PROPERTIES LoginsNoticed
CHECK_DEADLOCK FALSE
