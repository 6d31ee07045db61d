SPECIFICATION Spec
CONSTANTS
  Orderers <- OneStrategy
  MaxOrderRef = 1
  MaxDrops = 1
  MaxOrders = 3
INVARIANTS ConfirmedBeforeTrading
CHECK_DEADLOCK FALSE
