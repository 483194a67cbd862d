CONSTANTS
  Prices <- Steps
  Qtys = {1, 2}
  MaxOrders = 3
  BacksExits = TRUE
  Ticking = {"read", "closed"}
SPECIFICATION Spec
INVARIANTS TypeOK PositionIsSum CostWithinOpens LimitHonoured
PROPERTIES ReversedOnlyInClose
