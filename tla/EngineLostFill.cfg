CONSTANTS
  N = 2
  Overflow = 2
  ExitBase = 10
  MaxExits = 2
  MaxOrders = 4
  MaxExposure = 2
  Lots = 1
  Grids <- TwoGrids
  Prices <- LowHigh
  Threshold = 2
  Neutral = FALSE
  Failing = {}
  EchoesClientId = TRUE
SPECIFICATION Spec
INVARIANTS LedgerExact
