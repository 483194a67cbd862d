CONSTANTS
  N = 1
  Overflow = 2
  ExitBase = 10
  MaxExits = 2
  MaxOrders = 4
  MaxExposure = 2
  Lots = 1
  Grids <- OneGrid
  Prices <- LowHigh
  Threshold = 2
  Neutral = FALSE
  Failing = {}
  EchoesClientId = TRUE
SPECIFICATION SLSpec
INVARIANTS RecordsCleared
