CONSTANTS
  N = 1
  Overflow = 0
  ExitBase = 10
  MaxExits = 2
  MaxOrders = 4
  MaxExposure = 2
  Lots = 1
  Grids <- OneGrid
  Prices <- LowHigh
  Threshold = 100
  Neutral = TRUE
  Failing = {"query", "place", "manual"}
  EchoesClientId = TRUE
SPECIFICATION FairSpec
INVARIANTS LedgerExact
PROPERTIES NakedGetsCovered FillGetsNoticed
