CONSTANTS
  N = 2
  Overflow = 2
  ExitBase = 10
  MaxExits = 2
  MaxOrders = 3
  MaxExposure = 2
  Lots = 1
  Grids <- TwoGrids
  Prices <- LowHigh
  Threshold = 2
  Neutral = TRUE
  Failing = {"place","cancel"}
  EchoesClientId = TRUE
SPECIFICATION Spec
INVARIANTS TypeOK ExitBeatsCost ExitsWithinPosition UncoveredAwaitsRetry NoLossBooked NoPhantom
PROPERTIES EscapesOnlyByRecenter ImplementsBook
