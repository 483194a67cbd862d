CONSTANTS
  N = 1
  Overflow = 2
  ExitBase = 10
  MaxExits = 2
  MaxOrders = 4
  MaxExposure = 2
  Lots = 1
  Grids <- TwoGrids
  Prices <- LowHigh
  Threshold = 2
  Neutral = TRUE
  Failing = {"place", "close"}
  EchoesClientId = TRUE
SPECIFICATION SLSpec
INVARIANTS SLTypeOK LiveExitOwned LiveEntryOwned PairingSound
PROPERTIES OtherSideUntouched
