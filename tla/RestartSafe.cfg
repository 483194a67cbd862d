CONSTANTS
  Markets = {"futures","spot"}
  N = 1
  Overflow = 2
  ExitBase = 10
  MaxExits = 3
  MaxOrders = 3
  MaxExposure = 2
  Lots = 2
  Grids <- OneGrid
  Prices <- High
  Threshold = 100
  Neutral = FALSE
  Failing = {"place","lost","cancel","list","positions"}
  EchoesClientId = TRUE
  MaxCrashes = 1
  Costs <- Inside
SPECIFICATION RSpec
INVARIANTS RInv QuietRestartExact RestartNoPhantom
PROPERTIES ExitOrdersSurvive
