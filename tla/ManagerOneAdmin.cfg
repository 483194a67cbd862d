CONSTANTS
  Symbols = {"s1", "s2"}
  Traders <- TwoTraders
  Admins = {a1}
  Exchanges <- AllExchanges
  Paper = "paper"
  SpotExchanges <- OnlySpot
  MaxErrs = 1
  MaxTransient = 1
  MaxProfit = 0
  Failing = {"tick", "test", "crash"}
SPECIFICATION Spec
INVARIANTS TypeOK RunningIsSaved MarketMatches RestartReconnects
PROPERTIES SwitchStopsAll
