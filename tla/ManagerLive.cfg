CONSTANTS
  Symbols = {"s1"}
  Traders <- TwoTraders
  Admins = {a1, a2}
  Exchanges <- OnlyPaper
  Paper = "paper"
  SpotExchanges = {}
  MaxErrs = 1
  MaxTransient = 1
  MaxProfit = 1
  Failing = {"transient", "ticker", "crash"}
SPECIFICATION FairSpec
INVARIANTS OneLoopPerSymbol NoDoubleCount
PROPERTIES CancelledLoopEnds
