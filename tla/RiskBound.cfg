CONSTANTS
  Symbols = {s1, s2}
  Levels = 2
  Leverage = 1
  MaxLeverage = 3
  MaxPosition = 2
  MaxMargin = 2
  MaxAstray = 2
SPECIFICATION Spec
SYMMETRY SymbolSymmetry
INVARIANTS TypeOK ExposureBounded
PROPERTIES BreakerHoldsEntries
