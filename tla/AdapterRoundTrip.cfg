CONSTANTS
  Slots = {s1, s2, s3}
  Venues <- AllVenues
  One = 4
  Sizes = {1, 7}
  Levels = {101, 104}
  Spacing = 3
SPECIFICATION Spec
SYMMETRY SlotSymmetry
INVARIANTS VTypeOK ExitClosesEntry RoundTripProfits CloseIsExact
