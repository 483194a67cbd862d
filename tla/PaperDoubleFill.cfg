CONSTANTS
  Prices <- Below
  Qtys = {1}
  MaxOrders = 2
  BacksExits = TRUE
  Ticking = {"sent"}
SPECIFICATION Spec
PROPERTIES ClosedIsFlat
