CONSTANTS
  Categories = {c1}
  StockOfEach = 1
  InitialStock <- SameStock
  Bookings = {b1}
  Requests = {r1}
  MaxQuantity = 1
  SlowCallbacks = FALSE
  SweepScheduled = FALSE
  StockBound = 0
  Orders = {o1, o2}
  Intents = {i1, i2}
  FreeOrder = FreeOrder
  FreeCategories = {}
  Calls = {k1, k2}
  Outages = TRUE
SPECIFICATION CheckoutSpec
SYMMETRY Symmetry
INVARIANTS
  CheckoutTypeOK
  
PROPERTIES
  SettledForGood
  GrantedIsFinal
