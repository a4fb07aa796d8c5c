CONSTANTS
  Categories = {c1}
  StockOfEach = 1
  InitialStock <- SameStock
  Bookings = {b1}
  Requests = {r1}
  MaxQuantity = 1
  SlowCallbacks = FALSE
  SweepScheduled = FALSE
  StockBound = 1
  Orders = {o1, o2}
  Intents = {i1}
  FreeOrder = FreeOrder
  FreeCategories = {}
  Calls = {k1, k2}
  Outages = FALSE
SPECIFICATION CheckoutSpec
SYMMETRY Symmetry
INVARIANT
  OneOrderPerPayment
