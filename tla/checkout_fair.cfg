CONSTANTS
  Categories = {c1, c2}
  StockOfEach = 1
  InitialStock <- SameStock
  Bookings = {b1}
  Requests = {r1, r2}
  MaxQuantity = 1
  SlowCallbacks = FALSE
  SweepScheduled = FALSE
  StockBound = 1
  Orders = {o1, o2}
  Intents = {i1}
  FreeOrder = FreeOrder
  FreeCategories = {c2}
  Calls = {k1}
  Outages = FALSE
SPECIFICATION CheckoutFairSpec
INVARIANT
  OneCallbackPerLock
PROPERTIES
  LockComesFree
  PaidIsTakenUp
