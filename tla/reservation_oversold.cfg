CONSTANTS
  Categories = {c1}
  StockOfEach = 1
  InitialStock <- SameStock
  Bookings = {b1, b2, b3}
  Requests = {r1}
  MaxQuantity = 1
  SlowCallbacks = FALSE
  SweepScheduled = FALSE
  StockBound = 2
SPECIFICATION Spec
SYMMETRY Symmetry
INVARIANT
  SeatsAreBlocked
