CONSTANTS
  Categories = {c1}
  StockOfEach = 2
  InitialStock <- SameStock
  Bookings = {b1, b2, b3}
  Requests = {r1, r2}
  MaxQuantity = 2
  SlowCallbacks = TRUE
  SweepScheduled = TRUE
  StockBound = 3
SPECIFICATION Spec
SYMMETRY Symmetry
INVARIANTS
  TypeOK
  StockNeverNegative
  NoSeatLost
PROPERTY
  LedgerSpec
