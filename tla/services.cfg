CONSTANTS
  Members = {m1}
  Invitations = {i1}
  Desks = {k1, k2}
  GateDesks = {k1}
  Tickets = {t1}
  Scanners = {s1}
  Production = TRUE
  Sales = {s1, s2}
  Stocks = {1, 2}
  Baskets = {b1, b2}
  Price = 100
  Discounts <- SomeDiscounts
  MaxUses = 1
  Fans = {u1}
  Author = author
  Holders = {h1}
  Week = 2
  LastDay = 3
  MaxMoves = 1
  Emails = {e1, e2}
  LastSuffix = 2
  Clerks = {k1, k2}
SPECIFICATION ServicesSpec
INVARIANTS
  ServicesTypeOK
  AcceptedIsStaff
  ReviewedByAttendants
  SeatsBacked
  UsesAreOrders
  WithinMaxUses
  AnnouncedRight
  RemindedRight
  NamesTellApart
PROPERTIES
  TurnedAway
  StaffRightsEnd
CHECK_DEADLOCK FALSE
