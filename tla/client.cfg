CONSTANTS
  MaxMessages = 4
  PageSize = 2
  MaxLosses = 1
  Polls = {p1}
  Requests = {f1, f2}
  Gone = 4
  MaxTabLosses = 1
  Filters = {v1, v2}
  Positions = {here}
  Nowhere = nowhere
  Queries = {q1, q2}
  Notifs = {n1, n2}
  Fetches = {f1, f2}
  Asks = {f1, f2}
SPECIFICATION ClientSpec
INVARIANTS
  ClientTypeOK
  ShownOnce
  ShowsAll
  PollsAreCurrent
  ResultsAreCurrent
PROPERTIES
  BadgesSettle
CHECK_DEADLOCK FALSE
