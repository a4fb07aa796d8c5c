CONSTANTS
  People = {u1, u2}
  Organizer = organizer
  InitialPlaces = 2
  Hands = {h1, h2}
  Options = {x1, x2}
  Items = {i1}
  Nobody = nobody
SPECIFICATION CommunitySpec
SYMMETRY CommunitySymmetry
INVARIANTS
  CommunityTypeOK
  PlacesCover
  PlacesExact
  OneVoteEach
  RoomsAreCurrent
PROPERTY
  ClaimsAreKept
CHECK_DEADLOCK FALSE
