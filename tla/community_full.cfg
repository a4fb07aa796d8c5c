CONSTANTS
  People = {u1, u2}
  Organizer = organizer
  InitialPlaces = 2
  Hands = {h1}
SPECIFICATION ParticipationSpec
PROPERTY
  TurnedAwayWhenFull
CHECK_DEADLOCK FALSE
