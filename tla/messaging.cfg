CONSTANTS
  Users = {u1, u2}
  Online = {u2}
  EventOrganizer = u1
  Conversations = {c1, c2}
  Talks = {h1, h2}
SPECIFICATION MessagingSpec
SYMMETRY MessagingSymmetry
INVARIANTS
  MembersInRoom
  NoEmptyConversation
  OneConversation
