-------------------------------- MODULE Messaging --------------------------------
(***************************************************************************)
(* Who is in a conversation, and whose sockets are in its room:            *)
(* messages.service.ts over the tables conversations and                   *)
(* conversation_members, and messages.gateway.ts over Socket.IO.  Each     *)
(* user has one tab, so a room is a set of users.  What is written in a    *)
(* conversation is the subject of Chat.                                    *)
(***************************************************************************)
EXTENDS Rows

CONSTANTS
  Users,           (* the users                                            *)
  Conversations,   (* the conversations.id that may be drawn: a bound      *)
  Online,          (* those of them who open the site: a bound             *)
  EventOrganizer,  (* the organizer of the one event                       *)
  Talks            (* handlers in flight at a time: a bound                *)

ASSUME MessagingAssumption == EventOrganizer \in Users /\ Online \subseteq Users

VARIABLES
  conv,     (* conversations with their members; a row deleted is "deleted" *)
  accepted, (* those whose participation in the event is accepted          *)
  tab,      (* each user's socket: off, reading, joining, or on            *)
  room,     (* the users whose socket is in each conversation's room       *)
  apart,    (* members whose socket was not put in the room, or has left   *)
  mishaps,  (* an overlap of direct creations, or a handler that failed    *)
            (* between its removal of a member and the count of the others *)
  talk      (* what each handler in flight will do next                    *)

messagingVars == <<conv, accepted, tab, room, apart, mishaps, talk>>

ConvRow == [type : {"DIRECT", "GROUP", "EVENT"}, creator : Users, members : SUBSET Users]
             \cup [type : {"deleted"}, creator : Users, members : {{}}]

TabState == [step : {"off", "reading", "on"}] \cup [step : {"joining"}, found : SUBSET Conversations]

TalkState ==
  {Idle}
    \cup [step : {"findDirect", "eventFind", "eventAccepted"}, user : Users, other : Users]
    \cup [step : {"create"}, type : {"DIRECT", "GROUP", "EVENT"}, user : Users,
          members : SUBSET Users]
    \cup [step : {"memberAdded", "addWrite"}, conv : Conversations, members : SUBSET Users]
    \cup [step : {"eventJoin", "removeWrite"}, conv : Conversations, user : Users]
    \cup [step : {"count", "delete"}, conv : Conversations]

MessagingInit ==
  /\ conv = NoRows
  /\ accepted = {EventOrganizer}
  /\ tab = [u \in Online |-> [step |-> "off"]]
  /\ room = [c \in Conversations |-> {}]
  /\ apart = {}
  /\ mishaps = {}
  /\ talk = [h \in Talks |-> Idle]

Talking(h, state) == talk' = [talk EXCEPT ![h] = state]

Ids(type) == {c \in DOMAIN conv : conv[c].type = type}

Present == DOMAIN conv \ Ids("deleted")

(* Those of U whose socket has already looked its conversations up. *)
LookedUp(U) == {u \in U \cap Online : tab[u].step \in {"joining", "on"}}

(* Bound: members come and go while there is one conversation. *)
OnlyOne(c) == DOMAIN conv = {c}

(* Bounds: nobody creates a conversation once the ids are used up, nor one  *)
(* of another type than the one there is; one group, and none after it.     *)
ConversationsLeft(type) ==
  /\ DOMAIN conv \subseteq Ids(type) \ Ids("GROUP")
  /\ Cardinality({h \in Talks : talk[h].step = "create"}) < Cardinality(Conversations \ DOMAIN conv)

GoCreate(h, type, user, members) ==
  Talking(h, [step |-> "create", type |-> type, user |-> user, members |-> members])

(* A handler makes a direct conversation from its search on. *)
Making(h) ==
  \/ talk[h].step = "findDirect"
  \/ talk[h].step = "create" /\ talk[h].type = "DIRECT"
-------------------------------------------------------------------------------
(* handleConnection registers the socket, looks the user's conversations up *)
(* and joins their rooms; handleDisconnect forgets the socket.              *)

Connect(u) ==
  /\ tab[u].step = "off"
  /\ tab' = [tab EXCEPT ![u] = [step |-> "reading"]]
  /\ UNCHANGED <<conv, accepted, room, apart, mishaps, talk>>

FindConversations(u) ==
  /\ tab[u].step = "reading"
  /\ tab' = [tab EXCEPT ![u] = [step |-> "joining",
                                found |-> {c \in Present : u \in conv[c].members}]]
  /\ UNCHANGED <<conv, accepted, room, apart, mishaps, talk>>

JoinRooms(u) ==
  /\ tab[u].step = "joining"
  /\ room' = [c \in Conversations |-> IF c \in tab[u].found THEN room[c] \cup {u} ELSE room[c]]
  /\ apart' = apart \ (tab[u].found \X {u})
  /\ tab' = [tab EXCEPT ![u] = [step |-> "on"]]
  /\ UNCHANGED <<conv, accepted, mishaps, talk>>

(* The sockets that Socket.IO drops leave their rooms with it. *)
Disconnects(U) == /\ tab' = [u \in Online |-> IF u \in U THEN [step |-> "off"] ELSE tab[u]]
                  /\ room' = [c \in Conversations |-> room[c] \ U]
                  /\ apart' = apart \ (Conversations \X U)

Disconnect(u) ==
  /\ tab[u].step # "off"
  /\ Disconnects({u})
  /\ UNCHANGED <<conv, accepted, mishaps, talk>>

(* handleJoinConversation, as ConversationPage asks; its read and its join  *)
(* are one step, since a member who leaves meanwhile is not told to leave.  *)
JoinConversation(u, c) ==
  /\ tab[u].step = "on"
  /\ c \in Present
  /\ u \in conv[c].members
  /\ room' = [room EXCEPT ![c] = @ \cup {u}]
  /\ apart' = apart \ {<<c, u>>}
  /\ UNCHANGED <<conv, accepted, tab, mishaps, talk>>

(* handleLeaveConversation, as ConversationPage asks when it closes. *)
LeaveConversation(u, c) ==
  /\ tab[u].step = "on"
  /\ u \in room[c]
  /\ room' = [room EXCEPT ![c] = @ \ {u}]
  /\ apart' = apart \cup {<<c, u>>}
  /\ UNCHANGED <<conv, accepted, tab, mishaps, talk>>

(* Mutant: only sockets that have joined their rooms are known. *)
MemberAddedLate(h) ==
  LET c == talk[h].conv
  IN  /\ talk[h].step = "memberAdded"
      /\ room' = [room EXCEPT ![c] = @ \cup {u \in talk[h].members \cap Online : tab[u].step = "on"}]
      /\ apart' = apart \ ({c} \X talk[h].members)
      /\ Talking(h, Idle)
      /\ UNCHANGED <<conv, accepted, tab, mishaps>>

(* notifyMemberAdded: the sockets of userSockets, of which a socket is one  *)
(* from the first line of handleConnection on.                              *)
MemberAdded(h) ==
  LET c == talk[h].conv
  IN  /\ talk[h].step = "memberAdded"
      /\ room' = [room EXCEPT ![c] = @ \cup {u \in talk[h].members \cap Online : tab[u].step # "off"}]
      /\ apart' = apart \ ({c} \X talk[h].members)
      /\ Talking(h, Idle)
      /\ UNCHANGED <<conv, accepted, tab, mishaps>>
-------------------------------------------------------------------------------
(* createConversation: a direct one is looked for first *)

CreateDirect(h, u, v) ==
  /\ talk[h] = Idle
  /\ Talking(h, [step |-> "findDirect", user |-> u, other |-> v])
  /\ mishaps' = IF \E g \in Talks : Making(g) THEN mishaps \cup {"overlap"} ELSE mishaps
  /\ UNCHANGED <<conv, accepted, tab, room, apart>>

(* Mutant: only the conversations the caller has created are looked at. *)
FindDirectOwn(h) ==
  LET u == talk[h].user
      both == {u, talk[h].other}
  IN  /\ talk[h].step = "findDirect"
      /\ IF (\E c \in Ids("DIRECT") :
              conv[c].members = both /\ conv[c].creator = u /\ Cardinality(both) = 2)
             \/ ~ConversationsLeft("DIRECT")
         THEN Talking(h, Idle)
         ELSE GoCreate(h, "DIRECT", u, both)
      /\ UNCHANGED <<conv, accepted, tab, room, apart, mishaps>>

FindDirect(h) ==
  LET u == talk[h].user
      both == {u, talk[h].other}
  IN  /\ talk[h].step = "findDirect"
      /\ IF (\E c \in Ids("DIRECT") : conv[c].members = both /\ Cardinality(both) = 2)
             \/ ~ConversationsLeft("DIRECT")
         THEN Talking(h, Idle)
         ELSE GoCreate(h, "DIRECT", u, both)
      /\ UNCHANGED <<conv, accepted, tab, room, apart, mishaps>>

(* One of a group, or of the event by its id, is looked for by nobody. *)
CreateOther(h, type, u, U) ==
  /\ talk[h] = Idle
  /\ ConversationsLeft(type)
  /\ GoCreate(h, type, u, {u} \cup U)
  /\ UNCHANGED <<conv, accepted, tab, room, apart, mishaps>>

Create(h) ==
  /\ talk[h].step = "create"
  /\ \E c \in Conversations \ DOMAIN conv :
       /\ conv' = Put(conv, c, [type |-> talk[h].type, creator |-> talk[h].user,
                                members |-> talk[h].members])
       /\ Talking(h, [step |-> "memberAdded", conv |-> c, members |-> talk[h].members])
       /\ apart' = apart \cup ({c} \X LookedUp(talk[h].members))
  /\ UNCHANGED <<accepted, tab, room, mishaps>>
-------------------------------------------------------------------------------
(* getEventConversation makes the event's conversation, or joins the one it *)
(* finds first.                                                            *)

EventConversation(h, u) ==
  /\ talk[h] = Idle
  /\ u \in accepted
  /\ Talking(h, [step |-> "eventFind", user |-> u, other |-> u])
  /\ UNCHANGED <<conv, accepted, tab, room, apart, mishaps>>

EventFind(h) ==
  LET u == talk[h].user
  IN  /\ talk[h].step = "eventFind"
      /\ \/ /\ Ids("EVENT") = {}
            /\ Talking(h, [talk[h] EXCEPT !.step = "eventAccepted"])
         \/ \E c \in Ids("EVENT") :
              Talking(h, IF u \in conv[c].members THEN Idle
                         ELSE [step |-> "eventJoin", conv |-> c, user |-> u])
      /\ UNCHANGED <<conv, accepted, tab, room, apart, mishaps>>

EventAccepted(h) ==
  /\ talk[h].step = "eventAccepted"
  /\ IF ConversationsLeft("EVENT")
     THEN GoCreate(h, "EVENT", EventOrganizer, accepted)
     ELSE Talking(h, Idle)
  /\ UNCHANGED <<conv, accepted, tab, room, apart, mishaps>>

(* A row of conversation_members that exists, or a conversation that does   *)
(* not, makes the handler fail.                                             *)
EventJoin(h) ==
  LET c == talk[h].conv
      u == talk[h].user
  IN  /\ talk[h].step = "eventJoin"
      /\ IF c \in Present /\ u \notin conv[c].members
         THEN /\ conv' = [conv EXCEPT ![c].members = @ \cup {u}]
              /\ apart' = apart \cup ({c} \X LookedUp({u}))
              /\ Talking(h, [step |-> "memberAdded", conv |-> c, members |-> {u}])
         ELSE Talking(h, Idle) /\ UNCHANGED <<conv, apart>>
      /\ UNCHANGED <<accepted, tab, room, mishaps>>
-------------------------------------------------------------------------------
(* addMembers, removeMember and deleteConversation *)

AddMembers(h, c, U) ==
  /\ talk[h] = Idle
  /\ OnlyOne(c)
  /\ conv[c].type \in {"GROUP", "EVENT"}
  /\ U \ conv[c].members # {}
  /\ Talking(h, [step |-> "addWrite", conv |-> c, members |-> U \ conv[c].members])
  /\ UNCHANGED <<conv, accepted, tab, room, apart, mishaps>>

(* Nobody tells the gateway: the new members' sockets stay out of the room. *)
AddWrite(h) ==
  LET c == talk[h].conv
      U == talk[h].members
  IN  /\ talk[h].step = "addWrite"
      /\ IF c \in Present /\ U \cap conv[c].members = {}
         THEN /\ conv' = [conv EXCEPT ![c].members = @ \cup U]
              /\ apart' = apart \cup ({c} \X LookedUp(U))
         ELSE UNCHANGED <<conv, apart>>
      /\ Talking(h, Idle)
      /\ UNCHANGED <<accepted, tab, room, mishaps>>

(* One leaves, or the creator removes another. *)
RemoveMember(h, c, by, u) ==
  /\ talk[h] = Idle
  /\ OnlyOne(c)
  /\ conv[c].type \in {"GROUP", "EVENT"}
  /\ by \in conv[c].members
  /\ by \in {conv[c].creator, u}
  /\ Talking(h, [step |-> "removeWrite", conv |-> c, user |-> u])
  /\ UNCHANGED <<conv, accepted, tab, room, apart, mishaps>>

RemoveWrite(h) ==
  LET c == talk[h].conv
  IN  /\ talk[h].step = "removeWrite"
      /\ conv' = [conv EXCEPT ![c].members = @ \ {talk[h].user}]
      /\ Talking(h, [step |-> "count", conv |-> c])
      /\ UNCHANGED <<accepted, tab, room, apart, mishaps>>

(* Mutant: the one who leaves is counted too. *)
CountOneMore(h) ==
  /\ talk[h].step = "count"
  /\ Talking(h, IF Cardinality(conv[talk[h].conv].members) + 1 = 0
                THEN [step |-> "delete", conv |-> talk[h].conv] ELSE Idle)
  /\ UNCHANGED <<conv, accepted, tab, room, apart, mishaps>>

Count(h) ==
  /\ talk[h].step = "count"
  /\ Talking(h, IF conv[talk[h].conv].members = {}
                THEN [step |-> "delete", conv |-> talk[h].conv] ELSE Idle)
  /\ UNCHANGED <<conv, accepted, tab, room, apart, mishaps>>

DeleteConversation(h, c) ==
  /\ talk[h] = Idle
  /\ OnlyOne(c)
  /\ conv[c].type = "GROUP"
  /\ conv[c].creator \in conv[c].members
  /\ Talking(h, [step |-> "delete", conv |-> c])
  /\ UNCHANGED <<conv, accepted, tab, room, apart, mishaps>>

(* A conversation takes its members' rows with it; one that is gone fails. *)
Delete(h) ==
  LET c == talk[h].conv
  IN  /\ talk[h].step = "delete"
      /\ conv' = [conv EXCEPT ![c].type = "deleted", ![c].members = {}]
      /\ apart' = apart \ ({c} \X Users)
      /\ Talking(h, Idle)
      /\ UNCHANGED <<accepted, tab, room, mishaps>>
-------------------------------------------------------------------------------
Accepts(u) ==
  /\ u \notin accepted
  /\ accepted' = accepted \cup {u}
  /\ UNCHANGED <<conv, tab, room, apart, mishaps, talk>>

Unfinished(h) == talk[h].step \in {"count", "delete"}

(* A query fails; the sockets that memberAdded joins need none. *)
TalkFails(h) ==
  /\ talk[h].step \notin {"idle", "memberAdded"}
  /\ Talking(h, Idle)
  /\ mishaps' = IF Unfinished(h) THEN mishaps \cup {"unfinished"} ELSE mishaps
  /\ UNCHANGED <<conv, accepted, tab, room, apart>>

(* The process restarts: its handlers and all sockets are gone. *)
ChatRestart ==
  /\ \E h \in Talks : talk[h] # Idle
  /\ talk' = [h \in Talks |-> Idle]
  /\ mishaps' = IF \E h \in Talks : Unfinished(h) THEN mishaps \cup {"unfinished"} ELSE mishaps
  /\ Disconnects(Online)
  /\ UNCHANGED <<conv, accepted>>

TalkStep(h) ==
  \/ \E u, v \in Users : CreateDirect(h, u, v)
  \/ \E u \in Users : EventConversation(h, u)
  \/ \E type \in {"GROUP", "EVENT"}, u \in Users, U \in SUBSET Users : CreateOther(h, type, u, U)
  \/ \E c \in DOMAIN conv :
       \/ \E U \in SUBSET Users : AddMembers(h, c, U)
       \/ \E by, u \in Users : RemoveMember(h, c, by, u)
       \/ DeleteConversation(h, c)
  \/ FindDirect(h) \/ Create(h) \/ MemberAdded(h)
  \/ EventFind(h) \/ EventAccepted(h) \/ EventJoin(h)
  \/ AddWrite(h) \/ RemoveWrite(h) \/ Count(h) \/ Delete(h)
  \/ TalkFails(h)

TabStep(u) ==
  \/ Connect(u) \/ FindConversations(u) \/ JoinRooms(u) \/ Disconnect(u)
  \/ \E c \in DOMAIN conv : JoinConversation(u, c) \/ LeaveConversation(u, c)

MessagingNext ==
  \/ \E h \in Talks : TalkStep(h)
  \/ \E u \in Online : TabStep(u)
  \/ \E u \in Users : Accepts(u)
  \/ ChatRestart

MessagingSpec == MessagingInit /\ [][MessagingNext]_messagingVars
-------------------------------------------------------------------------------
(* Properties *)

(* Every variable has its type: the one type invariant of this module. *)
MessagingTypeOK ==
  /\ DOMAIN conv \subseteq Conversations
  /\ conv \in [DOMAIN conv -> ConvRow]
  /\ {EventOrganizer} \subseteq accepted /\ accepted \subseteq Users
  /\ tab \in [Online -> TabState]
  /\ room \in [Conversations -> SUBSET Online]
  /\ apart \subseteq Conversations \X Online
  /\ mishaps \subseteq {"overlap", "unfinished"}
  /\ talk \in [Talks -> TalkState]

(* A member with an open socket is in the room of his conversation, however *)
(* his connection and the conversation's creation interleave: the socket is *)
(* registered before his conversations are read, so that either the read    *)
(* finds the conversation or notifyMemberAdded finds the socket.  Members   *)
(* that addMembers has added, whom nobody announces, and those whose page   *)
(* has left are apart until they join.                                      *)
MembersInRoom ==
  \A c \in Present, u \in Online :
    /\ u \in conv[c].members /\ <<c, u>> \notin apart
    /\ tab[u].step = "on"
    => u \in room[c]

(* A conversation that everybody has left is gone, whoever leaves at the    *)
(* same time: everyone counts after he has left.  Only a removal that fails *)
(* before it has counted leaves an empty one behind.                        *)
NoEmptyConversation ==
  "unfinished" \notin mishaps =>
    \A c \in Present :
      \/ conv[c].members # {}
      \/ \E h \in Talks : Unfinished(h) /\ talk[h].conv = c

(* Two people have one direct conversation, whichever of them asks, unless  *)
(* two searches overlapped: no key of the table says so.  The event may     *)
(* have several, for createConversation looks for none.                     *)
OneConversation ==
  "overlap" \notin mishaps =>
    \A c, d \in Ids("DIRECT") :
      conv[c].members = conv[d].members => c = d \/ Cardinality(conv[c].members) = 1
===============================================================================
