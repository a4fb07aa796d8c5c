---------------------------- MODULE MessagingProofs ----------------------------
(***************************************************************************)
(* Proofs about Messaging, for every set of users, of conversations, of    *)
(* those online and of handlers in flight.                                 *)
(***************************************************************************)
EXTENDS Messaging, FiniteSetTheorems, TLAPS

(* A conversation is created with somebody in it. *)
CreatesWithMembers == \A h \in Talks : talk[h].step = "create" => talk[h].members # {}

MessagingInv == MessagingTypeOK /\ CreatesWithMembers

ConvTypes == {"DIRECT", "GROUP", "EVENT"}

LEMMA TalkStates ==
  /\ Idle \in TalkState /\ Idle.step = "idle"
  /\ \A step \in {"findDirect", "eventFind", "eventAccepted"}, u \in Users, v \in Users :
       [step |-> step, user |-> u, other |-> v] \in TalkState
  /\ \A type \in ConvTypes, u \in Users, U \in SUBSET Users :
       [step |-> "create", type |-> type, user |-> u, members |-> U] \in TalkState
  /\ \A step \in {"memberAdded", "addWrite"}, c \in Conversations, U \in SUBSET Users :
       [step |-> step, conv |-> c, members |-> U] \in TalkState
  /\ \A step \in {"eventJoin", "removeWrite"}, c \in Conversations, u \in Users :
       [step |-> step, conv |-> c, user |-> u] \in TalkState
  /\ \A step \in {"count", "delete"}, c \in Conversations :
       [step |-> step, conv |-> c] \in TalkState
BY DEF TalkState, Idle, ConvTypes

(* What a handler has in hand. *)
LEMMA TalkHolds ==
  ASSUME MessagingTypeOK, NEW h \in Talks
  PROVE  /\ talk[h].step \in {"findDirect", "eventFind", "eventAccepted"} =>
              /\ talk[h].user \in Users /\ talk[h].other \in Users
              /\ talk[h] = [step |-> talk[h].step, user |-> talk[h].user, other |-> talk[h].other]
         /\ talk[h].step = "create" =>
              talk[h].type \in ConvTypes /\ talk[h].user \in Users /\ talk[h].members \in SUBSET Users
         /\ talk[h].step \in {"memberAdded", "addWrite"} =>
              talk[h].conv \in Conversations /\ talk[h].members \in SUBSET Users
         /\ talk[h].step \in {"eventJoin", "removeWrite"} =>
              talk[h].conv \in Conversations /\ talk[h].user \in Users
         /\ talk[h].step \in {"count", "delete"} => talk[h].conv \in Conversations
<1>1. talk[h] \in TalkState
  BY DEF MessagingTypeOK
<1> QED
  BY <1>1 DEF TalkState, Idle, ConvTypes

(* A handler moves on. *)
LEMMA TalkingKeeps ==
  ASSUME MessagingInv, NEW h \in Talks, NEW state \in TalkState, Talking(h, state),
         state.step = "create" => state.members # {}
  PROVE  talk' \in [Talks -> TalkState] /\ CreatesWithMembers'
BY DEF MessagingInv, MessagingTypeOK, CreatesWithMembers, Talking

LEMMA GoCreateKeeps ==
  ASSUME MessagingInv, NEW h \in Talks, NEW type \in ConvTypes, NEW u \in Users,
         NEW U \in SUBSET Users, U # {}, GoCreate(h, type, u, U)
  PROVE  talk' \in [Talks -> TalkState] /\ CreatesWithMembers'
BY TalkStates, TalkingKeeps DEF GoCreate

(* The steps that change nothing but what a handler has in hand. *)
LEMMA QuietKeeps ==
  ASSUME MessagingInv, talk' \in [Talks -> TalkState] /\ CreatesWithMembers',
         UNCHANGED <<conv, accepted, tab, room, apart>>,
         mishaps' \subseteq {"overlap", "unfinished"}
  PROVE  MessagingInv'
BY DEF MessagingInv, MessagingTypeOK

(* Another set of members makes a typed row of a typed row. *)
LEMMA WithMembers ==
  ASSUME MessagingTypeOK, NEW c \in Conversations, NEW U \in SUBSET Users,
         c \in DOMAIN conv, c \in Present \/ U = {}
  PROVE  [conv EXCEPT ![c].members = U] \in [DOMAIN conv -> ConvRow]
<1>1. [conv[c] EXCEPT !.members = U] \in ConvRow
  BY DEF MessagingTypeOK, ConvRow, Present, Ids
<1> QED
  BY <1>1 DEF MessagingTypeOK

LEMMA MessagingInvInit == MessagingInit => MessagingInv
<1> SUFFICES ASSUME MessagingInit PROVE MessagingInv
  OBVIOUS
<1>1. DOMAIN conv = {} /\ conv \in [DOMAIN conv -> ConvRow]
  BY DEF MessagingInit, NoRows
<1>2. talk \in [Talks -> TalkState] /\ CreatesWithMembers
  BY TalkStates DEF MessagingInit, CreatesWithMembers
<1>3. tab \in [Online -> TabState]
  BY DEF MessagingInit, TabState
<1> QED
  BY <1>1, <1>2, <1>3, MessagingAssumption DEF MessagingInit, MessagingInv, MessagingTypeOK
-------------------------------------------------------------------------------
(* Requests, and the reads that decide on them, write nothing. *)
QuietStep(h) ==
  \/ \E u, v \in Users : CreateDirect(h, u, v)
  \/ \E u \in Users : EventConversation(h, u)
  \/ \E type \in {"GROUP", "EVENT"}, u \in Users, U \in SUBSET Users : CreateOther(h, type, u, U)
  \/ \E c \in DOMAIN conv :
       \/ \E U \in SUBSET Users : AddMembers(h, c, U)
       \/ \E by, u \in Users : RemoveMember(h, c, by, u)
       \/ DeleteConversation(h, c)
  \/ FindDirect(h) \/ EventFind(h) \/ EventAccepted(h) \/ Count(h) \/ TalkFails(h)

LEMMA QuietNext ==
  ASSUME MessagingInv, NEW h \in Talks,
         QuietStep(h)
  PROVE  MessagingInv'
<1> USE MessagingAssumption
<1>0. /\ DOMAIN conv \subseteq Conversations /\ EventOrganizer \in accepted
      /\ accepted \in SUBSET Users
      /\ mishaps \subseteq {"overlap", "unfinished"}
  BY DEF MessagingInv, MessagingTypeOK
<1>1. ASSUME NEW u \in Users, NEW v \in Users, CreateDirect(h, u, v) PROVE MessagingInv'
  <2>1. mishaps' \subseteq {"overlap", "unfinished"}
    BY <1>0, <1>1 DEF CreateDirect
  <2>2. talk' \in [Talks -> TalkState] /\ CreatesWithMembers'
    BY <1>1, TalkStates, TalkingKeeps DEF CreateDirect
  <2> QED
    BY <1>1, <2>1, <2>2, QuietKeeps DEF CreateDirect
<1>2. ASSUME NEW u \in Users, EventConversation(h, u) PROVE MessagingInv'
  <2>1. talk' \in [Talks -> TalkState] /\ CreatesWithMembers'
    BY <1>2, TalkStates, TalkingKeeps DEF EventConversation
  <2> QED
    BY <1>0, <1>2, <2>1, QuietKeeps DEF EventConversation
<1>3. ASSUME NEW type \in {"GROUP", "EVENT"}, NEW u \in Users, NEW U \in SUBSET Users,
             CreateOther(h, type, u, U)
      PROVE  MessagingInv'
  <2>1. type \in ConvTypes /\ {u} \cup U \in SUBSET Users /\ {u} \cup U # {}
    BY DEF ConvTypes
  <2>2. talk' \in [Talks -> TalkState] /\ CreatesWithMembers'
    BY <1>3, <2>1, GoCreateKeeps DEF CreateOther
  <2> QED
    BY <1>0, <1>3, <2>2, QuietKeeps DEF CreateOther
<1>4. ASSUME NEW c \in DOMAIN conv, NEW U \in SUBSET Users, AddMembers(h, c, U)
      PROVE  MessagingInv'
  <2>1. [step |-> "addWrite", conv |-> c, members |-> U \ conv[c].members] \in TalkState
    BY <1>0, TalkStates
  <2> QED
    BY <1>0, <1>4, <2>1, TalkingKeeps, QuietKeeps DEF AddMembers
<1>5. ASSUME NEW c \in DOMAIN conv, NEW by \in Users, NEW u \in Users, RemoveMember(h, c, by, u)
      PROVE  MessagingInv'
  BY <1>0, <1>5, TalkStates, TalkingKeeps, QuietKeeps DEF RemoveMember
<1>6. ASSUME NEW c \in DOMAIN conv, DeleteConversation(h, c) PROVE MessagingInv'
  BY <1>0, <1>6, TalkStates, TalkingKeeps, QuietKeeps DEF DeleteConversation
<1>7. CASE FindDirect(h)
  <2>1. talk[h].user \in Users /\ talk[h].other \in Users
    BY <1>7, TalkHolds DEF FindDirect, MessagingInv
  <2>2. \/ Talking(h, Idle)
        \/ GoCreate(h, "DIRECT", talk[h].user, {talk[h].user, talk[h].other})
    BY <1>7 DEF FindDirect
  <2>3. talk' \in [Talks -> TalkState] /\ CreatesWithMembers'
    BY <2>1, <2>2, TalkStates, TalkingKeeps, GoCreateKeeps DEF ConvTypes
  <2> QED
    BY <1>0, <1>7, <2>3, QuietKeeps DEF FindDirect
<1>8. CASE EventFind(h)
  <2>1. /\ talk[h].user \in Users /\ talk[h].other \in Users
        /\ talk[h] = [step |-> talk[h].step, user |-> talk[h].user, other |-> talk[h].other]
    BY <1>8, TalkHolds DEF EventFind, MessagingInv
  <2>2. \/ Talking(h, Idle)
        \/ Talking(h, [step |-> "eventAccepted", user |-> talk[h].user, other |-> talk[h].other])
        \/ \E c \in DOMAIN conv :
             Talking(h, [step |-> "eventJoin", conv |-> c, user |-> talk[h].user])
    BY <1>8, <2>1 DEF EventFind, Ids
  <2>3. talk' \in [Talks -> TalkState] /\ CreatesWithMembers'
    BY <1>0, <2>1, <2>2, TalkStates, TalkingKeeps
  <2> QED
    BY <1>0, <1>8, <2>3, QuietKeeps DEF EventFind
<1>9. CASE EventAccepted(h)
  <2>1. Talking(h, Idle) \/ GoCreate(h, "EVENT", EventOrganizer, accepted)
    BY <1>9 DEF EventAccepted
  <2>2. talk' \in [Talks -> TalkState] /\ CreatesWithMembers'
    BY <1>0, <2>1, TalkStates, TalkingKeeps, GoCreateKeeps DEF ConvTypes
  <2> QED
    BY <1>0, <1>9, <2>2, QuietKeeps DEF EventAccepted
<1>10. CASE Count(h)
  <2>1. talk[h].conv \in Conversations
    BY <1>10, TalkHolds DEF Count, MessagingInv
  <2>2. Talking(h, Idle) \/ Talking(h, [step |-> "delete", conv |-> talk[h].conv])
    BY <1>10 DEF Count
  <2>3. talk' \in [Talks -> TalkState] /\ CreatesWithMembers'
    BY <2>1, <2>2, TalkStates, TalkingKeeps
  <2> QED
    BY <1>0, <1>10, <2>3, QuietKeeps DEF Count
<1>11. CASE TalkFails(h)
  <2>1. mishaps' \subseteq {"overlap", "unfinished"}
    BY <1>0, <1>11 DEF TalkFails
  <2>2. talk' \in [Talks -> TalkState] /\ CreatesWithMembers'
    BY <1>11, TalkStates, TalkingKeeps DEF TalkFails
  <2> QED
    BY <1>11, <2>1, <2>2, QuietKeeps DEF TalkFails
<1> QED
  BY <1>1, <1>2, <1>3, <1>4, <1>5, <1>6, <1>7, <1>8, <1>9, <1>10, <1>11 DEF QuietStep
-------------------------------------------------------------------------------
LEMMA CreateType ==
  ASSUME MessagingInv, NEW h \in Talks, Create(h)
  PROVE  MessagingInv'
<1>1. /\ talk[h].type \in ConvTypes /\ talk[h].user \in Users /\ talk[h].members \in SUBSET Users
      /\ DOMAIN conv \subseteq Conversations
  BY TalkHolds DEF Create, MessagingInv, MessagingTypeOK
<1>2. PICK c \in Conversations \ DOMAIN conv :
        /\ conv' = Put(conv, c, [type |-> talk[h].type, creator |-> talk[h].user,
                                 members |-> talk[h].members])
        /\ Talking(h, [step |-> "memberAdded", conv |-> c, members |-> talk[h].members])
        /\ apart' = apart \cup ({c} \X LookedUp(talk[h].members))
  BY DEF Create
<1>3. [type |-> talk[h].type, creator |-> talk[h].user, members |-> talk[h].members] \in ConvRow
  BY <1>1 DEF ConvRow, ConvTypes
<1>4. /\ DOMAIN conv' = DOMAIN conv \cup {c}
      /\ conv' \in [DOMAIN conv' -> ConvRow]
  BY <1>2, <1>3 DEF Put, MessagingInv, MessagingTypeOK
<1>5. apart' \subseteq Conversations \X Online
  BY <1>2 DEF LookedUp, MessagingInv, MessagingTypeOK
<1>6. talk' \in [Talks -> TalkState] /\ CreatesWithMembers'
  BY <1>1, <1>2, TalkStates, TalkingKeeps
<1> QED
  BY <1>1, <1>4, <1>5, <1>6 DEF Create, MessagingInv, MessagingTypeOK

LEMMA MemberAddedType ==
  ASSUME MessagingInv, NEW h \in Talks, MemberAdded(h)
  PROVE  MessagingInv'
<1>1. talk[h].conv \in Conversations
  BY TalkHolds DEF MemberAdded, MessagingInv
<1>2. room' \in [Conversations -> SUBSET Online] /\ apart' \subseteq Conversations \X Online
  BY <1>1 DEF MemberAdded, MessagingInv, MessagingTypeOK
<1>3. talk' \in [Talks -> TalkState] /\ CreatesWithMembers'
  BY TalkStates, TalkingKeeps DEF MemberAdded
<1> QED
  BY <1>2, <1>3 DEF MemberAdded, MessagingInv, MessagingTypeOK

(* The set of members that eventJoin, addWrite or removeWrite leaves. *)
LEMMA MembersType ==
  ASSUME MessagingInv, NEW h \in Talks, NEW c \in Conversations, NEW U \in SUBSET Users,
         c \in DOMAIN conv => c \in Present \/ U = {},
         conv' = [conv EXCEPT ![c].members = U],
         apart' \subseteq apart \cup (Conversations \X Online),
         talk' \in [Talks -> TalkState], CreatesWithMembers',
         UNCHANGED <<accepted, tab, room, mishaps>>
  PROVE  MessagingInv'
<1>1. DOMAIN conv' = DOMAIN conv /\ conv' \in [DOMAIN conv -> ConvRow]
  <2>1. CASE c \in DOMAIN conv
    BY <2>1, WithMembers DEF MessagingInv
  <2>2. CASE c \notin DOMAIN conv
    BY <2>2 DEF MessagingInv, MessagingTypeOK
  <2> QED
    BY <2>1, <2>2
<1> QED
  BY <1>1 DEF MessagingInv, MessagingTypeOK

LEMMA EventJoinType ==
  ASSUME MessagingInv, NEW h \in Talks, EventJoin(h)
  PROVE  MessagingInv'
<1> DEFINE c == talk[h].conv
           u == talk[h].user
<1>1. c \in Conversations /\ u \in Users
  BY TalkHolds DEF EventJoin, MessagingInv
<1>2. CASE c \in Present /\ u \notin conv[c].members
  <2>1. /\ conv' = [conv EXCEPT ![c].members = conv[c].members \cup {u}]
        /\ apart' = apart \cup ({c} \X LookedUp({u}))
        /\ Talking(h, [step |-> "memberAdded", conv |-> c, members |-> {u}])
    BY <1>2 DEF EventJoin
  <2>2. conv[c].members \cup {u} \in SUBSET Users
    BY <1>1, <1>2 DEF MessagingInv, MessagingTypeOK, ConvRow, Present
  <2>3. apart' \subseteq apart \cup (Conversations \X Online)
    BY <1>1, <2>1 DEF LookedUp
  <2>4. talk' \in [Talks -> TalkState] /\ CreatesWithMembers'
    BY <1>1, <2>1, TalkStates, TalkingKeeps
  <2>5. UNCHANGED <<accepted, tab, room, mishaps>>
    BY DEF EventJoin
  <2> QED
    BY <1>1, <1>2, <2>1, <2>2, <2>3, <2>4, <2>5, MembersType
<1>3. CASE ~(c \in Present /\ u \notin conv[c].members)
  <2>1. talk' \in [Talks -> TalkState] /\ CreatesWithMembers'
    BY <1>3, TalkStates, TalkingKeeps DEF EventJoin
  <2> QED
    BY <1>3, <2>1 DEF EventJoin, MessagingInv, MessagingTypeOK
<1> QED
  BY <1>2, <1>3

LEMMA AddWriteType ==
  ASSUME MessagingInv, NEW h \in Talks, AddWrite(h)
  PROVE  MessagingInv'
<1> DEFINE c == talk[h].conv
           U == talk[h].members
<1>1. c \in Conversations /\ U \in SUBSET Users
  BY TalkHolds DEF AddWrite, MessagingInv
<1>2. talk' \in [Talks -> TalkState] /\ CreatesWithMembers'
  BY TalkStates, TalkingKeeps DEF AddWrite
<1>3. CASE c \in Present /\ U \cap conv[c].members = {}
  <2>1. /\ conv' = [conv EXCEPT ![c].members = conv[c].members \cup U]
        /\ apart' = apart \cup ({c} \X LookedUp(U))
        /\ UNCHANGED <<accepted, tab, room, mishaps>>
    BY <1>3 DEF AddWrite
  <2>2. conv[c].members \cup U \in SUBSET Users
    BY <1>1, <1>3 DEF MessagingInv, MessagingTypeOK, ConvRow, Present
  <2>3. apart' \subseteq apart \cup (Conversations \X Online)
    BY <1>1, <2>1 DEF LookedUp
  <2> QED
    BY <1>1, <1>2, <1>3, <2>1, <2>2, <2>3, MembersType
<1>4. CASE ~(c \in Present /\ U \cap conv[c].members = {})
  BY <1>2, <1>4 DEF AddWrite, MessagingInv, MessagingTypeOK
<1> QED
  BY <1>3, <1>4

LEMMA RemoveWriteType ==
  ASSUME MessagingInv, NEW h \in Talks, RemoveWrite(h)
  PROVE  MessagingInv'
<1> DEFINE c == talk[h].conv
           U == conv[c].members \ {talk[h].user}
<1>1. c \in Conversations
  BY TalkHolds DEF RemoveWrite, MessagingInv
<1>2. conv' = [conv EXCEPT ![c].members = U] /\ UNCHANGED <<accepted, tab, room, apart, mishaps>>
  BY DEF RemoveWrite
<1>3. talk' \in [Talks -> TalkState] /\ CreatesWithMembers'
  BY <1>1, TalkStates, TalkingKeeps DEF RemoveWrite
<1>4. CASE c \in DOMAIN conv
  <2>1. U \in SUBSET Users /\ (c \in Present \/ U = {})
    BY <1>4 DEF MessagingInv, MessagingTypeOK, ConvRow, Present, Ids
  <2> QED
    BY <1>1, <1>2, <1>3, <2>1, MembersType
<1>5. CASE c \notin DOMAIN conv
  BY <1>2, <1>3, <1>5 DEF MessagingInv, MessagingTypeOK
<1> QED
  BY <1>4, <1>5

LEMMA DeleteType ==
  ASSUME MessagingInv, NEW h \in Talks, Delete(h)
  PROVE  MessagingInv'
<1> DEFINE c == talk[h].conv
<1>1. conv' = [conv EXCEPT ![c] = [[conv[c] EXCEPT !.type = "deleted"] EXCEPT !.members = {}]]
  BY DEF Delete
<1>2. DOMAIN conv' = DOMAIN conv /\ conv' \in [DOMAIN conv -> ConvRow]
  <2>1. c \in DOMAIN conv =>
          [[conv[c] EXCEPT !.type = "deleted"] EXCEPT !.members = {}] \in ConvRow
    BY DEF MessagingInv, MessagingTypeOK, ConvRow
  <2> QED
    BY <1>1, <2>1 DEF MessagingInv, MessagingTypeOK
<1>3. talk' \in [Talks -> TalkState] /\ CreatesWithMembers'
  BY TalkStates, TalkingKeeps DEF Delete
<1> QED
  BY <1>2, <1>3 DEF Delete, MessagingInv, MessagingTypeOK

LEMMA TabType ==
  ASSUME MessagingInv, NEW u \in Online, TabStep(u)
  PROVE  MessagingInv'
<1> USE DEF MessagingInv, MessagingTypeOK, CreatesWithMembers
<1>1. CASE Connect(u)
  BY <1>1 DEF Connect, TabState
<1>2. CASE FindConversations(u)
  <2>1. {c \in Present : u \in conv[c].members} \in SUBSET Conversations
    BY DEF Present
  <2> QED
    BY <1>2, <2>1 DEF FindConversations, TabState
<1>3. CASE JoinRooms(u)
  <2>1. tab' \in [Online -> TabState] /\ room' \in [Conversations -> SUBSET Online]
    BY <1>3 DEF JoinRooms, TabState
  <2> QED
    BY <1>3, <2>1 DEF JoinRooms
<1>4. CASE Disconnect(u)
  BY <1>4 DEF Disconnect, Disconnects, TabState
<1>5. ASSUME NEW c \in DOMAIN conv, JoinConversation(u, c) PROVE MessagingInv'
  BY <1>5 DEF JoinConversation
<1>6. ASSUME NEW c \in DOMAIN conv, LeaveConversation(u, c) PROVE MessagingInv'
  BY <1>6 DEF LeaveConversation
<1> QED
  BY <1>1, <1>2, <1>3, <1>4, <1>5, <1>6 DEF TabStep

LEMMA MessagingInvNext == MessagingInv /\ [MessagingNext]_messagingVars => MessagingInv'
<1> SUFFICES ASSUME MessagingInv, [MessagingNext]_messagingVars PROVE MessagingInv'
  OBVIOUS
<1>1. ASSUME NEW h \in Talks, TalkStep(h) PROVE MessagingInv'
  BY <1>1, QuietNext, CreateType, MemberAddedType, EventJoinType, AddWriteType,
     RemoveWriteType, DeleteType DEF TalkStep, QuietStep
<1>2. ASSUME NEW u \in Users, Accepts(u) PROVE MessagingInv'
  BY <1>2 DEF Accepts, MessagingInv, MessagingTypeOK, CreatesWithMembers
<1>3. CASE ChatRestart
  <2>1. talk' \in [Talks -> TalkState] /\ CreatesWithMembers'
    BY <1>3, TalkStates DEF ChatRestart, CreatesWithMembers
  <2>2. mishaps' \subseteq {"overlap", "unfinished"}
    BY <1>3 DEF ChatRestart, MessagingInv, MessagingTypeOK
  <2> QED
    BY <1>3, <2>1, <2>2 DEF ChatRestart, Disconnects, MessagingInv, MessagingTypeOK, TabState
<1>4. CASE UNCHANGED messagingVars
  BY <1>4 DEF messagingVars, MessagingInv, MessagingTypeOK, CreatesWithMembers
<1> QED
  BY <1>1, <1>2, <1>3, <1>4, TabType DEF MessagingNext

(* Conversations, rooms, sockets and handlers keep their types, and a      *)
(* conversation that is deleted keeps no member.                           *)
THEOREM MessagingTypeCorrect == MessagingSpec => []MessagingTypeOK
<1>1. MessagingInv => MessagingTypeOK
  BY DEF MessagingInv
<1> QED
  BY <1>1, MessagingInvInit, MessagingInvNext, PTL DEF MessagingSpec
-------------------------------------------------------------------------------
Counting == {"count", "delete"}

(* A handler that does not count moves on, and nobody leaves meanwhile. *)
LEMMA NobodyLeaves ==
  ASSUME MessagingInv, NoEmptyConversation, NEW h \in Talks, talk[h].step \notin Counting,
         NEW state, Talking(h, state), mishaps \subseteq mishaps',
         \A c \in DOMAIN conv' :
           IF c \in DOMAIN conv
           THEN /\ conv'[c].type = "deleted" <=> conv[c].type = "deleted"
                /\ conv[c].members \subseteq conv'[c].members
           ELSE conv'[c].members # {}
  PROVE  NoEmptyConversation'
<1>1. \A g \in Talks : talk[g].step \in Counting => talk'[g] = talk[g]
  BY DEF Talking, MessagingInv, MessagingTypeOK
<1> QED
  BY <1>1 DEF NoEmptyConversation, Present, Ids, Counting, Unfinished

LEMMA NoEmptyQuiet ==
  ASSUME MessagingInv, NoEmptyConversation, NEW h \in Talks, QuietStep(h)
  PROVE  NoEmptyConversation'
<1>1. UNCHANGED conv
  BY DEF QuietStep, CreateDirect, EventConversation, CreateOther, AddMembers, RemoveMember,
         DeleteConversation, FindDirect, EventFind, EventAccepted, Count, TalkFails
<1>2. mishaps \subseteq mishaps'
  BY DEF QuietStep, CreateDirect, EventConversation, CreateOther, AddMembers, RemoveMember,
         DeleteConversation, FindDirect, EventFind, EventAccepted, Count, TalkFails
<1>3. CASE Count(h)
  <2>1. CASE conv[talk[h].conv].members = {}
    <3>1. Talking(h, [step |-> "delete", conv |-> talk[h].conv])
      BY <1>3, <2>1 DEF Count
    <3>2. \A g \in Talks : talk[g].step \in Counting =>
             talk'[g].step \in Counting /\ talk'[g].conv = talk[g].conv
      BY <3>1 DEF Talking, MessagingInv, MessagingTypeOK, Counting
    <3> QED
      BY <1>1, <1>2, <3>2 DEF NoEmptyConversation, Present, Ids, Counting, Unfinished
  <2>2. CASE conv[talk[h].conv].members # {}
    <3>1. \A g \in Talks \ {h} : talk'[g] = talk[g]
      BY <1>3 DEF Count, Talking, MessagingInv, MessagingTypeOK
    <3> QED
      BY <1>1, <1>2, <2>2, <3>1 DEF NoEmptyConversation, Present, Ids, Unfinished
  <2> QED
    BY <2>1, <2>2
<1>4. CASE TalkFails(h)
  <2>1. CASE Unfinished(h)
    BY <1>4, <2>1 DEF TalkFails, NoEmptyConversation
  <2>2. CASE ~Unfinished(h)
    <3>1. talk[h].step \notin Counting
      BY <2>2 DEF Unfinished, Counting
    <3> QED
      BY <1>1, <1>2, <1>4, <3>1, NobodyLeaves DEF TalkFails
  <2> QED
    BY <2>1, <2>2
<1>5. CASE ~Count(h) /\ ~TalkFails(h)
  <2>1. talk[h] = Idle \/ talk[h].step \in {"findDirect", "eventFind", "eventAccepted"}
    BY <1>5 DEF QuietStep, CreateDirect, EventConversation, CreateOther, AddMembers, RemoveMember,
               DeleteConversation, FindDirect, EventFind, EventAccepted
  <2>2. talk[h].step \notin Counting
    BY <2>1, TalkStates DEF Counting
  <2>3. \E state : Talking(h, state)
    BY <1>5 DEF QuietStep, CreateDirect, EventConversation, CreateOther, AddMembers, RemoveMember,
               DeleteConversation, FindDirect, EventFind, EventAccepted, GoCreate
  <2> QED
    BY <1>1, <1>2, <2>2, <2>3, NobodyLeaves
<1> QED
  BY <1>3, <1>4, <1>5

LEMMA NoEmptyNext ==
  MessagingInv /\ NoEmptyConversation /\ [MessagingNext]_messagingVars => NoEmptyConversation'
<1> SUFFICES ASSUME MessagingInv, NoEmptyConversation, [MessagingNext]_messagingVars
             PROVE  NoEmptyConversation'
  OBVIOUS
<1>1. ASSUME NEW h \in Talks, QuietStep(h) PROVE NoEmptyConversation'
  BY <1>1, NoEmptyQuiet
<1>2. ASSUME NEW h \in Talks, Create(h) PROVE NoEmptyConversation'
  <2>1. PICK c \in Conversations \ DOMAIN conv :
          /\ conv' = Put(conv, c, [type |-> talk[h].type, creator |-> talk[h].user,
                                   members |-> talk[h].members])
          /\ Talking(h, [step |-> "memberAdded", conv |-> c, members |-> talk[h].members])
    BY <1>2 DEF Create
  <2>2. talk[h].members # {} /\ talk[h].step \notin Counting
    BY <1>2 DEF Create, MessagingInv, CreatesWithMembers, Counting
  <2>3. /\ DOMAIN conv' = DOMAIN conv \cup {c} /\ conv'[c].members = talk[h].members
        /\ \A d \in DOMAIN conv : conv'[d] = conv[d]
    BY <2>1 DEF Put
  <2>4. mishaps \subseteq mishaps'
    BY <1>2 DEF Create
  <2> QED
    BY <2>1, <2>2, <2>3, <2>4, NobodyLeaves
<1>3. ASSUME NEW h \in Talks, MemberAdded(h) PROVE NoEmptyConversation'
  BY <1>3, NobodyLeaves DEF MemberAdded, Counting
<1>4. ASSUME NEW h \in Talks, EventJoin(h) \/ AddWrite(h) PROVE NoEmptyConversation'
  <2>1. /\ talk[h].step \notin Counting /\ mishaps' = mishaps
        /\ \E state : Talking(h, state)
    BY <1>4 DEF EventJoin, AddWrite, Counting
  <2>2. \/ conv' = conv
        \/ \E c \in DOMAIN conv, U \in {talk[h].members, {talk[h].user}} :
             conv' = [conv EXCEPT ![c].members = conv[c].members \cup U]
    BY <1>4 DEF EventJoin, AddWrite, Present
  <2>3. \A c \in DOMAIN conv' : /\ c \in DOMAIN conv
                                /\ conv'[c].type = conv[c].type
                                /\ conv[c].members \subseteq conv'[c].members
    BY <2>2 DEF MessagingInv, MessagingTypeOK, ConvRow
  <2> QED
    BY <2>1, <2>3, NobodyLeaves
<1>5. ASSUME NEW h \in Talks, RemoveWrite(h) PROVE NoEmptyConversation'
  <2> DEFINE c == talk[h].conv
  <2>1. /\ \A g \in Talks \ {h} : talk'[g] = talk[g]
        /\ talk'[h] = [step |-> "count", conv |-> c]
    BY <1>5 DEF RemoveWrite, Talking, MessagingInv, MessagingTypeOK
  <2>2. /\ DOMAIN conv' = DOMAIN conv
        /\ \A d \in DOMAIN conv \ {c} : conv'[d] = conv[d]
        /\ c \in DOMAIN conv => conv'[c].type = conv[c].type
    BY <1>5 DEF RemoveWrite, MessagingInv, MessagingTypeOK, ConvRow
  <2>3. talk[h].step \notin Counting /\ mishaps' = mishaps
    BY <1>5 DEF RemoveWrite, Counting
  <2> QED
    BY <2>1, <2>2, <2>3 DEF NoEmptyConversation, Present, Ids, Counting, Unfinished
<1>6. ASSUME NEW h \in Talks, Delete(h) PROVE NoEmptyConversation'
  <2> DEFINE c == talk[h].conv
  <2>1. \A g \in Talks \ {h} : talk'[g] = talk[g]
    BY <1>6 DEF Delete, Talking, MessagingInv, MessagingTypeOK
  <2>2. /\ DOMAIN conv' = DOMAIN conv
        /\ \A d \in DOMAIN conv \ {c} : conv'[d] = conv[d]
        /\ c \in DOMAIN conv => conv'[c].type = "deleted"
    BY <1>6 DEF Delete, MessagingInv, MessagingTypeOK, ConvRow
  <2>3. mishaps' = mishaps
    BY <1>6 DEF Delete
  <2> QED
    BY <2>1, <2>2, <2>3 DEF NoEmptyConversation, Present, Ids, Unfinished
<1>7. ASSUME UNCHANGED <<conv, mishaps, talk>> PROVE NoEmptyConversation'
  BY <1>7 DEF NoEmptyConversation, Present, Ids, Unfinished
<1>8. ASSUME NEW u \in Online, TabStep(u) PROVE UNCHANGED <<conv, mishaps, talk>>
  BY <1>8 DEF TabStep, Connect, FindConversations, JoinRooms, Disconnect, JoinConversation,
              LeaveConversation
<1>9. CASE ChatRestart
  <2>1. CASE \E h \in Talks : Unfinished(h)
    BY <1>9, <2>1 DEF ChatRestart, NoEmptyConversation
  <2>2. CASE ~\E h \in Talks : Unfinished(h)
    BY <1>9, <2>2 DEF ChatRestart, NoEmptyConversation, Present, Ids
  <2> QED
    BY <2>1, <2>2
<1>10. ASSUME NEW h \in Talks, TalkStep(h) PROVE NoEmptyConversation'
  BY <1>1, <1>2, <1>3, <1>4, <1>5, <1>6, <1>10 DEF TalkStep, QuietStep
<1> QED
  BY <1>7, <1>8, <1>9, <1>10 DEF MessagingNext, Accepts, messagingVars

(* A conversation that everybody has left is gone or being deleted, in     *)
(* whatever order its members leave, are added and come back.              *)
THEOREM NoneIsEmpty == MessagingSpec => []NoEmptyConversation
<1>1. MessagingInit => NoEmptyConversation
  BY DEF MessagingInit, NoEmptyConversation, Present, NoRows
<1> QED
  BY <1>1, MessagingInvInit, MessagingInvNext, NoEmptyNext, PTL DEF MessagingSpec
-------------------------------------------------------------------------------
(* Why members are in their rooms: whoever is joining has found the        *)
(* conversation, or was put in its room since.                             *)
InRoomOrComing ==
  \A c \in Present, u \in Online :
    u \in conv[c].members /\ <<c, u>> \notin apart =>
      /\ tab[u].step = "on" => u \in room[c]
      /\ tab[u].step = "joining" => u \in room[c] \/ c \in tab[u].found

(* Rows may appear, and members be added whose sockets are apart or have   *)
(* not looked their conversations up, or leave; rooms and tabs stay.       *)
LEMMA NewMembersApart ==
  ASSUME MessagingInv, InRoomOrComing, UNCHANGED <<tab, room>>,
         \A c \in Present', u \in Online :
           u \in conv'[c].members /\ <<c, u>> \notin apart' =>
             \/ c \in Present /\ u \in conv[c].members /\ <<c, u>> \notin apart
             \/ tab[u].step \notin {"joining", "on"}
  PROVE  InRoomOrComing'
BY DEF InRoomOrComing

LEMMA RoomTalk ==
  ASSUME MessagingInv, InRoomOrComing, NEW h \in Talks, TalkStep(h)
  PROVE  InRoomOrComing'
<1> USE DEF Present, Ids, LookedUp
<1>1. CASE QuietStep(h)
  <2>1. UNCHANGED <<conv, tab, room, apart>>
    BY <1>1 DEF QuietStep, CreateDirect, EventConversation, CreateOther, AddMembers, RemoveMember,
                DeleteConversation, FindDirect, EventFind, EventAccepted, Count, TalkFails
  <2> QED
    BY <2>1 DEF InRoomOrComing
<1>2. CASE Create(h)
  <2>1. PICK c \in Conversations \ DOMAIN conv :
          /\ conv' = Put(conv, c, [type |-> talk[h].type, creator |-> talk[h].user,
                                   members |-> talk[h].members])
          /\ apart' = apart \cup ({c} \X LookedUp(talk[h].members))
    BY <1>2 DEF Create
  <2>2. /\ DOMAIN conv' = DOMAIN conv \cup {c} /\ conv'[c].members = talk[h].members
        /\ \A d \in DOMAIN conv : conv'[d] = conv[d]
    BY <2>1 DEF Put
  <2> QED
    BY <1>2, <2>1, <2>2, NewMembersApart DEF Create
<1>3. CASE MemberAdded(h)
  <2> DEFINE c == talk[h].conv
  <2>1. c \in Conversations
    BY <1>3, TalkHolds DEF MemberAdded, MessagingInv
  <2>2. /\ room'[c] = room[c] \cup {u \in talk[h].members \cap Online : tab[u].step # "off"}
        /\ \A d \in Conversations \ {c} : room'[d] = room[d]
        /\ apart' = apart \ ({c} \X talk[h].members)
        /\ UNCHANGED <<conv, tab>>
    BY <1>3, <2>1 DEF MemberAdded, MessagingInv, MessagingTypeOK
  <2>3. DOMAIN conv \subseteq Conversations
    BY DEF MessagingInv, MessagingTypeOK
  <2> HIDE DEF c
  <2> QED
    BY <2>1, <2>2, <2>3 DEF InRoomOrComing
<1>4. CASE EventJoin(h) \/ AddWrite(h)
  <2>1. UNCHANGED <<tab, room>>
    BY <1>4 DEF EventJoin, AddWrite
  <2>2. \/ UNCHANGED <<conv, apart>>
        \/ \E c \in DOMAIN conv, U \in {talk[h].members, {talk[h].user}} :
             /\ conv' = [conv EXCEPT ![c].members = conv[c].members \cup U]
             /\ apart' = apart \cup ({c} \X LookedUp(U))
    BY <1>4 DEF EventJoin, AddWrite
  <2>3. ASSUME NEW c \in DOMAIN conv, NEW U,
               conv' = [conv EXCEPT ![c].members = conv[c].members \cup U],
               apart' = apart \cup ({c} \X LookedUp(U))
        PROVE  InRoomOrComing'
    <3>1. /\ DOMAIN conv' = DOMAIN conv
          /\ \A d \in DOMAIN conv \ {c} : conv'[d] = conv[d]
          /\ conv'[c].type = conv[c].type /\ conv'[c].members = conv[c].members \cup U
      BY <2>3 DEF MessagingInv, MessagingTypeOK, ConvRow
    <3> QED
      BY <2>1, <2>3, <3>1, NewMembersApart
  <2> QED
    BY <2>1, <2>2, <2>3, NewMembersApart
<1>5. CASE RemoveWrite(h)
  <2> DEFINE c == talk[h].conv
  <2>1. /\ DOMAIN conv' = DOMAIN conv
        /\ \A d \in DOMAIN conv : /\ conv'[d].type = conv[d].type
                                  /\ conv'[d].members \subseteq conv[d].members
    BY <1>5 DEF RemoveWrite, MessagingInv, MessagingTypeOK, ConvRow
  <2> QED
    BY <1>5, <2>1, NewMembersApart DEF RemoveWrite
<1>6. CASE Delete(h)
  <2> DEFINE c == talk[h].conv
  <2>1. /\ DOMAIN conv' = DOMAIN conv
        /\ \A d \in DOMAIN conv \ {c} : conv'[d] = conv[d]
        /\ c \in DOMAIN conv => conv'[c].type = "deleted"
    BY <1>6 DEF Delete, MessagingInv, MessagingTypeOK, ConvRow
  <2>2. apart' = apart \ ({c} \X Users) /\ UNCHANGED <<tab, room>>
    BY <1>6 DEF Delete
  <2> HIDE DEF c
  <2> QED
    BY <2>1, <2>2, NewMembersApart
<1> QED
  BY <1>1, <1>2, <1>3, <1>4, <1>5, <1>6 DEF TalkStep, QuietStep

LEMMA RoomTab ==
  ASSUME MessagingInv, InRoomOrComing, NEW u \in Online, TabStep(u)
  PROVE  InRoomOrComing'
<1>0. /\ DOMAIN conv \subseteq Conversations /\ room \in [Conversations -> SUBSET Online]
      /\ tab \in [Online -> TabState]
  BY DEF MessagingInv, MessagingTypeOK
<1>1. CASE Connect(u)
  <2>1. /\ tab'[u].step = "reading" /\ \A v \in Online \ {u} : tab'[v] = tab[v]
        /\ UNCHANGED <<conv, room, apart>>
    BY <1>0, <1>1 DEF Connect
  <2> QED
    BY <2>1 DEF InRoomOrComing, Present, Ids
<1>2. CASE FindConversations(u)
  <2>1. /\ tab'[u].step = "joining"
        /\ tab'[u].found = {c \in Present : u \in conv[c].members}
        /\ \A v \in Online \ {u} : tab'[v] = tab[v]
        /\ UNCHANGED <<conv, room, apart>> /\ Present' = Present
    BY <1>0, <1>2 DEF FindConversations, Present, Ids
  <2> QED
    BY <2>1 DEF InRoomOrComing
<1>3. CASE JoinRooms(u)
  <2>1. /\ tab[u].step = "joining" /\ tab'[u].step = "on"
        /\ \A v \in Online \ {u} : tab'[v] = tab[v]
        /\ \A c \in Conversations :
             room'[c] = IF c \in tab[u].found THEN room[c] \cup {u} ELSE room[c]
        /\ apart' = apart \ (tab[u].found \X {u})
        /\ UNCHANGED conv /\ Present' = Present /\ Present \subseteq Conversations
    BY <1>0, <1>3 DEF JoinRooms, Present, Ids
  <2>2. SUFFICES ASSUME NEW c \in Present, NEW v \in Online,
                        v \in conv[c].members, <<c, v>> \notin apart'
                 PROVE  /\ tab'[v].step = "on" => v \in room'[c]
                        /\ tab'[v].step = "joining" => v \in room'[c] \/ c \in tab'[v].found
    BY <2>1 DEF InRoomOrComing
  <2>3. room[c] \subseteq room'[c]
    BY <2>1
  <2>4. CASE v = u
    <3>1. c \in tab[u].found => u \in room'[c]
      BY <2>1
    <3>2. c \notin tab[u].found => <<c, u>> \notin apart
      BY <2>1, <2>2, <2>4
    <3>3. c \notin tab[u].found => u \in room[c]
      BY <2>1, <2>2, <2>4, <3>2 DEF InRoomOrComing
    <3> QED
      BY <2>1, <2>3, <2>4, <3>1, <3>3
  <2>5. CASE v # u
    <3>1. <<c, v>> \notin apart
      BY <2>1, <2>2, <2>5
    <3> QED
      BY <2>1, <2>2, <2>3, <2>5, <3>1 DEF InRoomOrComing
  <2> QED
    BY <2>4, <2>5
<1>4. CASE Disconnect(u)
  <2>1. /\ tab'[u].step = "off" /\ \A v \in Online \ {u} : tab'[v] = tab[v]
        /\ \A c \in Conversations : room'[c] = room[c] \ {u}
        /\ apart' = apart \ (Conversations \X {u})
        /\ UNCHANGED conv /\ Present' = Present /\ Present \subseteq Conversations
    BY <1>0, <1>4 DEF Disconnect, Disconnects, Present, Ids
  <2> QED
    BY <2>1 DEF InRoomOrComing
<1>5. ASSUME NEW c \in DOMAIN conv, JoinConversation(u, c) PROVE InRoomOrComing'
  <2>1. /\ room'[c] = room[c] \cup {u} /\ \A d \in Conversations \ {c} : room'[d] = room[d]
        /\ apart' = apart \ {<<c, u>>}
        /\ UNCHANGED <<conv, tab>> /\ Present' = Present /\ Present \subseteq Conversations
    BY <1>0, <1>5 DEF JoinConversation, Present, Ids
  <2> QED
    BY <2>1 DEF InRoomOrComing
<1>6. ASSUME NEW c \in DOMAIN conv, LeaveConversation(u, c) PROVE InRoomOrComing'
  <2>1. /\ room'[c] = room[c] \ {u} /\ \A d \in Conversations \ {c} : room'[d] = room[d]
        /\ apart' = apart \cup {<<c, u>>}
        /\ UNCHANGED <<conv, tab>> /\ Present' = Present /\ Present \subseteq Conversations
    BY <1>0, <1>6 DEF LeaveConversation, Present, Ids
  <2> QED
    BY <2>1 DEF InRoomOrComing
<1> QED
  BY <1>1, <1>2, <1>3, <1>4, <1>5, <1>6 DEF TabStep

LEMMA RoomNext ==
  MessagingInv /\ InRoomOrComing /\ [MessagingNext]_messagingVars => InRoomOrComing'
<1> SUFFICES ASSUME MessagingInv, InRoomOrComing, [MessagingNext]_messagingVars
             PROVE  InRoomOrComing'
  OBVIOUS
<1>1. CASE ChatRestart
  <2>1. \A u \in Online : tab'[u].step = "off"
    BY <1>1 DEF ChatRestart, Disconnects
  <2> QED
    BY <2>1 DEF InRoomOrComing
<1>2. CASE (\E u \in Users : Accepts(u)) \/ UNCHANGED messagingVars
  BY <1>2 DEF Accepts, messagingVars, InRoomOrComing, Present, Ids
<1> QED
  BY <1>1, <1>2, RoomTalk, RoomTab DEF MessagingNext

(* Connections and creations may interleave in any order: a member whose   *)
(* socket is open hears his conversations, but for those addMembers added. *)
THEOREM MembersHear == MessagingSpec => []MembersInRoom
<1>1. MessagingInit => InRoomOrComing
  BY DEF MessagingInit, InRoomOrComing, Present, NoRows
<1>2. InRoomOrComing => MembersInRoom
  BY DEF InRoomOrComing, MembersInRoom
<1> QED
  BY <1>1, <1>2, MessagingInvInit, MessagingInvNext, RoomNext, PTL DEF MessagingSpec
-------------------------------------------------------------------------------
(* Why two people have one direct conversation.  While no two searches have *)
(* overlapped one handler makes one at a time, and what its search has      *)
(* found is still so when the row is written.                               *)
OneMaker == \A g, h \in Talks : Making(g) /\ Making(h) => g = h

DirectClear ==
  \A h \in Talks, c \in Ids("DIRECT") :
    Making(h) /\ talk[h].step = "create" /\ conv[c].members = talk[h].members
    => Cardinality(talk[h].members) = 1

OneOfEach ==
  \A c, d \in Ids("DIRECT") :
    conv[c].members = conv[d].members => c = d \/ Cardinality(conv[c].members) = 1

(* The members of a direct conversation stay: nobody is about to change    *)
(* them.                                                                   *)
MemberSteps == {"addWrite", "eventJoin", "removeWrite"}

DirectFixed ==
  \A h \in Talks :
    talk[h].step \in MemberSteps => talk[h].conv \in DOMAIN conv \ Ids("DIRECT")

MakingInv == DirectFixed /\ ("overlap" \notin mishaps => OneMaker /\ DirectClear /\ OneOfEach)

(* It makes no direct conversation. *)
NoSearch(state) ==
  state.step \in {"create", "findDirect"} => state.step = "create" /\ state.type # "DIRECT"

(* A handler that is not making a direct conversation any more, whatever   *)
(* it does to the members of the others; no row comes, none becomes direct. *)
LEMMA NotMaking ==
  ASSUME MessagingInv, MakingInv, NEW h \in Talks, NEW state, Talking(h, state),
         NoSearch(state),
         state.step \in MemberSteps => state.conv \in DOMAIN conv \ Ids("DIRECT"),
         mishaps \subseteq mishaps', DOMAIN conv' = DOMAIN conv,
         \A c \in DOMAIN conv : \/ conv'[c].type = conv[c].type
                                \/ conv'[c].type = "deleted",
         \A c \in Ids("DIRECT") : conv'[c].type = "DIRECT" => conv'[c].members = conv[c].members
  PROVE  MakingInv'
<1>1. /\ \A g \in Talks \ {h} : talk'[g] = talk[g]
      /\ talk'[h] = state
  BY DEF Talking, MessagingInv, MessagingTypeOK
<1>2. ASSUME NEW g \in Talks, Making(g)'
      PROVE  g # h /\ Making(g)
  <2>1. ~NoSearch(talk'[g])
    BY <1>2 DEF Making, NoSearch
  <2>2. g # h
    BY <1>1, <2>1
  <2> QED
    BY <1>1, <1>2, <2>2 DEF Making
<1>3. \A c \in Ids("DIRECT")' : c \in Ids("DIRECT") /\ conv'[c].members = conv[c].members
  BY DEF Ids
<1>4. ASSUME "overlap" \notin mishaps' PROVE (OneMaker /\ DirectClear /\ OneOfEach)'
  <2>1. OneMaker /\ DirectClear /\ OneOfEach
    BY <1>4 DEF MakingInv
  <2>2. OneMaker'
    BY <1>2, <2>1 DEF OneMaker
  <2>3. DirectClear'
    BY <1>1, <1>2, <1>3, <2>1 DEF DirectClear
  <2>4. OneOfEach'
    BY <1>3, <2>1 DEF OneOfEach
  <2> QED
    BY <2>2, <2>3, <2>4
<1>5. DirectFixed'
  <2>1. SUFFICES ASSUME NEW g \in Talks, talk'[g].step \in MemberSteps
                 PROVE  talk'[g].conv \in DOMAIN conv \ Ids("DIRECT")
    BY <1>3 DEF DirectFixed
  <2> QED
    BY <1>1, <2>1 DEF MakingInv, DirectFixed
<1> QED
  BY <1>4, <1>5 DEF MakingInv

(* A search begins: either no other is under way, or it is remembered.     *)
LEMMA SearchBegins ==
  ASSUME MessagingInv, MakingInv, NEW h \in Talks, NEW u, NEW v, CreateDirect(h, u, v)
  PROVE  MakingInv'
<1>1. /\ \A g \in Talks \ {h} : talk'[g] = talk[g]
      /\ talk'[h].step = "findDirect"
  BY DEF CreateDirect, Talking, MessagingInv, MessagingTypeOK
<1>2. conv' = conv /\ Ids("DIRECT")' = Ids("DIRECT")
  BY DEF CreateDirect, Ids
<1>3. ASSUME "overlap" \notin mishaps' PROVE (OneMaker /\ DirectClear /\ OneOfEach)'
  <2>1. /\ ~\E g \in Talks : Making(g)
        /\ OneOfEach
    BY <1>3 DEF CreateDirect, MakingInv
  <2>2. \A g \in Talks : Making(g)' => g = h
    BY <1>1, <2>1 DEF Making
  <2>3. OneMaker'
    BY <2>2 DEF OneMaker
  <2>4. DirectClear'
    BY <1>1, <2>2 DEF DirectClear
  <2>5. OneOfEach'
    BY <1>2, <2>1 DEF OneOfEach
  <2> QED
    BY <2>3, <2>4, <2>5
<1>4. DirectFixed'
  BY <1>1, <1>2 DEF MakingInv, DirectFixed, MemberSteps
<1> QED
  BY <1>3, <1>4 DEF MakingInv

(* A search that found nothing goes on to create.                          *)
LEMMA SearchGoesOn ==
  ASSUME MessagingInv, MakingInv, NEW h \in Talks, Making(h), NEW state, Talking(h, state),
         state.step = "create", state.type = "DIRECT",
         \A c \in Ids("DIRECT") : conv[c].members = state.members => Cardinality(state.members) = 1,
         conv' = conv, mishaps' = mishaps
  PROVE  MakingInv'
<1>1. /\ \A g \in Talks \ {h} : talk'[g] = talk[g]
      /\ talk'[h] = state
  BY DEF Talking, MessagingInv, MessagingTypeOK
<1>2. Ids("DIRECT")' = Ids("DIRECT")
  BY DEF Ids
<1>3. \A g \in Talks : Making(g)' => Making(g)
  BY <1>1 DEF Making
<1>4. ASSUME "overlap" \notin mishaps PROVE (OneMaker /\ DirectClear /\ OneOfEach)'
  <2>1. OneMaker /\ DirectClear /\ OneOfEach
    BY <1>4 DEF MakingInv
  <2>2. OneMaker'
    BY <1>3, <2>1 DEF OneMaker
  <2>3. DirectClear'
    <3>1. SUFFICES ASSUME NEW g \in Talks, NEW c \in Ids("DIRECT"),
                          Making(g)', talk'[g].step = "create",
                          conv[c].members = talk'[g].members
                   PROVE  Cardinality(talk'[g].members) = 1
      BY <1>2 DEF DirectClear
    <3>2. CASE g = h
      BY <1>1, <3>1, <3>2
    <3>3. CASE g # h
      BY <1>1, <1>3, <2>1, <3>1, <3>3 DEF DirectClear
    <3> QED
      BY <3>2, <3>3
  <2>4. OneOfEach'
    BY <1>2, <2>1 DEF OneOfEach
  <2> QED
    BY <2>2, <2>3, <2>4
<1>5. DirectFixed'
  BY <1>1, <1>2 DEF MakingInv, DirectFixed, MemberSteps
<1> QED
  BY <1>4, <1>5 DEF MakingInv

(* The row is written: if it is direct, it is the only one of its pair.    *)
LEMMA RowWritten ==
  ASSUME MessagingInv, MakingInv, NEW h \in Talks, Create(h)
  PROVE  MakingInv'
<1>1. PICK n \in Conversations \ DOMAIN conv :
        /\ conv' = Put(conv, n, [type |-> talk[h].type, creator |-> talk[h].user,
                                 members |-> talk[h].members])
        /\ Talking(h, [step |-> "memberAdded", conv |-> n, members |-> talk[h].members])
  BY DEF Create
<1>2. /\ \A g \in Talks \ {h} : talk'[g] = talk[g]
      /\ talk'[h].step = "memberAdded"
  BY <1>1 DEF Talking, MessagingInv, MessagingTypeOK
<1>3. /\ DOMAIN conv' = DOMAIN conv \cup {n} /\ n \notin DOMAIN conv
      /\ conv'[n].type = talk[h].type /\ conv'[n].members = talk[h].members
      /\ \A c \in DOMAIN conv : conv'[c] = conv[c]
  BY <1>1 DEF Put
<1>4. talk[h].step = "create" /\ mishaps' = mishaps
  BY DEF Create
<1>5. Ids("DIRECT")' = Ids("DIRECT") \cup (IF talk[h].type = "DIRECT" THEN {n} ELSE {})
  BY <1>3 DEF Ids
<1>6. \A g \in Talks : Making(g)' => g # h /\ Making(g)
  BY <1>2 DEF Making
<1>7. ASSUME "overlap" \notin mishaps' PROVE (OneMaker /\ DirectClear /\ OneOfEach)'
  <2>1. OneMaker /\ DirectClear /\ OneOfEach
    BY <1>4, <1>7 DEF MakingInv
  <2>2. OneMaker'
    BY <1>6, <2>1 DEF OneMaker
  <2>3. CASE talk[h].type # "DIRECT"
    <3>1. \A c \in Ids("DIRECT")' : c \in Ids("DIRECT") /\ conv'[c] = conv[c]
      BY <1>3, <1>5, <2>3 DEF Ids
    <3>2. DirectClear'
      BY <1>2, <1>6, <2>1, <3>1 DEF DirectClear
    <3>3. OneOfEach'
      BY <2>1, <3>1 DEF OneOfEach
    <3> QED
      BY <2>2, <3>2, <3>3
  <2>4. CASE talk[h].type = "DIRECT"
    <3>1. Making(h)
      BY <1>4, <2>4 DEF Making
    <3>2. \A g \in Talks : ~Making(g)'
      BY <1>6, <2>1, <3>1 DEF OneMaker
    <3>3. DirectClear'
      BY <3>2 DEF DirectClear
    <3>4. \A c \in Ids("DIRECT") : /\ conv'[c] = conv[c]
                                   /\ conv[c].members = talk[h].members
                                      => Cardinality(talk[h].members) = 1
      BY <1>3, <1>4, <2>1, <3>1 DEF Ids, DirectClear
    <3>5. OneOfEach'
      <4>1. SUFFICES ASSUME NEW c \in Ids("DIRECT")', NEW d \in Ids("DIRECT")',
                            conv'[c].members = conv'[d].members, c # d
                     PROVE  Cardinality(conv'[c].members) = 1
        BY DEF OneOfEach
      <4>2. CASE c \in Ids("DIRECT") /\ d \in Ids("DIRECT")
        BY <2>1, <3>4, <4>1, <4>2 DEF OneOfEach
      <4>3. CASE c = n
        <5>1. d \in Ids("DIRECT") /\ conv'[c].members = talk[h].members
          BY <1>3, <1>5, <4>1, <4>3
        <5> QED
          BY <3>4, <4>1, <5>1
      <4>4. CASE d = n
        <5>1. c \in Ids("DIRECT") /\ conv'[d].members = talk[h].members
          BY <1>3, <1>5, <4>1, <4>4
        <5> QED
          BY <3>4, <4>1, <5>1
      <4> QED
        BY <1>5, <4>1, <4>2, <4>3, <4>4
    <3> QED
      BY <2>2, <3>3, <3>5
  <2> QED
    BY <2>3, <2>4
<1>8. DirectFixed'
  <2>1. SUFFICES ASSUME NEW g \in Talks, talk'[g].step \in MemberSteps
                 PROVE  talk'[g].conv \in DOMAIN conv' \ Ids("DIRECT")'
    BY DEF DirectFixed
  <2>2. talk'[g] = talk[g]
    BY <1>2, <2>1 DEF MemberSteps
  <2>3. talk[g].conv \in DOMAIN conv \ Ids("DIRECT")
    BY <2>1, <2>2 DEF MakingInv, DirectFixed
  <2> QED
    BY <1>3, <1>5, <2>2, <2>3
<1> QED
  BY <1>7, <1>8 DEF MakingInv

LEMMA PairSize ==
  ASSUME NEW u, NEW v
  PROVE  Cardinality({u, v}) \in {1, 2}
<1>1. IsFiniteSet({u}) /\ Cardinality({u}) = 1
  BY FS_Singleton
<1>2. CASE u = v
  BY <1>1, <1>2
<1>3. CASE u # v
  <2>1. Cardinality({u} \cup {v}) = Cardinality({u}) + 1
    BY <1>1, <1>3, FS_AddElement
  <2>2. {u} \cup {v} = {u, v}
    OBVIOUS
  <2> QED
    BY <1>1, <2>1, <2>2
<1> QED
  BY <1>2, <1>3

LEMMA MakingQuiet ==
  ASSUME MessagingInv, MakingInv, NEW h \in Talks, QuietStep(h)
  PROVE  MakingInv'
<1>0. conv' = conv /\ mishaps \subseteq mishaps'
  BY DEF QuietStep, CreateDirect, EventConversation, CreateOther, AddMembers, RemoveMember,
         DeleteConversation, FindDirect, EventFind, EventAccepted, Count, TalkFails
<1>1. ASSUME NEW u \in Users, NEW v \in Users, CreateDirect(h, u, v) PROVE MakingInv'
  BY <1>1, SearchBegins
<1>2. ASSUME NEW state, Talking(h, state), NoSearch(state),
             state.step \in MemberSteps => state.conv \in DOMAIN conv \ Ids("DIRECT")
      PROVE  MakingInv'
  BY <1>0, <1>2, NotMaking
<1>3. ASSUME NEW u \in Users, EventConversation(h, u) PROVE MakingInv'
  BY <1>2, <1>3 DEF EventConversation, NoSearch, MemberSteps
<1>4. ASSUME NEW type \in {"GROUP", "EVENT"}, NEW u \in Users, NEW U \in SUBSET Users,
             CreateOther(h, type, u, U)
      PROVE  MakingInv'
  BY <1>2, <1>4 DEF CreateOther, GoCreate, NoSearch, MemberSteps
<1>5. ASSUME NEW c \in DOMAIN conv, NEW U \in SUBSET Users, AddMembers(h, c, U) PROVE MakingInv'
  <2>1. c \notin Ids("DIRECT")
    BY <1>5 DEF AddMembers, Ids
  <2> QED
    BY <1>2, <1>5, <2>1 DEF AddMembers, NoSearch
<1>6. ASSUME NEW c \in DOMAIN conv, NEW by \in Users, NEW u \in Users, RemoveMember(h, c, by, u)
      PROVE  MakingInv'
  <2>1. c \notin Ids("DIRECT")
    BY <1>6 DEF RemoveMember, Ids
  <2> QED
    BY <1>2, <1>6, <2>1 DEF RemoveMember, NoSearch
<1>7. ASSUME NEW c \in DOMAIN conv, DeleteConversation(h, c) PROVE MakingInv'
  BY <1>2, <1>7 DEF DeleteConversation, NoSearch, MemberSteps
<1>8. ASSUME Talking(h, Idle) PROVE MakingInv'
  BY <1>2, <1>8, TalkStates DEF NoSearch, MemberSteps
<1>9. CASE FindDirect(h)
  <2> DEFINE u == talk[h].user
             both == {u, talk[h].other}
  <2>1. CASE Talking(h, Idle)
    BY <1>8, <2>1
  <2>2. CASE ~Talking(h, Idle)
    <3>1. /\ ~\E c \in Ids("DIRECT") : conv[c].members = both /\ Cardinality(both) = 2
          /\ GoCreate(h, "DIRECT", u, both)
      BY <1>9, <2>2 DEF FindDirect
    <3>2. Cardinality(both) \in {1, 2}
      BY PairSize
    <3>3. Making(h) /\ mishaps' = mishaps
      BY <1>9 DEF FindDirect, Making
    <3>4. \A c \in Ids("DIRECT") : conv[c].members = both => Cardinality(both) = 1
      BY <3>1, <3>2
    <3>5. PICK state : /\ Talking(h, state)
                       /\ state.step = "create" /\ state.type = "DIRECT" /\ state.members = both
      BY <3>1 DEF GoCreate
    <3>6. \A c \in Ids("DIRECT") :
            conv[c].members = state.members => Cardinality(state.members) = 1
      BY <3>4, <3>5
    <3> HIDE DEF both, u
    <3> QED
      BY <1>0, <3>3, <3>5, <3>6, SearchGoesOn
  <2> QED
    BY <2>1, <2>2
<1>10. CASE EventFind(h)
  <2>1. talk[h] = [step |-> talk[h].step, user |-> talk[h].user, other |-> talk[h].other]
    BY <1>10, TalkHolds DEF EventFind, MessagingInv
  <2>2. CASE Talking(h, [talk[h] EXCEPT !.step = "eventAccepted"])
    <3>1. [talk[h] EXCEPT !.step = "eventAccepted"].step = "eventAccepted"
      BY <2>1
    <3> QED
      BY <1>2, <2>2, <3>1 DEF NoSearch, MemberSteps
  <2>3. CASE ~Talking(h, [talk[h] EXCEPT !.step = "eventAccepted"])
    <3>1. PICK c \in Ids("EVENT") :
            Talking(h, IF talk[h].user \in conv[c].members THEN Idle
                       ELSE [step |-> "eventJoin", conv |-> c, user |-> talk[h].user])
      BY <1>10, <2>3 DEF EventFind
    <3>2. c \in DOMAIN conv \ Ids("DIRECT")
      BY DEF Ids
    <3>3. CASE talk[h].user \in conv[c].members
      BY <1>8, <3>1, <3>3
    <3>4. CASE talk[h].user \notin conv[c].members
      BY <1>2, <3>1, <3>2, <3>4 DEF NoSearch
    <3> QED
      BY <3>3, <3>4
  <2> QED
    BY <2>2, <2>3
<1>11. CASE EventAccepted(h)
  <2>1. CASE Talking(h, Idle)
    BY <1>8, <2>1
  <2>2. CASE ~Talking(h, Idle)
    BY <1>2, <1>11, <2>2 DEF EventAccepted, GoCreate, NoSearch, MemberSteps
  <2> QED
    BY <2>1, <2>2
<1>12. CASE Count(h)
  <2>1. Talking(h, Idle) \/ Talking(h, [step |-> "delete", conv |-> talk[h].conv])
    BY <1>12 DEF Count
  <2> QED
    BY <1>2, <1>8, <2>1 DEF NoSearch, MemberSteps
<1>13. CASE TalkFails(h)
  BY <1>8, <1>13 DEF TalkFails
<1> QED
  BY <1>1, <1>3, <1>4, <1>5, <1>6, <1>7, <1>9, <1>10, <1>11, <1>12, <1>13 DEF QuietStep

LEMMA MakingNext ==
  MessagingInv /\ MakingInv /\ [MessagingNext]_messagingVars => MakingInv'
<1> SUFFICES ASSUME MessagingInv, MakingInv, [MessagingNext]_messagingVars
             PROVE  MakingInv'
  OBVIOUS
<1>1. ASSUME NEW h \in Talks, MemberAdded(h) PROVE MakingInv'
  BY <1>1, NotMaking, TalkStates DEF MemberAdded, NoSearch, MemberSteps
<1>2. ASSUME NEW h \in Talks, EventJoin(h) \/ AddWrite(h) \/ RemoveWrite(h) PROVE MakingInv'
  <2> DEFINE c == talk[h].conv
  <2>1. c \in DOMAIN conv \ Ids("DIRECT")
    BY <1>2 DEF EventJoin, AddWrite, RemoveWrite, MakingInv, DirectFixed, MemberSteps
  <2>2. \/ conv' = conv
        \/ \E U \in {conv[c].members \cup {talk[h].user}, conv[c].members \cup talk[h].members,
                     conv[c].members \ {talk[h].user}} :
             conv' = [conv EXCEPT ![c].members = U]
    BY <1>2 DEF EventJoin, AddWrite, RemoveWrite
  <2>3. /\ DOMAIN conv' = DOMAIN conv
        /\ \A d \in DOMAIN conv : conv'[d].type = conv[d].type
        /\ \A d \in DOMAIN conv \ {c} : conv'[d] = conv[d]
    BY <2>1, <2>2 DEF MessagingInv, MessagingTypeOK, ConvRow
  <2>4. /\ mishaps' = mishaps
        /\ \E state : /\ Talking(h, state)
                      /\ NoSearch(state) /\ state.step \notin MemberSteps
    <3>1. CASE EventJoin(h)
      BY <3>1, TalkStates DEF EventJoin, NoSearch, MemberSteps
    <3>2. CASE AddWrite(h)
      BY <3>2, TalkStates DEF AddWrite, NoSearch, MemberSteps
    <3>3. CASE RemoveWrite(h)
      BY <3>3 DEF RemoveWrite, NoSearch, MemberSteps
    <3> QED
      BY <1>2, <3>1, <3>2, <3>3
  <2>5. \A d \in Ids("DIRECT") : conv'[d].members = conv[d].members
    BY <2>1, <2>3 DEF Ids
  <2> QED
    BY <2>3, <2>4, <2>5, NotMaking
<1>3. ASSUME NEW h \in Talks, Delete(h) PROVE MakingInv'
  <2> DEFINE c == talk[h].conv
  <2>1. /\ DOMAIN conv' = DOMAIN conv
        /\ \A d \in DOMAIN conv \ {c} : conv'[d] = conv[d]
        /\ c \in DOMAIN conv => conv'[c].type = "deleted"
    BY <1>3 DEF Delete, MessagingInv, MessagingTypeOK, ConvRow
  <2>2. mishaps' = mishaps /\ Talking(h, Idle)
    BY <1>3 DEF Delete
  <2> HIDE DEF c
  <2>3. \A d \in Ids("DIRECT") : conv'[d].type = "DIRECT" => conv'[d].members = conv[d].members
    BY <2>1 DEF Ids
  <2>4. \A d \in DOMAIN conv : conv'[d].type = conv[d].type \/ conv'[d].type = "deleted"
    BY <2>1
  <2> QED
    BY <2>1, <2>2, <2>3, <2>4, NotMaking, TalkStates DEF NoSearch, MemberSteps
<1>4. ASSUME NEW h \in Talks, TalkStep(h) PROVE MakingInv'
  BY <1>1, <1>2, <1>3, <1>4, MakingQuiet, RowWritten DEF TalkStep, QuietStep
<1>5. CASE UNCHANGED <<conv, mishaps, talk>>
  BY <1>5 DEF MakingInv, OneMaker, DirectClear, OneOfEach, DirectFixed, Making, Ids
<1>6. CASE ChatRestart
  <2>1. \A h \in Talks : talk'[h].step = "idle"
    BY <1>6, TalkStates DEF ChatRestart
  <2>2. conv' = conv /\ mishaps \subseteq mishaps'
    BY <1>6 DEF ChatRestart
  <2>3. \A h \in Talks : ~Making(h)'
    BY <2>1 DEF Making
  <2>4. OneMaker' /\ DirectClear'
    BY <2>3 DEF OneMaker, DirectClear
  <2>5. "overlap" \notin mishaps' => OneOfEach'
    BY <2>2 DEF MakingInv, OneOfEach, Ids
  <2>6. DirectFixed'
    BY <2>1 DEF DirectFixed, MemberSteps
  <2> QED
    BY <2>4, <2>5, <2>6 DEF MakingInv
<1>7. ASSUME NEW u \in Online, TabStep(u) PROVE UNCHANGED <<conv, mishaps, talk>>
  BY <1>7 DEF TabStep, Connect, FindConversations, JoinRooms, Disconnect, JoinConversation,
              LeaveConversation
<1> QED
  BY <1>4, <1>5, <1>6, <1>7 DEF MessagingNext, Accepts, messagingVars

(* Two people have one direct conversation, unless two searches overlapped, *)
(* whoever joins, leaves and deletes the others meanwhile: the search alone *)
(* keeps it single, with no constraint of the table behind it.              *)
THEOREM OneConversationStays == MessagingSpec => []OneConversation
<1>1. MessagingInit => MakingInv
  <2> SUFFICES ASSUME MessagingInit PROVE MakingInv
    OBVIOUS
  <2>1. DOMAIN conv = {} /\ \A h \in Talks : talk[h].step = "idle"
    BY TalkStates DEF MessagingInit, NoRows
  <2>2. Ids("DIRECT") = {} /\ \A h \in Talks : ~Making(h)
    BY <2>1 DEF Ids, Making
  <2> QED
    BY <2>1, <2>2 DEF MakingInv, OneMaker, DirectClear, OneOfEach, DirectFixed, MemberSteps
<1>2. MakingInv => OneConversation
  BY DEF MakingInv, OneOfEach, OneConversation
<1> QED
  BY <1>1, <1>2, MessagingInvInit, MessagingInvNext, MakingNext, PTL DEF MessagingSpec
===============================================================================
