---------------------------------- MODULE Chat ----------------------------------
(***************************************************************************)
(* The page of one conversation: ConversationPage.tsx, which loads the     *)
(* messages by REST, hears of new ones by the socket and sends by the      *)
(* socket or, when that fails, by REST; messages.service.ts and            *)
(* messages.gateway.ts answer it.  The others of the conversation are one  *)
(* peer.  Messages are numbered in the order of their createdAt.           *)
(***************************************************************************)
EXTENDS Integers, Sequences, FiniteSets

CONSTANTS
  MaxMessages,  (* messages stored: a bound                                *)
  PageSize,     (* messages answered at a time, 50 in the page             *)
  MaxLosses     (* times the socket is lost: a bound                       *)

ASSUME ChatAssumption ==
  MaxMessages \in Nat \ {0} /\ PageSize \in Nat \ {0} /\ MaxLosses \in Nat

VARIABLES
  count,   (* messages stored                                              *)
  posting, (* messages of the peer stored whose event is not out yet       *)
  wire,    (* newMessage events on their way to the page, in order         *)
  link,    (* the page's socket: off, on, or in the conversation's room    *)
  losses,  (* times the socket was lost                                    *)
  page,    (* closed; loading, then loaded with an answer; or shown        *)
  joining, (* the page's joinConversation is on its way                    *)
  view,    (* the messages shown, oldest first                             *)
  hasMore, (* whether the page offers to load older ones                   *)
  send,    (* what becomes of the message being sent                       *)
  missed,  (* messages the page was not told of, or has overwritten        *)
  byRest   (* messages the page has sent by REST                           *)

chatVars == <<count, posting, wire, link, losses, page, joining, view, hasMore, send, missed, byRest>>

Ids == 1..MaxMessages

Shown == {view[i] : i \in DOMAIN view}

(* getMessages: the latest PageSize messages before one, oldest first. *)
Before(m) == LET first == IF m > PageSize THEN m - PageSize ELSE 1
             IN  [i \in 1..(m - first) |-> first + i - 1]

(* Bound: no event is on its way for as long as a page of messages. *)
MayStore ==
  /\ count < MaxMessages
  /\ \A m \in posting \cup {wire[i] : i \in DOMAIN wire} : count + 1 - m < PageSize
  /\ send.step = "stored" => count + 1 - send.id < PageSize

ChatInit ==
  /\ count \in {0, 1}
  /\ posting = {} /\ wire = <<>> /\ link = "off" /\ losses = 0
  /\ page = [step |-> "closed"] /\ joining = FALSE
  /\ view = <<>> /\ hasMore = FALSE
  /\ send = [step |-> "none"]
  /\ missed = {} /\ byRest = {}
-------------------------------------------------------------------------------
(* The socket: handleConnection joins the rooms of the user's conversations *)

ChatConnect ==
  /\ link = "off"
  /\ link' = "on"
  /\ UNCHANGED <<count, posting, wire, losses, page, joining, view, hasMore, send, missed, byRest>>

ChatRooms ==
  /\ link = "on"
  /\ link' = "room"
  /\ joining' = FALSE
  /\ UNCHANGED <<count, posting, wire, losses, page, view, hasMore, send, missed, byRest>>

(* Events on their way are lost, and so is the acknowledgement that          *)
(* sendMessage waits for without a timeout.                                  *)
ChatLost ==
  /\ link # "off"
  /\ losses < MaxLosses
  /\ losses' = losses + 1
  /\ link' = "off"
  /\ joining' = FALSE
  /\ missed' = missed \cup {wire[i] : i \in DOMAIN wire}
  /\ wire' = <<>>
  /\ send' = IF send.step \in {"asked", "stored", "answered"} /\ send.via = "socket"
             THEN [send EXCEPT !.via = "lost"] ELSE send
  /\ UNCHANGED <<count, posting, page, view, hasMore, byRest>>
-------------------------------------------------------------------------------
(* The page is opened and closed *)

OpenPage ==
  /\ page.step = "closed"
  /\ page' = [step |-> "loading"]
  /\ view' = <<>>
  /\ missed' = {}
  /\ joining' = (link # "off")
  /\ UNCHANGED <<count, posting, wire, link, losses, hasMore, send, byRest>>

(* handleJoinConversation *)
JoinRoom ==
  /\ joining
  /\ link' = "room"
  /\ joining' = FALSE
  /\ UNCHANGED <<count, posting, wire, losses, page, view, hasMore, send, missed, byRest>>

(* getMessages: what it reads is not missed, whatever happened before. *)
LoadRead ==
  /\ page.step = "loading"
  /\ page' = [step |-> "loaded", data |-> Before(count + 1)]
  /\ missed' = {}
  /\ UNCHANGED <<count, posting, wire, link, losses, joining, view, hasMore, send, byRest>>

(* setMessages(data): what the socket has brought meanwhile is overwritten. *)
LoadAnswer ==
  /\ page.step = "loaded"
  /\ view' = page.data
  /\ hasMore' = (Len(page.data) = PageSize)
  /\ missed' = missed \cup (Shown \ {page.data[i] : i \in DOMAIN page.data})
  /\ page' = [step |-> "shown"]
  /\ UNCHANGED <<count, posting, wire, link, losses, joining, send, byRest>>

(* handleLoadMore asks for what precedes the first message shown. *)
LoadMore ==
  /\ page.step = "shown"
  /\ hasMore /\ view # <<>>
  /\ page' = [step |-> "more", before |-> view[1]]
  /\ UNCHANGED <<count, posting, wire, link, losses, joining, view, hasMore, send, missed, byRest>>

MoreAnswer ==
  /\ page.step = "more"
  /\ view' = Before(page.before) \o view
  /\ hasMore' = (Len(Before(page.before)) = PageSize)
  /\ page' = [step |-> "shown"]
  /\ UNCHANGED <<count, posting, wire, link, losses, joining, send, missed, byRest>>

(* Its error is erased by loadConversation, and the page looks empty. *)
LoadFails ==
  /\ page.step = "loading"
  /\ page' = [step |-> "shown"]
  /\ missed' = missed \cup (1..count \ Shown)
  /\ UNCHANGED <<count, posting, wire, link, losses, joining, view, hasMore, send, byRest>>

(* The page leaves the room, and its handlers are gone; a message that the  *)
(* server has not stored yet may still be, as one of the peer's.            *)
ClosePage ==
  /\ page.step # "closed"
  /\ page' = [step |-> "closed"]
  /\ view' = <<>> /\ wire' = <<>> /\ missed' = {}
  /\ link' = IF link = "off" THEN "off" ELSE "on"
  /\ joining' = FALSE
  /\ send' = [step |-> "none"]
  /\ byRest' = {}
  /\ posting' = IF send.step = "stored" THEN posting \cup {send.id} ELSE posting
  /\ hasMore' = FALSE
  /\ UNCHANGED <<count, losses>>
-------------------------------------------------------------------------------
(* notifyNewMessage reaches the sockets that are in the room *)
Notified(m) == IF link = "room"
               THEN wire' = Append(wire, m) /\ UNCHANGED missed
               ELSE missed' = missed \cup {m} /\ UNCHANGED wire

PeerPosts ==
  /\ MayStore
  /\ count' = count + 1
  /\ posting' = posting \cup {count + 1}
  /\ UNCHANGED <<wire, link, losses, page, joining, view, hasMore, send, missed, byRest>>

(* sendMessage notifies the members one by one before it emits: when a       *)
(* notification fails, nothing is emitted of a message that is stored.       *)
PeerNotifies(m) ==
  /\ m \in posting
  /\ posting' = posting \ {m}
  /\ \/ Notified(m)
     \/ missed' = missed \cup {m} /\ UNCHANGED wire
  /\ UNCHANGED <<count, link, losses, page, joining, view, hasMore, send, byRest>>

(* Mutant: what the page already shows is not looked at. *)
NewMessageAgain ==
  /\ wire # <<>>
  /\ page.step # "closed"
  /\ view' = Append(view, Head(wire))
  /\ wire' = Tail(wire)
  /\ UNCHANGED <<count, posting, link, losses, page, joining, hasMore, send, missed, byRest>>

(* Mutant: the page's own messages are left to the acknowledgement. *)
NewMessageOfPeer ==
  /\ wire # <<>>
  /\ page.step # "closed"
  /\ view' = IF Head(wire) \in Shown \/ (send.step # "none" /\ send.id = Head(wire))
             THEN view ELSE Append(view, Head(wire))
  /\ wire' = Tail(wire)
  /\ UNCHANGED <<count, posting, link, losses, page, joining, hasMore, send, missed, byRest>>

(* handleNewMessage appends a message that is not shown yet. *)
NewMessage ==
  /\ wire # <<>>
  /\ page.step # "closed"
  /\ view' = IF Head(wire) \in Shown THEN view ELSE Append(view, Head(wire))
  /\ wire' = Tail(wire)
  /\ UNCHANGED <<count, posting, link, losses, page, joining, hasMore, send, missed, byRest>>
-------------------------------------------------------------------------------
(* handleSendMessage: one message at a time, by the socket when it is on *)

Rest == {"rest", "again"}

SendMessage ==
  /\ page.step \in {"shown", "more"}
  /\ send.step = "none"
  /\ count < MaxMessages
  /\ send' = [step |-> "asked", via |-> IF link = "off" THEN "rest" ELSE "socket", id |-> 0]
  /\ UNCHANGED <<count, posting, wire, link, losses, page, joining, view, hasMore, missed, byRest>>

SendStore ==
  /\ send.step = "asked"
  /\ MayStore
  /\ count' = count + 1
  /\ send' = [send EXCEPT !.step = "stored", !.id = count + 1]
  /\ byRest' = IF send.via \in Rest THEN byRest \cup {count + 1} ELSE byRest
  /\ UNCHANGED <<posting, wire, link, losses, page, joining, view, hasMore, missed>>

SendNotify ==
  /\ send.step = "stored"
  /\ \/ Notified(send.id) /\ send' = [step |-> "answered", via |-> send.via, id |-> send.id, ok |-> TRUE]
     \/ /\ missed' = missed \cup {send.id}
        /\ send' = [step |-> "answered", via |-> send.via, id |-> send.id, ok |-> FALSE]
        /\ UNCHANGED wire
  /\ UNCHANGED <<count, posting, link, losses, page, joining, view, hasMore, byRest>>

(* An error makes the page send again by REST, once; an acknowledgement that *)
(* is lost is waited for forever.                                           *)
AfterError(id) == CASE send.via = "lost" -> [step |-> "stuck", via |-> "lost", id |-> id]
                    [] send.via \in {"socket", "rest"} -> [step |-> "asked", via |-> "again", id |-> 0]
                    [] OTHER -> [step |-> "none"]

(* The answer to REST is appended as it is. *)
SendAnswer ==
  /\ send.step = "answered"
  /\ send' = IF send.via # "lost" /\ send.ok THEN [step |-> "none"] ELSE AfterError(send.id)
  /\ view' = IF send.via \in Rest /\ send.ok THEN Append(view, send.id) ELSE view
  /\ UNCHANGED <<count, posting, wire, link, losses, page, joining, hasMore, missed, byRest>>

(* Nothing is stored. *)
SendFails ==
  /\ send.step = "asked"
  /\ send' = AfterError(0)
  /\ UNCHANGED <<count, posting, wire, link, losses, page, joining, view, hasMore, missed, byRest>>
-------------------------------------------------------------------------------
ChatNext ==
  \/ ChatConnect \/ ChatRooms \/ ChatLost
  \/ OpenPage \/ JoinRoom \/ LoadRead \/ LoadAnswer \/ LoadFails \/ LoadMore
  \/ MoreAnswer \/ ClosePage
  \/ PeerPosts \/ (\E m \in posting : PeerNotifies(m)) \/ NewMessage
  \/ SendMessage \/ SendStore \/ SendNotify \/ SendAnswer \/ SendFails

ChatSpec == ChatInit /\ [][ChatNext]_chatVars
-------------------------------------------------------------------------------
(* Properties *)

(* Every variable has its type. *)
ChatTypeOK ==
  /\ count \in 0..MaxMessages
  /\ posting \subseteq Ids
  /\ \A s \in {wire, view} : \A i \in DOMAIN s : s[i] \in Ids
  /\ link \in {"off", "on", "room"}
  /\ losses \in 0..MaxLosses
  /\ page.step \in {"closed", "loading", "loaded", "shown", "more"}
  /\ joining => link # "off" /\ page.step # "closed"
  /\ hasMore \in BOOLEAN
  /\ send.step \in {"none", "asked", "stored", "answered", "stuck"}
  /\ send.step # "none" => send.via \in {"socket", "rest", "again", "lost"} /\ page.step # "closed"
  /\ missed \subseteq Ids /\ byRest \subseteq Ids

(* The page shows no message twice, though it hears of one by the answer to  *)
(* its load, by the socket and when it loads older ones; only what it has    *)
(* sent by REST is appended without a look.                                  *)
ShownOnce ==
  \A i, j \in DOMAIN view : view[i] = view[j] /\ view[i] \notin byRest => i = j

(* When nothing is under way, the page shows every message from the oldest   *)
(* it shows on, and all of them when it offers no older ones; it may lack    *)
(* those it was not told of, being out of the room, and those the answer to  *)
(* its load has overwritten.                                                 *)
ShowsAll ==
  page.step = "shown" /\ wire = <<>> /\ posting = {} /\ send.step \in {"none", "stuck"} =>
    \A m \in 1..count :
      \/ m \in Shown \cup missed
      \/ hasMore /\ \A n \in Shown : m < n
===============================================================================
