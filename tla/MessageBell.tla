------------------------------ MODULE MessageBell ------------------------------
(***************************************************************************)
(* The counter of unread conversations of one user, MessageBell.tsx over   *)
(* getUserConversations of messages.service.ts, with one conversation.     *)
(***************************************************************************)
EXTENDS Integers

CONSTANT
  Asks      (* requests that are under way at a time: a bound              *)

VARIABLES
  latest,   (* the last message of the conversation: own, read, unread     *)
  counter,  (* the count that the bell shows                               *)
  apiError, (* its last request failed: the interval is stopped            *)
  asked     (* its requests under way                                      *)

messageBellVars == <<latest, counter, apiError, asked>>

(* getUserConversations looks at the last message alone. *)
UnreadCount == IF latest = "unread" THEN 1 ELSE 0

NotAsked == [step |-> "none"]

MessageBellInit ==
  /\ latest \in {"own", "read", "unread"}
  /\ counter = 0
  /\ apiError = FALSE
  /\ asked = [a \in Asks |-> NotAsked]

(* The requests after one more is sent, if one may be: a bound. *)
Asking(requests) ==
  LET free == {a \in Asks : requests[a] = NotAsked}
  IN  IF free = {} THEN {requests}
      ELSE {[requests EXCEPT ![a] = [step |-> "sent"]] : a \in free}
-------------------------------------------------------------------------------
(* Messages arrive, are sent and are read; newMessage, newNotification,      *)
(* memberAdded and MESSAGES_READ_EVENT make the bell ask.                    *)

MessageArrives ==
  /\ latest' = "unread"
  /\ asked' \in {asked} \cup Asking(asked)
  /\ UNCHANGED <<counter, apiError>>

MessageSent ==
  /\ latest' = "own"
  /\ asked' \in {asked} \cup Asking(asked)
  /\ UNCHANGED <<counter, apiError>>

(* markAsRead, in this tab or in another. *)
MessagesRead ==
  /\ latest = "unread"
  /\ latest' = "read"
  /\ asked' \in {asked} \cup Asking(asked)
  /\ UNCHANGED <<counter, apiError>>

(* Mutant: the interval of the first rendering is not set up again. *)
MessagePollOnce ==
  /\ ~apiError /\ counter = 0 /\ latest = "own"
  /\ \E a \in Asks : asked[a] = NotAsked
  /\ asked' \in Asking(asked)
  /\ UNCHANGED <<latest, counter, apiError>>

(* The interval of 30 s, which an error stops. *)
MessagePoll ==
  /\ ~apiError
  /\ \E a \in Asks : asked[a] = NotAsked
  /\ asked' \in Asking(asked)
  /\ UNCHANGED <<latest, counter, apiError>>

GetUserConversations(a) ==
  /\ asked[a].step = "sent"
  /\ asked' \in {[asked EXCEPT ![a] = r] :
                   r \in {[step |-> "answered", count |-> UnreadCount], [step |-> "failed"]}}
  /\ UNCHANGED <<latest, counter, apiError>>

(* The effect that depends on apiError asks again whenever it changes. *)
SetConversations(a) ==
  /\ asked[a].step \in {"answered", "failed"}
  /\ counter' = IF asked[a].step = "answered" THEN asked[a].count ELSE 0
  /\ apiError' = (asked[a].step = "failed")
  /\ asked' \in IF apiError' # apiError THEN Asking([asked EXCEPT ![a] = NotAsked])
               ELSE {[asked EXCEPT ![a] = NotAsked]}
  /\ UNCHANGED <<latest>>
-------------------------------------------------------------------------------
MessageBellNext ==
  \/ MessageArrives \/ MessageSent \/ MessagesRead \/ MessagePoll
  \/ \E a \in Asks : GetUserConversations(a) \/ SetConversations(a)

(* The interval ticks while it is set, and requests are answered. *)
MessageBellFairness ==
  /\ WF_messageBellVars(MessagePoll)
  /\ \A a \in Asks : /\ WF_messageBellVars(GetUserConversations(a))
                     /\ WF_messageBellVars(SetConversations(a))

MessageBellSpec == MessageBellInit /\ [][MessageBellNext]_messageBellVars /\ MessageBellFairness
-------------------------------------------------------------------------------
(* Properties *)

(* Every variable has its type. *)
MessageBellTypeOK ==
  /\ latest \in {"own", "read", "unread"}
  /\ counter \in {0, 1}
  /\ apiError \in BOOLEAN
  /\ asked \in [Asks -> {NotAsked} \cup [step : {"sent", "failed"}]
                           \cup [step : {"answered"}, count : {0, 1}]]

(* Once no message comes or is read any more, the bell shows for good        *)
(* whether the last one is unread, provided that requests do not fail for    *)
(* ever: one that fails stops the interval and shows no message at all.      *)
MessageBadgeSettles ==
  \A n \in {0, 1} : <>[](UnreadCount = n) /\ <>[]~apiError => <>[](counter = n)
===============================================================================
