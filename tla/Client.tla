---------------------------------- MODULE Client ----------------------------------
(***************************************************************************)
(* The parts of the web client that keep a copy of what the server has: a  *)
(* conversation's page, the tab of an event's polls, the catalogue's       *)
(* search, the bell of the notifications and that of the messages.  They   *)
(* share no state; a behaviour has one of them, and part says which.       *)
(***************************************************************************)
EXTENDS Chat, EventTab, Search, NotificationBell, MessageBell

VARIABLE part

parts == <<chatVars, tabVars, searchVars, notificationVars, messageBellVars>>

clientVars == <<parts, part>>

(* A part that is not the one of the behaviour is in one state. *)
ClientInit ==
  /\ part \in {"chat", "tab", "search", "notifications", "messages"}
  /\ ChatInit /\ TabInit /\ SearchInit /\ NotificationInit /\ MessageBellInit
  /\ part # "chat" => count = 0
  /\ part # "tab" => poll = Nothing
  /\ part # "search" => filter.value = CHOOSE v \in Filters : TRUE
  /\ part # "notifications" => notif = [n \in Notifs |-> "none"]
  /\ part # "messages" => latest = "own"

ClientNext ==
  \/ /\ part = "chat" /\ ChatNext
     /\ UNCHANGED <<tabVars, searchVars, notificationVars, messageBellVars, part>>
  \/ /\ part = "tab" /\ TabNext
     /\ UNCHANGED <<chatVars, searchVars, notificationVars, messageBellVars, part>>
  \/ /\ part = "search" /\ SearchNext
     /\ UNCHANGED <<chatVars, tabVars, notificationVars, messageBellVars, part>>
  \/ /\ part = "notifications" /\ NotificationNext
     /\ UNCHANGED <<chatVars, tabVars, searchVars, messageBellVars, part>>
  \/ /\ part = "messages" /\ MessageBellNext
     /\ UNCHANGED <<chatVars, tabVars, searchVars, notificationVars, part>>

(* NotificationFairness and MessageBellFairness, each where its bell is. *)
ClientFairness ==
  /\ WF_notificationVars(part = "notifications" /\ Poll)
  /\ \A f \in Fetches :
       /\ SF_notificationVars(part = "notifications" /\ GetUnreadCount(f))
       /\ WF_notificationVars(part = "notifications" /\ SetUnreadCount(f))
  /\ WF_notificationVars(part = "notifications" /\ (GetForUser \/ SetNotifications))
  /\ WF_notificationVars(part = "notifications" /\ (MarkWrite \/ MarkAnswer))
  /\ WF_messageBellVars(part = "messages" /\ MessagePoll)
  /\ \A a \in Asks :
       WF_messageBellVars(part = "messages" /\ (GetUserConversations(a) \/ SetConversations(a)))

ClientSpec == ClientInit /\ [][ClientNext]_clientVars /\ ClientFairness
-------------------------------------------------------------------------------
(* Every variable has its type: the one type invariant of this module. *)
ClientTypeOK ==
  ChatTypeOK /\ TabTypeOK /\ SearchTypeOK /\ NotificationTypeOK /\ MessageBellTypeOK

(* The badges of both bells, for notifications and for messages, settle on  *)
(* what the server counts.                                                  *)
BadgesSettle == BadgeSettles /\ MessageBadgeSettles
===============================================================================
