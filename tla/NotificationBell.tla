----------------------------- MODULE NotificationBell -----------------------------
(***************************************************************************)
(* The notifications of one user, notifications.service.ts, and the        *)
(* counter of NotificationBell.tsx, which asks for their number when an    *)
(* event of the socket, an interval or the user makes it, and shows the    *)
(* latest answer; events may be lost and answers overtake each other.      *)
(***************************************************************************)
EXTENDS Integers, FiniteSets

CONSTANTS
  Notifs,   (* the notifications of the user                               *)
  Fetches   (* requests for a count that are under way at a time: a bound  *)

ASSUME NotificationAssumption == IsFiniteSet(Notifs)

VARIABLES
  notif,    (* each notification: none yet, unread, read                   *)
  listed,   (* those that the open menu shows as unread                    *)
  badge,    (* the count that the bell shows                               *)
  fetch,    (* its requests under way                                      *)
  listing,  (* its getForUser under way                                    *)
  marking   (* its markAsRead or markAllAsRead under way                   *)

notificationVars == <<notif, listed, badge, fetch, listing, marking>>

Unread == {n \in Notifs : notif[n] = "unread"}

NoRequest == [step |-> "none"]

NotificationInit ==
  /\ notif \in [Notifs -> {"none", "unread", "read"}]
  /\ listed = {}
  /\ badge = 0
  /\ fetch = [f \in Fetches |-> NoRequest]
  /\ listing = NoRequest
  /\ marking = NoRequest

(* The requests after one more is sent, if one may be: a bound. *)
Sends(requests) ==
  LET free == {f \in Fetches : requests[f] = NoRequest}
  IN  IF free = {} THEN {requests}
      ELSE {[requests EXCEPT ![f] = [step |-> "sent"]] : f \in free}
-------------------------------------------------------------------------------
(* Notifications: create, markAsRead elsewhere, deleteByTypeAndRelatedId.    *)
(* create tells the socket, the others tell nobody.                         *)

Notify(n) ==
  /\ notif[n] = "none"
  /\ notif' = [notif EXCEPT ![n] = "unread"]
  /\ fetch' \in {fetch} \cup Sends(fetch)
  /\ UNCHANGED <<listed, badge, listing, marking>>

Remove(n) ==
  /\ notif[n] # "none"
  /\ notif' = [notif EXCEPT ![n] = "none"]
  /\ UNCHANGED <<listed, badge, fetch, listing, marking>>

(* The interval of 60 s, and socketReconnected. *)
Poll ==
  /\ \E f \in Fetches : fetch[f] = NoRequest
  /\ fetch' \in Sends(fetch)
  /\ UNCHANGED <<notif, listed, badge, listing, marking>>

GetUnreadCount(f) ==
  /\ fetch[f].step = "sent"
  /\ fetch' = [fetch EXCEPT ![f] = [step |-> "answered", count |-> Cardinality(Unread)]]
  /\ UNCHANGED <<notif, listed, badge, listing, marking>>

(* A request that fails leaves the badge as it is. *)
CountFails(f) ==
  /\ fetch[f].step = "sent"
  /\ fetch' = [fetch EXCEPT ![f] = NoRequest]
  /\ UNCHANGED <<notif, listed, badge, listing, marking>>

(* Mutant: the badge only grows, a smaller count is taken for a late answer. *)
SetLargerCount(f) ==
  /\ fetch[f].step = "answered"
  /\ badge' = IF fetch[f].count > badge THEN fetch[f].count ELSE badge
  /\ fetch' = [fetch EXCEPT ![f] = NoRequest]
  /\ UNCHANGED <<notif, listed, listing, marking>>

SetUnreadCount(f) ==
  /\ fetch[f].step = "answered"
  /\ badge' = fetch[f].count
  /\ fetch' = [fetch EXCEPT ![f] = NoRequest]
  /\ UNCHANGED <<notif, listed, listing, marking>>

(* handleToggle, or an event while the menu is open: fetchNotifications. *)
OpenMenu ==
  /\ listing = NoRequest
  /\ listing' = [step |-> "sent"]
  /\ UNCHANGED <<notif, listed, badge, fetch, marking>>

GetForUser ==
  /\ listing.step = "sent"
  /\ listing' = [step |-> "answered", unread |-> Unread]
  /\ UNCHANGED <<notif, listed, badge, fetch, marking>>

SetNotifications ==
  /\ listing.step = "answered"
  /\ listed' = listing.unread
  /\ listing' = NoRequest
  /\ fetch' \in Sends(fetch)
  /\ UNCHANGED <<notif, badge, marking>>

(* handleMarkAsRead, on a notification listed as unread; or all of them. *)
MarkAsRead(n) ==
  /\ marking = NoRequest
  /\ n \in listed
  /\ marking' = [step |-> "sent", all |-> FALSE, notifs |-> {n}]
  /\ UNCHANGED <<notif, listed, badge, fetch, listing>>

MarkAllAsRead ==
  /\ marking = NoRequest
  /\ badge > 0
  /\ marking' = [step |-> "sent", all |-> TRUE, notifs |-> Notifs]
  /\ UNCHANGED <<notif, listed, badge, fetch, listing>>

(* A notification that is gone makes the request fail. *)
MarkWrite ==
  /\ marking.step = "sent"
  /\ notif' = [n \in Notifs |-> IF n \in marking.notifs \cap Unread THEN "read" ELSE notif[n]]
  /\ marking' = IF marking.all \/ \E n \in marking.notifs : notif[n] # "none"
                THEN [marking EXCEPT !.step = "answered"] ELSE NoRequest
  /\ UNCHANGED <<listed, badge, fetch, listing>>

(* Mutant: the badge is not looked at. *)
MarkAnswerBelow ==
  /\ marking.step = "answered"
  /\ listed' = listed \ marking.notifs
  /\ badge' = IF marking.all THEN 0 ELSE badge - 1
  /\ marking' = NoRequest
  /\ UNCHANGED <<notif, fetch, listing>>

(* The badge is reckoned from what it was, whatever was answered meanwhile. *)
MarkAnswer ==
  /\ marking.step = "answered"
  /\ listed' = listed \ marking.notifs
  /\ badge' = IF marking.all \/ badge = 0 THEN 0 ELSE badge - 1
  /\ marking' = NoRequest
  /\ UNCHANGED <<notif, fetch, listing>>

(* removeNotificationFromList: the server has deleted the notification of a  *)
(* staff invitation that was answered here; the deletion does not fail.     *)
RemoveFromList(n) ==
  /\ n \in listed
  /\ notif[n] = "none"
  /\ listed' = listed \ {n}
  /\ badge' = IF badge = 0 THEN 0 ELSE badge - 1
  /\ UNCHANGED <<notif, fetch, listing, marking>>
-------------------------------------------------------------------------------
NotificationNext ==
  \/ \E n \in Notifs : Notify(n) \/ Remove(n) \/ RemoveFromList(n) \/ MarkAsRead(n)
  \/ Poll \/ OpenMenu \/ GetForUser \/ SetNotifications
  \/ MarkAllAsRead \/ MarkWrite \/ MarkAnswer
  \/ \E f \in Fetches : GetUnreadCount(f) \/ CountFails(f) \/ SetUnreadCount(f)

(* The interval ticks, requests are answered, and of those that the interval *)
(* repeats not all fail.                                                     *)
NotificationFairness ==
  /\ WF_notificationVars(Poll)
  /\ \A f \in Fetches : SF_notificationVars(GetUnreadCount(f)) /\ WF_notificationVars(SetUnreadCount(f))
  /\ WF_notificationVars(GetForUser) /\ WF_notificationVars(SetNotifications)
  /\ WF_notificationVars(MarkWrite) /\ WF_notificationVars(MarkAnswer)

NotificationSpec == NotificationInit /\ [][NotificationNext]_notificationVars /\ NotificationFairness
-------------------------------------------------------------------------------
(* Properties *)

(* Every variable has its type. *)
NotificationTypeOK ==
  /\ notif \in [Notifs -> {"none", "unread", "read"}]
  /\ listed \subseteq Notifs
  /\ badge \in 0..Cardinality(Notifs)
  /\ fetch \in [Fetches -> {NoRequest} \cup [step : {"sent"}]
                              \cup [step : {"answered"}, count : 0..Cardinality(Notifs)]]
  /\ listing \in {NoRequest} \cup [step : {"sent"}] \cup [step : {"answered"}, unread : SUBSET Notifs]
  /\ marking \in {NoRequest} \cup [step : {"sent", "answered"}, all : BOOLEAN, notifs : SUBSET Notifs]

(* Once no notification comes or is read any more, the badge shows their     *)
(* number for good: late answers, decrements of a badge already corrected    *)
(* and notifications deleted without an event are made up for by the polls.  *)
BadgeSettles ==
  \A U \in SUBSET Notifs : <>[](Unread = U) => <>[](badge = Cardinality(U))
===============================================================================
