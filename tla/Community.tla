------------------------------- MODULE Community -------------------------------
(***************************************************************************)
(* A community event as a whole: Participation decides who has access to   *)
(* its polls and to its list of items.  The three share no other state, so *)
(* a behaviour has one of them in full; side says which.  Beside a poll or *)
(* a list the organizer still answers the requests that were made before.  *)
(***************************************************************************)
EXTENDS EventItems

VARIABLE side  (* "asking", "poll" or "items"                              *)

communityVars == <<participationVars, pollVars, itemVars, side>>

(* One has asked already, and the organizer has been told: as a bound, the *)
(* polls and lists are between the organizer and one participant.          *)
AskedInit ==
  /\ \E u \in People : participation = [x \in {u} |-> "PENDING"]
  /\ notices = {<<Organizer, "PENDING">>}
  /\ places = InitialPlaces
  /\ calledOff = FALSE
  /\ turnedAway = {}
  /\ mishaps = {}
  /\ hand = [h \in Hands |-> Idle]

CommunityInit ==
  /\ PollsInit /\ ItemsInit
  /\ \/ side = "asking" /\ ParticipationInit
     \/ side \in {"poll", "items"} /\ AskedInit

Answering(h) ==
  \/ \E u \in DOMAIN participation, status \in {"ACCEPTED", "REFUSED"} : Answer(h, u, status)
  \/ AnswerWrite(h)

CommunityNext ==
  \/ side = "asking" /\ ParticipationNext /\ UNCHANGED <<pollVars, itemVars, side>>
  \/ /\ side # "asking"
     /\ HandlersFail \/ \E h \in Hands : Answering(h)
     /\ UNCHANGED <<pollVars, itemVars, side>>
  \/ /\ side = "poll"
     /\ (\E h \in Hands : PollsStep(h)) \/ PollDue
     /\ UNCHANGED <<itemVars, side>>
  \/ /\ side = "items"
     /\ \E h \in Hands : ItemsStep(h)
     /\ UNCHANGED <<pollVars, side>>

CommunitySpec == CommunityInit /\ [][CommunityNext]_communityVars
-------------------------------------------------------------------------------
(* Every variable has its type: the one type invariant of this module. *)
CommunityTypeOK ==
  /\ ParticipationTypeOK /\ PollsTypeOK /\ ItemsTypeOK
  /\ hand \in [Hands -> ParticipationHand \cup PollHand \cup ItemHand]

(* What the event's room was shown last, the poll of Polls or the list of   *)
(* EventItems, is what is stored, once all is quiet.                        *)
RoomsAreCurrent == RoomIsCurrent /\ BoardIsCurrent
===============================================================================
