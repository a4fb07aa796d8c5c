----------------------------- MODULE Participation -----------------------------
(***************************************************************************)
(* Taking part in one community event: participation-requests.service.ts   *)
(* over its table and the current_stock of the event's category            *)
(* 'Participation'.  Answers are the organizer's, as everybody else's are  *)
(* refused.  A handler is one step per read that decides and one per       *)
(* commit, as in Reservation.                                              *)
(***************************************************************************)
EXTENDS Rows

CONSTANTS
  People,        (* the users who may take part                            *)
  Organizer,     (* the event's organizer                                  *)
  InitialPlaces, (* initial_stock of the category 'Participation'          *)
  Hands          (* handlers in flight at a time: a bound                  *)

ASSUME ParticipationAssumption ==
  /\ Organizer \notin People
  /\ IsFiniteSet(People)
  /\ InitialPlaces \in Nat \ {0}

VARIABLES
  participation, (* participation_requests: a status per user, unique      *)
  places,        (* ticket_categories.current_stock of 'Participation'     *)
  calledOff,     (* events.cancelled_at is set                             *)
  notices,       (* the notifications: a user, and what he is told         *)
  turnedAway,    (* those who were told that there is no place left        *)
  mishaps,       (* what has ever overlapped, or was stored and not sent   *)
  hand           (* what each handler in flight will do next               *)

eventTables == <<participation, places, calledOff, notices, turnedAway>>
participationVars == <<eventTables, mishaps, hand>>

RequestStatus == {"PENDING", "ACCEPTED", "REFUSED"}

ParticipationHand ==
  {Idle}
    \cup [step : {"askCount"}, user : People, left : Int]
    \cup [step : {"askWrite", "askNotify"}, user : People]
    \cup [step : {"answerWrite"}, user : People, status : {"ACCEPTED", "REFUSED"}]

ParticipationInit ==
  /\ participation = NoRows
  /\ places = InitialPlaces
  /\ calledOff = FALSE
  /\ notices = {}
  /\ turnedAway = {}
  /\ mishaps = {}
  /\ hand = [h \in Hands |-> Idle]

InHand(h, state) == hand' = [hand EXCEPT ![h] = state]

(* Two handlers of a kind are in flight together: remembered in mishaps. *)
Meets(h, kind, steps) ==
  mishaps' = IF \E g \in Hands \ {h} : hand[g].step \in steps
             THEN mishaps \cup {kind} ELSE mishaps

Accepted == {u \in DOMAIN participation : participation[u] = "ACCEPTED"}
-------------------------------------------------------------------------------
(* create: the event with its stock, and a request there may be; the count *)
(* of the accepted; the request; the organizer's notification              *)

Ask(h, u) ==
  /\ hand[h] = Idle
  /\ ~calledOff
  /\ u \notin DOMAIN participation
  /\ InHand(h, [step |-> "askCount", user |-> u, left |-> places])
  /\ UNCHANGED <<eventTables, mishaps>>

(* The accepted, who are not in the stock any more, are counted against it. *)
AskCount(h) ==
  LET full == hand[h].left > 0 /\ Cardinality(Accepted) >= hand[h].left
  IN  /\ hand[h].step = "askCount"
      /\ turnedAway' = IF full THEN turnedAway \cup {hand[h].user} ELSE turnedAway
      /\ InHand(h, IF full THEN Idle ELSE [step |-> "askWrite", user |-> hand[h].user])
      /\ UNCHANGED <<participation, places, calledOff, notices, mishaps>>

(* A request that exists by now makes create fail: unique (event, user). *)
AskWrite(h) ==
  LET u == hand[h].user
  IN  /\ hand[h].step = "askWrite"
      /\ IF u \in DOMAIN participation
         THEN InHand(h, Idle) /\ UNCHANGED participation
         ELSE /\ participation' = Put(participation, u, "PENDING")
              /\ InHand(h, [step |-> "askNotify", user |-> u])
      /\ UNCHANGED <<places, calledOff, notices, turnedAway, mishaps>>

(* Mutant: the one who asks is told, and not the organizer. *)
AskNotifyAsker(h) ==
  /\ hand[h].step = "askNotify"
  /\ notices' = notices \cup {<<hand[h].user, "PENDING">>}
  /\ InHand(h, Idle)
  /\ UNCHANGED <<participation, places, calledOff, turnedAway, mishaps>>

AskNotify(h) ==
  /\ hand[h].step = "askNotify"
  /\ notices' = notices \cup {<<Organizer, "PENDING">>}
  /\ InHand(h, Idle)
  /\ UNCHANGED <<participation, places, calledOff, turnedAway, mishaps>>
-------------------------------------------------------------------------------
(* respond: status and stock are those of a read before the transaction,   *)
(* which does not test them again                                          *)

Answer(h, u, status) ==
  /\ hand[h] = Idle
  /\ participation[u] = "PENDING"
  /\ status = "ACCEPTED" => places >= 1
  /\ InHand(h, [step |-> "answerWrite", user |-> u, status |-> status])
  /\ Meets(h, "answers", {"answerWrite"})
  /\ UNCHANGED eventTables

(* Mutant: an acceptance takes no place. *)
AnswerWriteNoPlace(h) ==
  LET u == hand[h].user
      status == hand[h].status
  IN  /\ hand[h].step = "answerWrite"
      /\ participation' = [participation EXCEPT ![u] = status]
      /\ notices' = notices \cup {<<u, status>>}
      /\ InHand(h, Idle)
      /\ UNCHANGED <<places, calledOff, turnedAway, mishaps>>

(* Mutant: a refusal takes a place too. *)
AnswerWritePlace(h) ==
  LET u == hand[h].user
      status == hand[h].status
  IN  /\ hand[h].step = "answerWrite"
      /\ places' = places - 1
      /\ participation' = [participation EXCEPT ![u] = status]
      /\ notices' = notices \cup {<<u, status>>}
      /\ InHand(h, Idle)
      /\ UNCHANGED <<calledOff, turnedAway, mishaps>>

AnswerWrite(h) ==
  LET u == hand[h].user
      status == hand[h].status
  IN  /\ hand[h].step = "answerWrite"
      /\ places' = IF status = "ACCEPTED" THEN places - 1 ELSE places
      /\ participation' = [participation EXCEPT ![u] = status]
      /\ notices' = notices \cup {<<u, status>>}
      /\ InHand(h, Idle)
      /\ UNCHANGED <<calledOff, turnedAway, mishaps>>
-------------------------------------------------------------------------------
(* cancelEvent refuses new requests; those there are stay as they are. *)
CallOff ==
  /\ ~calledOff
  /\ calledOff' = TRUE
  /\ UNCHANGED <<participation, places, notices, turnedAway, mishaps, hand>>

(* The steps of Polls and EventItems between a commit and its broadcast. *)
Unsent == {"changeWrite", "pollFetch", "announce", "itemsFetch", "itemsSend"}

HandsStop(gone) ==
  /\ gone # {} /\ Idle \notin {hand[h] : h \in gone}
  /\ hand' = [h \in Hands |-> IF h \in gone THEN Idle ELSE hand[h]]
  /\ mishaps' = IF \E h \in gone : hand[h].step \in Unsent THEN mishaps \cup {"unsent"} ELSE mishaps
  /\ UNCHANGED eventTables

(* A query of one handler fails, or all are gone with the process. *)
HandlersFail == \E gone \in SUBSET Hands : HandsStop(gone)

ParticipationStep(h) ==
  \/ \E u \in People : Ask(h, u)
  \/ AskCount(h) \/ AskWrite(h) \/ AskNotify(h)
  \/ \E u \in DOMAIN participation, status \in {"ACCEPTED", "REFUSED"} : Answer(h, u, status)
  \/ AnswerWrite(h)

ParticipationNext ==
  \/ \E h \in Hands : ParticipationStep(h)
  \/ CallOff
  \/ HandlersFail

ParticipationSpec == ParticipationInit /\ [][ParticipationNext]_participationVars
-------------------------------------------------------------------------------
(* Properties *)

(* Every variable of this module has its type; the hands have theirs where *)
(* all the steps are known.                                                *)
ParticipationTypeOK ==
  /\ DOMAIN participation \subseteq People
  /\ participation \in [DOMAIN participation -> RequestStatus]
  /\ places \in Int
  /\ calledOff \in BOOLEAN
  /\ notices \subseteq ({Organizer} \X {"PENDING"}) \cup (People \X {"ACCEPTED", "REFUSED"})
  /\ turnedAway \subseteq People
  /\ mishaps \subseteq {"answers", "votes", "claims", "unsent"}

(* However the organizer's answers overlap, for each who is accepted a     *)
(* place has been taken: the accepted and the places left are never more   *)
(* than the places of the event.                                           *)
PlacesCover == places + Cardinality(Accepted) <= InitialPlaces

(* Unless two answers overlapped, the event is never overbooked, and no    *)
(* place is lost: respond relies on nothing but the organizer's patience.  *)
PlacesExact ==
  "answers" \notin mishaps => /\ places >= 0
                              /\ places + Cardinality(Accepted) = InitialPlaces

(* Whoever's request is answered is told that answer, also when the        *)
(* process dies in between, and when a second answer replaces the first.   *)
AnsweredIsTold ==
  \A u \in DOMAIN participation :
    participation[u] # "PENDING" => <<u, participation[u]>> \in notices

(* Said by participation-requests.service.ts in the message of its refusal: *)
(* who is turned away is so because there is no place left.                *)
TurnedAwayWhenFull ==
  [][turnedAway' # turnedAway => places = 0]_participationVars
===============================================================================
