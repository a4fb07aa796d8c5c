--------------------------------- MODULE Polls ---------------------------------
(***************************************************************************)
(* A poll of the community event: polls.service.ts, open to the organizer  *)
(* and to those whose participation is accepted.  A handler reads the      *)
(* access, then the poll, then writes, then fetches what it broadcasts to  *)
(* the event's room.                                                       *)
(***************************************************************************)
EXTENDS Participation

CONSTANT Options  (* poll_options of the one poll                          *)

ASSUME PollsAssumption == IsFiniteSet(Options)

VARIABLES
  poll,   (* the poll: none, its status, creator, kind, and date            *)
  votes,  (* poll_votes: unique (poll, option, user)                        *)
  current (* is the poll what the event's room was sent last?               *)

pollVars == <<poll, votes, current>>
pollsVars == <<participationVars, pollVars>>

Everyone == People \cup {Organizer}

NoPoll == [status |-> "none"]

Poll == {NoPoll} \cup [status : {"OPEN", "CLOSED", "DELETED"}, creator : Everyone,
                       multiple : BOOLEAN, due : BOOLEAN]

PollSteps == {"pollCreate", "pollClose", "pollDelete", "pollClosing", "pollDeleting",
              "vote", "voteWrite", "change", "changeDelete", "changeWrite",
              "pollFetch", "announce"}

PollHand ==
  [step : {"pollCreate", "pollClose", "pollDelete", "pollClosing", "pollDeleting",
           "pollFetch"}, user : Everyone]
    \cup [step : {"vote", "voteWrite", "change", "changeDelete", "changeWrite"},
          user : Everyone, choice : SUBSET Options \ {{}}, twice : BOOLEAN]
    \cup [step : {"announce"}, fresh : BOOLEAN]

PollsInit == poll = NoPoll /\ votes = {} /\ current = TRUE

(* checkAccess, of polls.service.ts and event-items.service.ts. *)
Access(h, u, kind, steps, state) ==
  /\ hand[h] = Idle
  /\ u = Organizer \/ u \in Accepted
  /\ InHand(h, state)
  /\ Meets(h, kind, steps)
  /\ UNCHANGED eventTables

(* Of the optionIds of a vote: which they are, and whether one comes twice,  *)
(* which VotePollDto lets through.                                           *)
PollAccess(h, u) ==
  /\ \/ \E step \in {"pollCreate", "pollClose", "pollDelete"} :
          Access(h, u, "votes", PollSteps, [step |-> step, user |-> u])
     \/ \E step \in {"vote", "change"}, choice \in SUBSET Options \ {{}}, twice \in BOOLEAN :
          Access(h, u, "votes", PollSteps,
                 [step |-> step, user |-> u, choice |-> choice, twice |-> twice])
  /\ UNCHANGED pollVars

(* The step of h is done; it goes on to the next, with the same user. *)
NextOf(h, step) == InHand(h, [hand[h] EXCEPT !.step = step])

(* A write leaves the room, and what others have fetched to send, behind.  *)
Overtakes(h, state) ==
  /\ current' = FALSE
  /\ hand' = [g \in Hands |-> IF g = h THEN state
                ELSE IF hand[g].step = "announce" THEN [hand[g] EXCEPT !.fresh = FALSE]
                ELSE hand[g]]

Fetched == [step |-> "announce", fresh |-> TRUE]

MaySettle(u) == u \in {poll.creator, Organizer}

OpenPoll == poll.status = "OPEN" /\ ~poll.due

VotesOf(u) == {v \in votes : v[1] = u}

Ballot(h) == {hand[h].user} \X hand[h].choice

(* createMany fails of a deleted poll, and of a vote there is already, be it *)
(* that of the same optionId before.                                        *)
CanVote(h) == poll.status # "DELETED" /\ Ballot(h) \cap votes = {} /\ ~hand[h].twice
-------------------------------------------------------------------------------
(* createPoll: one poll, as a bound *)
PollCreate(h) ==
  /\ hand[h].step = "pollCreate"
  /\ \/ /\ poll = NoPoll
        /\ \E multiple \in BOOLEAN :
             poll' = [status |-> "OPEN", creator |-> hand[h].user,
                      multiple |-> multiple, due |-> FALSE]
        /\ Overtakes(h, Fetched)
     \/ poll # NoPoll /\ InHand(h, Idle) /\ UNCHANGED <<poll, current>>
  /\ UNCHANGED <<eventTables, mishaps, votes>>

(* vote and changeVote read the poll and decide: a poll with one choice     *)
(* takes one optionId.                                                      *)
VoteRead(h) ==
  LET allowed == /\ OpenPoll
                 /\ poll.multiple \/ (Cardinality(hand[h].choice) = 1 /\ ~hand[h].twice)
  IN  /\ hand[h].step \in {"vote", "change"}
      /\ IF allowed /\ (hand[h].step = "change" \/ VotesOf(hand[h].user) = {})
         THEN NextOf(h, IF hand[h].step = "vote" THEN "voteWrite" ELSE "changeDelete")
         ELSE InHand(h, Idle)
      /\ UNCHANGED <<eventTables, mishaps, pollVars>>

(* Mutant: changeVote only adds. *)
ChangeDeletesNothing(h) ==
  /\ hand[h].step = "changeDelete"
  /\ NextOf(h, "changeWrite")
  /\ UNCHANGED <<eventTables, mishaps, pollVars>>

ChangeDelete(h) ==
  /\ hand[h].step = "changeDelete"
  /\ votes' = votes \ VotesOf(hand[h].user)
  /\ Overtakes(h, [hand[h] EXCEPT !.step = "changeWrite"])
  /\ UNCHANGED <<eventTables, mishaps, poll>>

(* Mutant: a vote that was changed is not broadcast. *)
VoteWriteQuietly(h) ==
  /\ hand[h].step \in {"voteWrite", "changeWrite"}
  /\ CanVote(h)
  /\ votes' = votes \cup Ballot(h)
  /\ Overtakes(h, IF hand[h].step = "changeWrite" THEN Idle
                  ELSE [step |-> "pollFetch", user |-> hand[h].user])
  /\ UNCHANGED <<eventTables, mishaps, poll>>

VoteWrite(h) ==
  /\ hand[h].step \in {"voteWrite", "changeWrite"}
  /\ CanVote(h)
  /\ votes' = votes \cup Ballot(h)
  /\ Overtakes(h, [step |-> "pollFetch", user |-> hand[h].user])
  /\ UNCHANGED <<eventTables, mishaps, poll>>

(* The vote that changeVote has deleted stays so. *)
VoteFails(h) ==
  /\ hand[h].step \in {"voteWrite", "changeWrite"}
  /\ ~CanVote(h)
  /\ HandsStop({h})
  /\ UNCHANGED pollVars

(* closePoll and deletePoll: the creator's or the organizer's. *)
SettleRead(h) ==
  LET closing == hand[h].step = "pollClose"
  IN  /\ hand[h].step \in {"pollClose", "pollDelete"}
      /\ IF /\ poll.status \in (IF closing THEN {"OPEN"} ELSE {"OPEN", "CLOSED"})
            /\ MaySettle(hand[h].user)
         THEN NextOf(h, IF closing THEN "pollClosing" ELSE "pollDeleting")
         ELSE InHand(h, Idle)
      /\ UNCHANGED <<eventTables, mishaps, pollVars>>

(* Deleting a poll deletes its votes. *)
SettleWrite(h) ==
  /\ hand[h].step \in {"pollClosing", "pollDeleting"}
  /\ IF poll.status = "DELETED"
     THEN InHand(h, Idle) /\ UNCHANGED <<poll, votes, current>>
     ELSE IF hand[h].step = "pollClosing"
     THEN /\ poll' = [poll EXCEPT !.status = "CLOSED"]
          /\ Overtakes(h, [hand[h] EXCEPT !.step = "pollFetch"])
          /\ UNCHANGED votes
     ELSE /\ poll' = [poll EXCEPT !.status = "DELETED"]
          /\ votes' = {}
          /\ Overtakes(h, Fetched)
  /\ UNCHANGED <<eventTables, mishaps>>

PollFetch(h) ==
  /\ hand[h].step = "pollFetch"
  /\ InHand(h, IF poll.status = "DELETED" THEN Idle ELSE Fetched)
  /\ UNCHANGED <<eventTables, mishaps, pollVars>>

(* The broadcast, once the fetched poll has come back from the database. *)
Announce(h) ==
  /\ hand[h].step = "announce"
  /\ current' = hand[h].fresh
  /\ InHand(h, Idle)
  /\ UNCHANGED <<eventTables, mishaps, poll, votes>>

(* closesAt passes. *)
PollDue ==
  /\ poll.status \in {"OPEN", "CLOSED"}
  /\ ~poll.due
  /\ poll' = [poll EXCEPT !.due = TRUE]
  /\ UNCHANGED <<participationVars, votes, current>>

PollsStep(h) ==
  \/ \E u \in Everyone : PollAccess(h, u)
  \/ PollCreate(h) \/ VoteRead(h) \/ ChangeDelete(h) \/ VoteWrite(h) \/ VoteFails(h)
  \/ SettleRead(h) \/ SettleWrite(h) \/ PollFetch(h) \/ Announce(h)
-------------------------------------------------------------------------------
(* Properties *)

(* Every variable has its type: the one type invariant of this module. *)
PollsTypeOK ==
  /\ poll \in Poll
  /\ votes \subseteq Everyone \X Options
  /\ current \in BOOLEAN

(* A poll with one choice gets one vote a person, unless two handlers of   *)
(* the poll overlapped: nothing but vote's own test says so, for votes are *)
(* unique by option, and changeVote takes two commits.                     *)
OneVoteEach ==
  poll # NoPoll /\ ~poll.multiple /\ "votes" \notin mishaps =>
    \A u \in Everyone : Cardinality(VotesOf(u)) <= 1

(* When all is quiet, the room has the poll as it is, unless two handlers  *)
(* overlapped, of which the later may send what it fetched earlier, or one *)
(* failed after its write and before its broadcast.                        *)
RoomIsCurrent ==
  /\ \A h \in Hands : hand[h].step \notin PollSteps
  /\ mishaps \cap {"votes", "unsent"} = {}
  => current
===============================================================================
