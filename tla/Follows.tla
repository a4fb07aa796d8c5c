-------------------------------- MODULE Follows --------------------------------
(***************************************************************************)
(* Who follows whom, follows.service.ts, and the announcement of a new     *)
(* event to the followers and friends of its organizer, create of          *)
(* events.service.ts, which reads the follows table three times and writes *)
(* the notifications in two commits, after the event's own.  follow and    *)
(* unfollow are single steps: the unique key, or the row's id, makes the   *)
(* loser of two overlapping calls fail and changes nothing.                *)
(***************************************************************************)
EXTENDS Rows

CONSTANTS
  Fans,        (* users other than the organizer                           *)
  Author       (* the organizer of the events that are announced           *)

ASSUME FollowsAssumption == Author \notin Fans

VARIABLES
  follows,     (* the follows table: notificationsEnabled per pair         *)
  followed,    (* NEW_FOLLOWER notifications: who got one about whom       *)
  announcing,  (* create in flight: what it has read, and what is left     *)
  told,        (* notifications of the event being, or last, announced     *)
  unsteady     (* those who followed or were followed anew since it began  *)

followsVars == <<follows, followed, announcing, told, unsteady>>

Pairs == (Fans \X {Author}) \cup ({Author} \X Fans)

FollowsInit ==
  /\ \E P \in SUBSET Pairs : follows \in [P -> BOOLEAN]
  /\ followed = {}
  /\ announcing = Idle
  /\ told = {}
  /\ unsteady = {}

Fan(pair) == IF pair[1] = Author THEN pair[2] ELSE pair[1]

(* A change to a pair while an event is being announced. *)
Stirs(pair) ==
  /\ unsteady' = unsteady \cup {Fan(pair)}
  /\ UNCHANGED <<announcing, told>>
-------------------------------------------------------------------------------
(* A restart may come between the row and the notification. *)
Follow(p) ==
  /\ p \notin DOMAIN follows
  /\ follows' = Put(follows, p, TRUE)
  /\ followed' \in {followed, followed \cup {p}}
  /\ Stirs(p)

Unfollow(p) ==
  /\ p \in DOMAIN follows
  /\ follows' = Drop(follows, {p})
  /\ UNCHANGED followed
  /\ Stirs(p)

SetNotificationsEnabled(p, enabled) ==
  /\ p \in DOMAIN follows
  /\ follows' = [follows EXCEPT ![p] = enabled]
  /\ UNCHANGED followed
  /\ Stirs(p)
-------------------------------------------------------------------------------
(* create: the event is committed, then its followers and friends are read *)

Announced == [step |-> "announced"]

Announce ==
  /\ announcing \in {Idle, Announced}
  /\ announcing' = [step |-> "reading"]
  /\ told' = {}
  /\ unsteady' = {}
  /\ UNCHANGED <<follows, followed>>

Reading(field, value) ==
  /\ announcing.step = "reading"
  /\ field \notin DOMAIN announcing
  /\ announcing' = [x \in DOMAIN announcing \cup {field} |->
                      IF x = field THEN value ELSE announcing[x]]
  /\ UNCHANGED <<follows, followed, told, unsteady>>

(* getFollowerIds: those who have the notifications enabled. *)
GetFollowerIds ==
  Reading("followerIds", {f \in Fans : <<f, Author>> \in DOMAIN follows /\ follows[<<f, Author>>]})

(* getFriendIds: two reads; the three of them are in any order. *)
GetFollowing == Reading("following", {f \in Fans : <<Author, f>> \in DOMAIN follows})
GetFollowers == Reading("followers", {f \in Fans : <<f, Author>> \in DOMAIN follows})

FriendIds == announcing.following \cap announcing.followers

Tell(kind, fans) == told' = told \cup {<<kind, f>> : f \in fans}

TellFollowers ==
  /\ announcing.step = "reading"
  /\ {"followerIds", "following", "followers"} \subseteq DOMAIN announcing
  /\ Tell("NEW_EVENT_FROM_FOLLOWED", announcing.followerIds \ FriendIds)
  /\ announcing' = [announcing EXCEPT !.step = "friends"]
  /\ UNCHANGED <<follows, followed, unsteady>>

(* Mutant: friends are told whether they want to be or not. *)
TellAllFriends ==
  /\ announcing.step = "friends"
  /\ Tell("NEW_EVENT_FROM_FRIEND", FriendIds)
  /\ announcing' = Announced
  /\ UNCHANGED <<follows, followed, unsteady>>

TellFriends ==
  /\ announcing.step = "friends"
  /\ Tell("NEW_EVENT_FROM_FRIEND", FriendIds \cap announcing.followerIds)
  /\ announcing' = Announced
  /\ UNCHANGED <<follows, followed, unsteady>>

(* A query fails or the process restarts: nobody else is told. *)
AnnouncementFails ==
  /\ announcing.step \in {"reading", "friends"}
  /\ announcing' = Idle
  /\ UNCHANGED <<follows, followed, told, unsteady>>
-------------------------------------------------------------------------------
FollowsNext ==
  \/ \E p \in Pairs : \/ Follow(p) \/ Unfollow(p)
                      \/ \E enabled \in BOOLEAN : SetNotificationsEnabled(p, enabled)
  \/ Announce \/ GetFollowerIds \/ GetFollowing \/ GetFollowers
  \/ TellFollowers \/ TellFriends \/ AnnouncementFails

FollowsSpec == FollowsInit /\ [][FollowsNext]_followsVars
-------------------------------------------------------------------------------
(* Properties *)

(* Every variable has its type: the one type invariant of this module. *)
FollowsTypeOK ==
  /\ DOMAIN follows \subseteq Pairs /\ follows \in [DOMAIN follows -> BOOLEAN]
  /\ followed \subseteq Pairs
  /\ announcing.step \in {"idle", "reading", "friends", "announced"}
  /\ told \subseteq {"NEW_EVENT_FROM_FOLLOWED", "NEW_EVENT_FROM_FRIEND"} \X Fans
  /\ unsteady \subseteq Fans

(* Nobody is told twice of one event, as a follower and as a friend,        *)
(* whatever is followed and unfollowed between the three reads.             *)
ToldOnce == \A m, n \in told : m[2] = n[2] => m = n

(* Once an event is announced, each of those whose follows have not changed *)
(* since it was created has been told of it if he follows its author with   *)
(* notifications, as a friend if the author follows him too.                *)
AnnouncedRight ==
  \A f \in Fans \ unsteady :
    LET wants  == <<f, Author>> \in DOMAIN follows /\ follows[<<f, Author>>]
        kind   == IF <<Author, f>> \in DOMAIN follows
                  THEN "NEW_EVENT_FROM_FRIEND" ELSE "NEW_EVENT_FROM_FOLLOWED"
    IN  announcing = Announced =>
          {m \in told : m[2] = f} = (IF wants THEN {<<kind, f>>} ELSE {})
===============================================================================
