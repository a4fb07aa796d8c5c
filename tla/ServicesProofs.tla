---------------------------- MODULE ServicesProofs ----------------------------
(***************************************************************************)
(* Proofs about Follows, for every set of users other than the author;     *)
(* about Accounts, for every set of addresses and of handlers, however far *)
(* the numbers at the end of names are counted up; about Reminders, for    *)
(* every set of orders and number of days; and about Services, which runs  *)
(* one of these, the staff, the gate, an edited event or a checkout with a *)
(* promo code.                                                             *)
(***************************************************************************)
EXTENDS Services, GateProofs, SalesProofs

(* Follows. *)

Reads == {"followerIds", "following", "followers"}

(* What a read of create says of a user now. *)
Says(x, f) ==
  IF x = "following" THEN <<Author, f>> \in DOMAIN follows
  ELSE /\ <<f, Author>> \in DOMAIN follows
       /\ x = "followerIds" => follows[<<f, Author>>]

(* What create has read is still so of everyone who stands still. *)
ReadsHold ==
  announcing.step \in {"reading", "friends"} =>
    /\ "step" \in DOMAIN announcing
    /\ \A x \in DOMAIN announcing \cap Reads :
         /\ announcing[x] \subseteq Fans
         /\ \A f \in Fans \ unsteady : f \in announcing[x] <=> Says(x, f)

(* The followers are told once everything has been read, and the friends   *)
(* after them.                                                             *)
ToldSoFar ==
  /\ announcing.step \in {"idle", "reading", "friends", "announced"}
  /\ announcing.step = "reading" => told = {}
  /\ announcing.step = "friends" =>
       /\ Reads \subseteq DOMAIN announcing
       /\ told = {"NEW_EVENT_FROM_FOLLOWED"} \X (announcing.followerIds \ FriendIds)
  /\ announcing.step = "announced" => announcing = Announced

FollowsInv == ReadsHold /\ ToldSoFar /\ ToldOnce /\ AnnouncedRight

LEMMA StepNames ==
  /\ Idle.step = "idle" /\ Announced.step = "announced" /\ Idle # Announced
  /\ DOMAIN [step |-> "reading"] \cap Reads = {}
BY DEF Idle, Announced, Reads

LEMMA FollowsInvInit == FollowsInit => FollowsInv
BY StepNames DEF FollowsInit, FollowsInv, ReadsHold, ToldSoFar, ToldOnce, AnnouncedRight

(* The pair of a user with the author. *)
LEMMA FanOfPair ==
  ASSUME NEW p \in Pairs
  PROVE  \A f \in Fans \ {Fan(p)} : p # <<f, Author>> /\ p # <<Author, f>>
BY FollowsAssumption DEF Pairs, Fan

(* A pair that is stirred says the same of everybody else as before. *)
LEMMA StirKeeps ==
  ASSUME FollowsInv, NEW p \in Pairs, Stirs(p),
         \/ follows' = Put(follows, p, TRUE)
         \/ follows' = Drop(follows, {p})
         \/ \E enabled \in BOOLEAN : follows' = [follows EXCEPT ![p] = enabled]
  PROVE  FollowsInv'
<1>1. \A q : q # p => /\ q \in DOMAIN follows' <=> q \in DOMAIN follows
                      /\ q \in DOMAIN follows => follows'[q] = follows[q]
  <2>1. CASE follows' = Put(follows, p, TRUE)
    BY <2>1 DEF Put
  <2>2. CASE follows' = Drop(follows, {p})
    BY <2>2 DEF Drop
  <2>3. ASSUME NEW enabled \in BOOLEAN, follows' = [follows EXCEPT ![p] = enabled]
        PROVE  \A q : q # p => /\ q \in DOMAIN follows' <=> q \in DOMAIN follows
                               /\ q \in DOMAIN follows => follows'[q] = follows[q]
    BY <2>3
  <2> QED
    BY <2>1, <2>2, <2>3
<1>2. /\ announcing' = announcing /\ told' = told
      /\ unsteady' = unsteady \cup {Fan(p)}
  BY DEF Stirs
<1>3. \A f \in Fans \ unsteady' : p # <<f, Author>> /\ p # <<Author, f>> /\ f \in Fans \ unsteady
  BY <1>2, FanOfPair
<1>4. ReadsHold'
  BY <1>1, <1>2, <1>3 DEF FollowsInv, ReadsHold, Says
<1>5. ToldSoFar' /\ ToldOnce'
  BY <1>2 DEF FollowsInv, ToldSoFar, ToldOnce, FriendIds
<1>6. AnnouncedRight'
  BY <1>1, <1>2, <1>3 DEF FollowsInv, AnnouncedRight
<1> QED
  BY <1>4, <1>5, <1>6 DEF FollowsInv

(* A read that says what holds keeps the invariant. *)
LEMMA ReadKeeps ==
  ASSUME FollowsInv, NEW x \in Reads, NEW value \in SUBSET Fans, Reading(x, value),
         \A f \in Fans : f \in value <=> Says(x, f)
  PROVE  FollowsInv'
<1>1. /\ announcing.step = "reading" /\ announcing'.step = "reading"
      /\ DOMAIN announcing' = DOMAIN announcing \cup {x}
      /\ announcing'[x] = value
      /\ \A y \in DOMAIN announcing \ {x} : announcing'[y] = announcing[y]
  <2>1. "step" \in DOMAIN announcing /\ x # "step" /\ announcing.step = "reading"
    BY DEF Reading, Reads, FollowsInv, ReadsHold
  <2>2. announcing' = [y \in DOMAIN announcing \cup {x} |->
                         IF y = x THEN value ELSE announcing[y]]
    BY DEF Reading
  <2> QED
    BY <2>1, <2>2
<1>2. UNCHANGED <<follows, told, unsteady>>
  BY DEF Reading
<1>3. ReadsHold'
  BY <1>1, <1>2 DEF FollowsInv, ReadsHold, Says
<1>4. ToldSoFar' /\ ToldOnce' /\ AnnouncedRight'
  BY <1>1, <1>2, StepNames DEF FollowsInv, ToldSoFar, ToldOnce, AnnouncedRight
<1> QED
  BY <1>3, <1>4 DEF FollowsInv

LEMMA TellFollowersKeeps ==
  ASSUME FollowsInv, TellFollowers
  PROVE  FollowsInv'
<1>1. /\ announcing.step = "reading" /\ announcing'.step = "friends"
      /\ DOMAIN announcing' = DOMAIN announcing /\ Reads \subseteq DOMAIN announcing
      /\ \A x \in Reads : announcing'[x] = announcing[x]
  BY DEF TellFollowers, Reads
<1>2. /\ UNCHANGED <<follows, unsteady>>
      /\ told' = {"NEW_EVENT_FROM_FOLLOWED"} \X (announcing.followerIds \ FriendIds)
  BY DEF TellFollowers, Tell, FollowsInv, ToldSoFar
<1>3. announcing'.followerIds = announcing.followerIds /\ FriendIds' = FriendIds
  BY <1>1 DEF Reads, FriendIds
<1>4. ReadsHold'
  BY <1>1, <1>2 DEF FollowsInv, ReadsHold, Says
<1>5. ToldSoFar' /\ AnnouncedRight'
  BY <1>1, <1>2, <1>3, StepNames DEF ToldSoFar, AnnouncedRight
<1>6. ToldOnce'
  BY <1>2 DEF ToldOnce
<1> QED
  BY <1>4, <1>5, <1>6 DEF FollowsInv

LEMMA TellFriendsKeeps ==
  ASSUME FollowsInv, TellFriends
  PROVE  FollowsInv'
<1> DEFINE A == announcing.followerIds
           F == FriendIds
<1>1. /\ announcing.step = "friends" /\ announcing' = Announced
      /\ UNCHANGED <<follows, unsteady>>
  BY DEF TellFriends
<1>2. told' = ({"NEW_EVENT_FROM_FOLLOWED"} \X (A \ F)) \cup ({"NEW_EVENT_FROM_FRIEND"} \X (F \cap A))
  BY <1>1 DEF TellFriends, Tell, FollowsInv, ToldSoFar
<1>3. ReadsHold' /\ ToldSoFar'
  BY <1>1, StepNames DEF ReadsHold, ToldSoFar
<1>4. ToldOnce'
  BY <1>2 DEF ToldOnce
<1>5. \A f \in Fans \ unsteady :
        /\ f \in A <=> <<f, Author>> \in DOMAIN follows /\ follows[<<f, Author>>]
        /\ f \in F <=> <<f, Author>> \in DOMAIN follows /\ <<Author, f>> \in DOMAIN follows
  <2>1. Reads \subseteq DOMAIN announcing
    BY <1>1 DEF FollowsInv, ToldSoFar
  <2> QED
    BY <1>1, <2>1 DEF FollowsInv, ReadsHold, Says, FriendIds, Reads
<1>6. ASSUME NEW f \in Fans \ unsteady,
             NEW wants, wants = (<<f, Author>> \in DOMAIN follows /\ follows[<<f, Author>>]),
             NEW kind, kind = IF <<Author, f>> \in DOMAIN follows
                              THEN "NEW_EVENT_FROM_FRIEND" ELSE "NEW_EVENT_FROM_FOLLOWED"
      PROVE  {m \in told' : m[2] = f} = (IF wants THEN {<<kind, f>>} ELSE {})
  <2>1. /\ f \in A <=> wants
        /\ wants => (f \in F <=> <<Author, f>> \in DOMAIN follows)
    BY <1>5, <1>6
  <2> HIDE DEF A, F
  <2>2. CASE wants /\ <<Author, f>> \in DOMAIN follows
    BY <1>2, <1>6, <2>1, <2>2
  <2>3. CASE wants /\ <<Author, f>> \notin DOMAIN follows
    BY <1>2, <1>6, <2>1, <2>3
  <2>4. CASE ~wants
    BY <1>2, <2>1, <2>4
  <2> QED
    BY <2>2, <2>3, <2>4
<1>7. AnnouncedRight'
  BY <1>1, <1>6 DEF AnnouncedRight
<1> QED
  BY <1>3, <1>4, <1>7 DEF FollowsInv

LEMMA FollowsInvNext == FollowsInv /\ [FollowsNext]_followsVars => FollowsInv'
<1> SUFFICES ASSUME FollowsInv, [FollowsNext]_followsVars PROVE FollowsInv'
  OBVIOUS
<1>1. ASSUME NEW p \in Pairs, Follow(p) \/ Unfollow(p) PROVE FollowsInv'
  BY <1>1, StirKeeps DEF Follow, Unfollow
<1>2. ASSUME NEW p \in Pairs, NEW enabled \in BOOLEAN, SetNotificationsEnabled(p, enabled)
      PROVE  FollowsInv'
  BY <1>2, StirKeeps DEF SetNotificationsEnabled
<1>3. CASE Announce
  BY <1>3, StepNames DEF Announce, FollowsInv, ReadsHold, ToldSoFar, ToldOnce, AnnouncedRight
<1>4. CASE GetFollowerIds
  <2> DEFINE V == {f \in Fans : <<f, Author>> \in DOMAIN follows /\ follows[<<f, Author>>]}
  <2>1. "followerIds" \in Reads /\ V \in SUBSET Fans /\ \A f \in Fans : f \in V <=> Says("followerIds", f)
    BY DEF Says, Reads
  <2>2. Reading("followerIds", V)
    BY <1>4 DEF GetFollowerIds
  <2> HIDE DEF V
  <2> QED
    BY <2>1, <2>2, ReadKeeps
<1>5. CASE GetFollowing
  <2> DEFINE V == {f \in Fans : <<Author, f>> \in DOMAIN follows}
  <2>1. "following" \in Reads /\ V \in SUBSET Fans /\ \A f \in Fans : f \in V <=> Says("following", f)
    BY DEF Says, Reads
  <2>2. Reading("following", V)
    BY <1>5 DEF GetFollowing
  <2> HIDE DEF V
  <2> QED
    BY <2>1, <2>2, ReadKeeps
<1>6. CASE GetFollowers
  <2> DEFINE V == {f \in Fans : <<f, Author>> \in DOMAIN follows}
  <2>1. "followers" \in Reads /\ V \in SUBSET Fans /\ \A f \in Fans : f \in V <=> Says("followers", f)
    BY DEF Says, Reads
  <2>2. Reading("followers", V)
    BY <1>6 DEF GetFollowers
  <2> HIDE DEF V
  <2> QED
    BY <2>1, <2>2, ReadKeeps
<1>7. CASE TellFollowers \/ TellFriends
  BY <1>7, TellFollowersKeeps, TellFriendsKeeps
<1>8. CASE AnnouncementFails
  BY <1>8, StepNames
  DEF AnnouncementFails, FollowsInv, ReadsHold, ToldSoFar, ToldOnce, AnnouncedRight
<1>9. CASE UNCHANGED followsVars
  BY <1>9 DEF followsVars, FollowsInv, ReadsHold, Says, ToldSoFar, FriendIds, ToldOnce,
              AnnouncedRight
<1> QED
  BY <1>1, <1>2, <1>3, <1>4, <1>5, <1>6, <1>7, <1>8, <1>9 DEF FollowsNext

(* However follows and unfollows fall between the three reads, nobody is   *)
(* told of an event both as a follower and as a friend.                    *)
THEOREM NobodyToldTwice == FollowsSpec => []ToldOnce
<1>1. FollowsInv => ToldOnce
  BY DEF FollowsInv
<1> QED
  BY <1>1, FollowsInvInit, FollowsInvNext, PTL DEF FollowsSpec

(* Whoever neither followed, unfollowed nor was followed or unfollowed     *)
(* while an event was announced has been told of it exactly as he wishes.  *)
THEOREM AnnouncedToAll == FollowsSpec => []AnnouncedRight
<1>1. FollowsInv => AnnouncedRight
  BY DEF FollowsInv
<1> QED
  BY <1>1, FollowsInvInit, FollowsInvNext, PTL DEF FollowsSpec
-------------------------------------------------------------------------------
(* Accounts. *)

NameSteps == {"name", "create", "generate", "googleCreate"}
Holding == {"create", "googleCreate"}

(* What handlers have in hand, with no bound on the numbers of the names.   *)
ClerkState ==
  {Idle} \cup [step : {"link"}, email : Emails]
         \cup [step : NameSteps, email : Emails, name : [suffix : Nat, caps : BOOLEAN]]

ClerksKnown == clerk \in [Clerks -> ClerkState]

(* Unless look-ups have overlapped, one handler at most holds a name it has *)
(* found free, and nobody has taken that name since.                        *)
OneHolder ==
  ~raced =>
    /\ \A c, d \in Clerks : clerk[c].step \in Holding /\ clerk[d].step \in Holding => c = d
    /\ \A c \in Clerks : clerk[c].step \in Holding =>
         \A e \in DOMAIN account : account[e].name.suffix # clerk[c].name.suffix

AccountsInv == ClerksKnown /\ OneHolder /\ NamesTellApart

LEMMA IdleStep == Idle \in ClerkState /\ Idle.step \notin NameSteps \cup {"link"} \cup Holding
BY DEF Idle, NameSteps, Holding, ClerkState

LEMMA AccountsInvInit == AccountsInit => AccountsInv
BY IdleStep
DEF AccountsInit, AccountsInv, ClerksKnown, OneHolder, NamesTellApart, NoRows

(* A handler goes on that holds no name, and no name is given. *)
LEMMA DoesKeeps ==
  ASSUME AccountsInv, NEW c \in Clerks, NEW state \in ClerkState, Does(c, state),
         state.step \notin Holding, raced' = raced, DOMAIN account' = DOMAIN account,
         \A e \in DOMAIN account : account'[e].name = account[e].name
  PROVE  AccountsInv'
<1>1. clerk'[c] = state /\ \A d \in Clerks \ {c} : clerk'[d] = clerk[d]
  BY DEF Does, AccountsInv, ClerksKnown
<1>2. ClerksKnown'
  BY DEF Does, AccountsInv, ClerksKnown
<1>3. OneHolder'
  BY <1>1 DEF AccountsInv, OneHolder
<1>4. NamesTellApart'
  BY DEF AccountsInv, NamesTellApart
<1> QED
  BY <1>2, <1>3, <1>4 DEF AccountsInv

(* A handler has found its name free. *)
LEMMA HolderKeeps ==
  ASSUME AccountsInv, NEW c \in Clerks, NEW step \in Holding,
         clerk[c].step \in {"name", "generate"}, ~FoundInsensitive(clerk[c].name),
         FoundFree(c), account' = account, Does(c, [clerk[c] EXCEPT !.step = step])
  PROVE  AccountsInv'
<1>1. clerk[c] \in [step : NameSteps, email : Emails, name : [suffix : Nat, caps : BOOLEAN]]
  BY IdleStep DEF AccountsInv, ClerksKnown, ClerkState, Idle
<1>2. /\ [clerk[c] EXCEPT !.step = step] \in ClerkState
      /\ [clerk[c] EXCEPT !.step = step].name = clerk[c].name
  BY <1>1 DEF ClerkState, NameSteps, Holding
<1>3. /\ clerk'[c].name = clerk[c].name
      /\ \A d \in Clerks \ {c} : clerk'[d] = clerk[d]
  BY <1>2 DEF Does, AccountsInv, ClerksKnown
<1>4. ClerksKnown'
  BY <1>2 DEF Does, AccountsInv, ClerksKnown
<1>5. OneHolder'
  <2>1. SUFFICES ASSUME ~raced' PROVE OneHolder'
    BY DEF OneHolder
  <2>2. \A d \in Clerks \ {c} : clerk[d].step \notin Holding
    BY <2>1 DEF FoundFree, Holding
  <2>3. \A e \in DOMAIN account : account[e].name.suffix # clerk[c].name.suffix
    BY DEF FoundInsensitive
  <2> QED
    BY <1>3, <2>2, <2>3 DEF OneHolder
<1>6. NamesTellApart'
  <2>1. ~raced' => ~raced
    BY DEF FoundFree
  <2> QED
    BY <2>1 DEF AccountsInv, NamesTellApart
<1> QED
  BY <1>4, <1>5, <1>6 DEF AccountsInv

(* The account is made, or its address or name is taken: then nothing is.   *)
LEMMA CreateKeeps ==
  ASSUME AccountsInv, NEW c \in Clerks, CreateAccount(c)
  PROVE  AccountsInv'
<1>1. /\ clerk'[c] = Idle /\ \A d \in Clerks \ {c} : clerk'[d] = clerk[d]
      /\ ClerksKnown'
  BY IdleStep DEF CreateAccount, Does, AccountsInv, ClerksKnown
<1>2. clerk[c].step \in Holding /\ raced' = raced
  BY DEF CreateAccount, Holding
<1>3. OneHolder'
  BY <1>1, <1>2, IdleStep DEF AccountsInv, OneHolder
<1>4. NamesTellApart'
  <2>1. CASE account' = account
    BY <1>2, <2>1 DEF AccountsInv, NamesTellApart
  <2>2. CASE /\ clerk[c].email \notin DOMAIN account
             /\ account' = Put(account, clerk[c].email,
                               [name |-> clerk[c].name, google |-> clerk[c].step = "googleCreate"])
    <3>1. /\ DOMAIN account' = DOMAIN account \cup {clerk[c].email}
          /\ account'[clerk[c].email].name = clerk[c].name
          /\ \A e \in DOMAIN account : account'[e] = account[e]
      BY <2>2 DEF Put
    <3>2. ~raced => \A e \in DOMAIN account : account[e].name.suffix # clerk[c].name.suffix
      BY <1>2 DEF AccountsInv, OneHolder
    <3> QED
      BY <1>2, <3>1, <3>2 DEF AccountsInv, NamesTellApart
  <2> QED
    BY <2>1, <2>2 DEF CreateAccount
<1> QED
  BY <1>1, <1>3, <1>4 DEF AccountsInv

LEMMA AccountsInvNext == AccountsInv /\ [AccountsNext]_accountsVars => AccountsInv'
<1> SUFFICES ASSUME AccountsInv, [AccountsNext]_accountsVars PROVE AccountsInv'
  OBVIOUS
<1>1. ASSUME NEW c \in Clerks, NEW e \in Emails, NEW n \in Names, Register(c, e, n)
      PROVE  AccountsInv'
  <2>1. /\ [step |-> "name", email |-> e, name |-> n] \in ClerkState
        /\ [step |-> "name", email |-> e, name |-> n].step \notin Holding
    BY AccountsAssumption DEF Names, ClerkState, NameSteps, Holding
  <2> QED
    BY <1>1, <2>1, DoesKeeps DEF Register
<1>2. ASSUME NEW c \in Clerks, NEW e \in Emails, GoogleSignIn(c, e) PROVE AccountsInv'
  <2>1. /\ [step |-> "link", email |-> e] \in ClerkState
        /\ [step |-> "link", email |-> e].step \notin Holding
    BY DEF ClerkState, Holding
  <2>2. /\ [step |-> "generate", email |-> e, name |-> [suffix |-> 0, caps |-> FALSE]] \in ClerkState
        /\ [step |-> "generate", email |-> e,
             name |-> [suffix |-> 0, caps |-> FALSE]].step \notin Holding
    BY DEF ClerkState, NameSteps, Holding
  <2>3. CASE e \in DOMAIN account
    BY <1>2, <2>1, <2>3, DoesKeeps DEF GoogleSignIn
  <2>4. CASE e \notin DOMAIN account
    BY <1>2, <2>2, <2>4, DoesKeeps DEF GoogleSignIn
  <2> QED
    BY <2>3, <2>4
<1>3. ASSUME NEW c \in Clerks, RegisterName(c) PROVE AccountsInv'
  <2>1. CASE FoundInsensitive(clerk[c].name)
    BY <1>3, <2>1, IdleStep, DoesKeeps DEF RegisterName
  <2>2. CASE ~FoundInsensitive(clerk[c].name)
    BY <1>3, <2>2, HolderKeeps DEF RegisterName, Holding
  <2> QED
    BY <2>1, <2>2
<1>4. ASSUME NEW c \in Clerks, CreateAccount(c) PROVE AccountsInv'
  BY <1>4, CreateKeeps
<1>5. ASSUME NEW c \in Clerks, GoogleLink(c) PROVE AccountsInv'
  <2>1. /\ DOMAIN account' = DOMAIN account
        /\ \A e \in DOMAIN account : account'[e].name = account[e].name
    BY <1>5 DEF GoogleLink
  <2> QED
    BY <1>5, <2>1, IdleStep, DoesKeeps DEF GoogleLink
<1>6. ASSUME NEW c \in Clerks, GenerateUsername(c) PROVE AccountsInv'
  <2>1. CASE FoundInsensitive(clerk[c].name)
    <3>1. clerk[c] \in [step : NameSteps, email : Emails, name : [suffix : Nat, caps : BOOLEAN]]
      BY <1>6, IdleStep DEF GenerateUsername, AccountsInv, ClerksKnown, ClerkState, NameSteps
    <3> DEFINE next == [clerk[c] EXCEPT !.name.suffix = @ + 1]
    <3>2. next \in ClerkState /\ next.step = "generate"
      BY <1>6, <3>1 DEF GenerateUsername, ClerkState
    <3>3. Does(c, next) /\ raced' = raced /\ account' = account
      BY <1>6, <2>1 DEF GenerateUsername
    <3> HIDE DEF next
    <3> QED
      BY <3>2, <3>3, DoesKeeps DEF Holding
  <2>2. CASE ~FoundInsensitive(clerk[c].name)
    BY <1>6, <2>2, HolderKeeps DEF GenerateUsername, Holding
  <2> QED
    BY <2>1, <2>2
<1>7. CASE UNCHANGED accountsVars
  BY <1>7 DEF accountsVars, AccountsInv, ClerksKnown, OneHolder, NamesTellApart
<1> QED
  BY <1>1, <1>2, <1>3, <1>4, <1>5, <1>6, <1>7 DEF AccountsNext, ClerkStep

(* Two accounts whose names differ in case only are made by overlapping    *)
(* look-ups and by nothing else, in any number of registrations, sign-ins  *)
(* by Google and names counted up.                                         *)
THEOREM NamesStayApart == AccountsSpec => []NamesTellApart
<1>1. AccountsInv => NamesTellApart
  BY DEF AccountsInv
<1> QED
  BY <1>1, AccountsInvInit, AccountsInvNext, PTL DEF AccountsSpec

-------------------------------------------------------------------------------
(* Reminders: the day of a job is over when it has started, or cannot any   *)
(* more; the orders that a job still has to remind count as reminded.       *)

DayOver(k) == today > eventDay - k \/ (today = eventDay - k /\ k \in hasRun)

AtMost(o, k) ==
  reminders[o][k] + (IF o \in jobs[k] THEN 1 ELSE 0) <= moves + (IF DayOver(k) THEN 1 ELSE 0)

JobsInHand ==
  /\ \A k \in Aheads : jobs[k] # {} => k \in hasRun /\ (moves = 0 => today = eventDay - k)
  /\ \A o \in Holders, k \in Aheads : AtMost(o, k)
  /\ \A o \in Holders : order[o].since <= today
  /\ \A o \in Holders, k \in Aheads :
       order[o].status = "PAID" /\ moves = 0 /\ order[o].since < eventDay - k
         /\ k \notin forgone[o] /\ DayOver(k)
         => reminders[o][k] = 1 \/ o \in jobs[k]

RemindersInv == RemindersTypeOK /\ JobsInHand

LEMMA RemindersNumbers ==
  /\ LastDay \in Nat
  /\ \A k \in Aheads : k \in Nat /\ k >= 1
BY RemindersAssumption DEF Aheads

LEMMA RemindersInitInv == RemindersInit => RemindersInv
<1> SUFFICES ASSUME RemindersInit PROVE RemindersInv
  OBVIOUS
<1>1. eventDay \in 0..LastDay /\ eventDay \in Nat /\ moves = 0 /\ MaxMoves \in Nat /\ today = 0
  BY RemindersAssumption DEF RemindersInit
<1>2. RemindersTypeOK
  <2>1. \A o \in Holders : [status |-> "none", since |-> 0] \in [status : Statuses, since : 0..LastDay]
    BY RemindersNumbers DEF Statuses
  <2> QED
    BY <1>1, <2>1, RemindersNumbers DEF RemindersInit, RemindersTypeOK
<1>3. /\ \A k \in Aheads : jobs[k] = {}
      /\ \A o \in Holders : order[o].status = "none" /\ order[o].since = 0
      /\ \A o \in Holders, k \in Aheads : reminders[o][k] = 0
  BY DEF RemindersInit
<1>4. \A o \in Holders, k \in Aheads : AtMost(o, k)
  BY <1>1, <1>3 DEF AtMost
<1> QED
  BY <1>1, <1>2, <1>3, <1>4 DEF RemindersInv, JobsInHand

OrderState == [status : Statuses, since : 0..LastDay]

(* Steps of a day other than the reminders themselves leave a job's day     *)
(* over, or not, as it was.                                                 *)
LEMMA HolderBecomesNext ==
  ASSUME RemindersInv, NEW o \in Holders, NEW status \in Statuses, HolderBecomes(o, status),
         changes' \subseteq Holders \X DOMAIN ReadAs,
         UNCHANGED <<today, eventDay, moves, hasRun, jobs, reminders, forgone>>
  PROVE  RemindersInv'
<1>1. /\ today \in 0..LastDay /\ today \in Int /\ eventDay \in 0..LastDay /\ eventDay \in Int
      /\ order \in [Holders -> OrderState]
  BY RemindersNumbers DEF RemindersInv, RemindersTypeOK, OrderState
<1>2. PICK new : /\ order' = [order EXCEPT ![o] = new]
                 /\ new = IF order[o].status = status THEN order[o]
                          ELSE [status |-> status, since |-> today]
  BY DEF HolderBecomes
<1>3. new \in OrderState /\ (new = order[o] \/ new.since = today)
  BY <1>1, <1>2 DEF OrderState
<1>4. /\ order' \in [Holders -> OrderState]
      /\ \A p \in Holders : order'[p] = IF p = o THEN new ELSE order[p]
  BY <1>1, <1>2, <1>3
<1>5. RemindersTypeOK'
  BY <1>4 DEF RemindersInv, RemindersTypeOK, OrderState
<1>6. \A k \in Aheads : DayOver(k)' = DayOver(k)
  BY DEF DayOver
<1>7. \A p \in Holders, k \in Aheads : AtMost(p, k)'
  BY DEF RemindersInv, JobsInHand, AtMost, DayOver
<1>8. \A p \in Holders : order'[p].since <= today
  BY <1>1, <1>3, <1>4 DEF RemindersInv, JobsInHand
<1>9. ASSUME NEW p \in Holders, NEW k \in Aheads,
             order'[p].status = "PAID", moves = 0, order'[p].since < eventDay - k,
             k \notin forgone[p], DayOver(k)
      PROVE  reminders[p][k] = 1 \/ p \in jobs[k]
  <2>1. order'[p].since # today
    BY <1>1, <1>9, RemindersNumbers DEF DayOver
  <2>2. order'[p] = order[p]
    BY <1>3, <1>4, <2>1
  <2> QED
    BY <1>9, <2>2 DEF RemindersInv, JobsInHand
<1>10. JobsInHand'
  BY <1>7, <1>8, <1>9 DEF RemindersInv, JobsInHand, DayOver
<1> QED
  BY <1>5, <1>10 DEF RemindersInv

LEMMA OrderStepNext ==
  ASSUME RemindersInv, NEW o \in Holders,
         \/ PayHolder(o)
         \/ \E status \in DOMAIN ReadAs : HolderRead(o, status) \/ HolderWritten(o, status)
  PROVE  RemindersInv'
<1>1. changes \subseteq Holders \X DOMAIN ReadAs /\ DOMAIN ReadAs \subseteq Statuses
  BY DEF RemindersInv, RemindersTypeOK, Statuses
<1>2. CASE PayHolder(o)
  <2>1. "PAID" \in Statuses
    BY DEF Statuses, ReadAs
  <2> QED
    BY <1>1, <1>2, <2>1, HolderBecomesNext DEF PayHolder
<1>3. ASSUME NEW status \in DOMAIN ReadAs, HolderWritten(o, status) PROVE RemindersInv'
  BY <1>1, <1>3, HolderBecomesNext DEF HolderWritten
<1>4. ASSUME NEW status \in DOMAIN ReadAs, HolderRead(o, status) PROVE RemindersInv'
  <2>1. /\ UNCHANGED <<today, eventDay, moves, order, hasRun, jobs, reminders, forgone>>
        /\ changes' \subseteq Holders \X DOMAIN ReadAs
    BY <1>1, <1>4 DEF HolderRead
  <2>2. RemindersTypeOK'
    BY <2>1 DEF RemindersInv, RemindersTypeOK
  <2>3. JobsInHand'
    BY <2>1 DEF RemindersInv, JobsInHand, AtMost, DayOver
  <2> QED
    BY <2>2, <2>3 DEF RemindersInv
<1> QED
  BY <1>2, <1>3, <1>4

LEMMA MoveEventNext ==
  ASSUME RemindersInv, NEW day \in 1..LastDay, MoveEvent(day)
  PROVE  RemindersInv'
<1>1. /\ moves \in Nat /\ MaxMoves \in Nat /\ moves' = moves + 1 /\ moves' <= MaxMoves
      /\ eventDay' \in 0..LastDay
      /\ UNCHANGED <<today, order, changes, hasRun, jobs, reminders, forgone>>
  BY RemindersAssumption DEF MoveEvent, RemindersInv, RemindersTypeOK
<1>2. RemindersTypeOK'
  BY <1>1 DEF RemindersInv, RemindersTypeOK
<1>3. ASSUME NEW o \in Holders, NEW k \in Aheads PROVE AtMost(o, k)'
  <2>1. reminders[o][k] \in Nat
    BY DEF RemindersInv, RemindersTypeOK
  <2>2. AtMost(o, k)
    BY DEF RemindersInv, JobsInHand
  <2> QED
    BY <1>1, <2>1, <2>2 DEF AtMost
<1>4. JobsInHand'
  BY <1>1, <1>3 DEF RemindersInv, JobsInHand
<1> QED
  BY <1>2, <1>4 DEF RemindersInv

(* No job has anything in hand when the day passes, and what did not start  *)
(* that day is forgone.                                                     *)
LEMMA DayPassesNext ==
  ASSUME RemindersInv, DayPasses
  PROVE  RemindersInv'
<1>1. /\ today \in Nat /\ today < LastDay /\ today' = today + 1 /\ hasRun' = {}
      /\ eventDay \in Int
      /\ \A k \in Aheads : jobs[k] = {}
      /\ UNCHANGED <<eventDay, moves, order, changes, jobs, reminders>>
  BY DEF DayPasses, RemindersInv, RemindersTypeOK
<1>2. forgone' = [o \in Holders |-> forgone[o] \cup
                    {k \in Aheads \ hasRun : o \in PaidOrders /\ eventDay = today + k}]
  BY DEF DayPasses
<1>3. forgone' \in [Holders -> SUBSET Aheads]
  BY <1>2 DEF RemindersInv, RemindersTypeOK
<1>4. RemindersTypeOK'
  BY <1>1, <1>3, RemindersNumbers DEF RemindersInv, RemindersTypeOK
<1>5. ASSUME NEW k \in Aheads PROVE DayOver(k)' <=> today >= eventDay - k
  BY <1>1, RemindersNumbers DEF DayOver
<1>6. ASSUME NEW o \in Holders, NEW k \in Aheads PROVE AtMost(o, k)'
  <2>1. reminders[o][k] \in Nat /\ moves \in Nat
    BY RemindersAssumption DEF RemindersInv, RemindersTypeOK
  <2>2. AtMost(o, k)
    BY DEF RemindersInv, JobsInHand
  <2>3. DayOver(k) => DayOver(k)'
    BY <1>1, <1>5, RemindersNumbers DEF DayOver
  <2> QED
    BY <1>1, <2>1, <2>2, <2>3 DEF AtMost
<1>7. \A o \in Holders : order[o].since <= today + 1
  <2>1. \A o \in Holders : order[o].since \in Int
    BY RemindersNumbers DEF RemindersInv, RemindersTypeOK
  <2> QED
    BY <1>1, <2>1 DEF RemindersInv, JobsInHand
<1>8. ASSUME NEW o \in Holders, NEW k \in Aheads,
             order[o].status = "PAID", moves = 0, order[o].since < eventDay - k,
             k \notin forgone'[o], DayOver(k)'
      PROVE  reminders[o][k] = 1
  <2>1. k \notin forgone[o] /\ ~(k \notin hasRun /\ eventDay = today + k)
    BY <1>2, <1>8 DEF PaidOrders
  <2>2. DayOver(k)
    BY <1>1, <1>5, <1>8, <2>1, RemindersNumbers DEF DayOver
  <2> QED
    BY <1>1, <1>8, <2>1, <2>2 DEF RemindersInv, JobsInHand
<1>9. JobsInHand'
  BY <1>1, <1>6, <1>7, <1>8 DEF JobsInHand
<1> QED
  BY <1>4, <1>9 DEF RemindersInv

LEMMA JobReadsNextStep ==
  ASSUME RemindersInv, NEW k \in Aheads, JobReads(k)
  PROVE  RemindersInv'
<1>1. /\ today \in Int /\ eventDay \in Int
      /\ k \notin hasRun /\ hasRun' = hasRun \cup {k}
      /\ jobs[k] = {}
      /\ UNCHANGED <<today, eventDay, moves, order, changes, reminders, forgone>>
  BY DEF JobReads, RemindersInv, RemindersTypeOK, JobsInHand
<1>2. PaidOrders \in SUBSET Holders
  BY DEF PaidOrders
<1>3. /\ jobs' \in [Aheads -> SUBSET Holders]
      /\ \A l \in Aheads : l # k => jobs'[l] = jobs[l]
      /\ jobs'[k] = IF eventDay = today + k THEN PaidOrders ELSE {}
  BY <1>2 DEF JobReads, RemindersInv, RemindersTypeOK
<1>4. RemindersTypeOK'
  BY <1>1, <1>3 DEF RemindersInv, RemindersTypeOK
<1>5. \A l \in Aheads : DayOver(l)' <=> DayOver(l) \/ (l = k /\ eventDay = today + k)
  BY <1>1, RemindersNumbers DEF DayOver
<1>6. ~(DayOver(k) /\ eventDay = today + k)
  BY <1>1, RemindersNumbers DEF DayOver
<1>7. ASSUME NEW o \in Holders, NEW l \in Aheads PROVE AtMost(o, l)'
  <2>1. reminders[o][l] \in Nat /\ moves \in Nat
    BY RemindersAssumption DEF RemindersInv, RemindersTypeOK
  <2>2. AtMost(o, l)
    BY DEF RemindersInv, JobsInHand
  <2> QED
    BY <1>1, <1>3, <1>5, <1>6, <2>1, <2>2 DEF AtMost
<1>8. \A l \in Aheads : jobs'[l] # {} => l \in hasRun' /\ (moves = 0 => today = eventDay - l)
  BY <1>1, <1>3, RemindersNumbers DEF RemindersInv, JobsInHand
<1>9. ASSUME NEW o \in Holders, NEW l \in Aheads,
             order[o].status = "PAID", moves = 0, order[o].since < eventDay - l,
             l \notin forgone[o], DayOver(l)'
      PROVE  reminders[o][l] = 1 \/ o \in jobs'[l]
  <2>1. CASE DayOver(l)
    BY <1>1, <1>3, <1>9, <2>1 DEF RemindersInv, JobsInHand
  <2>2. CASE l = k /\ eventDay = today + k
    BY <1>3, <1>9, <2>2 DEF PaidOrders
  <2> QED
    BY <1>5, <1>9, <2>1, <2>2
<1>10. JobsInHand'
  BY <1>1, <1>7, <1>8, <1>9 DEF RemindersInv, JobsInHand
<1> QED
  BY <1>4, <1>10 DEF RemindersInv

LEMMA RemindNext ==
  ASSUME RemindersInv, NEW k \in Aheads, NEW o \in Holders, Remind(k, o)
  PROVE  RemindersInv'
<1>1. /\ o \in jobs[k]
      /\ UNCHANGED <<today, eventDay, moves, order, changes, hasRun>>
      /\ jobs \in [Aheads -> SUBSET Holders]
      /\ reminders \in [Holders -> [Aheads -> Nat]]
      /\ forgone \in [Holders -> SUBSET Aheads] /\ moves \in Nat
  BY RemindersAssumption DEF Remind, RemindersInv, RemindersTypeOK
<1>2. jobs' \in [Aheads -> SUBSET Holders]
      /\ \A l \in Aheads : jobs'[l] = IF l = k THEN jobs[k] \ {o} ELSE jobs[l]
  BY <1>1 DEF Remind
<1>3. PICK n \in Nat : n = reminders[o][k]
  BY <1>1
<1>4. CASE reminders' = [reminders EXCEPT ![o][k] = n + 1] /\ UNCHANGED forgone
  <2>1. /\ reminders' \in [Holders -> [Aheads -> Nat]]
        /\ \A p \in Holders, l \in Aheads :
             reminders'[p][l] = IF p = o /\ l = k THEN n + 1 ELSE reminders[p][l]
    BY <1>1, <1>3, <1>4
  <2>2. RemindersTypeOK'
    BY <1>1, <1>2, <1>4, <2>1 DEF RemindersInv, RemindersTypeOK
  <2>3. ASSUME NEW p \in Holders, NEW l \in Aheads PROVE AtMost(p, l)'
    <3>1. AtMost(p, l) /\ reminders[p][l] \in Nat
      BY <1>1 DEF RemindersInv, JobsInHand
    <3>2. CASE p = o /\ l = k
      BY <1>1, <1>2, <1>3, <2>1, <3>1, <3>2 DEF AtMost, DayOver
    <3>3. CASE ~(p = o /\ l = k)
      BY <1>1, <1>2, <2>1, <3>1, <3>3 DEF AtMost, DayOver
    <3> QED
      BY <3>2, <3>3
  <2>4. ASSUME NEW p \in Holders, NEW l \in Aheads,
               order[p].status = "PAID", moves = 0, order[p].since < eventDay - l,
               l \notin forgone[p], DayOver(l)
        PROVE  reminders'[p][l] = 1 \/ p \in jobs'[l]
    <3>1. CASE p = o /\ l = k
      <4>1. AtMost(o, k)
        BY DEF RemindersInv, JobsInHand
      <4>2. n = 0
        BY <1>1, <1>3, <2>4, <3>1, <4>1 DEF AtMost
      <4> QED
        BY <2>1, <3>1, <4>2
    <3>2. CASE ~(p = o /\ l = k)
      BY <1>2, <2>1, <2>4, <3>2 DEF RemindersInv, JobsInHand
    <3> QED
      BY <3>1, <3>2
  <2>5. \A l \in Aheads : jobs'[l] # {} => jobs[l] # {}
    BY <1>2
  <2>6. JobsInHand'
    BY <1>1, <1>4, <2>3, <2>4, <2>5 DEF RemindersInv, JobsInHand, DayOver
  <2> QED
    BY <2>2, <2>6 DEF RemindersInv
<1>5. CASE forgone' = [forgone EXCEPT ![o] = forgone[o] \cup {k}] /\ UNCHANGED reminders
  <2>1. /\ forgone' \in [Holders -> SUBSET Aheads]
        /\ \A p \in Holders : forgone[p] \subseteq forgone'[p]
        /\ k \in forgone'[o]
    BY <1>1, <1>5
  <2>2. RemindersTypeOK'
    BY <1>1, <1>2, <1>5, <2>1 DEF RemindersInv, RemindersTypeOK
  <2>3. ASSUME NEW p \in Holders, NEW l \in Aheads PROVE AtMost(p, l)'
    <3>1. AtMost(p, l) /\ reminders[p][l] \in Nat
      BY <1>1 DEF RemindersInv, JobsInHand
    <3> QED
      BY <1>1, <1>2, <1>5, <3>1 DEF AtMost, DayOver
  <2>4. ASSUME NEW p \in Holders, NEW l \in Aheads,
               order[p].status = "PAID", moves = 0, order[p].since < eventDay - l,
               l \notin forgone'[p], DayOver(l)
        PROVE  reminders[p][l] = 1 \/ p \in jobs'[l]
    BY <1>2, <2>1, <2>4 DEF RemindersInv, JobsInHand
  <2>5. \A l \in Aheads : jobs'[l] # {} => jobs[l] # {}
    BY <1>2
  <2>6. JobsInHand'
    BY <1>1, <1>5, <2>3, <2>4, <2>5 DEF RemindersInv, JobsInHand, DayOver
  <2> QED
    BY <2>2, <2>6 DEF RemindersInv
<1> QED
  BY <1>3, <1>4, <1>5 DEF Remind

LEMMA JobsRestartNext ==
  ASSUME RemindersInv, JobsRestart
  PROVE  RemindersInv'
<1>1. /\ UNCHANGED <<today, eventDay, moves, order, hasRun, reminders>>
      /\ changes' = {}
      /\ jobs' = [k \in Aheads |-> {}]
      /\ forgone' = [o \in Holders |-> forgone[o] \cup {k \in Aheads : o \in jobs[k]}]
  BY DEF JobsRestart
<1>2. forgone' \in [Holders -> SUBSET Aheads] /\ jobs' \in [Aheads -> SUBSET Holders]
  BY <1>1 DEF RemindersInv, RemindersTypeOK
<1>3. RemindersTypeOK'
  BY <1>1, <1>2 DEF RemindersInv, RemindersTypeOK
<1>4. ASSUME NEW o \in Holders, NEW k \in Aheads PROVE AtMost(o, k)'
  <2>1. AtMost(o, k) /\ reminders[o][k] \in Nat /\ moves \in Nat
    BY RemindersAssumption DEF RemindersInv, JobsInHand, RemindersTypeOK
  <2> QED
    BY <1>1, <2>1 DEF AtMost, DayOver
<1>5. JobsInHand'
  BY <1>1, <1>4 DEF RemindersInv, JobsInHand, DayOver
<1> QED
  BY <1>3, <1>5 DEF RemindersInv

LEMMA RemindersInvNext == RemindersInv /\ [RemindersNext]_remindersVars => RemindersInv'
<1> SUFFICES ASSUME RemindersInv, [RemindersNext]_remindersVars PROVE RemindersInv'
  OBVIOUS
<1>1. CASE UNCHANGED remindersVars
  BY <1>1 DEF remindersVars, RemindersInv, RemindersTypeOK, JobsInHand, AtMost, DayOver
<1> QED
  BY <1>1, OrderStepNext, MoveEventNext, DayPassesNext, JobReadsNextStep, RemindNext, JobsRestartNext
  DEF RemindersNext

(* At most one day has the job of an event that stays where it is, and when *)
(* that day is over the job has nothing in hand.                            *)
LEMMA RemindersSuffice == RemindersInv => RemindedRight
<1> SUFFICES ASSUME RemindersInv PROVE RemindedRight
  OBVIOUS
<1>1. RemindedOnce
  <2> SUFFICES ASSUME NEW o \in Holders, NEW k \in Aheads PROVE reminders[o][k] <= 1 + moves
    BY DEF RemindedOnce
  <2>1. AtMost(o, k) /\ reminders[o][k] \in Nat /\ moves \in Nat
    BY RemindersAssumption DEF RemindersInv, JobsInHand, RemindersTypeOK
  <2> QED
    BY <2>1 DEF AtMost
<1>2. RemindedAhead
  <2> SUFFICES ASSUME NEW o \in PaidOrders, NEW k \in Aheads, moves = 0,
                      order[o].since < eventDay - k, today > eventDay - k, k \notin forgone[o]
               PROVE  reminders[o][k] = 1
    BY DEF RemindedAhead
  <2>1. o \in Holders /\ order[o].status = "PAID"
    BY DEF PaidOrders
  <2>2. jobs[k] = {}
    BY RemindersNumbers DEF RemindersInv, JobsInHand, RemindersTypeOK
  <2> QED
    BY <2>1, <2>2 DEF RemindersInv, JobsInHand, DayOver
<1> QED
  BY <1>1, <1>2 DEF RemindedRight

(* An order is reminded once by each job, and is reminded, for any number   *)
(* of orders and days, and any moves, failures and restarts.                *)
THEOREM OrdersAreReminded == RemindersSpec => []RemindedRight
<1> QED
  BY RemindersInitInv, RemindersInvNext, RemindersSuffice, PTL DEF RemindersSpec
-------------------------------------------------------------------------------
(* Services. *)

LEMMA FollowsTypeInit == FollowsInit => FollowsTypeOK
<1> SUFFICES ASSUME FollowsInit PROVE FollowsTypeOK
  OBVIOUS
<1>1. PICK P \in SUBSET Pairs : follows \in [P -> BOOLEAN]
  BY DEF FollowsInit
<1> QED
  BY <1>1 DEF FollowsInit, FollowsTypeOK, Idle

LEMMA FollowsTypeNext ==
  ASSUME FollowsTypeOK, FollowsInv, [FollowsNext]_followsVars
  PROVE  FollowsTypeOK'
<1>1. ASSUME NEW p \in Pairs, follows' = Put(follows, p, TRUE) PROVE
        DOMAIN follows' \subseteq Pairs /\ follows' \in [DOMAIN follows' -> BOOLEAN]
  BY <1>1 DEF FollowsTypeOK, Put
<1>2. ASSUME NEW p \in Pairs,
             Follow(p) \/ Unfollow(p) \/ \E enabled \in BOOLEAN : SetNotificationsEnabled(p, enabled)
      PROVE  FollowsTypeOK'
  <2>1. Fan(p) \in Fans
    BY FollowsAssumption DEF Pairs, Fan
  <2>2. DOMAIN follows' \subseteq Pairs /\ follows' \in [DOMAIN follows' -> BOOLEAN]
    BY <1>1, <1>2 DEF Follow, Unfollow, SetNotificationsEnabled, Drop, FollowsTypeOK
  <2>3. followed' \subseteq Pairs
    BY <1>2 DEF Follow, Unfollow, SetNotificationsEnabled, FollowsTypeOK
  <2> QED
    BY <1>2, <2>1, <2>2, <2>3 DEF Follow, Unfollow, SetNotificationsEnabled, Stirs, FollowsTypeOK
<1>3. CASE Announce \/ AnnouncementFails \/ UNCHANGED followsVars
  BY <1>3 DEF Announce, AnnouncementFails, followsVars, FollowsTypeOK, Idle
<1>4. CASE GetFollowerIds \/ GetFollowing \/ GetFollowers
  <2>1. UNCHANGED <<follows, followed, told, unsteady>>
    BY <1>4 DEF GetFollowerIds, GetFollowing, GetFollowers, Reading
  <2>2. announcing'.step = "reading"
    BY <1>4, StepNames DEF GetFollowerIds, GetFollowing, GetFollowers, Reading, FollowsInv, ReadsHold
  <2> QED
    BY <2>1, <2>2 DEF FollowsTypeOK
<1>5. CASE TellFollowers \/ TellFriends
  <2>1. announcing.step \in {"reading", "friends"} /\ Reads \subseteq DOMAIN announcing
    BY <1>5 DEF TellFollowers, TellFriends, FollowsInv, ToldSoFar, Reads
  <2>2. announcing.followerIds \subseteq Fans
    BY <2>1 DEF FollowsInv, ReadsHold, Reads
  <2>3. announcing'.step \in {"friends", "announced"}
    BY <1>5, <2>1 DEF TellFollowers, TellFriends, Announced, FollowsInv, ReadsHold
  <2>4. told' \subseteq {"NEW_EVENT_FROM_FOLLOWED", "NEW_EVENT_FROM_FRIEND"} \X Fans
    <3>1. \E kind \in {"NEW_EVENT_FROM_FOLLOWED", "NEW_EVENT_FROM_FRIEND"}, fans \in SUBSET Fans :
            told' = told \cup {<<kind, f>> : f \in fans}
      BY <1>5, <2>2 DEF TellFollowers, TellFriends, Tell
    <3> QED
      BY <3>1 DEF FollowsTypeOK
  <2> QED
    BY <1>5, <2>3, <2>4 DEF TellFollowers, TellFriends, FollowsTypeOK
<1> QED
  BY <1>2, <1>3, <1>4, <1>5 DEF FollowsNext

LEMMA AccountsTypeInit == AccountsInit => AccountsTypeOK
BY DEF AccountsInit, AccountsTypeOK, NoRows

LEMMA AccountsTypeNext ==
  ASSUME AccountsTypeOK, AccountsInv', [AccountsNext]_accountsVars
  PROVE  AccountsTypeOK'
<1>1. clerk' \in [Clerks -> {Idle} \cup [step : {"link"}, email : Emails]
                             \cup [step : {"name", "create", "generate", "googleCreate"},
                                   email : Emails, name : AnyName]]
  BY DEF AccountsInv, ClerksKnown, ClerkState, NameSteps, AnyName
<1> DEFINE Typed(table) == /\ DOMAIN table \subseteq Emails
                          /\ table \in [DOMAIN table -> [name : AnyName, google : BOOLEAN]]
<1>2. ASSUME NEW c \in Clerks, CreateAccount(c) PROVE Typed(account')
  <2>1. PICK k \in [step : {"create", "googleCreate"}, email : Emails, name : AnyName] : k = clerk[c]
    BY <1>2 DEF CreateAccount, AccountsTypeOK, Idle
  <2>2. [name |-> k.name, google |-> k.step = "googleCreate"] \in [name : AnyName, google : BOOLEAN]
    OBVIOUS
  <2> QED
    BY <1>2, <2>1, <2>2 DEF CreateAccount, AccountsTypeOK, Put
<1>3. ASSUME NEW c \in Clerks, GoogleLink(c) PROVE Typed(account')
  BY <1>3 DEF GoogleLink, AccountsTypeOK
<1>4. ASSUME NEW c \in Clerks, CreateAccount(c) \/ GoogleLink(c) PROVE raced' \in BOOLEAN
  BY <1>4 DEF CreateAccount, GoogleLink, AccountsTypeOK
<1>5. ASSUME NEW c \in Clerks, NEW e \in Emails,
             (\E n \in Names : Register(c, e, n)) \/ GoogleSignIn(c, e)
      PROVE  account' = account /\ raced' \in BOOLEAN
  BY <1>5 DEF Register, GoogleSignIn, AccountsTypeOK
<1>6. ASSUME NEW c \in Clerks, RegisterName(c) \/ GenerateUsername(c)
      PROVE  account' = account /\ raced' \in BOOLEAN
  BY <1>6 DEF RegisterName, GenerateUsername, FoundFree, AccountsTypeOK
<1>7. CASE UNCHANGED accountsVars
  BY <1>1, <1>7 DEF accountsVars, AccountsTypeOK
<1> HIDE DEF Typed
<1>8. Typed(account) /\ raced \in BOOLEAN
  BY DEF Typed, AccountsTypeOK
<1>9. CASE AccountsNext
  <2>1. Typed(account') /\ raced' \in BOOLEAN
    BY <1>2, <1>3, <1>4, <1>5, <1>6, <1>8, <1>9 DEF AccountsNext, ClerkStep
  <2> QED
    BY <1>1, <2>1 DEF Typed, AccountsTypeOK
<1> QED
  BY <1>7, <1>9

(* A step of the services is a step of one of them, and the others stay.   *)
LEMMA ServicesNextIsEach ==
  ASSUME [ServicesNext]_servicesVars
  PROVE  /\ [GateNext]_gateVars /\ [EditNext]_editVars /\ [PromoNext]_promoVars
         /\ [FollowsNext]_followsVars /\ [RemindersNext]_remindersVars
         /\ [AccountsNext]_accountsVars
<1>1. StaffNext /\ UNCHANGED doorVars => GateNext
  BY DEF GateNext
<1> QED
  BY <1>1, Zenon DEF ServicesNext, servicesVars

(* Whatever is proved of the behaviours of one service holds of Services.  *)
THEOREM ServicesAreEach ==
  ServicesSpec => /\ GateSpec /\ EditSpec /\ PromoSpec
                  /\ FollowsSpec /\ RemindersSpec /\ AccountsSpec
<1>1. ServicesInit => /\ GateInit /\ EditInit /\ PromoInit
                      /\ FollowsInit /\ RemindersInit /\ AccountsInit
  BY DEF ServicesInit
<1> QED
  BY <1>1, ServicesNextIsEach, PTL
  DEF ServicesSpec, GateSpec, EditSpec, PromoSpec, FollowsSpec, RemindersSpec, AccountsSpec

(* Every variable of every service keeps its type, for every value of the  *)
(* constants.                                                              *)
THEOREM ServicesTypeCorrect == ServicesSpec => []ServicesTypeOK
<1>2. FollowsSpec => []FollowsTypeOK
  BY FollowsTypeInit, FollowsTypeNext, FollowsInvInit, FollowsInvNext, PTL DEF FollowsSpec
<1>3. AccountsSpec => []AccountsTypeOK
  BY AccountsTypeInit, AccountsTypeNext, AccountsInvInit, AccountsInvNext, PTL DEF AccountsSpec
<1>4. RemindersSpec => []RemindersTypeOK
  <2>1. RemindersInv => RemindersTypeOK
    BY DEF RemindersInv
  <2> QED
    BY <2>1, RemindersInitInv, RemindersInvNext, PTL DEF RemindersSpec
<1> QED
  BY <1>2, <1>3, <1>4, GateTypeCorrect, EditTypeCorrect, PromoTypeCorrect,
     ServicesAreEach, PTL DEF ServicesTypeOK
===============================================================================
