--------------------------------- MODULE EventTab ---------------------------------
(***************************************************************************)
(* The tab of the polls of an event, EventPollsTab.tsx with its PollCards: *)
(* loaded once by REST when it is opened, kept current by the events of    *)
(* the event's room and by the answers to what its own user does.  What    *)
(* the service does to a poll is in Polls.tla; here a poll is the number   *)
(* of its changes, and gone when that is Gone.  A request changes a poll,  *)
(* fetches it as it is by then, and tells the room what it has fetched.    *)
(***************************************************************************)
EXTENDS Integers, Sequences

CONSTANTS
  Polls,        (* the polls of the event                                  *)
  Requests,     (* requests to the service in flight at a time: a bound    *)
  Gone,         (* more than the changes of a poll: a bound                *)
  MaxTabLosses  (* times the socket is lost: a bound                       *)

ASSUME EventTabAssumption == Gone \in Nat \ {0, 1} /\ MaxTabLosses \in Nat

VARIABLES
  poll,       (* the changes of each poll: none before it is created       *)
  sent,       (* that of which the room was told last                      *)
  request,    (* what each request in flight will do next                  *)
  tab,        (* closed, loading, loaded with an answer, shown, in error   *)
  socket,     (* off, on, in the room of the event, or lost from there     *)
  tabLosses,  (* times the socket was lost                                 *)
  entering,   (* joinRoom is under way                                     *)
  events,     (* events on their way to the tab, in order                  *)
  shown,      (* each poll as the tab shows it, 0 when it does not         *)
  heard,      (* the latest change of each poll the tab ever heard of      *)
  astray      (* polls the tab may show otherwise, each with the reason    *)

serviceVars == <<poll, sent, request>>
tabVars == <<serviceVars, tab, socket, tabLosses, entering, events, shown, heard, astray>>

Change == [Polls -> 0..Gone]

Live(changes) == changes \in 1..(Gone - 1)

Displayed(changes) == IF Live(changes) THEN changes ELSE 0

Nothing == [p \in Polls |-> 0]

(* A request that is not in flight. *)
Unasked == [step |-> "none"]

(* The room was told of a change while the tab's socket was lost from it,   *)
(* or not in it for another reason; or a request failed before it told the  *)
(* room; or an answer came late.                                            *)
Reasons == {"lost", "outside", "unsent", "undone"}

Because(reason, P) == astray' = astray \cup (P \X {reason})

TabInit ==
  /\ poll \in [Polls -> {0, 1}] /\ sent = poll
  /\ request = [k \in Requests |-> Unasked]
  /\ tab = [step |-> "closed"] /\ socket = "off" /\ tabLosses = 0
  /\ entering = FALSE /\ events = <<>>
  /\ shown = Nothing /\ heard = Nothing
  /\ astray = {}
-------------------------------------------------------------------------------
(* The socket, which handleConnection does not put into the event's room *)

TabConnect ==
  /\ socket \in {"off", "lost"}
  /\ socket' = "on"
  /\ UNCHANGED <<serviceVars, tab, tabLosses, entering, events, shown, heard, astray>>

(* joinEventRoom fails at a socket that is lost, and nothing joins again. *)
TabLost ==
  /\ socket \in {"on", "room"}
  /\ tabLosses < MaxTabLosses
  /\ socket' = IF socket = "room" THEN "lost" ELSE "off"
  /\ tabLosses' = tabLosses + 1
  /\ entering' \in {entering, FALSE}
  /\ Because("lost", {events[i].poll : i \in DOMAIN events})
  /\ events' = <<>>
  /\ UNCHANGED <<serviceVars, tab, shown, heard>>

JoinEventRoom ==
  /\ entering
  /\ socket \in {"on", "room"}
  /\ socket' = "room"
  /\ entering' = FALSE
  /\ UNCHANGED <<serviceVars, tab, tabLosses, events, shown, heard, astray>>
-------------------------------------------------------------------------------
(* The tab is opened, loads and is closed *)

OpenTab ==
  /\ tab.step = "closed"
  /\ tab' = [step |-> "loading"]
  /\ entering' = TRUE
  /\ shown' = Nothing /\ heard' = Nothing /\ astray' = {}
  /\ UNCHANGED <<serviceVars, socket, tabLosses, events>>

(* getEventPolls: what it reads is not astray, whatever happened before. *)
TabRead ==
  /\ tab.step = "loading"
  /\ tab' = [step |-> "loaded", data |-> poll]
  /\ astray' = {}
  /\ UNCHANGED <<serviceVars, socket, tabLosses, entering, events, shown, heard>>

(* setPolls(data) undoes what the socket has brought meanwhile. *)
TabAnswer ==
  /\ tab.step = "loaded"
  /\ shown' = [p \in Polls |-> Displayed(tab.data[p])]
  /\ Because("undone", {p \in Polls : heard[p] > tab.data[p]})
  /\ heard' = [p \in Polls |-> IF heard[p] > tab.data[p] THEN heard[p] ELSE tab.data[p]]
  /\ tab' = [step |-> "shown"]
  /\ UNCHANGED <<serviceVars, socket, tabLosses, entering, events>>

TabFails ==
  /\ tab.step = "loading"
  /\ tab' = [step |-> "error"]
  /\ UNCHANGED <<serviceVars, socket, tabLosses, entering, events, shown, heard, astray>>

(* The handlers are removed and the room is left; the requests go on, and   *)
(* nobody waits for their answers.                                          *)
CloseTab ==
  /\ tab.step # "closed"
  /\ tab' = [step |-> "closed"]
  /\ socket' = IF socket \in {"on", "room"} THEN "on" ELSE "off"
  /\ entering' = FALSE
  /\ events' = <<>>
  /\ shown' = Nothing /\ heard' = Nothing /\ astray' = {}
  /\ request' = [k \in Requests |->
                   CASE request[k].step \in {"none", "answered"} -> Unasked
                     [] OTHER -> [request[k] EXCEPT !.own = FALSE]]
  /\ UNCHANGED <<poll, sent, tabLosses>>
-------------------------------------------------------------------------------
(* Requests of everybody: createPoll, vote, changeVote, closePoll and        *)
(* deletePoll, as far as the tab can tell                                    *)

(* The poll p after another change: created, then updated, or deleted. *)
Changes(p) == IF poll[p] = 0 THEN {1}
              ELSE {c \in {poll[p] + 1, Gone} : poll[p] < c /\ c <= Gone}

(* What a created or deleted poll is told as needs no fetch.  The tab's own *)
(* user changes what the tab shows, by CreatePollModal and the PollCards.   *)
StorePoll(k, p, own) ==
  /\ request[k] = Unasked
  /\ own => tab.step = "shown" /\ (poll[p] = 0 \/ shown[p] # 0)
  /\ \E c \in Changes(p) :
       /\ poll' = [poll EXCEPT ![p] = c]
       /\ request' = [request EXCEPT ![k] =
                        [step |-> IF c \in {1, Gone} THEN "fetched" ELSE "stored",
                         poll |-> p, changes |-> c, own |-> own]]
  /\ UNCHANGED <<sent, tab, socket, tabLosses, entering, events, shown, heard, astray>>

(* fetchFormattedPoll fails if the poll is deleted. *)
FetchPoll(k) ==
  /\ request[k].step = "stored"
  /\ LET c == poll[request[k].poll]
     IN  request' = [request EXCEPT ![k] = IF c = Gone THEN Unasked
                                           ELSE [@ EXCEPT !.step = "fetched", !.changes = c]]
  /\ UNCHANGED <<poll, sent, tab, socket, tabLosses, entering, events, shown, heard, astray>>

(* notifyPollCreated, notifyPollUpdated or notifyPollDeleted, then the answer. *)
TellRoom(k) ==
  LET p == request[k].poll
      c == request[k].changes
  IN  /\ request[k].step = "fetched"
      /\ sent' = [sent EXCEPT ![p] = c]
      /\ IF socket = "room"
         THEN events' = Append(events, [poll |-> p, changes |-> c]) /\ UNCHANGED astray
         ELSE /\ Because(IF socket = "lost" THEN "lost" ELSE "outside",
                         IF request[k].own THEN {} ELSE {p})
              /\ UNCHANGED events
      /\ request' = [request EXCEPT ![k] = IF @.own THEN [@ EXCEPT !.step = "answered"]
                                           ELSE Unasked]
      /\ UNCHANGED <<poll, tab, socket, tabLosses, entering, shown, heard>>

(* A query fails after the change, or its answer is lost on the way. *)
RequestFails(k) ==
  /\ request[k] # Unasked
  /\ request' = [request EXCEPT ![k] = Unasked]
  /\ Because("unsent", {request[k].poll})
  /\ UNCHANGED <<poll, sent, tab, socket, tabLosses, entering, events, shown, heard>>

(* The tab's own handlePollCreated adds a poll that is not shown, its        *)
(* handlePollUpdated replaces one that is, by an answer that may be late.   *)
OwnAnswer(k) ==
  LET p == request[k].poll
      c == request[k].changes
  IN  /\ request[k].step = "answered"
      /\ shown' = [shown EXCEPT ![p] = CASE c = 1 -> IF @ = 0 THEN 1 ELSE @
                                         [] c = Gone -> 0
                                         [] OTHER -> IF @ = 0 THEN 0 ELSE c]
      /\ Because("undone", IF heard[p] > c THEN {p} ELSE {})
      /\ heard' = [heard EXCEPT ![p] = IF c > @ THEN c ELSE @]
      /\ request' = [request EXCEPT ![k] = Unasked]
      /\ UNCHANGED <<poll, sent, tab, socket, tabLosses, entering, events>>

(* Mutant: pollDeleted has no handler. *)
PollEventKept ==
  /\ events # <<>>
  /\ LET p == Head(events).poll
         c == Head(events).changes
     IN  /\ shown' = [shown EXCEPT ![p] =
                        CASE c = 1 -> IF @ = 0 THEN 1 ELSE @
                          [] OTHER -> IF @ = 0 \/ c = Gone THEN @ ELSE c]
         /\ heard' = [heard EXCEPT ![p] = IF c > @ THEN c ELSE @]
  /\ events' = Tail(events)
  /\ UNCHANGED <<serviceVars, tab, socket, tabLosses, entering, astray>>

(* The handlers of pollCreated, pollUpdated and pollDeleted. *)
PollEvent ==
  /\ events # <<>>
  /\ LET p == Head(events).poll
         c == Head(events).changes
     IN  /\ shown' = [shown EXCEPT ![p] =
                        CASE c = 1 -> IF @ = 0 THEN 1 ELSE @
                          [] c = Gone -> 0
                          [] OTHER -> IF @ = 0 THEN 0 ELSE c]
         /\ heard' = [heard EXCEPT ![p] = IF c > @ THEN c ELSE @]
  /\ events' = Tail(events)
  /\ UNCHANGED <<serviceVars, tab, socket, tabLosses, entering, astray>>
-------------------------------------------------------------------------------
TabNext ==
  \/ TabConnect \/ TabLost \/ JoinEventRoom
  \/ OpenTab \/ TabRead \/ TabAnswer \/ TabFails \/ CloseTab
  \/ \E k \in Requests :
       \/ \E p \in Polls, own \in BOOLEAN : StorePoll(k, p, own)
       \/ FetchPoll(k) \/ TellRoom(k) \/ RequestFails(k) \/ OwnAnswer(k)
  \/ PollEvent

TabSpec == TabInit /\ [][TabNext]_tabVars
-------------------------------------------------------------------------------
(* Properties *)

RequestState ==
  {Unasked} \cup [step : {"stored", "fetched", "answered"}, poll : Polls, changes : 1..Gone,
                    own : BOOLEAN]

(* Every variable has its type. *)
TabTypeOK ==
  /\ poll \in Change /\ sent \in Change /\ heard \in Change
  /\ request \in [Requests -> RequestState]
  /\ shown \in [Polls -> 0..(Gone - 1)]
  /\ tab.step \in {"closed", "loading", "loaded", "shown", "error"}
  /\ socket \in {"off", "on", "room", "lost"}
  /\ tabLosses \in 0..MaxTabLosses
  /\ entering \in BOOLEAN
  /\ \A i \in DOMAIN events : events[i].poll \in Polls /\ events[i].changes \in 1..Gone
  /\ astray \subseteq Polls \X Reasons

(* Nothing about the poll is under way, and the last that the room was told *)
(* of it is so: RoomIsCurrent of Polls.tla says when.                       *)
Told(p) ==
  /\ \A k \in Requests : request[k] = Unasked \/ request[k].poll # p
  /\ \A i \in DOMAIN events : events[i].poll # p
  /\ sent[p] = poll[p]

(* The tab shows each poll as the room was told of it last, and none that   *)
(* is deleted, in whatever order changes, events and answers came before,   *)
(* but for those that have gone astray since it loaded.                     *)
PollsAreCurrent ==
  tab.step = "shown" =>
    \A p \in Polls : Told(p) /\ astray \cap ({p} \X Reasons) = {} => shown[p] = Displayed(poll[p])
===============================================================================
