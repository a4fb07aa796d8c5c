----------------------------- MODULE ClientProofs -----------------------------
(***************************************************************************)
(* Proofs about the parts of the web client that keep a copy, for every    *)
(* number of messages, polls, filters, requests and lost connections.      *)
(***************************************************************************)
EXTENDS Client, FiniteSetTheorems, SequenceTheorems, TLAPS

(* The search: what a request may ask for. *)
Question == [filter : Filter, position : Where]

SearchInv ==
  /\ filter \in Filter
  /\ position \in Where
  /\ dirty \in BOOLEAN /\ loading \in BOOLEAN /\ overtaken \in BOOLEAN
  /\ focused \in [filter : Filter \cup {Nowhere}, position : Where]
  /\ query \in [Queries -> {NoQuery} \cup [step : {"sent"}, for : Question, latest : BOOLEAN]]
  /\ results \in {None} \cup Question
  /\ ~dirty => focused.filter = filter

(* An answer to this question may be shown. *)
IsCurrent(question) ==
  question.filter = filter /\ question.position \in {position, focused.position}

(* Once the effects have run, the latest request asks what the page says,  *)
(* and it is under way unless its answer is shown or was overtaken.        *)
LatestIsCurrent ==
  ~dirty =>
    /\ \A q \in Queries : query[q] # NoQuery /\ query[q].latest => IsCurrent(query[q].for)
    /\ \/ overtaken \/ results = None \/ IsCurrent(results)
       \/ \E q \in Queries : query[q] # NoQuery /\ query[q].latest

LEMMA SearchInitInv == SearchInit => SearchInv /\ LatestIsCurrent
<1> SUFFICES ASSUME SearchInit PROVE SearchInv /\ LatestIsCurrent
  OBVIOUS
<1>1. filter \in Filter
  BY DEF SearchInit, Filter
<1>2. Nowhere \in Where
  BY DEF Where
<1> QED
  BY <1>1, <1>2 DEF SearchInit, SearchInv, LatestIsCurrent, None

(* A request that is sent is the latest, and no other is.                  *)
Sent(where) ==
  /\ query' \in [Queries -> {NoQuery} \cup [step : {"sent"}, for : Question, latest : BOOLEAN]]
  /\ loading' = TRUE
  /\ \E q \in Queries : query'[q] # NoQuery /\ query'[q].latest
  /\ \A q \in Queries : query'[q] # NoQuery /\ query'[q].latest =>
       query'[q].for = Asked(filter, where)

LEMMA FetchSends ==
  ASSUME SearchInv, NEW where \in Where, Fetch(where)
  PROVE  Sent(where)
<1> DEFINE Request == [step : {"sent"}, for : Question, latest : BOOLEAN]
           newest  == [step |-> "sent", for |-> Asked(filter, where), latest |-> TRUE]
<1>1. Asked(filter, where) \in Question
  BY DEF Asked, Question, SearchInv
<1>2. newest \in Request /\ newest # NoQuery
  BY <1>1 DEF NoQuery
<1>3. PICK q \in Queries :
        /\ query[q] = NoQuery
        /\ query' = [r \in Queries |->
                       IF r = q THEN newest
                       ELSE IF query[r] = NoQuery THEN NoQuery
                       ELSE [query[r] EXCEPT !.latest = FALSE]]
  BY DEF Fetch
<1>4. ASSUME NEW r \in Queries, query[r] # NoQuery
      PROVE  /\ [query[r] EXCEPT !.latest = FALSE] \in Request
             /\ ~[query[r] EXCEPT !.latest = FALSE].latest
  <2>1. query[r] \in Request
    BY <1>4 DEF SearchInv
  <2> QED
    BY <2>1
<1>5. ASSUME NEW r \in Queries PROVE query'[r] \in {NoQuery} \cup Request
  BY <1>2, <1>3, <1>4
<1>6. ASSUME NEW r \in Queries, query'[r] # NoQuery, query'[r].latest PROVE r = q
  BY <1>3, <1>4, <1>6
<1>7. query'[q] = newest
  BY <1>3
<1>8. DOMAIN query' = Queries
  BY <1>3
<1>9. query' \in [Queries -> {NoQuery} \cup Request]
  BY <1>3, <1>5, <1>8
<1> QED
  BY <1>2, <1>6, <1>7, <1>9 DEF Fetch, Sent

LEMMA SearchInvNext ==
  ASSUME SearchInv, LatestIsCurrent, [SearchNext]_searchVars
  PROVE  SearchInv' /\ LatestIsCurrent'
<1>1. ASSUME NEW value \in Filters, NEW available \in BOOLEAN, UpdateFilter(value, available)
      PROVE  SearchInv' /\ LatestIsCurrent'
  <2>1. filter' \in Filter
    BY <1>1 DEF UpdateFilter, Filter
  <2> QED
    BY <1>1, <2>1 DEF UpdateFilter, SearchInv, LatestIsCurrent
<1>2. ASSUME NEW where \in Where, SetUserPosition(where)
      PROVE  SearchInv' /\ LatestIsCurrent'
  BY <1>2 DEF SetUserPosition, SearchInv, LatestIsCurrent
<1>3. ASSUME RunEffects PROVE SearchInv' /\ LatestIsCurrent'
  <2>1. /\ Fetch(position) /\ position \in Where
        /\ dirty' = FALSE
        /\ focused' = IF focused.filter = filter THEN focused ELSE Asked(filter, position)
        /\ UNCHANGED <<filter, position, results, overtaken>>
    BY <1>3 DEF RunEffects, SearchInv
  <2>2. focused' \in [filter : Filter \cup {Nowhere}, position : Where] /\ focused'.filter = filter
    BY <2>1 DEF Asked, SearchInv
  <2>3. Sent(position)
    BY <2>1, FetchSends
  <2>4. SearchInv'
    BY <2>1, <2>2, <2>3 DEF SearchInv, Sent
  <2>5. ASSUME NEW q \in Queries, query'[q] # NoQuery, query'[q].latest
        PROVE  IsCurrent(query[q].for)'
    BY <2>1, <2>3, <2>5 DEF IsCurrent, Asked, Sent
  <2> QED
    BY <2>1, <2>3, <2>4, <2>5 DEF LatestIsCurrent, Sent
<1>4. ASSUME Focus PROVE SearchInv' /\ LatestIsCurrent'
  <2>1. /\ ~dirty
        /\ Fetch(focused.position) /\ focused.position \in Where
        /\ UNCHANGED <<filter, position, dirty, focused, results, overtaken>>
    BY <1>4 DEF Focus, SearchInv
  <2>2. Sent(focused.position)
    BY <2>1, FetchSends
  <2>3. SearchInv'
    BY <2>1, <2>2 DEF SearchInv, Sent
  <2>4. ASSUME NEW q \in Queries, query'[q] # NoQuery, query'[q].latest
        PROVE  IsCurrent(query[q].for)'
    BY <2>1, <2>2, <2>4 DEF IsCurrent, Asked, Sent
  <2> QED
    BY <2>1, <2>2, <2>3, <2>4 DEF LatestIsCurrent, Sent
<1>5. ASSUME NEW q \in Queries, SearchAnswer(q) PROVE SearchInv' /\ LatestIsCurrent'
  <2>1. query[q] \in [step : {"sent"}, for : Question, latest : BOOLEAN] /\ query[q] # NoQuery
    BY <1>5 DEF SearchAnswer, SearchInv, NoQuery
  <2>2. /\ results' \in {query[q].for, None}
        /\ overtaken' = ~query[q].latest
        /\ query' = [query EXCEPT ![q] = NoQuery]
        /\ loading' = FALSE
        /\ UNCHANGED <<filter, position, dirty, focused>>
    BY <1>5 DEF SearchAnswer
  <2>3. SearchInv'
    BY <2>1, <2>2 DEF SearchInv
  <2>4. ASSUME NEW r \in Queries, query'[r] # NoQuery PROVE query'[r] = query[r]
    BY <2>2, <2>4 DEF SearchInv
  <2>5. ASSUME ~dirty, query[q].latest, results' # None PROVE IsCurrent(results)'
    BY <2>1, <2>2, <2>5 DEF LatestIsCurrent, IsCurrent
  <2> QED
    BY <2>1, <2>2, <2>3, <2>4, <2>5 DEF LatestIsCurrent, IsCurrent
<1>6. CASE UNCHANGED searchVars
  BY <1>6 DEF searchVars, SearchInv, LatestIsCurrent, IsCurrent
<1> QED
  BY <1>1, <1>2, <1>3, <1>4, <1>5, <1>6 DEF SearchNext

(* When nothing is under way the catalogue shows what was last asked for,  *)
(* whichever answers overtook each other before, for any number of filters, *)
(* positions and requests at a time.                                       *)
THEOREM ResultsStayCurrent == SearchSpec => []ResultsAreCurrent
<1>1. SearchInv /\ LatestIsCurrent => ResultsAreCurrent
  BY DEF LatestIsCurrent, ResultsAreCurrent, IsCurrent, SearchInv
<1> QED
  BY <1>1, SearchInitInv, SearchInvNext, PTL DEF SearchSpec

-------------------------------------------------------------------------------
(* The tab of the polls: what the events on their way and the answers to   *)
(* its own user's requests tell of a poll, and whether a request is about  *)
(* to tell that the poll is created.                                       *)
News(p) == {events[i].changes : i \in {j \in DOMAIN events : events[j].poll = p}}

Answers(p) ==
  {request[k].changes : k \in {j \in Requests : request[j].step = "answered" /\ request[j].poll = p}}

Creating(p) ==
  \E k \in Requests : request[k].step = "fetched" /\ request[k].poll = p /\ request[k].changes = 1

OnCourse(p) == \A reason \in Reasons : <<p, reason>> \notin astray

PollNews == [poll : Polls, changes : 1..Gone]

TabStates ==
  [step : {"closed", "loading", "shown", "error"}] \cup [step : {"loaded"}, data : Change]

TabInv ==
  /\ poll \in Change /\ sent \in Change /\ heard \in Change
  /\ request \in [Requests -> RequestState]
  /\ shown \in [Polls -> 0..(Gone - 1)]
  /\ tab \in TabStates
  /\ socket \in {"off", "on", "room", "lost"}
  /\ tabLosses \in 0..MaxTabLosses
  /\ entering \in BOOLEAN
  /\ events \in Seq(PollNews)
  /\ astray \subseteq Polls \X Reasons

(* Events are for who is in the room, and the last of a poll tells what    *)
(* the room was told last.                                                 *)
EventsTell ==
  /\ socket # "room" => events = <<>>
  /\ \A i \in DOMAIN events :
       /\ events[i].changes <= poll[events[i].poll]
       /\ (\A j \in DOMAIN events : i < j => events[j].poll # events[i].poll)
            => events[i].changes = sent[events[i].poll]

(* Nobody knows of a change that is not stored.                            *)
NothingAhead ==
  /\ \A p \in Polls : sent[p] <= poll[p] /\ heard[p] <= poll[p] /\ shown[p] <= poll[p]
  /\ tab.step = "loaded" => \A p \in Polls : tab.data[p] <= poll[p]
  /\ \A k \in Requests : request[k] # Unasked => request[k].changes <= poll[request[k].poll]

(* Only a tab that shows its polls has requests of its own, and answers.   *)
OwnRequests ==
  \A k \in Requests : request[k] # Unasked =>
    /\ request[k].own => tab.step = "shown"
    /\ request[k].step = "answered" => request[k].own

(* What the tab has loaded is the poll as it is, but for what is to come.  *)
LoadedIsPoll(p) ==
  /\ sent[p] = poll[p] /\ News(p) = {} => heard[p] = poll[p] \/ tab.data[p] = poll[p]
  /\ Live(poll[p]) =>
       Live(tab.data[p]) \/ Creating(p) \/ 1 \in News(p) \/ heard[p] > tab.data[p]

(* What the tab shows is the poll as it is, or becomes it by what is told  *)
(* or answered yet; and a poll is shown unless its creation is to be told. *)
ShownIsPoll(p) ==
  /\ sent[p] = poll[p] /\ News(p) = {} => heard[p] = poll[p] \/ poll[p] \in Answers(p)
  /\ sent[p] = poll[p] /\ News(p) = {} /\ Answers(p) = {} /\ ~Creating(p)
       => shown[p] = Displayed(poll[p])
  /\ Live(poll[p]) => shown[p] # 0 \/ Creating(p) \/ 1 \in News(p) \/ 1 \in Answers(p)

CopyIsPoll(p) ==
  /\ tab.step = "loaded" => LoadedIsPoll(p)
  /\ tab.step = "shown" => ShownIsPoll(p)

TabHolds ==
  /\ EventsTell /\ NothingAhead /\ OwnRequests
  /\ \A p \in Polls : OnCourse(p) => CopyIsPoll(p)

(* Changes of a poll are numbers, and requests are records of them.        *)
LEMMA TabNumbers ==
  ASSUME TabInv
  PROVE  /\ Gone \in Nat /\ Gone >= 2
         /\ \A p \in Polls : /\ poll[p] \in 0..Gone /\ sent[p] \in 0..Gone /\ heard[p] \in 0..Gone
                             /\ shown[p] \in 0..(Gone - 1)
         /\ tab.step = "loaded" => tab.data \in Change /\ \A p \in Polls : tab.data[p] \in 0..Gone
         /\ \A c \in 0..Gone : Displayed(c) \in 0..(Gone - 1)
         /\ Nothing \in Change /\ Nothing \in [Polls -> 0..(Gone - 1)]
         /\ \A p \in Polls : Nothing[p] = 0
<1>1. Gone \in Nat /\ Gone >= 2
  BY EventTabAssumption
<1>2. tab.step = "loaded" => tab.data \in Change
  BY DEF TabInv, TabStates
<1>3. \A c \in 0..Gone : Displayed(c) \in 0..(Gone - 1)
  BY <1>1 DEF Displayed, Live
<1>4. Nothing \in Change /\ Nothing \in [Polls -> 0..(Gone - 1)] /\ \A p \in Polls : Nothing[p] = 0
  BY <1>1 DEF Nothing, Change
<1> QED
  BY <1>1, <1>2, <1>3, <1>4 DEF TabInv, Change

LEMMA RequestRecord ==
  ASSUME TabInv, NEW k \in Requests, request[k] # Unasked
  PROVE  /\ request[k] \in [step : {"stored", "fetched", "answered"}, poll : Polls, changes : 1..Gone,
                            own : BOOLEAN]
         /\ request[k].step \in {"stored", "fetched", "answered"} /\ request[k].poll \in Polls
         /\ request[k].changes \in 1..Gone /\ request[k].own \in BOOLEAN
<1>1. request[k] \in [step : {"stored", "fetched", "answered"}, poll : Polls, changes : 1..Gone,
                      own : BOOLEAN]
  BY DEF TabInv, RequestState
<1> QED
  BY <1>1

LEMMA EventRecord ==
  ASSUME TabInv, NEW i \in DOMAIN events
  PROVE  /\ events[i] \in PollNews /\ events[i].poll \in Polls /\ events[i].changes \in 1..Gone
         /\ DOMAIN events = 1..Len(events) /\ Len(events) \in Nat /\ i \in Nat
<1>1. Len(events) \in Nat /\ DOMAIN events = 1..Len(events)
  BY DEF TabInv
<1>2. events[i] \in PollNews
  BY <1>1, ElementOfSeq DEF TabInv
<1> QED
  BY <1>1, <1>2 DEF PollNews

(* What goes astray is not on course any more.                             *)
LEMMA AstrayKeeps ==
  ASSUME NEW reason \in Reasons, NEW P \in SUBSET Polls, TabInv, Because(reason, P)
  PROVE  /\ astray' \subseteq Polls \X Reasons
         /\ \A p \in Polls : OnCourse(p)' => OnCourse(p) /\ p \notin P
BY DEF Because, OnCourse, TabInv

(* A poll of which nothing is touched is shown as before.                  *)
LEMMA CopyStays ==
  ASSUME TabInv, NEW p \in Polls, CopyIsPoll(p), tab' = tab,
         poll'[p] = poll[p], sent'[p] = sent[p], shown'[p] = shown[p], heard'[p] = heard[p],
         News(p)' = News(p), Answers(p)' = Answers(p), Creating(p)' <=> Creating(p)
  PROVE  CopyIsPoll(p)'
<1>1. LoadedIsPoll(p) => LoadedIsPoll(p)'
  BY DEF LoadedIsPoll
<1>2. ShownIsPoll(p) => ShownIsPoll(p)'
  BY DEF ShownIsPoll
<1> QED
  BY <1>1, <1>2 DEF CopyIsPoll

(* A request that becomes another, of the same poll.                       *)
LEMMA RequestMoves ==
  ASSUME TabInv, NEW k \in Requests, NEW p \in Polls, NEW q \in RequestState,
         request' = [request EXCEPT ![k] = q],
         request[k] = Unasked \/ request[k].poll = p,
         q = Unasked \/ q.poll = p
  PROVE  /\ request' \in [Requests -> RequestState] /\ request'[k] = q
         /\ \A l \in Requests \ {k} : request'[l] = request[l]
         /\ \A r \in Polls \ {p} : Answers(r)' = Answers(r) /\ (Creating(r)' <=> Creating(r))
         /\ q.step = "fetched" /\ q.changes = 1 => Creating(p)'
         /\ q.step = "answered" => q.changes \in Answers(p)'
         /\ request[k].step # "fetched" => (Creating(p) => Creating(p)')
         /\ request[k].step # "answered" => Answers(p) \subseteq Answers(p)'
         /\ request[k].step = "fetched" => (Creating(p) => request[k].changes = 1 \/ Creating(p)')
         /\ Answers(p) \subseteq Answers(p)' \cup {request[k].changes}
<1>1. request' \in [Requests -> RequestState] /\ request'[k] = q
  BY DEF TabInv
<1>2. \A l \in Requests \ {k} : request'[l] = request[l]
  BY DEF TabInv
<1>3. Unasked.step = "none"
  BY DEF Unasked
<1>4. ASSUME NEW r \in Polls \ {p} PROVE Creating(r)' <=> Creating(r)
  BY <1>1, <1>2, <1>3 DEF Creating
<1>5. ASSUME NEW r \in Polls \ {p} PROVE Answers(r)' = Answers(r)
  <2>1. \A l \in Requests : request'[l].step = "answered" /\ request'[l].poll = r
                              <=> request[l].step = "answered" /\ request[l].poll = r
    BY <1>1, <1>2, <1>3
  <2>2. \A l \in Requests : request[l].step = "answered" /\ request[l].poll = r => request'[l] = request[l]
    BY <1>2, <1>3
  <2> QED
    BY <2>1, <2>2 DEF Answers
<1>6. q.step = "fetched" /\ q.changes = 1 => Creating(p)'
  BY <1>1, <1>3 DEF Creating
<1>7. q.step = "answered" => q.changes \in Answers(p)'
  BY <1>1, <1>3 DEF Answers
<1>8. ASSUME NEW l \in Requests \ {k}, request[l].step = "fetched", request[l].poll = p, request[l].changes = 1
      PROVE  Creating(p)'
  BY <1>2, <1>8 DEF Creating
<1>9. ASSUME NEW l \in Requests \ {k}, request[l].step = "answered", request[l].poll = p
      PROVE  request[l].changes \in Answers(p)'
  BY <1>2, <1>9 DEF Answers
<1>10. request[k].step # "fetched" => (Creating(p) => Creating(p)')
  BY <1>8 DEF Creating
<1>11. Creating(p) => request[k].changes = 1 \/ Creating(p)'
  BY <1>8 DEF Creating
<1>12. Answers(p) \subseteq Answers(p)' \cup {request[k].changes}
  BY <1>9 DEF Answers
<1>13. request[k].step # "answered" => Answers(p) \subseteq Answers(p)'
  BY <1>9 DEF Answers
<1> QED
  BY <1>1, <1>2, <1>4, <1>5, <1>6, <1>7, <1>10, <1>11, <1>12, <1>13

(* What is told joins the events on their way.                             *)
LEMMA EventJoins ==
  ASSUME TabInv, EventsTell, NEW p \in Polls, NEW c \in 1..Gone, c <= poll[p], socket = "room",
         events' = Append(events, [poll |-> p, changes |-> c]),
         sent' = [sent EXCEPT ![p] = c], poll' = poll, socket' = socket
  PROVE  /\ events' \in Seq(PollNews) /\ EventsTell'
         /\ News(p)' = News(p) \cup {c}
         /\ \A r \in Polls \ {p} : News(r)' = News(r)
<1> DEFINE e == [poll |-> p, changes |-> c]
<1>1. e \in PollNews /\ e.poll = p /\ e.changes = c
  BY DEF PollNews
<1>2. Len(events) \in Nat /\ DOMAIN events = 1..Len(events)
  BY DEF TabInv
<1>3. /\ events' \in Seq(PollNews) /\ Len(events') = Len(events) + 1
      /\ \A i \in 1..Len(events) : events'[i] = events[i]
      /\ events'[Len(events) + 1] = e
  BY <1>1, AppendProperties DEF TabInv
<1>4. DOMAIN events' = 1..(Len(events) + 1)
  BY <1>2, <1>3
<1> HIDE DEF e
<1>5. \A i \in DOMAIN events : i \in DOMAIN events' /\ events'[i] = events[i] /\ i < Len(events) + 1
  BY <1>2, <1>3, <1>4
<1>6. /\ Len(events) + 1 \in DOMAIN events'
      /\ \A i \in DOMAIN events' : i \in DOMAIN events \/ i = Len(events) + 1
  BY <1>2, <1>4
<1>7. sent'[p] = c /\ \A r \in Polls \ {p} : sent'[r] = sent[r]
  BY DEF TabInv, Change
<1>8. ASSUME NEW i \in DOMAIN events'
      PROVE  events'[i].changes <= poll[events'[i].poll]
  BY <1>1, <1>3, <1>5, <1>6 DEF EventsTell
<1>9. ASSUME NEW i \in DOMAIN events', \A j \in DOMAIN events' : i < j => events'[j].poll # events'[i].poll
      PROVE  events'[i].changes = sent'[events'[i].poll]
  <2>1. CASE i = Len(events) + 1
    BY <1>1, <1>3, <1>7, <2>1
  <2>2. CASE i \in DOMAIN events
    <3>1. events[i].poll # p /\ events[i].poll \in Polls
      BY <1>1, <1>3, <1>5, <1>6, <1>9, <2>2, EventRecord
    <3>2. \A j \in DOMAIN events : i < j => events[j].poll # events[i].poll
      BY <1>5, <1>9, <2>2
    <3>3. events[i].changes = sent[events[i].poll]
      BY <2>2, <3>2 DEF EventsTell
    <3> QED
      BY <1>5, <1>7, <2>2, <3>1, <3>3
  <2> QED
    BY <1>6, <2>1, <2>2
<1>10. EventsTell'
  BY <1>8, <1>9 DEF EventsTell
<1>11. ASSUME NEW r \in Polls, r # p PROVE News(r)' = News(r)
  BY <1>1, <1>3, <1>5, <1>6, <1>11 DEF News
<1>12. News(p)' = News(p) \cup {c}
  BY <1>1, <1>3, <1>5, <1>6 DEF News
<1> QED
  BY <1>3, <1>10, <1>11, <1>12

(* What the handlers take from the events on their way.                    *)
LEMMA EventLeaves ==
  ASSUME TabInv, EventsTell, events # <<>>, events' = Tail(events),
         UNCHANGED <<poll, sent, socket>>,
         NEW p, NEW c, p = Head(events).poll, c = Head(events).changes
  PROVE  /\ p \in Polls /\ c \in 1..Gone /\ c <= poll[p]
         /\ events' \in Seq(PollNews) /\ EventsTell'
         /\ News(p) = News(p)' \cup {c}
         /\ News(p)' = {} => c = sent[p]
         /\ \A r \in Polls \ {p} : News(r)' = News(r)
<1>1. Len(events) \in Nat /\ DOMAIN events = 1..Len(events)
  BY DEF TabInv
<1>2. 1 \in DOMAIN events /\ p = events[1].poll /\ c = events[1].changes
  BY <1>1, EmptySeq DEF TabInv
<1>3. p \in Polls /\ c \in 1..Gone /\ c <= poll[p]
  BY <1>2, EventRecord DEF EventsTell
<1>4. /\ events' \in Seq(PollNews) /\ Len(events') = Len(events) - 1
      /\ \A i \in 1..Len(events') : events'[i] = events[i + 1]
  BY <1>1, HeadTailProperties DEF TabInv
<1>5. DOMAIN events' = 1..(Len(events) - 1)
  BY <1>4
<1>6. \A i \in DOMAIN events' : i + 1 \in DOMAIN events /\ events'[i] = events[i + 1] /\ i + 1 # 1
  BY <1>1, <1>4, <1>5
<1>7. \A i \in DOMAIN events : i # 1 => i - 1 \in DOMAIN events' /\ events'[i - 1] = events[i]
  BY <1>1, <1>4, <1>5
<1>8. ASSUME NEW i \in DOMAIN events', \A j \in DOMAIN events' : i < j => events'[j].poll # events'[i].poll
      PROVE  events'[i].changes = sent[events'[i].poll]
  <2>1. ASSUME NEW j \in DOMAIN events, i + 1 < j PROVE events[j].poll # events[i + 1].poll
    <3>1. j # 1 /\ j - 1 \in DOMAIN events' /\ i < j - 1
      BY <1>1, <1>5, <1>7, <2>1
    <3> QED
      BY <1>6, <1>7, <1>8, <3>1
  <2> QED
    BY <1>6, <2>1 DEF EventsTell
<1>9. socket # "room" => events = <<>>
  BY DEF EventsTell
<1>10. EventsTell'
  BY <1>6, <1>8, <1>9 DEF EventsTell
<1>11. ASSUME NEW r \in Polls, r # p PROVE News(r)' = News(r)
  <2>1. News(r)' \subseteq News(r)
    BY <1>6 DEF News
  <2>2. ASSUME NEW i \in DOMAIN events, events[i].poll = r PROVE events[i].changes \in News(r)'
    <3>1. i # 1
      BY <1>2, <1>11, <2>2
    <3>2. i - 1 \in DOMAIN events' /\ events'[i - 1] = events[i]
      BY <1>7, <3>1
    <3> QED
      BY <2>2, <3>2 DEF News
  <2> QED
    BY <2>1, <2>2 DEF News
<1>12. News(p) = News(p)' \cup {c}
  <2>1. News(p)' \subseteq News(p) /\ c \in News(p)
    BY <1>2, <1>6 DEF News
  <2>2. News(p) \subseteq News(p)' \cup {c}
    BY <1>2, <1>7 DEF News
  <2> QED
    BY <2>1, <2>2
<1>13. ASSUME News(p)' = {} PROVE c = sent[p]
  <2>1. ASSUME NEW j \in DOMAIN events, 1 < j PROVE events[j].poll # p
    <3>1. j # 1 /\ j \in Nat
      BY <1>1, <2>1
    <3>2. j - 1 \in DOMAIN events' /\ events'[j - 1] = events[j]
      BY <1>7, <3>1
    <3> QED
      BY <1>13, <3>2 DEF News
  <2> QED
    BY <1>2, <2>1 DEF EventsTell
<1> QED
  BY <1>3, <1>4, <1>10, <1>11, <1>12, <1>13

LEMMA TabInitHolds == TabInit => TabInv /\ TabHolds
<1> SUFFICES ASSUME TabInit PROVE TabInv /\ TabHolds
  OBVIOUS
<1>1. Gone \in Nat /\ Gone >= 2 /\ 0 \in 0..Gone /\ 1 \in 0..Gone /\ 0 \in 0..(Gone - 1)
  BY EventTabAssumption
<1>2. poll \in Change /\ sent = poll
  BY <1>1 DEF TabInit, Change
<1>3. Nothing \in Change /\ Nothing \in [Polls -> 0..(Gone - 1)]
  BY <1>1 DEF Nothing, Change
<1>4. events \in Seq(PollNews) /\ DOMAIN events = {}
  BY DEF TabInit
<1>5. tab \in TabStates /\ tab.step = "closed"
  BY DEF TabInit, TabStates
<1>6. request \in [Requests -> RequestState] /\ \A k \in Requests : request[k] = Unasked
  BY DEF TabInit, RequestState
<1>7. tabLosses \in 0..MaxTabLosses
  BY EventTabAssumption DEF TabInit
<1>8. TabInv
  BY <1>2, <1>3, <1>4, <1>5, <1>6, <1>7 DEF TabInit, TabInv
<1>9. \A p \in Polls : sent[p] <= poll[p] /\ heard[p] <= poll[p] /\ shown[p] <= poll[p]
  <2>1. ASSUME NEW p \in Polls PROVE sent[p] <= poll[p] /\ heard[p] <= poll[p] /\ shown[p] <= poll[p]
    <3>1. poll \in [Polls -> {0, 1}] /\ heard = Nothing /\ shown = Nothing
      BY DEF TabInit
    <3>2. poll[p] \in {0, 1}
      BY <3>1
    <3>3. Nothing[p] = 0
      BY DEF Nothing
    <3> QED
      BY <1>2, <3>1, <3>2, <3>3
  <2> QED
    BY <2>1
<1> QED
  BY <1>4, <1>5, <1>6, <1>8, <1>9 DEF TabInit, TabHolds, EventsTell, NothingAhead, OwnRequests, CopyIsPoll

(* Steps of the socket, and an answer of the load that fails.              *)
LEMMA TabSocketHolds ==
  ASSUME TabInv, TabHolds, TabConnect \/ JoinEventRoom \/ TabFails \/ TabLost
  PROVE  TabInv' /\ TabHolds'
<1>1. UNCHANGED <<poll, sent, request, shown, heard>>
  BY DEF TabConnect, JoinEventRoom, TabFails, TabLost, serviceVars
<1>2. \A p \in Polls : Answers(p)' = Answers(p) /\ (Creating(p)' <=> Creating(p))
  BY <1>1 DEF Answers, Creating
<1>3. CASE TabConnect \/ JoinEventRoom
  <2>1. UNCHANGED <<tab, events, astray, tabLosses>> /\ socket' \in {"on", "room"} /\ entering' \in BOOLEAN
    BY <1>3 DEF TabConnect, JoinEventRoom, TabInv
  <2>2. TabInv'
    BY <1>1, <2>1 DEF TabInv
  <2>3. EventsTell'
    BY <1>1, <1>3, <2>1 DEF TabHolds, EventsTell, TabConnect, JoinEventRoom
  <2>4. NothingAhead' /\ OwnRequests'
    BY <1>1, <2>1 DEF TabHolds, NothingAhead, OwnRequests
  <2>5. ASSUME NEW p \in Polls, OnCourse(p)' PROVE CopyIsPoll(p)'
    <3>1. OnCourse(p) /\ News(p)' = News(p)
      BY <2>1, <2>5 DEF OnCourse, News
    <3> QED
      BY <1>1, <1>2, <2>1, <3>1, CopyStays DEF TabHolds
  <2> QED
    BY <2>2, <2>3, <2>4, <2>5 DEF TabHolds
<1>4. CASE TabFails
  <2>1. /\ UNCHANGED <<events, astray, tabLosses, socket, entering>>
        /\ tab.step = "loading" /\ tab'.step = "error" /\ tab' \in TabStates
    BY <1>4 DEF TabFails, TabStates
  <2>2. TabInv'
    BY <1>1, <2>1 DEF TabInv
  <2>3. EventsTell' /\ NothingAhead' /\ OwnRequests'
    BY <1>1, <2>1 DEF TabHolds, EventsTell, NothingAhead, OwnRequests
  <2> QED
    BY <2>1, <2>2, <2>3 DEF TabHolds, CopyIsPoll
<1>5. CASE TabLost
  <2> DEFINE P == {events[i].poll : i \in DOMAIN events}
  <2>1. P \in SUBSET Polls /\ "lost" \in Reasons
    BY EventRecord DEF Reasons
  <2>2. Because("lost", P) /\ tab' = tab /\ events' = <<>>
    BY <1>5 DEF TabLost
  <2>3. astray' \subseteq Polls \X Reasons /\ \A p \in Polls : OnCourse(p)' => OnCourse(p) /\ p \notin P
    BY <2>1, <2>2, AstrayKeeps
  <2>4. events' \in Seq(PollNews) /\ DOMAIN events' = {}
    BY <2>2
  <2>5. tabLosses' \in 0..MaxTabLosses /\ socket' \in {"off", "on", "room", "lost"} /\ entering' \in BOOLEAN
    <3>1. tabLosses' = tabLosses + 1 /\ tabLosses < MaxTabLosses /\ tabLosses \in 0..MaxTabLosses
      BY <1>5 DEF TabLost, TabInv
    <3>2. tabLosses' \in 0..MaxTabLosses
      BY <3>1, EventTabAssumption
    <3>3. entering' \in BOOLEAN
      BY <1>5 DEF TabLost, TabInv
    <3>4. socket' \in {"off", "on", "room", "lost"}
      BY <1>5 DEF TabLost
    <3> QED
      BY <3>2, <3>3, <3>4
  <2>6. TabInv'
    BY <1>1, <2>2, <2>3, <2>4, <2>5 DEF TabInv
  <2>7. EventsTell' /\ NothingAhead' /\ OwnRequests'
    BY <1>1, <2>2, <2>4 DEF TabHolds, EventsTell, NothingAhead, OwnRequests
  <2>8. ASSUME NEW p \in Polls, OnCourse(p)' PROVE CopyIsPoll(p)'
    <3>1. OnCourse(p) /\ p \notin P
      BY <2>3, <2>8
    <3>2. News(p)' = {} /\ News(p) = {}
      BY <2>4, <3>1 DEF News
    <3> QED
      BY <1>1, <1>2, <2>2, <3>1, <3>2, CopyStays DEF TabHolds
  <2> QED
    BY <2>6, <2>7, <2>8 DEF TabHolds
<1> QED
  BY <1>3, <1>4, <1>5

(* The tab is opened, loads and is closed.                                 *)
LEMMA TabLoadsHolds ==
  ASSUME TabInv, TabHolds, OpenTab \/ TabRead \/ TabAnswer
  PROVE  TabInv' /\ TabHolds'
<1>1. UNCHANGED <<poll, sent, request, events, socket, tabLosses>>
  BY DEF OpenTab, TabRead, TabAnswer, serviceVars
<1>2. \A p \in Polls : News(p)' = News(p) /\ Answers(p)' = Answers(p) /\ (Creating(p)' <=> Creating(p))
  BY <1>1 DEF Answers, Creating, News
<1>3. EventsTell'
  BY <1>1 DEF TabHolds, EventsTell
<1>4. tab.step # "shown"
  BY DEF OpenTab, TabRead, TabAnswer
<1>5. \A k \in Requests : request[k] # Unasked => ~request[k].own /\ request[k].step # "answered"
  BY <1>4, RequestRecord DEF TabHolds, OwnRequests
<1>6. OwnRequests'
  BY <1>1, <1>5 DEF OwnRequests
<1>7. \A p \in Polls : Answers(p) = {}
  BY <1>5 DEF Answers, Unasked
<1>8. CASE OpenTab
  <2>1. /\ tab' \in TabStates /\ tab'.step = "loading" /\ entering' \in BOOLEAN
        /\ shown' = Nothing /\ heard' = Nothing /\ astray' = {}
    BY <1>8 DEF OpenTab, TabStates
  <2>2. TabInv'
    BY <1>1, <2>1, TabNumbers DEF TabInv
  <2>3. NothingAhead'
    BY <1>1, <2>1, TabNumbers DEF TabHolds, NothingAhead
  <2> QED
    BY <1>3, <1>6, <2>1, <2>2, <2>3 DEF TabHolds, CopyIsPoll
<1>9. CASE TabRead
  <2>1. /\ tab' = [step |-> "loaded", data |-> poll] /\ astray' = {}
        /\ UNCHANGED <<entering, shown, heard>>
    BY <1>9 DEF TabRead
  <2>2. tab' \in TabStates /\ tab'.step = "loaded" /\ tab'.data = poll
    BY <2>1 DEF TabStates, TabInv
  <2>3. TabInv'
    BY <1>1, <2>1, <2>2 DEF TabInv
  <2>4. NothingAhead'
    BY <1>1, <2>1, <2>2, TabNumbers DEF TabHolds, NothingAhead
  <2>5. \A p \in Polls : LoadedIsPoll(p)'
    BY <1>1, <2>2 DEF LoadedIsPoll
  <2> QED
    BY <1>3, <1>6, <2>2, <2>3, <2>4, <2>5 DEF TabHolds, CopyIsPoll
<1>10. CASE TabAnswer
  <2> PICK data \in Change : data = tab.data
    BY <1>10, TabNumbers DEF TabAnswer
  <2> DEFINE P == {p \in Polls : heard[p] > data[p]}
  <2>1. /\ tab.step = "loaded" /\ tab' = [step |-> "shown"]
        /\ shown' = [p \in Polls |-> Displayed(data[p])]
        /\ Because("undone", P)
        /\ heard' = [p \in Polls |-> IF heard[p] > data[p] THEN heard[p] ELSE data[p]]
        /\ entering' = entering
    BY <1>10 DEF TabAnswer
  <2>2. "undone" \in Reasons /\ P \in SUBSET Polls
    BY DEF Reasons
  <2>3. astray' \subseteq Polls \X Reasons /\ \A p \in Polls : OnCourse(p)' => OnCourse(p) /\ p \notin P
    BY <2>1, <2>2, AstrayKeeps
  <2>4. \A p \in Polls : heard[p] <= poll[p] /\ data[p] <= poll[p]
    BY <2>1 DEF TabHolds, NothingAhead
  <2>5. \A p \in Polls : data[p] \in 0..Gone /\ Displayed(data[p]) \in 0..(Gone - 1)
    BY TabNumbers DEF Change
  <2>6. heard' \in Change /\ shown' \in [Polls -> 0..(Gone - 1)]
    BY <2>1, <2>5, TabNumbers DEF Change
  <2>7. tab' \in TabStates /\ tab'.step = "shown"
    BY <2>1 DEF TabStates
  <2>8. TabInv'
    BY <1>1, <2>1, <2>3, <2>6, <2>7 DEF TabInv
  <2>9. \A p \in Polls : heard'[p] <= poll'[p] /\ shown'[p] <= poll'[p]
    BY <1>1, <2>1, <2>4, <2>5, TabNumbers DEF Displayed
  <2>10. NothingAhead'
    BY <1>1, <2>7, <2>9 DEF TabHolds, NothingAhead
  <2>11. ASSUME NEW p \in Polls, OnCourse(p)' PROVE ShownIsPoll(p)'
    <3>1. OnCourse(p) /\ heard[p] <= data[p] /\ heard'[p] = data[p] /\ shown'[p] = Displayed(data[p])
      BY <2>1, <2>3, <2>5, <2>11, TabNumbers
    <3>2. LoadedIsPoll(p)
      BY <2>1, <3>1 DEF TabHolds, CopyIsPoll
    <3>3. sent[p] = poll[p] /\ News(p) = {} => data[p] = poll[p]
      BY <2>4, <2>5, <3>1, <3>2, TabNumbers DEF LoadedIsPoll
    <3>4. Live(poll[p]) => Live(data[p]) \/ Creating(p) \/ 1 \in News(p)
      BY <2>5, <3>1, <3>2, TabNumbers DEF LoadedIsPoll
    <3>5. Live(data[p]) => shown'[p] # 0
      BY <2>5, <3>1, TabNumbers DEF Displayed, Live
    <3> QED
      BY <1>1, <1>2, <3>1, <3>3, <3>4, <3>5 DEF ShownIsPoll
  <2> QED
    BY <1>3, <1>6, <2>7, <2>8, <2>10, <2>11 DEF TabHolds, CopyIsPoll
<1> QED
  BY <1>8, <1>9, <1>10

LEMMA CloseTabHolds ==
  ASSUME TabInv, TabHolds, CloseTab
  PROVE  TabInv' /\ TabHolds'
<1>1. /\ tab' = [step |-> "closed"] /\ events' = <<>> /\ entering' = FALSE
      /\ shown' = Nothing /\ heard' = Nothing /\ astray' = {}
      /\ UNCHANGED <<poll, sent, tabLosses>> /\ socket' \in {"off", "on"}
  BY DEF CloseTab
<1>2. tab' \in TabStates /\ tab'.step = "closed" /\ events' \in Seq(PollNews) /\ DOMAIN events' = {}
  BY <1>1 DEF TabStates
<1>3. ASSUME NEW k \in Requests
      PROVE  /\ request'[k] \in RequestState
             /\ request'[k] # Unasked => /\ request[k] # Unasked /\ request[k].step # "answered"
                                         /\ request'[k] = [request[k] EXCEPT !.own = FALSE]
  <2>1. request'[k] = CASE request[k].step \in {"none", "answered"} -> Unasked
                        [] OTHER -> [request[k] EXCEPT !.own = FALSE]
    BY DEF CloseTab
  <2>2. CASE request[k] = Unasked
    BY <2>1, <2>2 DEF Unasked, RequestState
  <2>3. CASE request[k] # Unasked
    <3>1. [request[k] EXCEPT !.own = FALSE] \in RequestState
      BY <2>3, RequestRecord DEF RequestState
    <3> QED
      BY <2>1, <2>3, <3>1, RequestRecord DEF RequestState
  <2> QED
    BY <2>2, <2>3
<1>4. request' \in [Requests -> RequestState]
  BY <1>3 DEF CloseTab
<1>5. TabInv'
  BY <1>1, <1>2, <1>4, TabNumbers DEF TabInv
<1>6. ASSUME NEW k \in Requests, request'[k] # Unasked
      PROVE  request'[k].changes <= poll'[request'[k].poll] /\ ~request'[k].own /\ request'[k].step # "answered"
  <2>1. request[k] # Unasked /\ request[k].step # "answered" /\ request'[k] = [request[k] EXCEPT !.own = FALSE]
    BY <1>3, <1>6
  <2>2. /\ request'[k].changes = request[k].changes /\ request'[k].poll = request[k].poll
        /\ request'[k].step = request[k].step /\ ~request'[k].own
    BY <2>1, RequestRecord
  <2> QED
    BY <1>1, <2>1, <2>2 DEF TabHolds, NothingAhead
<1>7. \A p \in Polls : sent'[p] <= poll'[p] /\ heard'[p] <= poll'[p] /\ shown'[p] <= poll'[p]
  BY <1>1, TabNumbers DEF TabHolds, NothingAhead
<1>8. NothingAhead' /\ OwnRequests' /\ EventsTell'
  BY <1>1, <1>2, <1>6, <1>7 DEF NothingAhead, OwnRequests, EventsTell
<1> QED
  BY <1>2, <1>5, <1>8 DEF TabHolds, CopyIsPoll

(* What may become of a poll: it is made, changed while it lives, deleted. *)
LEMMA ChangesRise ==
  ASSUME TabInv, NEW p \in Polls, NEW c \in Changes(p)
  PROVE  /\ c \in 1..Gone /\ poll[p] < c
         /\ c # 1 /\ Live(c) => Live(poll[p])
<1>1. Gone \in Nat /\ Gone >= 2 /\ poll[p] \in 0..Gone
  BY TabNumbers
<1>2. CASE poll[p] = 0
  BY <1>1, <1>2 DEF Changes
<1>3. CASE poll[p] # 0
  <2>1. c \in {poll[p] + 1, Gone} /\ poll[p] < c /\ c <= Gone
    BY <1>3 DEF Changes
  <2> QED
    BY <1>1, <1>3, <2>1 DEF Live
<1> QED
  BY <1>2, <1>3

LEMMA StorePollHolds ==
  ASSUME TabInv, TabHolds, NEW k \in Requests, NEW p \in Polls, NEW own \in BOOLEAN, StorePoll(k, p, own)
  PROVE  TabInv' /\ TabHolds'
<1>1. /\ UNCHANGED <<sent, tab, socket, tabLosses, entering, events, shown, heard, astray>>
      /\ request[k] = Unasked /\ (own => tab.step = "shown")
  BY DEF StorePoll
<1>0. PICK c \in Changes(p) :
      /\ poll' = [poll EXCEPT ![p] = c]
      /\ request' = [request EXCEPT ![k] =
                       [step |-> IF c \in {1, Gone} THEN "fetched" ELSE "stored",
                        poll |-> p, changes |-> c, own |-> own]]
  BY DEF StorePoll
<1>2. c \in 1..Gone /\ poll[p] < c /\ (c # 1 /\ Live(c) => Live(poll[p])) /\ poll[p] \in 0..Gone
  BY ChangesRise, TabNumbers
<1>3. PICK q \in RequestState :
        /\ q.poll = p /\ q.changes = c /\ q.own = own /\ q.step \in {"fetched", "stored"}
        /\ c = 1 => q.step = "fetched"
        /\ request' = [request EXCEPT ![k] = q]
  <2> DEFINE q == [step |-> IF c \in {1, Gone} THEN "fetched" ELSE "stored",
                   poll |-> p, changes |-> c, own |-> own]
  <2>1. q \in RequestState /\ q.step \in {"fetched", "stored"} /\ (c = 1 => q.step = "fetched")
    BY <1>2 DEF RequestState
  <2>2. q.poll = p /\ q.changes = c /\ q.own = own
    OBVIOUS
  <2> QED
    BY <1>0, <2>1, <2>2
<1>4. /\ request' \in [Requests -> RequestState] /\ request'[k] = q
      /\ \A l \in Requests \ {k} : request'[l] = request[l]
      /\ \A r \in Polls \ {p} : Answers(r)' = Answers(r) /\ (Creating(r)' <=> Creating(r))
      /\ q.step = "fetched" /\ q.changes = 1 => Creating(p)'
      /\ Creating(p) => Creating(p)'
      /\ Answers(p) \subseteq Answers(p)'
  <2>1. request[k].step = "none"
    BY <1>1 DEF Unasked
  <2>2. request[k].step # "fetched" /\ request[k].step # "answered"
    BY <2>1
  <2>3. request' = [request EXCEPT ![k] = q] /\ q.poll = p
    BY <1>3
  <2> QED
    BY <1>1, <2>2, <2>3, RequestMoves
<1>5. poll' \in Change /\ poll'[p] = c /\ \A r \in Polls \ {p} : poll'[r] = poll[r]
  BY <1>0, <1>2 DEF TabInv, Change
<1>6. \A r \in Polls : poll[r] <= poll'[r] /\ poll[r] \in 0..Gone /\ poll'[r] \in 0..Gone
  BY <1>2, <1>5, TabNumbers DEF Change
<1>7. TabInv'
  BY <1>1, <1>4, <1>5 DEF TabInv
<1>8. EventsTell'
  <2>1. ASSUME NEW i \in DOMAIN events PROVE events[i].changes <= poll'[events[i].poll]
    BY <1>6, EventRecord DEF TabHolds, EventsTell
  <2> QED
    BY <1>1, <2>1 DEF TabHolds, EventsTell
<1>9. NothingAhead'
  <2>1. \A r \in Polls : sent[r] <= poll'[r] /\ heard[r] <= poll'[r] /\ shown[r] <= poll'[r]
    BY <1>6, TabNumbers DEF TabHolds, NothingAhead
  <2>2. tab.step = "loaded" => \A r \in Polls : tab.data[r] <= poll'[r]
    BY <1>6, TabNumbers DEF TabHolds, NothingAhead
  <2>3. ASSUME NEW l \in Requests, request'[l] # Unasked
        PROVE  request'[l].changes <= poll'[request'[l].poll]
    <3>1. CASE l = k
      BY <1>2, <1>3, <1>4, <1>5, <3>1
    <3>2. CASE l # k
      BY <1>4, <1>6, <2>3, <3>2, RequestRecord DEF TabHolds, NothingAhead
    <3> QED
      BY <3>1, <3>2
  <2> QED
    BY <1>1, <2>1, <2>2, <2>3 DEF NothingAhead
<1>10. OwnRequests'
  BY <1>1, <1>3, <1>4 DEF TabHolds, OwnRequests
<1>11. ASSUME NEW r \in Polls, r # p, OnCourse(r)' PROVE CopyIsPoll(r)'
  <2>1. OnCourse(r) /\ News(r)' = News(r)
    BY <1>1, <1>11 DEF OnCourse, News
  <2> QED
    BY <1>1, <1>4, <1>5, <1>11, <2>1, CopyStays DEF TabHolds
<1>12. ASSUME OnCourse(p)' PROVE CopyIsPoll(p)'
  <2>1. CopyIsPoll(p) /\ News(p)' = News(p)
    BY <1>1, <1>12 DEF OnCourse, News, TabHolds
  <2>2. sent'[p] # poll'[p]
    BY <1>1, <1>2, <1>5, TabNumbers DEF TabHolds, NothingAhead
  <2>3. c = 1 => Creating(p)'
    BY <1>3, <1>4
  <2>4. tab.step = "loaded" => LoadedIsPoll(p)'
    BY <1>1, <1>2, <1>4, <1>5, <2>1, <2>2, <2>3 DEF CopyIsPoll, LoadedIsPoll
  <2>5. tab.step = "shown" => ShownIsPoll(p)'
    BY <1>1, <1>2, <1>4, <1>5, <2>1, <2>2, <2>3 DEF CopyIsPoll, ShownIsPoll
  <2> QED
    BY <1>1, <2>4, <2>5 DEF CopyIsPoll
<1> QED
  BY <1>7, <1>8, <1>9, <1>10, <1>11, <1>12 DEF TabHolds

(* A request fetches the poll, or fails.                                   *)
LEMMA RequestHolds ==
  ASSUME TabInv, TabHolds, NEW k \in Requests, FetchPoll(k) \/ RequestFails(k)
  PROVE  TabInv' /\ TabHolds'
<1>1. /\ UNCHANGED <<poll, sent, tab, socket, tabLosses, entering, events, shown, heard>>
      /\ request[k] # Unasked
  BY DEF FetchPoll, RequestFails, Unasked
<1> PICK p \in Polls : p = request[k].poll
  BY <1>1, RequestRecord
<1>2. PICK q \in RequestState :
        /\ request' = [request EXCEPT ![k] = q]
        /\ q # Unasked => /\ request[k].step = "stored" /\ q.step = "fetched" /\ q.poll = p
                          /\ q.changes = poll[p] /\ q.own = request[k].own
        /\ RequestFails(k) \/ request[k].step = "stored"
  <2>1. CASE RequestFails(k) \/ poll[p] = Gone
    <3>1. request' = [request EXCEPT ![k] = Unasked] /\ (RequestFails(k) \/ request[k].step = "stored")
      BY <2>1 DEF FetchPoll, RequestFails
    <3> QED
      BY <3>1 DEF RequestState
  <2>2. CASE ~RequestFails(k) /\ poll[p] # Gone
    <3> DEFINE q == [request[k] EXCEPT !.step = "fetched", !.changes = poll[p]]
    <3>1. request' = [request EXCEPT ![k] = q] /\ request[k].step = "stored"
      BY <2>2 DEF FetchPoll
    <3>2. poll[p] \in 1..Gone
      BY <1>1, RequestRecord, TabNumbers DEF TabHolds, NothingAhead
    <3>3. /\ q \in RequestState
          /\ q.step = "fetched" /\ q.poll = p /\ q.changes = poll[p] /\ q.own = request[k].own
      BY <1>1, <3>2, RequestRecord DEF RequestState
    <3> QED
      BY <3>1, <3>3
  <2> QED
    BY <2>1, <2>2
<1>3. /\ request' \in [Requests -> RequestState] /\ request'[k] = q
      /\ \A l \in Requests \ {k} : request'[l] = request[l]
      /\ \A r \in Polls \ {p} : Answers(r)' = Answers(r) /\ (Creating(r)' <=> Creating(r))
      /\ request[k].step = "stored" => (Creating(p) => Creating(p)') /\ Answers(p) \subseteq Answers(p)'
  BY <1>1, <1>2, RequestMoves
<1>4. /\ astray' \subseteq Polls \X Reasons
      /\ \A r \in Polls : OnCourse(r)' => OnCourse(r)
      /\ RequestFails(k) => ~OnCourse(p)'
  <2>1. CASE RequestFails(k)
    <3>1. Because("unsent", {p}) /\ "unsent" \in Reasons /\ {p} \in SUBSET Polls
      BY <2>1 DEF RequestFails, Reasons
    <3> QED
      BY <3>1, AstrayKeeps
  <2>2. CASE ~RequestFails(k)
    BY <2>2 DEF FetchPoll, OnCourse, TabInv
  <2> QED
    BY <2>1, <2>2
<1>5. TabInv'
  BY <1>1, <1>3, <1>4 DEF TabInv
<1>6. EventsTell'
  BY <1>1 DEF TabHolds, EventsTell
<1>7. NothingAhead'
  <2>1. ASSUME NEW l \in Requests, request'[l] # Unasked
        PROVE  request'[l].changes <= poll[request'[l].poll]
    <3>1. CASE l = k
      BY <1>2, <1>3, <2>1, <3>1, TabNumbers
    <3>2. CASE l # k
      BY <1>3, <2>1, <3>2 DEF TabHolds, NothingAhead
    <3> QED
      BY <3>1, <3>2
  <2> QED
    BY <1>1, <2>1 DEF TabHolds, NothingAhead
<1>8. OwnRequests'
  BY <1>1, <1>2, <1>3 DEF TabHolds, OwnRequests
<1>9. ASSUME NEW r \in Polls, r # p, OnCourse(r)' PROVE CopyIsPoll(r)'
  <2>1. OnCourse(r) /\ News(r)' = News(r)
    BY <1>1, <1>4, <1>9 DEF News
  <2> QED
    BY <1>1, <1>3, <1>9, <2>1, CopyStays DEF TabHolds
<1>10. ASSUME OnCourse(p)' PROVE CopyIsPoll(p)'
  <2>1. CopyIsPoll(p) /\ News(p)' = News(p) /\ request[k].step = "stored"
    BY <1>1, <1>2, <1>4, <1>10 DEF News, TabHolds
  <2>2. (Creating(p) => Creating(p)') /\ Answers(p) \subseteq Answers(p)'
    BY <1>3, <2>1
  <2>3. LoadedIsPoll(p) => LoadedIsPoll(p)'
    BY <1>1, <2>1, <2>2 DEF LoadedIsPoll
  <2>4. ShownIsPoll(p) => ShownIsPoll(p)'
    BY <1>1, <2>1, <2>2 DEF ShownIsPoll
  <2> QED
    BY <1>1, <2>1, <2>3, <2>4 DEF CopyIsPoll
<1> QED
  BY <1>5, <1>6, <1>7, <1>8, <1>9, <1>10 DEF TabHolds

(* A request tells the room what it has fetched.                           *)
LEMMA TellRoomHolds ==
  ASSUME TabInv, TabHolds, NEW k \in Requests, TellRoom(k)
  PROVE  TabInv' /\ TabHolds'
<1>1. request[k].step = "fetched" /\ request[k] # Unasked
  BY DEF TellRoom, Unasked
<1> PICK p \in Polls, c \in 1..Gone, own \in BOOLEAN :
      p = request[k].poll /\ c = request[k].changes /\ own = request[k].own
  BY <1>1, RequestRecord
<1>2. /\ UNCHANGED <<poll, tab, socket, tabLosses, entering, shown, heard>>
      /\ sent' = [sent EXCEPT ![p] = c]
      /\ socket = "room" =>
           events' = Append(events, [poll |-> p, changes |-> c]) /\ UNCHANGED astray
      /\ socket # "room" =>
           /\ UNCHANGED events
           /\ \E reason \in {"lost", "outside"} : Because(reason, IF own THEN {} ELSE {p})
  BY DEF TellRoom
<1>3. PICK q \in RequestState :
        /\ request' = [request EXCEPT ![k] = q]
        /\ own => q.step = "answered" /\ q.poll = p /\ q.changes = c /\ q.own
        /\ ~own => q = Unasked
  <2>1. CASE own
    <3> DEFINE q == [request[k] EXCEPT !.step = "answered"]
    <3>1. request' = [request EXCEPT ![k] = q]
      BY <2>1 DEF TellRoom
    <3>2. q \in RequestState /\ q.step = "answered" /\ q.poll = p /\ q.changes = c /\ q.own
      BY <1>1, <2>1, RequestRecord DEF RequestState
    <3> QED
      BY <2>1, <3>1, <3>2
  <2>2. CASE ~own
    <3>1. request' = [request EXCEPT ![k] = Unasked]
      BY <2>2 DEF TellRoom
    <3> QED
      BY <2>2, <3>1 DEF RequestState
  <2> QED
    BY <2>1, <2>2
<1>4. q = Unasked \/ q.poll = p
  BY <1>3
<1>5. /\ request' \in [Requests -> RequestState] /\ request'[k] = q
      /\ \A l \in Requests \ {k} : request'[l] = request[l]
      /\ \A r \in Polls \ {p} : Answers(r)' = Answers(r) /\ (Creating(r)' <=> Creating(r))
      /\ q.step = "answered" => q.changes \in Answers(p)'
      /\ Creating(p) => c = 1 \/ Creating(p)'
      /\ request[k].step # "answered" => Answers(p) \subseteq Answers(p)'
  BY <1>1, <1>3, <1>4, RequestMoves
<1>6. own => c \in Answers(p)'
  BY <1>3, <1>5
<1>7. /\ own => tab.step = "shown"
      /\ c <= poll[p]
  BY <1>1 DEF TabHolds, OwnRequests, NothingAhead
<1>8. sent' \in Change /\ sent'[p] = c /\ \A r \in Polls \ {p} : sent'[r] = sent[r]
  <2>1. sent' = [sent EXCEPT ![p] = c] /\ sent \in [Polls -> 0..Gone] /\ c \in 0..Gone
    BY <1>2, EventTabAssumption DEF TabInv, Change
  <2> QED
    BY <2>1 DEF Change
<1>9. /\ astray' \subseteq Polls \X Reasons
      /\ \A r \in Polls : OnCourse(r)' => OnCourse(r)
      /\ OnCourse(p)' => socket = "room" \/ own
  <2>1. CASE socket = "room"
    BY <1>2, <2>1 DEF OnCourse, TabInv
  <2>2. CASE socket # "room"
    <3>1. PICK reason \in {"lost", "outside"} : Because(reason, IF own THEN {} ELSE {p})
      BY <1>2, <2>2
    <3>2. reason \in Reasons /\ (IF own THEN {} ELSE {p}) \in SUBSET Polls
      BY DEF Reasons
    <3>3. /\ astray' \subseteq Polls \X Reasons
          /\ \A r \in Polls : OnCourse(r)' => OnCourse(r) /\ r \notin (IF own THEN {} ELSE {p})
      BY <3>1, <3>2, AstrayKeeps
    <3> QED
      BY <3>3
  <2> QED
    BY <2>1, <2>2
<1>10. /\ events' \in Seq(PollNews) /\ EventsTell'
       /\ News(p)' = IF socket = "room" THEN News(p) \cup {c} ELSE News(p)
       /\ \A r \in Polls \ {p} : News(r)' = News(r)
  <2>1. CASE socket = "room"
    BY <1>2, <1>7, <2>1, EventJoins DEF TabHolds
  <2>2. CASE socket # "room"
    <3>1. events = <<>> /\ events' = events
      BY <1>2, <2>2 DEF TabHolds, EventsTell
    <3>2. DOMAIN events' = {} /\ events' \in Seq(PollNews)
      BY <3>1
    <3>3. EventsTell'
      BY <3>1, <3>2 DEF EventsTell
    <3> QED
      BY <2>2, <3>1, <3>2, <3>3 DEF News
  <2> QED
    BY <2>1, <2>2
<1>11. TabInv'
  BY <1>2, <1>5, <1>8, <1>9, <1>10 DEF TabInv
<1>12. NothingAhead'
  <2>1. ASSUME NEW l \in Requests, request'[l] # Unasked
        PROVE  request'[l].changes <= poll[request'[l].poll]
    <3>1. CASE l = k
      BY <1>3, <1>5, <1>7, <2>1, <3>1
    <3>2. CASE l # k
      BY <1>5, <2>1, <3>2 DEF TabHolds, NothingAhead
    <3> QED
      BY <3>1, <3>2
  <2>2. \A r \in Polls : sent'[r] <= poll[r]
    BY <1>7, <1>8 DEF TabHolds, NothingAhead
  <2> QED
    BY <1>2, <2>1, <2>2 DEF TabHolds, NothingAhead
<1>13. OwnRequests'
  BY <1>2, <1>3, <1>5, <1>7 DEF TabHolds, OwnRequests
<1>14. ASSUME NEW r \in Polls, r # p, OnCourse(r)' PROVE CopyIsPoll(r)'
  <2>1. OnCourse(r)
    BY <1>9, <1>14
  <2> QED
    BY <1>2, <1>5, <1>8, <1>10, <1>14, <2>1, CopyStays DEF TabHolds
<1>15. ASSUME OnCourse(p)' PROVE CopyIsPoll(p)'
  <2>1. CopyIsPoll(p) /\ (socket = "room" \/ own)
    BY <1>9, <1>15 DEF TabHolds
  <2>2. CASE socket = "room"
    <3>1. c \in News(p)' /\ News(p)' # {} /\ News(p) \subseteq News(p)'
      BY <1>10, <2>2
    <3>2. Creating(p) \/ 1 \in News(p) => Creating(p)' \/ 1 \in News(p)'
      BY <1>5, <3>1
    <3>3. tab.step = "loaded" => LoadedIsPoll(p)'
      BY <1>2, <2>1, <3>1, <3>2 DEF CopyIsPoll, LoadedIsPoll
    <3>4. 1 \in Answers(p) => 1 \in Answers(p)'
      BY <1>1, <1>5
    <3>5. tab.step = "shown" => ShownIsPoll(p)'
      BY <1>2, <2>1, <3>1, <3>2, <3>4 DEF CopyIsPoll, ShownIsPoll
    <3> QED
      BY <1>2, <3>3, <3>5 DEF CopyIsPoll
  <2>3. CASE socket # "room"
    <3>1. own /\ c \in Answers(p)' /\ Answers(p)' # {} /\ News(p)' = News(p) /\ tab.step = "shown"
      BY <1>6, <1>7, <1>10, <2>1, <2>3
    <3>2. Creating(p) => Creating(p)' \/ 1 \in Answers(p)'
      BY <1>5, <3>1
    <3>3. 1 \in Answers(p) => 1 \in Answers(p)'
      BY <1>1, <1>5
    <3>4. ShownIsPoll(p)'
      BY <1>2, <1>8, <2>1, <3>1, <3>2, <3>3 DEF CopyIsPoll, ShownIsPoll
    <3> QED
      BY <1>2, <3>1, <3>4 DEF CopyIsPoll
  <2> QED
    BY <2>2, <2>3
<1> QED
  BY <1>10, <1>11, <1>12, <1>13, <1>14, <1>15 DEF TabHolds

(* What a poll shows after an event of it, or an answer.                   *)
After(now, c) == CASE c = 1 -> IF now = 0 THEN 1 ELSE now
                   [] c = Gone -> 0
                   [] OTHER -> IF now = 0 THEN 0 ELSE c

LEMMA AfterShows ==
  ASSUME TabInv, NEW p \in Polls, NEW c \in 1..Gone, c <= poll[p], shown[p] <= poll[p]
  PROVE  /\ After(shown[p], c) \in 0..(Gone - 1) /\ After(shown[p], c) <= poll[p]
         /\ Live(poll[p]) /\ (shown[p] # 0 \/ c = 1) => After(shown[p], c) # 0
         /\ c = poll[p] /\ (Live(poll[p]) => shown[p] # 0 \/ c = 1)
              => After(shown[p], c) = Displayed(poll[p])
<1>1. /\ Gone \in Nat /\ Gone >= 2 /\ shown[p] \in 0..(Gone - 1) /\ poll[p] \in 0..Gone
      /\ c \in 1..Gone
  BY TabNumbers
<1>2. CASE c = 1
  <2>1. After(shown[p], c) = IF shown[p] = 0 THEN 1 ELSE shown[p]
    BY <1>1, <1>2 DEF After
  <2>2. After(shown[p], c) \in 0..(Gone - 1) /\ After(shown[p], c) <= poll[p] /\ After(shown[p], c) # 0
    BY <1>1, <1>2, <2>1
  <2>3. c = poll[p] => After(shown[p], c) = 1 /\ Displayed(poll[p]) = 1
    BY <1>1, <1>2, <2>1 DEF Displayed, Live
  <2> QED
    BY <1>2, <2>2, <2>3
<1>3. CASE c # 1 /\ c = Gone
  <2>1. After(shown[p], c) = 0
    BY <1>3 DEF After
  <2> QED
    BY <1>1, <1>3, <2>1 DEF Displayed, Live
<1>4. CASE c # 1 /\ c # Gone
  <2>1. After(shown[p], c) = IF shown[p] = 0 THEN 0 ELSE c
    BY <1>4 DEF After
  <2> QED
    BY <1>1, <1>4, <2>1 DEF Displayed, Live
<1> QED
  BY <1>2, <1>3, <1>4

(* The answer to a request of the tab's own user.                          *)
LEMMA OwnAnswerHolds ==
  ASSUME TabInv, TabHolds, NEW k \in Requests, OwnAnswer(k)
  PROVE  TabInv' /\ TabHolds'
<1>1. request[k].step = "answered" /\ request[k] # Unasked
  BY DEF OwnAnswer, Unasked
<1> PICK p \in Polls, c \in 1..Gone : p = request[k].poll /\ c = request[k].changes
  BY <1>1, RequestRecord
<1>2. /\ shown' = [shown EXCEPT ![p] = After(shown[p], c)]
      /\ Because("undone", IF heard[p] > c THEN {p} ELSE {})
      /\ heard' = [heard EXCEPT ![p] = IF c > heard[p] THEN c ELSE heard[p]]
      /\ request' = [request EXCEPT ![k] = Unasked]
      /\ UNCHANGED <<poll, sent, tab, socket, tabLosses, entering, events>>
  BY DEF OwnAnswer, After
<1>3. c <= poll[p] /\ shown[p] <= poll[p] /\ heard[p] <= poll[p] /\ tab.step = "shown"
  BY <1>1, RequestRecord DEF TabHolds, NothingAhead, OwnRequests
<1>4. /\ Gone \in Nat /\ Gone >= 2 /\ shown[p] \in 0..(Gone - 1) /\ heard[p] \in 0..Gone
      /\ poll[p] \in 0..Gone
  BY TabNumbers
<1>5. /\ shown' \in [Polls -> 0..(Gone - 1)] /\ shown'[p] = After(shown[p], c)
      /\ \A r \in Polls \ {p} : shown'[r] = shown[r]
  BY <1>2, <1>3, AfterShows DEF TabInv
<1>6. /\ heard' \in Change /\ heard'[p] = IF c > heard[p] THEN c ELSE heard[p]
      /\ \A r \in Polls \ {p} : heard'[r] = heard[r]
  <2>1. heard' = [heard EXCEPT ![p] = IF c > heard[p] THEN c ELSE heard[p]]
        /\ heard \in [Polls -> 0..Gone] /\ (IF c > heard[p] THEN c ELSE heard[p]) \in 0..Gone
    BY <1>2, <1>4 DEF TabInv, Change
  <2> QED
    BY <2>1 DEF Change
<1>7. Unasked \in RequestState
  BY DEF RequestState
<1>8. /\ request' \in [Requests -> RequestState] /\ request'[k] = Unasked
      /\ \A l \in Requests \ {k} : request'[l] = request[l]
      /\ \A r \in Polls \ {p} : Answers(r)' = Answers(r) /\ (Creating(r)' <=> Creating(r))
      /\ request[k].step # "fetched" => (Creating(p) => Creating(p)')
      /\ Answers(p) \subseteq Answers(p)' \cup {c}
  BY <1>1, <1>2, <1>7, RequestMoves
<1>9. /\ astray' \subseteq Polls \X Reasons
      /\ \A r \in Polls : OnCourse(r)' => OnCourse(r)
      /\ OnCourse(p)' => ~(heard[p] > c)
  <2>1. "undone" \in Reasons /\ (IF heard[p] > c THEN {p} ELSE {}) \in SUBSET Polls
    BY DEF Reasons
  <2>2. /\ astray' \subseteq Polls \X Reasons
        /\ \A r \in Polls : OnCourse(r)' => OnCourse(r) /\ r \notin (IF heard[p] > c THEN {p} ELSE {})
    BY <1>2, <2>1, AstrayKeeps
  <2> QED
    BY <2>2
<1>10. \A r \in Polls : News(r)' = News(r)
  BY <1>2 DEF News
<1>11. TabInv'
  BY <1>2, <1>5, <1>6, <1>8, <1>9 DEF TabInv
<1>12. EventsTell'
  BY <1>2 DEF TabHolds, EventsTell
<1>13. NothingAhead'
  <2>1. ASSUME NEW r \in Polls PROVE heard'[r] <= poll[r] /\ shown'[r] <= poll[r] /\ sent[r] <= poll[r]
    <3>1. CASE r = p
      BY <1>3, <1>5, <1>6, <3>1, AfterShows DEF TabHolds, NothingAhead
    <3>2. CASE r # p
      BY <1>5, <1>6, <3>2 DEF TabHolds, NothingAhead
    <3> QED
      BY <3>1, <3>2
  <2>2. \A l \in Requests : request'[l] # Unasked => request'[l].changes <= poll[request'[l].poll]
    BY <1>8 DEF TabHolds, NothingAhead
  <2> QED
    BY <1>2, <1>3, <2>1, <2>2 DEF NothingAhead
<1>14. OwnRequests'
  BY <1>2, <1>8 DEF TabHolds, OwnRequests
<1>15. ASSUME NEW r \in Polls, r # p, OnCourse(r)' PROVE CopyIsPoll(r)'
  <2>1. OnCourse(r)
    BY <1>9, <1>15
  <2> QED
    BY <1>2, <1>5, <1>6, <1>8, <1>10, <1>15, <2>1, CopyStays DEF TabHolds
<1>16. ASSUME OnCourse(p)' PROVE ShownIsPoll(p)'
  <2>1. ShownIsPoll(p) /\ heard[p] <= c
    BY <1>3, <1>4, <1>9, <1>16 DEF TabHolds, CopyIsPoll
  <2>2. heard'[p] = c
    BY <1>4, <1>6, <2>1
  <2>3. Creating(p) => Creating(p)'
    BY <1>1, <1>8
  <2>4. Live(poll[p]) => shown[p] # 0 \/ c = 1 \/ Creating(p)' \/ 1 \in News(p) \/ 1 \in Answers(p)'
    BY <1>8, <2>1, <2>3 DEF ShownIsPoll
  <2>5. sent[p] = poll[p] /\ News(p) = {} => c = poll[p] \/ poll[p] \in Answers(p)'
    BY <1>3, <1>4, <1>8, <2>1 DEF ShownIsPoll
  <2>6. Live(poll[p]) => shown'[p] # 0 \/ Creating(p)' \/ 1 \in News(p) \/ 1 \in Answers(p)'
    BY <1>3, <1>5, <2>4, AfterShows
  <2>7. ASSUME sent[p] = poll[p], News(p) = {}, Answers(p)' = {}, ~Creating(p)'
        PROVE  shown'[p] = Displayed(poll[p])
    <3>1. c = poll[p] /\ (Live(poll[p]) => shown[p] # 0 \/ c = 1)
      BY <2>4, <2>5, <2>7
    <3> QED
      BY <1>3, <1>5, <3>1, AfterShows
  <2> QED
    BY <1>2, <1>10, <2>2, <2>5, <2>6, <2>7 DEF ShownIsPoll
<1> QED
  BY <1>2, <1>3, <1>11, <1>12, <1>13, <1>14, <1>15, <1>16 DEF TabHolds, CopyIsPoll

(* The handlers of the socket's events.                                    *)
LEMMA PollEventHolds ==
  ASSUME TabInv, TabHolds, PollEvent
  PROVE  TabInv' /\ TabHolds'
<1> PICK p, c : p = Head(events).poll /\ c = Head(events).changes
  OBVIOUS
<1>1. /\ events # <<>> /\ events' = Tail(events)
      /\ UNCHANGED <<poll, sent, request, tab, socket, tabLosses, entering, astray>>
      /\ shown' = [shown EXCEPT ![p] = After(shown[p], c)]
      /\ heard' = [heard EXCEPT ![p] = IF c > heard[p] THEN c ELSE heard[p]]
  BY DEF PollEvent, After, serviceVars
<1>2. /\ p \in Polls /\ c \in 1..Gone /\ c <= poll[p]
      /\ events' \in Seq(PollNews) /\ EventsTell'
      /\ News(p) = News(p)' \cup {c}
      /\ News(p)' = {} => c = sent[p]
      /\ \A r \in Polls \ {p} : News(r)' = News(r)
  BY <1>1, EventLeaves DEF TabHolds
<1>3. /\ Gone \in Nat /\ Gone >= 2 /\ shown[p] \in 0..(Gone - 1) /\ heard[p] \in 0..Gone
      /\ poll[p] \in 0..Gone /\ shown[p] <= poll[p] /\ heard[p] <= poll[p]
  BY <1>2, TabNumbers DEF TabHolds, NothingAhead
<1>4. /\ shown' \in [Polls -> 0..(Gone - 1)] /\ shown'[p] = After(shown[p], c)
      /\ \A r \in Polls \ {p} : shown'[r] = shown[r]
  BY <1>1, <1>2, <1>3, AfterShows DEF TabInv
<1>5. /\ heard' \in Change /\ heard'[p] = IF c > heard[p] THEN c ELSE heard[p]
      /\ \A r \in Polls \ {p} : heard'[r] = heard[r]
  <2>1. heard' = [heard EXCEPT ![p] = IF c > heard[p] THEN c ELSE heard[p]]
        /\ heard \in [Polls -> 0..Gone] /\ (IF c > heard[p] THEN c ELSE heard[p]) \in 0..Gone
    BY <1>1, <1>2, <1>3 DEF TabInv, Change
  <2> QED
    BY <1>2, <2>1 DEF Change
<1>6. \A r \in Polls : Answers(r)' = Answers(r) /\ (Creating(r)' <=> Creating(r))
  BY <1>1 DEF Answers, Creating
<1>7. TabInv'
  BY <1>1, <1>2, <1>4, <1>5 DEF TabInv
<1>8. NothingAhead'
  <2>1. ASSUME NEW r \in Polls PROVE heard'[r] <= poll[r] /\ shown'[r] <= poll[r] /\ sent[r] <= poll[r]
    <3>1. CASE r = p
      BY <1>2, <1>3, <1>4, <1>5, <3>1, AfterShows DEF TabHolds, NothingAhead
    <3>2. CASE r # p
      BY <1>4, <1>5, <3>2 DEF TabHolds, NothingAhead
    <3> QED
      BY <3>1, <3>2
  <2> QED
    BY <1>1, <2>1 DEF TabHolds, NothingAhead
<1>9. OwnRequests'
  BY <1>1 DEF TabHolds, OwnRequests
<1>10. ASSUME NEW r \in Polls, r # p, OnCourse(r)' PROVE CopyIsPoll(r)'
  <2>1. OnCourse(r)
    BY <1>1, <1>10 DEF OnCourse
  <2> QED
    BY <1>1, <1>2, <1>4, <1>5, <1>6, <1>10, <2>1, CopyStays DEF TabHolds
<1>11. c <= heard'[p] /\ heard[p] <= heard'[p] /\ (c = poll[p] => heard'[p] = poll[p])
  BY <1>2, <1>3, <1>5
<1>12. 1 \in News(p) => c = 1 \/ 1 \in News(p)'
  BY <1>2
<1>13. ASSUME tab.step = "loaded", LoadedIsPoll(p) PROVE LoadedIsPoll(p)'
  <2>1. tab.data[p] \in 0..Gone /\ tab.data[p] <= poll[p]
    BY <1>2, <1>13, TabNumbers DEF TabHolds, NothingAhead
  <2>2. ASSUME Live(poll[p]), c = 1 PROVE Live(tab.data[p]) \/ heard'[p] > tab.data[p]
    <3>1. heard'[p] \in 0..Gone /\ 1 <= heard'[p]
      BY <1>2, <1>5, <1>11, <2>2 DEF Change
    <3>2. CASE tab.data[p] = 0
      BY <3>1, <3>2
    <3>3. CASE tab.data[p] # 0
      BY <1>3, <2>1, <2>2, <3>3 DEF Live
    <3> QED
      BY <3>2, <3>3
  <2>3. heard[p] > tab.data[p] => heard'[p] > tab.data[p]
    <3>1. heard'[p] \in 0..Gone
      BY <1>2, <1>5 DEF Change
    <3> QED
      BY <1>3, <1>11, <2>1, <3>1
  <2>4. Live(poll[p]) => Live(tab.data[p]) \/ Creating(p) \/ 1 \in News(p)' \/ heard'[p] > tab.data[p]
    BY <1>12, <1>13, <2>2, <2>3 DEF LoadedIsPoll
  <2>5. sent[p] = poll[p] /\ News(p)' = {} => heard'[p] = poll[p]
    BY <1>2, <1>11
  <2> QED
    BY <1>1, <1>2, <1>6, <2>4, <2>5 DEF LoadedIsPoll
<1>14. ASSUME ShownIsPoll(p) PROVE ShownIsPoll(p)'
  <2>1. Live(poll[p]) => shown[p] # 0 \/ c = 1 \/ Creating(p) \/ 1 \in News(p)' \/ 1 \in Answers(p)
    BY <1>12, <1>14 DEF ShownIsPoll
  <2>2. Live(poll[p]) => shown'[p] # 0 \/ Creating(p) \/ 1 \in News(p)' \/ 1 \in Answers(p)
    BY <1>2, <1>3, <1>4, <2>1, AfterShows
  <2>3. sent[p] = poll[p] /\ News(p)' = {} => c = poll[p] /\ heard'[p] = poll[p]
    BY <1>2, <1>11
  <2>4. ASSUME sent[p] = poll[p], News(p)' = {}, Answers(p) = {}, ~Creating(p)
        PROVE  shown'[p] = Displayed(poll[p])
    <3>1. c = poll[p] /\ (Live(poll[p]) => shown[p] # 0 \/ c = 1)
      BY <2>1, <2>3, <2>4
    <3> QED
      BY <1>2, <1>3, <1>4, <3>1, AfterShows
  <2> QED
    BY <1>1, <1>2, <1>6, <2>2, <2>3, <2>4 DEF ShownIsPoll
<1>15. ASSUME OnCourse(p)' PROVE CopyIsPoll(p)'
  <2>1. CopyIsPoll(p)
    BY <1>1, <1>2, <1>15 DEF TabHolds, OnCourse
  <2> QED
    BY <1>1, <1>13, <1>14, <2>1 DEF CopyIsPoll
<1> QED
  BY <1>2, <1>7, <1>8, <1>9, <1>10, <1>15 DEF TabHolds

LEMMA TabNextHolds ==
  ASSUME TabInv, TabHolds, [TabNext]_tabVars
  PROVE  TabInv' /\ TabHolds'
<1>1. CASE UNCHANGED tabVars
  <2>1. UNCHANGED <<poll, sent, request, tab, socket, tabLosses, entering, events, shown, heard, astray>>
    BY <1>1 DEF tabVars, serviceVars
  <2>2. TabInv' /\ EventsTell' /\ NothingAhead' /\ OwnRequests'
    BY <2>1 DEF TabInv, TabHolds, EventsTell, NothingAhead, OwnRequests
  <2>3. ASSUME NEW p \in Polls, OnCourse(p)' PROVE CopyIsPoll(p)'
    <3>1. /\ OnCourse(p) /\ News(p)' = News(p) /\ Answers(p)' = Answers(p)
          /\ Creating(p)' <=> Creating(p)
      BY <2>1, <2>3 DEF OnCourse, News, Answers, Creating
    <3> QED
      BY <2>1, <3>1, CopyStays DEF TabHolds
  <2> QED
    BY <2>2, <2>3 DEF TabHolds
<1>2. ASSUME NEW k \in Requests,
             \/ \E p \in Polls, own \in BOOLEAN : StorePoll(k, p, own)
             \/ FetchPoll(k) \/ TellRoom(k) \/ RequestFails(k) \/ OwnAnswer(k)
      PROVE  TabInv' /\ TabHolds'
  BY <1>2, StorePollHolds, RequestHolds, TellRoomHolds, OwnAnswerHolds
<1> QED
  BY <1>1, <1>2, TabSocketHolds, TabLoadsHolds, CloseTabHolds, PollEventHolds DEF TabNext

(* Once nothing about a poll is under way, and the room was told of it as  *)
(* it is, the tab shows it so, whatever requests, fetches, events and      *)
(* answers overtook each other before, for any number of polls, requests   *)
(* at a time and lost connections, but for the polls that went astray.     *)
THEOREM PollsStayCurrent == TabSpec => []PollsAreCurrent
<1>1. TabInv /\ TabHolds => PollsAreCurrent
  <2> SUFFICES ASSUME TabInv, TabHolds, tab.step = "shown", NEW p \in Polls, Told(p),
                      astray \cap ({p} \X Reasons) = {}
               PROVE  shown[p] = Displayed(poll[p])
    BY DEF PollsAreCurrent
  <2>1. OnCourse(p)
    BY DEF OnCourse
  <2>2. News(p) = {}
    BY DEF Told, News
  <2>3. Answers(p) = {} /\ ~Creating(p)
    BY DEF Told, Answers, Creating, Unasked
  <2> QED
    BY <2>1, <2>2, <2>3 DEF TabHolds, CopyIsPoll, ShownIsPoll, Told
<1> QED
  BY <1>1, TabInitHolds, TabNextHolds, PTL DEF TabSpec

-------------------------------------------------------------------------------
(* The page of a conversation.                                             *)
Elements(s) == {s[i] : i \in DOMAIN s}

LEMMA AppendElements ==
  ASSUME NEW S, NEW s \in Seq(S), NEW e \in S
  PROVE  /\ Append(s, e) \in Seq(S) /\ Append(s, e) # <<>>
         /\ Elements(Append(s, e)) = Elements(s) \cup {e}
         /\ s # <<>> => Append(s, e)[1] = s[1]
         /\ s = <<>> => Append(s, e)[1] = e
<1>1. /\ Append(s, e) \in Seq(S) /\ Append(s, e) # <<>> /\ Len(Append(s, e)) = Len(s) + 1
      /\ \A i \in 1..Len(s) : Append(s, e)[i] = s[i]
      /\ Append(s, e)[Len(s) + 1] = e
  BY AppendProperties
<1>2. Len(s) \in Nat /\ DOMAIN s = 1..Len(s) /\ DOMAIN Append(s, e) = 1..(Len(s) + 1)
  BY <1>1
<1>3. s # <<>> => 1 \in 1..Len(s)
  BY <1>2, EmptySeq
<1>4. s = <<>> => Len(s) = 0
  BY EmptySeq
<1>5. Elements(Append(s, e)) \subseteq Elements(s) \cup {e}
  BY <1>1, <1>2 DEF Elements
<1>6. Elements(s) \cup {e} \subseteq Elements(Append(s, e))
  <2>1. \A i \in DOMAIN s : i \in DOMAIN Append(s, e) /\ Append(s, e)[i] = s[i]
    BY <1>1, <1>2
  <2>2. Len(s) + 1 \in DOMAIN Append(s, e)
    BY <1>2
  <2> QED
    BY <1>1, <2>1, <2>2 DEF Elements
<1> QED
  BY <1>1, <1>3, <1>4, <1>5, <1>6

LEMMA TailElements ==
  ASSUME NEW S, NEW s \in Seq(S), s # <<>>
  PROVE  /\ Tail(s) \in Seq(S) /\ Head(s) \in S
         /\ Elements(s) = Elements(Tail(s)) \cup {Head(s)}
<1>1. /\ Head(s) = s[1] /\ Tail(s) \in Seq(S) /\ Len(Tail(s)) = Len(s) - 1
      /\ \A i \in 1..Len(Tail(s)) : Tail(s)[i] = s[i + 1]
  BY HeadTailProperties
<1>2. Len(s) \in Nat /\ DOMAIN s = 1..Len(s) /\ DOMAIN Tail(s) = 1..(Len(s) - 1)
  BY <1>1
<1>3. 1 \in 1..Len(s)
  BY <1>2, EmptySeq
<1>4. Head(s) \in S
  BY <1>1, <1>3, ElementOfSeq
<1>5. \A i \in DOMAIN Tail(s) : i + 1 \in DOMAIN s /\ Tail(s)[i] = s[i + 1]
  BY <1>1, <1>2
<1>6. \A i \in DOMAIN s \ {1} : i - 1 \in DOMAIN Tail(s) /\ Tail(s)[i - 1] = s[i]
  BY <1>1, <1>2
<1>7. Elements(Tail(s)) \cup {Head(s)} \subseteq Elements(s)
  BY <1>1, <1>2, <1>3, <1>5 DEF Elements
<1>8. Elements(s) \subseteq Elements(Tail(s)) \cup {Head(s)}
  BY <1>1, <1>6 DEF Elements
<1> QED
  BY <1>1, <1>4, <1>7, <1>8

(* What getMessages answers: PageSize messages before one, or all of them. *)
LEMMA BeforeIs ==
  ASSUME NEW m \in 1..(MaxMessages + 1)
  PROVE  /\ Before(m) \in Seq(Ids)
         /\ Elements(Before(m)) = {x \in 1..(m - 1) : m - PageSize <= x}
         /\ \A i, j \in DOMAIN Before(m) : Before(m)[i] = Before(m)[j] => i = j
         /\ Len(Before(m)) = PageSize <=> m > PageSize
         /\ Before(m) # <<>> => \A x \in Elements(Before(m)) : Before(m)[1] <= x
         /\ Before(m) = <<>> <=> m = 1
<1> DEFINE first == IF m > PageSize THEN m - PageSize ELSE 1
<1>1. /\ m \in Nat /\ PageSize \in Nat \ {0} /\ MaxMessages \in Nat
      /\ first \in Nat /\ 1 <= first /\ first <= m
      /\ m - first \in Nat
      /\ first = 1 \/ first = m - PageSize
  BY ChatAssumption
<1>2. Before(m) = [i \in 1..(m - first) |-> first + i - 1]
  BY DEF Before
<1> HIDE DEF first
<1>3. \A i \in 1..(m - first) : first + i - 1 \in Ids /\ first + i - 1 < m
  BY <1>1 DEF Ids
<1>4. Before(m) \in Seq(Ids) /\ Len(Before(m)) = m - first /\ DOMAIN Before(m) = 1..(m - first)
  <2>1. Before(m) \in [1..(m - first) -> Ids]
    BY <1>2, <1>3
  <2>2. Before(m) \in Seq(Ids)
    BY <1>1, <2>1, SeqDef
  <2>3. Len(Before(m)) \in Nat /\ 1..Len(Before(m)) = 1..(m - first)
    BY <2>1, <2>2, LenProperties
  <2> QED
    BY <1>1, <2>1, <2>2, <2>3
<1>5. Elements(Before(m)) = {x \in 1..(m - 1) : m - PageSize <= x}
  <2>1. \A x : x \in 1..(m - 1) /\ m - PageSize <= x <=> x \in first..(m - 1)
    BY <1>1 DEF first
  <2>2. ASSUME NEW x \in first..(m - 1) PROVE x \in Elements(Before(m))
    <3>1. x - first + 1 \in 1..(m - first) /\ first + (x - first + 1) - 1 = x
      BY <1>1
    <3> QED
      BY <1>2, <1>4, <3>1 DEF Elements
  <2>3. ASSUME NEW i \in 1..(m - first) PROVE Before(m)[i] \in first..(m - 1)
    BY <1>1, <1>2
  <2>4. Elements(Before(m)) \subseteq first..(m - 1)
    BY <1>4, <2>3 DEF Elements
  <2> QED
    BY <2>1, <2>2, <2>4
<1>6. \A i, j \in DOMAIN Before(m) : Before(m)[i] = Before(m)[j] => i = j
  BY <1>1, <1>2, <1>4
<1>7. Len(Before(m)) = PageSize <=> m > PageSize
  BY <1>1, <1>4 DEF first
<1>8. Before(m) = <<>> <=> m = 1
  <2>1. Before(m) = <<>> <=> m - first = 0
    BY <1>4, EmptySeq
  <2> QED
    BY <1>1, <2>1 DEF first
<1>9. ASSUME Before(m) # <<>>, NEW x \in Elements(Before(m)) PROVE Before(m)[1] <= x
  <2>1. 1 \in 1..(m - first)
    BY <1>1, <1>4, <1>9, EmptySeq
  <2>2. Before(m)[1] = first
    BY <1>1, <1>2, <2>1
  <2>3. PICK i \in 1..(m - first) : x = Before(m)[i]
    BY <1>4, <1>9 DEF Elements
  <2> QED
    BY <1>1, <1>2, <2>2, <2>3
<1> QED
  BY <1>4, <1>5, <1>6, <1>7, <1>8, <1>9

(* Messages stored that the page is yet to be told of.                     *)
Storing == {m \in Ids : send.step = "stored" /\ send.id = m}

InFlight == posting \cup Elements(wire) \cup Storing

Vias == {"socket", "rest", "again", "lost"}

SendStates ==
  [step : {"none"}]
    \cup [step : {"asked"}, via : Vias, id : {0}]
    \cup [step : {"stored"}, via : Vias, id : Ids]
    \cup [step : {"stuck"}, via : Vias, id : {0} \cup Ids]
    \cup [step : {"answered"}, via : Vias, id : Ids, ok : BOOLEAN]

PageStates ==
  [step : {"closed", "loading", "shown"}] \cup [step : {"loaded"}, data : Seq(Ids)]
    \cup [step : {"more"}, before : Ids]

ChatInv ==
  /\ count \in 0..MaxMessages
  /\ posting \subseteq 1..count
  /\ wire \in Seq(Ids) /\ Elements(wire) \subseteq 1..count
  /\ view \in Seq(Ids) /\ Elements(view) \subseteq 1..count
  /\ link \in {"off", "on", "room"}
  /\ losses \in 0..MaxLosses
  /\ page \in PageStates
  /\ joining \in BOOLEAN /\ (joining => link # "off" /\ page.step # "closed")
  /\ hasMore \in BOOLEAN /\ (hasMore => page.step \in {"shown", "more"})
  /\ send \in SendStates
  /\ send.step # "none" => page.step \in {"shown", "more"} /\ send.id <= count
  /\ missed \subseteq 1..count /\ byRest \subseteq 1..count

(* A message the page is yet to be told of is one of the last PageSize,    *)
(* which is the bound in MayStore.                                         *)
Recent == \A m \in InFlight : count - m < PageSize

(* What has been loaded are the messages up to one, of those before it all *)
(* that are in flight; what came after it is shown, missed or in flight.   *)
LoadedTill(n) ==
  /\ page.data = Before(n + 1)
  /\ \A m \in InFlight : n + 1 - PageSize <= m
  /\ \A m \in (n + 1)..count : m \in Elements(view) \cup missed \cup InFlight

(* Older messages than the first one shown are for LoadMore.               *)
ViewStarts ==
  /\ hasMore => /\ view # <<>>
                /\ \A m \in Elements(view) \cup InFlight : view[1] <= m
                /\ send.step = "answered" => view[1] <= send.id
  /\ page.step = "more" => hasMore /\ page.before = view[1]

RestKnown == send.step \in {"stored", "answered"} /\ send.via \in Rest => send.id \in byRest

(* All that is stored is shown, missed, in flight or for LoadMore.         *)
AllThere ==
  \A m \in 1..count : \/ m \in Elements(view) \cup missed \cup InFlight
                      \/ hasMore /\ m < view[1]

ChatHolds ==
  /\ Recent /\ ViewStarts /\ RestKnown /\ ShownOnce
  /\ page.step = "loaded" => \E n \in 0..count : LoadedTill(n)
  /\ page.step \in {"shown", "more"} => AllThere

LEMMA ChatInitHolds == ChatInit => ChatInv /\ ChatHolds
<1> SUFFICES ASSUME ChatInit PROVE ChatInv /\ ChatHolds
  OBVIOUS
<1>1. count \in 0..MaxMessages /\ 0 \in 0..MaxLosses
  BY ChatAssumption DEF ChatInit
<1>2. /\ wire \in Seq(Ids) /\ view \in Seq(Ids) /\ DOMAIN view = {}
      /\ Elements(wire) = {} /\ Elements(view) = {}
  BY DEF ChatInit, Elements
<1>3. page \in PageStates /\ page.step = "closed" /\ send \in SendStates /\ send.step = "none"
  BY DEF ChatInit, PageStates, SendStates
<1>4. ChatInv
  BY <1>1, <1>2, <1>3 DEF ChatInit, ChatInv
<1>5. InFlight = {}
  BY <1>2, <1>3 DEF ChatInit, InFlight, Storing
<1>6. Recent /\ ViewStarts /\ RestKnown /\ ShownOnce
  BY <1>2, <1>3, <1>5 DEF ChatInit, Recent, ViewStarts, RestKnown, ShownOnce
<1> QED
  BY <1>3, <1>4, <1>6 DEF ChatHolds

(* What is stored, shown, heard of and in flight are messages by number.   *)
LEMMA ChatNumbers ==
  ASSUME ChatInv
  PROVE  /\ count \in Nat /\ MaxMessages \in Nat /\ PageSize \in Nat /\ PageSize >= 1
         /\ count <= MaxMessages
         /\ InFlight \subseteq 1..count /\ Elements(view) \subseteq 1..count
         /\ DOMAIN view = 1..Len(view) /\ Len(view) \in Nat
         /\ view # <<>> => view[1] \in Elements(view)
<1>1. count \in Nat /\ MaxMessages \in Nat /\ PageSize \in Nat /\ PageSize >= 1 /\ count <= MaxMessages
  BY ChatAssumption DEF ChatInv
<1>2. Storing \subseteq 1..count
  BY <1>1 DEF ChatInv, Storing, Ids
<1>3. DOMAIN view = 1..Len(view) /\ Len(view) \in Nat /\ (view # <<>> => 1 \in 1..Len(view))
  BY EmptySeq DEF ChatInv
<1> QED
  BY <1>1, <1>2, <1>3 DEF ChatInv, InFlight, Elements

(* A message only moves: from the sender to the wire, or to the missed.    *)
LEMMA ChatMoves ==
  ASSUME ChatInv, ChatHolds, UNCHANGED <<count, page, view, hasMore, byRest>>,
         InFlight' \subseteq InFlight, InFlight \cup missed \subseteq InFlight' \cup missed',
         send'.step = "answered" => \/ send'.id \in InFlight
                                    \/ send.step = "answered" /\ send'.id = send.id,
         RestKnown'
  PROVE  ChatHolds'
<1>1. Recent' /\ ShownOnce'
  BY DEF ChatHolds, Recent, ShownOnce
<1>2. ViewStarts'
  BY DEF ChatHolds, ViewStarts
<1>3. ASSUME NEW n \in 0..count, LoadedTill(n) PROVE LoadedTill(n)'
  BY <1>3 DEF LoadedTill
<1>4. AllThere => AllThere'
  BY DEF AllThere
<1> QED
  BY <1>1, <1>2, <1>3, <1>4 DEF ChatHolds

LEMMA NotifiedReaches ==
  ASSUME ChatInv, NEW m \in 1..count, Notified(m) \/ (missed' = missed \cup {m} /\ UNCHANGED wire)
  PROVE  /\ wire' \in Seq(Ids) /\ Elements(wire') \subseteq 1..count /\ missed' \subseteq 1..count
         /\ Elements(wire') \subseteq Elements(wire) \cup {m}
         /\ Elements(wire) \cup missed \cup {m} \subseteq Elements(wire') \cup missed'
<1>1. m \in Ids
  BY ChatNumbers DEF Ids
<1>2. CASE wire' = Append(wire, m) /\ UNCHANGED missed
  <2>1. wire' \in Seq(Ids) /\ Elements(wire') = Elements(wire) \cup {m}
    BY <1>1, <1>2, AppendElements DEF ChatInv
  <2> QED
    BY <1>2, <2>1 DEF ChatInv
<1>3. CASE missed' = missed \cup {m} /\ UNCHANGED wire
  BY <1>3 DEF ChatInv
<1> QED
  BY <1>2, <1>3 DEF Notified

(* The socket connects, joins and is lost.                                 *)
LEMMA LinkHolds ==
  ASSUME ChatInv, ChatHolds, ChatConnect \/ ChatRooms \/ JoinRoom \/ ChatLost
  PROVE  ChatInv' /\ ChatHolds'
<1>1. CASE ChatConnect \/ ChatRooms \/ JoinRoom
  <2>1. UNCHANGED <<count, posting, wire, losses, page, view, hasMore, send, missed, byRest>>
    BY <1>1 DEF ChatConnect, ChatRooms, JoinRoom
  <2>2. link' \in {"on", "room"} /\ joining' \in BOOLEAN /\ (joining' => joining)
    <3>1. link' \in {"on", "room"}
      BY <1>1 DEF ChatConnect, ChatRooms, JoinRoom
    <3>2. joining' = joining \/ joining' = FALSE
      BY <1>1 DEF ChatConnect, ChatRooms, JoinRoom
    <3>3. joining \in BOOLEAN
      BY DEF ChatInv
    <3>4. joining' \in BOOLEAN
      BY <3>2, <3>3
    <3>5. joining' => joining
      <4>1. CASE joining' = joining
        BY <4>1
      <4>2. CASE joining' = FALSE
        BY <4>2
      <4> QED
        BY <3>2, <4>1, <4>2
    <3> QED
      BY <3>1, <3>4, <3>5
  <2>3. ChatInv'
    BY <2>1, <2>2 DEF ChatInv
  <2>4. InFlight' = InFlight /\ RestKnown'
    BY <2>1 DEF InFlight, Storing, ChatHolds, RestKnown
  <2> QED
    BY <2>1, <2>3, <2>4, ChatMoves
<1>2. CASE ChatLost
  <2>1. /\ UNCHANGED <<count, posting, page, view, hasMore, byRest>>
        /\ losses' = losses + 1 /\ losses < MaxLosses /\ link' = "off" /\ joining' = FALSE
        /\ missed' = missed \cup Elements(wire) /\ wire' = <<>>
    BY <1>2 DEF ChatLost, Elements
  <2>2. \/ send' = send
        \/ send.step \in {"asked", "stored", "answered"} /\ send' = [send EXCEPT !.via = "lost"]
    BY <1>2 DEF ChatLost
  <2>3. CASE send.step \in {"asked", "stored", "answered"} /\ send' = [send EXCEPT !.via = "lost"]
    <3>1. send' \in SendStates /\ send'.step = send.step /\ send'.id = send.id /\ send'.via = "lost"
      BY <2>3 DEF ChatInv, SendStates, Vias
    <3>2. wire' \in Seq(Ids) /\ Elements(wire') = {}
      BY <2>1 DEF Elements
    <3>3. losses' \in 0..MaxLosses
      BY <2>1, ChatAssumption DEF ChatInv
    <3>4. ChatInv'
      BY <2>1, <3>1, <3>2, <3>3 DEF ChatInv
    <3>5. InFlight' \subseteq InFlight /\ InFlight \cup missed \subseteq InFlight' \cup missed'
      BY <2>1, <3>1, <3>2 DEF InFlight, Storing
    <3>6. RestKnown'
      BY <3>1 DEF RestKnown, Rest
    <3>7. send'.step = "answered" => send.step = "answered" /\ send'.id = send.id
      BY <3>1
    <3> QED
      BY <2>1, <3>4, <3>5, <3>6, <3>7, ChatMoves
  <2>4. CASE send' = send
    <3>1. wire' \in Seq(Ids) /\ Elements(wire') = {}
      BY <2>1 DEF Elements
    <3>2. losses' \in 0..MaxLosses
      BY <2>1, ChatAssumption DEF ChatInv
    <3>3. ChatInv'
      BY <2>1, <2>4, <3>1, <3>2 DEF ChatInv
    <3>4. InFlight' \subseteq InFlight /\ InFlight \cup missed \subseteq InFlight' \cup missed'
      BY <2>1, <2>4, <3>1 DEF InFlight, Storing
    <3>5. RestKnown'
      BY <2>1, <2>4 DEF RestKnown, ChatHolds
    <3> QED
      BY <2>1, <2>4, <3>3, <3>4, <3>5, ChatMoves
  <2> QED
    BY <2>2, <2>3, <2>4
<1> QED
  BY <1>1, <1>2

LEMMA PeerNotifiesHolds ==
  ASSUME ChatInv, ChatHolds, NEW m \in posting, PeerNotifies(m)
  PROVE  ChatInv' /\ ChatHolds'
<1>1. /\ UNCHANGED <<count, link, losses, page, joining, view, hasMore, send, byRest>>
      /\ posting' = posting \ {m} /\ m \in 1..count
      /\ Notified(m) \/ (missed' = missed \cup {m} /\ UNCHANGED wire)
  BY DEF PeerNotifies, ChatInv
<1>2. /\ wire' \in Seq(Ids) /\ Elements(wire') \subseteq 1..count /\ missed' \subseteq 1..count
      /\ Elements(wire') \subseteq Elements(wire) \cup {m}
      /\ Elements(wire) \cup missed \cup {m} \subseteq Elements(wire') \cup missed'
  BY <1>1, NotifiedReaches
<1>3. ChatInv'
  BY <1>1, <1>2 DEF ChatInv
<1>4. InFlight' \subseteq InFlight /\ InFlight \cup missed \subseteq InFlight' \cup missed'
  BY <1>1, <1>2 DEF InFlight, Storing
<1>5. RestKnown'
  BY <1>1 DEF ChatHolds, RestKnown
<1> QED
  BY <1>1, <1>3, <1>4, <1>5, ChatMoves

(* handleSendMessage up to the notification.                               *)
LEMMA SendHolds ==
  ASSUME ChatInv, ChatHolds, SendMessage \/ SendFails \/ SendNotify
  PROVE  ChatInv' /\ ChatHolds'
<1>1. CASE SendMessage \/ SendFails
  <2>1. /\ UNCHANGED <<count, posting, wire, link, losses, page, joining, view, hasMore, missed, byRest>>
        /\ send.step \in {"none", "asked"} /\ (send.step = "none" => page.step \in {"shown", "more"})
        /\ \/ send' = [step |-> "none"]
           \/ \E via \in Vias, step \in {"asked", "stuck"} : send' = [step |-> step, via |-> via, id |-> 0]
    <3>1. CASE SendMessage
      BY <3>1 DEF SendMessage, Vias
    <3>2. CASE SendFails
      BY <3>2 DEF SendFails, AfterError, Vias
    <3> QED
      BY <1>1, <3>1, <3>2
  <2>2. /\ send' \in SendStates /\ send'.step \in {"none", "asked", "stuck"}
        /\ send'.step # "none" => send'.id = 0
    BY <2>1 DEF SendStates
  <2>3. ChatInv'
    BY <2>1, <2>2, ChatNumbers DEF ChatInv
  <2>4. InFlight' = InFlight
    BY <2>1, <2>2 DEF InFlight, Storing
  <2>5. RestKnown'
    BY <2>2 DEF RestKnown
  <2> QED
    BY <2>1, <2>2, <2>3, <2>4, <2>5, ChatMoves
<1>2. CASE SendNotify
  <2> PICK via \in Vias, m \in Ids : send = [step |-> "stored", via |-> via, id |-> m]
    BY <1>2 DEF SendNotify, ChatInv, SendStates
  <2>1. send.step = "stored" /\ send.via = via /\ send.id = m
    OBVIOUS
  <2> PICK ok \in BOOLEAN : send' = [step |-> "answered", via |-> via, id |-> m, ok |-> ok]
    BY <1>2, <2>1 DEF SendNotify
  <2>2. /\ UNCHANGED <<count, posting, link, losses, page, joining, view, hasMore, byRest>>
        /\ Notified(m) \/ (missed' = missed \cup {m} /\ UNCHANGED wire)
    BY <1>2, <2>1 DEF SendNotify
  <2>3. /\ send' \in SendStates /\ send'.step = "answered" /\ send'.id = m /\ send'.via = via
    BY DEF SendStates
  <2>4. m \in 1..count /\ m \in InFlight /\ page.step \in {"shown", "more"}
    BY <2>1, ChatNumbers DEF ChatInv, InFlight, Storing, Ids
  <2>5. /\ wire' \in Seq(Ids) /\ Elements(wire') \subseteq 1..count /\ missed' \subseteq 1..count
        /\ Elements(wire') \subseteq Elements(wire) \cup {m}
        /\ Elements(wire) \cup missed \cup {m} \subseteq Elements(wire') \cup missed'
    BY <2>2, <2>4, NotifiedReaches
  <2>6. ChatInv'
    BY <2>2, <2>3, <2>4, <2>5, ChatNumbers DEF ChatInv
  <2>7. InFlight' \subseteq InFlight /\ InFlight \cup missed \subseteq InFlight' \cup missed'
    BY <2>1, <2>2, <2>3, <2>4, <2>5 DEF InFlight, Storing
  <2>8. RestKnown'
    BY <2>1, <2>2, <2>3 DEF ChatHolds, RestKnown
  <2> QED
    BY <2>2, <2>3, <2>4, <2>6, <2>7, <2>8, ChatMoves
<1> QED
  BY <1>1, <1>2

(* The page is opened, loads and is closed.                                *)
LEMMA OpenHolds ==
  ASSUME ChatInv, ChatHolds, OpenPage \/ LoadRead \/ LoadFails \/ LoadMore
  PROVE  ChatInv' /\ ChatHolds'
<1>1. CASE OpenPage
  <2>1. /\ UNCHANGED <<count, posting, wire, link, losses, hasMore, send, byRest>>
        /\ page.step = "closed" /\ page' = [step |-> "loading"]
        /\ view' = <<>> /\ missed' = {} /\ joining' = (link # "off")
    BY <1>1 DEF OpenPage
  <2>2. page' \in PageStates /\ page'.step = "loading" /\ joining' \in BOOLEAN
    BY <2>1 DEF PageStates
  <2>3. view' \in Seq(Ids) /\ DOMAIN view' = {} /\ Elements(view') = {}
    BY <2>1 DEF Elements
  <2>4. send.step = "none" /\ ~hasMore
    BY <2>1 DEF ChatInv
  <2>5. ChatInv'
    BY <2>1, <2>2, <2>3, <2>4 DEF ChatInv
  <2>6. InFlight' = InFlight
    BY <2>1 DEF InFlight, Storing
  <2> QED
    BY <2>1, <2>2, <2>3, <2>4, <2>5, <2>6
    DEF ChatHolds, Recent, ViewStarts, RestKnown, ShownOnce
<1>2. CASE LoadRead
  <2>1. /\ UNCHANGED <<count, posting, wire, link, losses, joining, view, hasMore, send, byRest>>
        /\ page.step = "loading" /\ page' = [step |-> "loaded", data |-> Before(count + 1)]
        /\ missed' = {}
    BY <1>2 DEF LoadRead
  <2>2. Before(count + 1) \in Seq(Ids)
    BY ChatNumbers, BeforeIs
  <2>3. page' \in PageStates /\ page'.step = "loaded" /\ page'.data = Before(count + 1)
    BY <2>1, <2>2 DEF PageStates
  <2>4. send.step = "none" /\ ~hasMore
    BY <2>1 DEF ChatInv
  <2>5. ChatInv'
    BY <2>1, <2>3, <2>4 DEF ChatInv
  <2>6. InFlight' = InFlight
    BY <2>1 DEF InFlight, Storing
  <2>7. LoadedTill(count)'
    BY <2>1, <2>3, <2>6, ChatNumbers DEF LoadedTill, ChatHolds, Recent
  <2>8. count \in 0..count'
    BY <2>1, ChatNumbers
  <2>9. (\E n \in 0..count : LoadedTill(n))'
    BY <2>1, <2>3, <2>6, <2>8, ChatNumbers DEF LoadedTill, ChatHolds, Recent
  <2> QED
    BY <2>1, <2>3, <2>4, <2>5, <2>6, <2>9
    DEF ChatHolds, Recent, ViewStarts, RestKnown, ShownOnce
<1>3. CASE LoadFails
  <2>1. /\ UNCHANGED <<count, posting, wire, link, losses, joining, view, hasMore, send, byRest>>
        /\ page.step = "loading" /\ page' = [step |-> "shown"]
        /\ missed' = missed \cup (1..count \ Elements(view))
    BY <1>3 DEF LoadFails, Shown, Elements
  <2>2. page' \in PageStates /\ page'.step = "shown"
    BY <2>1 DEF PageStates
  <2>3. send.step = "none" /\ ~hasMore
    BY <2>1 DEF ChatInv
  <2>4. ChatInv'
    BY <2>1, <2>2, <2>3 DEF ChatInv
  <2>5. InFlight' = InFlight /\ AllThere'
    BY <2>1 DEF InFlight, Storing, AllThere
  <2> QED
    BY <2>1, <2>2, <2>3, <2>4, <2>5
    DEF ChatHolds, Recent, ViewStarts, RestKnown, ShownOnce
<1>4. CASE LoadMore
  <2>1. /\ UNCHANGED <<count, posting, wire, link, losses, joining, view, hasMore, send, missed, byRest>>
        /\ page.step = "shown" /\ hasMore /\ view # <<>>
        /\ page' = [step |-> "more", before |-> view[1]]
    BY <1>4 DEF LoadMore
  <2>2. view[1] \in Ids
    BY <2>1, ChatNumbers DEF Ids
  <2>3. page' \in PageStates /\ page'.step = "more" /\ page'.before = view[1]
    BY <2>1, <2>2 DEF PageStates
  <2>4. ChatInv'
    BY <2>1, <2>3 DEF ChatInv
  <2>5. InFlight' = InFlight /\ (AllThere => AllThere')
    BY <2>1 DEF InFlight, Storing, AllThere
  <2> QED
    BY <2>1, <2>3, <2>4, <2>5
    DEF ChatHolds, Recent, ViewStarts, RestKnown, ShownOnce
<1> QED
  BY <1>1, <1>2, <1>3, <1>4

LEMMA CloseHolds ==
  ASSUME ChatInv, ChatHolds, ClosePage
  PROVE  ChatInv' /\ ChatHolds'
<1>1. /\ page' = [step |-> "closed"] /\ view' = <<>> /\ wire' = <<>> /\ missed' = {}
      /\ link' \in {"off", "on", "room"} /\ joining' = FALSE
      /\ send' = [step |-> "none"] /\ byRest' = {}
      /\ posting' = IF send.step = "stored" THEN posting \cup {send.id} ELSE posting
      /\ hasMore' = FALSE /\ count' = count /\ losses' = losses
  BY DEF ClosePage
<1>2. page' \in PageStates /\ page'.step = "closed" /\ send' \in SendStates /\ send'.step = "none"
  BY <1>1 DEF PageStates, SendStates
<1>3. wire' \in Seq(Ids) /\ view' \in Seq(Ids) /\ Elements(wire') = {} /\ Elements(view') = {}
      /\ DOMAIN view' = {}
  BY <1>1 DEF Elements
<1>4. send.step = "stored" => send.id \in Ids
  BY DEF ChatInv, SendStates
<1>5. posting' \subseteq InFlight
  BY <1>1, <1>4 DEF InFlight, Storing
<1>6. ChatInv'
  BY <1>1, <1>2, <1>3, <1>5, ChatNumbers DEF ChatInv
<1>7. InFlight' \subseteq InFlight
  BY <1>2, <1>3, <1>5 DEF InFlight, Storing
<1> QED
  BY <1>1, <1>2, <1>3, <1>6, <1>7 DEF ChatHolds, Recent, ViewStarts, RestKnown, ShownOnce

LEMMA LoadAnswerHolds ==
  ASSUME ChatInv, ChatHolds, LoadAnswer
  PROVE  ChatInv' /\ ChatHolds'
<1> PICK n \in 0..count : LoadedTill(n)
  BY DEF LoadAnswer, ChatHolds
<1>1. /\ UNCHANGED <<count, posting, wire, link, losses, joining, send, byRest>>
      /\ page.step = "loaded" /\ page' = [step |-> "shown"]
      /\ view' = Before(n + 1) /\ hasMore' = (Len(Before(n + 1)) = PageSize)
      /\ missed' = missed \cup (Elements(view) \ Elements(Before(n + 1)))
  BY DEF LoadAnswer, LoadedTill, Shown, Elements
<1>2. n + 1 \in 1..(MaxMessages + 1) /\ n \in Nat /\ n <= count /\ (n + 1) - 1 = n
  BY ChatNumbers
<1>3. /\ view' \in Seq(Ids)
      /\ Elements(view') = {x \in 1..n : n + 1 - PageSize <= x}
      /\ \A i, j \in DOMAIN view' : view'[i] = view'[j] => i = j
      /\ hasMore' <=> n + 1 > PageSize
      /\ view' # <<>> => \A x \in Elements(view') : view'[1] <= x
      /\ view' = <<>> <=> n + 1 = 1
  <2> PICK k \in 1..(MaxMessages + 1) : k = n + 1
    BY <1>2
  <2>1. /\ Before(k) \in Seq(Ids)
        /\ Elements(Before(k)) = {x \in 1..(k - 1) : k - PageSize <= x}
        /\ \A i, j \in DOMAIN Before(k) : Before(k)[i] = Before(k)[j] => i = j
        /\ Len(Before(k)) = PageSize <=> k > PageSize
        /\ Before(k) # <<>> => \A x \in Elements(Before(k)) : Before(k)[1] <= x
        /\ Before(k) = <<>> <=> k = 1
    BY BeforeIs
  <2>2. k - 1 = n /\ view' = Before(k)
    BY <1>1, <1>2
  <2>3. hasMore' <=> Len(Before(k)) = PageSize
    BY <1>1
  <2>4. Elements(view') = {x \in 1..n : n + 1 - PageSize <= x}
    <3>1. \A x : x \in 1..(k - 1) /\ k - PageSize <= x <=> x \in 1..n /\ n + 1 - PageSize <= x
      BY <1>2, <2>2, ChatNumbers
    <3>2. \A x : x \in Elements(view') <=> x \in 1..n /\ n + 1 - PageSize <= x
      BY <2>1, <2>2, <3>1
    <3> QED
      BY <3>2
  <2> QED
    BY <2>1, <2>2, <2>3, <2>4
<1>4. page' \in PageStates /\ page'.step = "shown"
  BY <1>1 DEF PageStates
<1>5. send.step = "none"
  BY <1>1 DEF ChatInv
<1>6. Elements(view') \subseteq 1..count /\ hasMore' \in BOOLEAN
  BY <1>1, <1>2, <1>3, ChatNumbers
<1>7. ChatInv'
  BY <1>1, <1>3, <1>4, <1>5, <1>6, ChatNumbers DEF ChatInv
<1>8. InFlight' = InFlight
  BY <1>1 DEF InFlight, Storing
<1>9. ASSUME hasMore'
      PROVE  /\ view' # <<>> /\ view'[1] \in Int /\ view'[1] = n + 1 - PageSize
             /\ \A m \in Elements(view') \cup InFlight : view'[1] <= m
  <2>1. view' # <<>> /\ n + 1 - PageSize \in Elements(view')
    BY <1>2, <1>3, <1>9, ChatNumbers
  <2>2. view'[1] \in Elements(view')
    BY <1>3, <2>1, EmptySeq DEF Elements
  <2>3. view'[1] = n + 1 - PageSize
    BY <1>2, <1>3, <2>1, <2>2, ChatNumbers
  <2> QED
    BY <1>3, <2>1, <2>2, <2>3, ChatNumbers DEF LoadedTill
<1>10. ViewStarts'
  BY <1>1, <1>4, <1>5, <1>8, <1>9 DEF ViewStarts
<1>11. ASSUME NEW m \in 1..count
       PROVE  m \in Elements(view') \cup missed' \cup InFlight' \/ (hasMore' /\ m < view'[1])
  <2>1. CASE m > n
    <3>1. m \in Elements(view) \cup missed \cup InFlight
      BY <1>2, <2>1, ChatNumbers DEF LoadedTill
    <3> QED
      BY <1>1, <1>8, <3>1
  <2>2. CASE m <= n /\ n + 1 - PageSize <= m
    BY <1>2, <1>3, <2>2
  <2>3. CASE m <= n /\ ~(n + 1 - PageSize <= m)
    <3>1. n + 1 > PageSize /\ m < n + 1 - PageSize
      BY <1>2, <2>3, ChatNumbers
    <3> QED
      BY <1>3, <1>9, <3>1
  <2> QED
    BY <1>2, <2>1, <2>2, <2>3
<1>12. AllThere'
  BY <1>1, <1>11 DEF AllThere
<1> QED
  BY <1>1, <1>3, <1>4, <1>5, <1>7, <1>8, <1>10, <1>12
  DEF ChatHolds, Recent, RestKnown, ShownOnce

LEMMA MoreAnswerHolds ==
  ASSUME ChatInv, ChatHolds, MoreAnswer
  PROVE  ChatInv' /\ ChatHolds'
<1>1. /\ page.step = "more" /\ hasMore /\ view # <<>> /\ page.before = view[1]
      /\ \A m \in Elements(view) \cup InFlight : view[1] <= m
      /\ send.step = "answered" => view[1] <= send.id
      /\ \A m \in 1..count : \/ m \in Elements(view) \cup missed \cup InFlight
                             \/ m < view[1]
  BY DEF MoreAnswer, ChatHolds, ViewStarts, AllThere
<1> PICK b \in 1..count : b = view[1]
  BY <1>1, ChatNumbers
<1> PICK older \in Seq(Ids) : older = Before(b)
  BY ChatNumbers, BeforeIs
<1>2. /\ UNCHANGED <<count, posting, wire, link, losses, joining, send, missed, byRest>>
      /\ page' = [step |-> "shown"]
      /\ view' = older \o view /\ hasMore' = (Len(older) = PageSize)
  BY <1>1 DEF MoreAnswer
<1>3. /\ Elements(older) = {x \in 1..(b - 1) : b - PageSize <= x}
      /\ \A i, j \in DOMAIN older : older[i] = older[j] => i = j
      /\ Len(older) = PageSize <=> b > PageSize
      /\ older # <<>> => \A x \in Elements(older) : older[1] <= x
      /\ older = <<>> <=> b = 1
  <2>1. b \in 1..(MaxMessages + 1)
    BY ChatNumbers
  <2>2. /\ Elements(Before(b)) = {x \in 1..(b - 1) : b - PageSize <= x}
        /\ \A i, j \in DOMAIN Before(b) : Before(b)[i] = Before(b)[j] => i = j
        /\ Len(Before(b)) = PageSize <=> b > PageSize
        /\ Before(b) # <<>> => \A x \in Elements(Before(b)) : Before(b)[1] <= x
        /\ Before(b) = <<>> <=> b = 1
    BY <2>1, BeforeIs
  <2> QED
    BY <2>2
<1>4. /\ Len(older) \in Nat /\ DOMAIN older = 1..Len(older)
      /\ Len(view) \in Nat /\ DOMAIN view = 1..Len(view) /\ view \in Seq(Ids)
  BY DEF ChatInv
<1>5. /\ view' \in Seq(Ids) /\ Len(view') = Len(older) + Len(view)
      /\ DOMAIN view' = 1..(Len(older) + Len(view))
      /\ \A i \in 1..(Len(older) + Len(view)) :
           view'[i] = IF i <= Len(older) THEN older[i] ELSE view[i - Len(older)]
  BY <1>2, <1>4, ConcatProperties
<1>6. \A i \in DOMAIN view' :
        \/ i \in DOMAIN older /\ view'[i] = older[i]
        \/ ~(i \in DOMAIN older) /\ i - Len(older) \in DOMAIN view /\ view'[i] = view[i - Len(older)]
  BY <1>4, <1>5
<1>7. Elements(view') = Elements(older) \cup Elements(view)
  <2>1. Elements(view') \subseteq Elements(older) \cup Elements(view)
    BY <1>6 DEF Elements
  <2>2. ASSUME NEW i \in DOMAIN older PROVE i \in DOMAIN view' /\ view'[i] = older[i]
    BY <1>4, <1>5
  <2>3. ASSUME NEW i \in DOMAIN view
        PROVE  i + Len(older) \in DOMAIN view' /\ view'[i + Len(older)] = view[i]
    <3>1. /\ i + Len(older) \in 1..(Len(older) + Len(view)) /\ ~(i + Len(older) <= Len(older))
          /\ (i + Len(older)) - Len(older) = i
      BY <1>4
    <3> QED
      BY <1>5, <3>1
  <2>4. Elements(older) \subseteq Elements(view')
    BY <2>2 DEF Elements
  <2>5. Elements(view) \subseteq Elements(view')
    BY <2>3 DEF Elements
  <2> QED
    BY <2>1, <2>4, <2>5
<1>8. page' \in PageStates /\ page'.step = "shown" /\ hasMore' \in BOOLEAN
  BY <1>2 DEF PageStates
<1>9. Elements(view') \subseteq 1..count
  BY <1>3, <1>7, ChatNumbers
<1>10. ChatInv'
  BY <1>2, <1>5, <1>8, <1>9 DEF ChatInv
<1>11. InFlight' = InFlight
  BY <1>2 DEF InFlight, Storing
<1>12. hasMore' <=> b > PageSize
  BY <1>2, <1>3
<1>13. ASSUME b > PageSize PROVE view' # <<>> /\ view'[1] = b - PageSize
  <2>1. older # <<>> /\ b - PageSize \in Elements(older)
    BY <1>3, <1>13, ChatNumbers
  <2>2. Len(older) # 0
    BY <1>4, <2>1, EmptySeq
  <2>3. 1 \in DOMAIN older /\ 1 \in DOMAIN view' /\ view'[1] = older[1]
    BY <1>4, <1>5, <2>2
  <2>4. older[1] \in Elements(older) /\ older[1] <= b - PageSize
    BY <1>3, <2>1, <2>3 DEF Elements
  <2> QED
    BY <1>3, <2>3, <2>4, ChatNumbers
<1>14. ASSUME b > PageSize, NEW m \in Elements(view') \cup InFlight PROVE view'[1] <= m
  <2>1. CASE m \in Elements(older)
    BY <1>3, <1>13, <1>14, <2>1, ChatNumbers
  <2>2. CASE m \in Elements(view) \cup InFlight
    BY <1>1, <1>13, <1>14, <2>2, ChatNumbers
  <2> QED
    BY <1>7, <1>14, <2>1, <2>2
<1>15. ASSUME b > PageSize, send.step = "answered" PROVE view'[1] <= send.id
  <2>1. send.id \in Ids
    BY <1>15 DEF ChatInv, SendStates
  <2> QED
    BY <1>1, <1>13, <1>15, <2>1, ChatNumbers DEF Ids
<1>16. ViewStarts'
  BY <1>2, <1>8, <1>11, <1>12, <1>13, <1>14, <1>15 DEF ViewStarts
<1>17. ASSUME NEW i \in DOMAIN view', NEW j \in DOMAIN view', view'[i] = view'[j], view'[i] \notin byRest
       PROVE  i = j
  <2>1. ASSUME NEW k \in DOMAIN older PROVE older[k] < b
    <3>1. older[k] \in Elements(older)
      BY DEF Elements
    <3>2. older[k] \in 1..(b - 1)
      BY <1>3, <3>1
    <3> QED
      BY <3>2, ChatNumbers
  <2>2. \A k \in DOMAIN view : b <= view[k]
    BY <1>1 DEF Elements
  <2>3. \A k \in DOMAIN older : older[k] \in Int
    BY <1>3, ChatNumbers DEF Elements
  <2>4. \A k \in DOMAIN view : view[k] \in Int
    BY ChatNumbers DEF Elements
  <2>5. CASE i \in DOMAIN older /\ j \in DOMAIN older
    BY <1>3, <1>6, <1>17, <2>5
  <2>6. CASE ~(i \in DOMAIN older) /\ ~(j \in DOMAIN older)
    <3>1. /\ i - Len(older) \in DOMAIN view /\ view'[i] = view[i - Len(older)]
          /\ j - Len(older) \in DOMAIN view /\ view'[j] = view[j - Len(older)]
      BY <1>6, <2>6
    <3>2. i - Len(older) = j - Len(older)
      BY <1>17, <3>1 DEF ChatHolds, ShownOnce
    <3> QED
      BY <1>4, <1>5, <3>2
  <2>7. CASE i \in DOMAIN older /\ ~(j \in DOMAIN older)
    BY <1>6, <1>17, <2>1, <2>2, <2>3, <2>4, <2>7
  <2>8. CASE ~(i \in DOMAIN older) /\ j \in DOMAIN older
    BY <1>6, <1>17, <2>1, <2>2, <2>3, <2>4, <2>8
  <2> QED
    BY <2>5, <2>6, <2>7, <2>8
<1>18. ShownOnce'
  BY <1>2, <1>17 DEF ShownOnce
<1>19. ASSUME NEW m \in 1..count
       PROVE  m \in Elements(view') \cup missed \cup InFlight \/ (hasMore' /\ m < view'[1])
  <2>1. CASE m \in Elements(view) \cup missed \cup InFlight
    BY <1>7, <2>1
  <2>2. CASE m < b /\ b - PageSize <= m
    BY <1>3, <1>7, <2>2, ChatNumbers
  <2>3. CASE m < b - PageSize
    BY <1>12, <1>13, <2>3, ChatNumbers
  <2> QED
    BY <1>1, <2>1, <2>2, <2>3, ChatNumbers
<1>20. AllThere'
  BY <1>2, <1>11, <1>19 DEF AllThere
<1> QED
  BY <1>2, <1>8, <1>10, <1>11, <1>16, <1>18, <1>20 DEF ChatHolds, Recent, RestKnown

(* A message is stored, and is in flight then.                             *)
LEMMA StoresHolds ==
  ASSUME ChatInv, ChatHolds, MayStore, count' = count + 1,
         UNCHANGED <<page, view, hasMore, missed>>, InFlight' = InFlight \cup {count + 1},
         byRest \subseteq byRest', RestKnown',
         send'.step = "answered" => send.step = "answered" /\ send'.id = send.id
  PROVE  ChatHolds'
<1>1. ASSUME NEW m \in InFlight PROVE count + 1 - m < PageSize
  BY <1>1 DEF MayStore, InFlight, Elements, Storing
<1>2. Recent'
  BY <1>1, ChatNumbers DEF Recent
<1>3. ShownOnce'
  BY DEF ChatHolds, ShownOnce
<1>4. ViewStarts'
  BY ChatNumbers DEF ChatHolds, ViewStarts
<1>5. ASSUME NEW n \in 0..count, LoadedTill(n) PROVE n \in 0..count' /\ LoadedTill(n)'
  BY <1>5, ChatNumbers DEF LoadedTill
<1>6. AllThere => AllThere'
  BY ChatNumbers DEF AllThere
<1> QED
  BY <1>2, <1>3, <1>4, <1>5, <1>6 DEF ChatHolds

LEMMA PostHolds ==
  ASSUME ChatInv, ChatHolds, PeerPosts \/ SendStore
  PROVE  ChatInv' /\ ChatHolds'
<1>1. count < MaxMessages /\ count' = count + 1 /\ count + 1 \in Ids /\ count' \in 0..MaxMessages
  BY ChatNumbers DEF PeerPosts, SendStore, MayStore, Ids
<1>2. 1..count \subseteq 1..count' /\ count + 1 \in 1..count'
  BY <1>1, ChatNumbers
<1>3. CASE PeerPosts
  <2>1. /\ UNCHANGED <<wire, link, losses, page, joining, view, hasMore, send, missed, byRest>>
        /\ posting' = posting \cup {count + 1} /\ MayStore
    BY <1>3 DEF PeerPosts
  <2>2. send.step # "none" => send.id <= count'
    <3>1. send.step # "none" => send.id \in Int
      BY DEF ChatInv, SendStates, Ids
    <3> QED
      BY <1>1, <3>1, ChatNumbers DEF ChatInv
  <2>3. ChatInv'
    BY <1>1, <1>2, <2>1, <2>2 DEF ChatInv
  <2>4. InFlight' = InFlight \cup {count + 1}
    BY <2>1 DEF InFlight, Storing
  <2>5. RestKnown'
    BY <2>1 DEF ChatHolds, RestKnown
  <2> QED
    BY <1>1, <2>1, <2>3, <2>4, <2>5, StoresHolds
<1>4. CASE SendStore
  <2> PICK via \in Vias : send = [step |-> "asked", via |-> via, id |-> 0]
    BY <1>4 DEF SendStore, ChatInv, SendStates
  <2>1. /\ UNCHANGED <<posting, wire, link, losses, page, joining, view, hasMore, missed>>
        /\ send' = [step |-> "stored", via |-> via, id |-> count + 1]
        /\ byRest' = IF via \in Rest THEN byRest \cup {count + 1} ELSE byRest
        /\ MayStore /\ send.step = "asked"
    BY <1>4 DEF SendStore
  <2>2. /\ send' \in SendStates /\ send'.step = "stored" /\ send'.id = count + 1 /\ send'.via = via
    BY <1>1, <2>1 DEF SendStates
  <2>3. ChatInv'
    BY <1>1, <1>2, <2>1, <2>2, ChatNumbers DEF ChatInv
  <2>4. InFlight' = InFlight \cup {count + 1}
    BY <1>1, <2>1, <2>2 DEF InFlight, Storing
  <2>5. RestKnown'
    BY <2>1, <2>2 DEF RestKnown
  <2> QED
    BY <1>1, <2>1, <2>2, <2>3, <2>4, <2>5, StoresHolds
<1> QED
  BY <1>3, <1>4

(* A message is shown at the end, when it is not yet, or was sent by REST. *)
LEMMA ShowsAtEnd ==
  ASSUME ChatInv, ChatHolds, NEW m \in 1..count, view' = Append(view, m),
         m \notin Elements(view) \/ m \in byRest, hasMore => view[1] <= m,
         InFlight' \subseteq InFlight, InFlight \subseteq InFlight' \cup {m},
         UNCHANGED <<count, page, hasMore, missed, byRest>>, RestKnown',
         send'.step = "answered" => send.step = "answered" /\ send'.id = send.id
  PROVE  /\ view' \in Seq(Ids) /\ Elements(view') \subseteq 1..count
         /\ ChatHolds'
<1>1. m \in Ids
  BY ChatNumbers DEF Ids
<1>2. /\ view' \in Seq(Ids) /\ view' # <<>> /\ Elements(view') = Elements(view) \cup {m}
      /\ view # <<>> => view'[1] = view[1]
  BY <1>1, AppendElements DEF ChatInv
<1>3. /\ Len(view') = Len(view) + 1 /\ Len(view) \in Nat
      /\ DOMAIN view = 1..Len(view) /\ DOMAIN view' = 1..(Len(view) + 1)
      /\ \A i \in 1..Len(view) : view'[i] = view[i]
      /\ view'[Len(view) + 1] = m
  BY <1>1, <1>2, AppendProperties DEF ChatInv
<1>4. ShownOnce'
  <2>1. SUFFICES ASSUME NEW i \in DOMAIN view', NEW j \in DOMAIN view',
                        view'[i] = view'[j], view'[i] \notin byRest
                 PROVE  i = j
    BY DEF ShownOnce
  <2>2. ASSUME NEW k \in DOMAIN view', k # Len(view) + 1 PROVE k \in DOMAIN view /\ view'[k] = view[k]
    BY <1>3, <2>2
  <2>3. CASE i \in DOMAIN view /\ j \in DOMAIN view
    BY <1>3, <2>1, <2>3 DEF ChatHolds, ShownOnce
  <2>4. CASE i = Len(view) + 1 \/ j = Len(view) + 1
    <3>1. view'[i] = m /\ m \notin Elements(view)
      BY <1>3, <2>1, <2>4
    <3>2. ASSUME NEW k \in DOMAIN view', view'[k] = m PROVE k = Len(view) + 1
      BY <2>2, <3>1, <3>2 DEF Elements
    <3> QED
      BY <2>1, <3>1, <3>2
  <2> QED
    BY <2>2, <2>3, <2>4
<1>5. hasMore => view'[1] = view[1]
  BY <1>2 DEF ChatHolds, ViewStarts
<1>6. ViewStarts'
  BY <1>2, <1>5 DEF ChatHolds, ViewStarts
<1>7. ASSUME NEW n \in 0..count, LoadedTill(n) PROVE LoadedTill(n)'
  BY <1>2, <1>7 DEF LoadedTill
<1>8. AllThere => AllThere'
  BY <1>2, <1>5 DEF AllThere
<1>9. Recent'
  BY DEF ChatHolds, Recent
<1> QED
  BY <1>2, <1>4, <1>6, <1>7, <1>8, <1>9 DEF ChatHolds, ChatInv

LEMMA NewMessageHolds ==
  ASSUME ChatInv, ChatHolds, NewMessage
  PROVE  ChatInv' /\ ChatHolds'
<1>1. /\ UNCHANGED <<count, posting, link, losses, page, joining, hasMore, send, missed, byRest>>
      /\ wire # <<>> /\ wire' = Tail(wire)
      /\ view' = IF Head(wire) \in Elements(view) THEN view ELSE Append(view, Head(wire))
  BY DEF NewMessage, Shown, Elements
<1>2. wire' \in Seq(Ids) /\ Elements(wire) = Elements(wire') \cup {Head(wire)}
  BY <1>1, TailElements DEF ChatInv
<1> PICK m \in 1..count : m = Head(wire)
  BY <1>2 DEF ChatInv
<1>3. InFlight' \subseteq InFlight /\ InFlight \subseteq InFlight' \cup {m} /\ m \in InFlight
  BY <1>1, <1>2 DEF InFlight, Storing
<1>4. RestKnown'
  BY <1>1 DEF ChatHolds, RestKnown
<1>5. CASE m \in Elements(view)
  <2>1. view' = view
    BY <1>1, <1>5
  <2>2. ChatInv'
    BY <1>1, <1>2, <2>1 DEF ChatInv
  <2>3. Recent' /\ ShownOnce' /\ ViewStarts'
    BY <1>1, <1>3, <2>1 DEF ChatHolds, Recent, ShownOnce, ViewStarts
  <2>4. ASSUME NEW n \in 0..count, LoadedTill(n) PROVE LoadedTill(n)'
    BY <1>1, <1>3, <1>5, <2>1, <2>4 DEF LoadedTill
  <2>5. AllThere => AllThere'
    BY <1>1, <1>3, <1>5, <2>1 DEF AllThere
  <2> QED
    BY <1>1, <1>4, <2>2, <2>3, <2>4, <2>5 DEF ChatHolds
<1>6. CASE m \notin Elements(view)
  <2>1. view' = Append(view, m)
    BY <1>1, <1>6
  <2>2. hasMore => view[1] <= m
    BY <1>3 DEF ChatHolds, ViewStarts
  <2>3. view' \in Seq(Ids) /\ Elements(view') \subseteq 1..count /\ ChatHolds'
    BY <1>1, <1>3, <1>4, <1>6, <2>1, <2>2, ShowsAtEnd
  <2> QED
    BY <1>1, <1>2, <2>3 DEF ChatInv
<1> QED
  BY <1>5, <1>6

LEMMA SendAnswerHolds ==
  ASSUME ChatInv, ChatHolds, SendAnswer
  PROVE  ChatInv' /\ ChatHolds'
<1> PICK via \in Vias, m \in Ids, ok \in BOOLEAN :
      send = [step |-> "answered", via |-> via, id |-> m, ok |-> ok]
  BY DEF SendAnswer, ChatInv, SendStates
<1>1. send.step = "answered" /\ send.via = via /\ send.id = m /\ send.ok = ok
  OBVIOUS
<1>2. /\ UNCHANGED <<count, posting, wire, link, losses, page, joining, hasMore, missed, byRest>>
      /\ view' = IF via \in Rest /\ ok THEN Append(view, m) ELSE view
      /\ send' = IF via # "lost" /\ ok THEN [step |-> "none"] ELSE AfterError(m)
  BY <1>1 DEF SendAnswer
<1>3. \/ send' = [step |-> "stuck", via |-> "lost", id |-> m]
      \/ send' = [step |-> "asked", via |-> "again", id |-> 0]
      \/ send' = [step |-> "none"]
  BY <1>2 DEF AfterError
<1>4. /\ send' \in SendStates /\ send'.step \in {"stuck", "asked", "none"}
      /\ send'.step # "none" => send'.id \in {0, m}
  BY <1>3 DEF SendStates, Vias
<1>5. page.step \in {"shown", "more"} /\ m \in 1..count
  BY <1>1, ChatNumbers DEF ChatInv, Ids
<1>6. InFlight' = InFlight /\ RestKnown'
  BY <1>1, <1>2, <1>4 DEF InFlight, Storing, RestKnown
<1>7. send'.step # "none" => send'.id <= count
  BY <1>4, <1>5, ChatNumbers
<1>8. CASE via \in Rest /\ ok
  <2>1. view' = Append(view, m)
    BY <1>2, <1>8
  <2>2. m \in byRest /\ (hasMore => view[1] <= m)
    BY <1>1, <1>8 DEF ChatHolds, RestKnown, ViewStarts
  <2>3. view' \in Seq(Ids) /\ Elements(view') \subseteq 1..count /\ ChatHolds'
    BY <1>2, <1>4, <1>5, <1>6, <2>1, <2>2, ShowsAtEnd
  <2> QED
    BY <1>2, <1>4, <1>5, <1>7, <2>3 DEF ChatInv
<1>9. CASE ~(via \in Rest /\ ok)
  <2>1. view' = view
    BY <1>2, <1>9
  <2>2. ChatInv'
    BY <1>2, <1>4, <1>5, <1>7, <2>1 DEF ChatInv
  <2> QED
    BY <1>2, <1>4, <1>6, <2>1, <2>2, ChatMoves
<1> QED
  BY <1>8, <1>9

LEMMA ChatNextHolds ==
  ASSUME ChatInv, ChatHolds, [ChatNext]_chatVars
  PROVE  ChatInv' /\ ChatHolds'
<1>1. CASE UNCHANGED chatVars
  <2>1. ChatInv'
    BY <1>1 DEF chatVars, ChatInv
  <2>2. InFlight' = InFlight /\ RestKnown'
    BY <1>1 DEF chatVars, InFlight, Storing, ChatHolds, RestKnown
  <2> QED
    BY <1>1, <2>1, <2>2, ChatMoves DEF chatVars
<1> QED
  BY <1>1, LinkHolds, OpenHolds, LoadAnswerHolds, MoreAnswerHolds, CloseHolds, PostHolds,
     PeerNotifiesHolds, NewMessageHolds, SendHolds, SendAnswerHolds DEF ChatNext

(* The page never shows a message twice, whatever it hears by its load, by *)
(* the socket and of older messages, but for those it sent by REST.        *)
THEOREM MessagesShowOnce == ChatSpec => []ShownOnce
<1>1. ChatHolds => ShownOnce
  BY DEF ChatHolds
<1> QED
  BY <1>1, ChatInitHolds, ChatNextHolds, PTL DEF ChatSpec

(* The page shows every message stored, once all is quiet, but for older   *)
(* ones it offers to load, and those it could not hear of or overwrote.    *)
THEOREM MessagesAllShow == ChatSpec => []ShowsAll
<1>1. ChatInv /\ ChatHolds => ShowsAll
  <2> SUFFICES ASSUME ChatInv, ChatHolds, page.step = "shown", wire = <<>>, posting = {},
                      send.step \in {"none", "stuck"}, NEW m \in 1..count
               PROVE  m \in Shown \cup missed \/ (hasMore /\ \A n \in Shown : m < n)
    BY DEF ShowsAll
  <2>1. InFlight = {}
    BY DEF InFlight, Storing, Elements
  <2>2. Shown = Elements(view)
    BY DEF Shown, Elements
  <2>3. m \in Elements(view) \cup missed \/ (hasMore /\ m < view[1])
    BY <2>1 DEF ChatHolds, AllThere
  <2>4. ASSUME hasMore, m < view[1], NEW n \in Elements(view) PROVE m < n
    <3>1. view[1] <= n /\ view # <<>>
      BY <2>4 DEF ChatHolds, ViewStarts
    <3> QED
      BY <2>4, <3>1, ChatNumbers
  <2> QED
    BY <2>2, <2>3, <2>4
<1> QED
  BY <1>1, ChatInitHolds, ChatNextHolds, PTL DEF ChatSpec

-------------------------------------------------------------------------------
(* The bells.                                                              *)
FetchStates ==
  {NoRequest} \cup [step : {"sent"}] \cup [step : {"answered"}, count : 0..Cardinality(Notifs)]

LEMMA SendsFetches ==
  ASSUME fetch \in [Fetches -> FetchStates], NEW f \in Sends(fetch)
  PROVE  f \in [Fetches -> FetchStates]
<1>1. [step |-> "sent"] \in FetchStates
  BY DEF FetchStates
<1>2. f = fetch \/ \E g \in Fetches : f = [fetch EXCEPT ![g] = [step |-> "sent"]]
  BY DEF Sends
<1> QED
  BY <1>1, <1>2

LEMMA NotificationTypeInit == NotificationInit => NotificationTypeOK
<1> SUFFICES ASSUME NotificationInit PROVE NotificationTypeOK
  OBVIOUS
<1>1. Cardinality(Notifs) \in Nat
  BY NotificationAssumption, FS_CardinalityType
<1> QED
  BY <1>1 DEF NotificationInit, NotificationTypeOK

LEMMA NotificationTypeNext ==
  ASSUME NotificationTypeOK, [NotificationNext]_notificationVars
  PROVE  NotificationTypeOK'
<1>1. Cardinality(Notifs) \in Nat
  BY NotificationAssumption, FS_CardinalityType
<1>2. Unread \subseteq Notifs /\ Cardinality(Unread) \in 0..Cardinality(Notifs)
  BY <1>1, NotificationAssumption, FS_Subset, FS_CardinalityType DEF Unread
<1>3. fetch \in [Fetches -> FetchStates] /\ NoRequest \in FetchStates
  BY DEF NotificationTypeOK, FetchStates
<1>4. ASSUME NEW f \in Sends(fetch) PROVE f \in [Fetches -> FetchStates]
  BY <1>3, <1>4, SendsFetches
<1>5. ASSUME NEW n \in Notifs, Notify(n) \/ Remove(n) \/ RemoveFromList(n) \/ MarkAsRead(n)
      PROVE  NotificationTypeOK'
  <2>1. CASE Notify(n)
    BY <1>3, <1>4, <2>1 DEF Notify, NotificationTypeOK, FetchStates
  <2>2. CASE Remove(n)
    BY <2>2 DEF Remove, NotificationTypeOK
  <2>3. CASE MarkAsRead(n)
    BY <2>3 DEF MarkAsRead, NotificationTypeOK
  <2>4. CASE RemoveFromList(n)
    <3>1. badge' \in 0..Cardinality(Notifs)
      BY <1>1, <2>4 DEF RemoveFromList, NotificationTypeOK
    <3> QED
      BY <2>4, <3>1 DEF RemoveFromList, NotificationTypeOK
  <2> QED
    BY <1>5, <2>1, <2>2, <2>3, <2>4
<1>6. CASE Poll
  BY <1>4, <1>6 DEF Poll, NotificationTypeOK, FetchStates
<1>7. CASE OpenMenu \/ GetForUser
  BY <1>2, <1>7 DEF OpenMenu, GetForUser, NotificationTypeOK
<1>8. CASE SetNotifications
  <2>1. listing.unread \subseteq Notifs
    BY <1>8 DEF SetNotifications, NotificationTypeOK, NoRequest
  <2> QED
    BY <1>4, <1>8, <2>1 DEF SetNotifications, NotificationTypeOK, FetchStates
<1>9. CASE MarkAllAsRead
  BY <1>9 DEF MarkAllAsRead, NotificationTypeOK
<1>10. CASE MarkWrite
  <2>1. marking \in [step : {"sent", "answered"}, all : BOOLEAN, notifs : SUBSET Notifs]
    BY <1>10 DEF MarkWrite, NotificationTypeOK, NoRequest
  <2>2. marking' \in {NoRequest} \cup [step : {"sent", "answered"}, all : BOOLEAN, notifs : SUBSET Notifs]
    BY <1>10, <2>1 DEF MarkWrite
  <2>3. notif' \in [Notifs -> {"none", "unread", "read"}]
    BY <1>10 DEF MarkWrite, NotificationTypeOK
  <2> QED
    BY <1>10, <2>2, <2>3 DEF MarkWrite, NotificationTypeOK
<1>11. CASE MarkAnswer
  <2>1. badge' \in 0..Cardinality(Notifs)
    BY <1>1, <1>11 DEF MarkAnswer, NotificationTypeOK
  <2> QED
    BY <1>11, <2>1 DEF MarkAnswer, NotificationTypeOK
<1>12. ASSUME NEW f \in Fetches, GetUnreadCount(f) \/ CountFails(f) \/ SetUnreadCount(f)
       PROVE  NotificationTypeOK'
  <2>1. CASE GetUnreadCount(f)
    <3>1. [step |-> "answered", count |-> Cardinality(Unread)] \in FetchStates
      BY <1>2 DEF FetchStates
    <3> QED
      BY <1>3, <2>1, <3>1 DEF GetUnreadCount, NotificationTypeOK, FetchStates
  <2>2. CASE CountFails(f)
    BY <1>3, <2>2 DEF CountFails, NotificationTypeOK, FetchStates
  <2>3. CASE SetUnreadCount(f)
    <3>1. fetch[f] \in [step : {"answered"}, count : 0..Cardinality(Notifs)]
      BY <1>3, <2>3 DEF SetUnreadCount, FetchStates, NoRequest
    <3> QED
      BY <1>3, <2>3, <3>1 DEF SetUnreadCount, NotificationTypeOK, FetchStates
  <2> QED
    BY <1>12, <2>1, <2>2, <2>3
<1>13. CASE UNCHANGED notificationVars
  BY <1>13 DEF notificationVars, NotificationTypeOK
<1> QED
  BY <1>5, <1>6, <1>7, <1>8, <1>9, <1>10, <1>11, <1>12, <1>13 DEF NotificationNext

AskStates == {NotAsked} \cup [step : {"sent", "failed"}] \cup [step : {"answered"}, count : {0, 1}]

LEMMA AskingAsks ==
  ASSUME NEW a, a \in [Asks -> AskStates], NEW b \in Asking(a)
  PROVE  b \in [Asks -> AskStates]
<1>1. [step |-> "sent"] \in AskStates
  BY DEF AskStates
<1>2. b = a \/ \E g \in Asks : b = [a EXCEPT ![g] = [step |-> "sent"]]
  BY DEF Asking
<1> QED
  BY <1>1, <1>2

LEMMA MessageBellTypeInit == MessageBellInit => MessageBellTypeOK
BY DEF MessageBellInit, MessageBellTypeOK

LEMMA MessageBellTypeNext ==
  ASSUME MessageBellTypeOK, [MessageBellNext]_messageBellVars
  PROVE  MessageBellTypeOK'
<1>1. asked \in [Asks -> AskStates] /\ NotAsked \in AskStates
  BY DEF MessageBellTypeOK, AskStates
<1>2. CASE MessageArrives \/ MessageSent \/ MessagesRead \/ MessagePoll
  <2>1. asked' \in [Asks -> AskStates]
    BY <1>1, <1>2, AskingAsks DEF MessageArrives, MessageSent, MessagesRead, MessagePoll
  <2>2. latest' \in {"own", "read", "unread"} /\ UNCHANGED <<counter, apiError>>
    BY <1>2 DEF MessageArrives, MessageSent, MessagesRead, MessagePoll, MessageBellTypeOK
  <2> QED
    BY <2>1, <2>2 DEF MessageBellTypeOK, AskStates
<1>3. ASSUME NEW a \in Asks, GetUserConversations(a) PROVE MessageBellTypeOK'
  <2>1. UnreadCount \in {0, 1}
    BY DEF UnreadCount
  <2>2. /\ [step |-> "answered", count |-> UnreadCount] \in AskStates
        /\ [step |-> "failed"] \in AskStates
    BY <2>1 DEF AskStates
  <2>3. asked' \in [Asks -> AskStates] /\ UNCHANGED <<latest, counter, apiError>>
    BY <1>1, <1>3, <2>2 DEF GetUserConversations
  <2> QED
    BY <2>3 DEF MessageBellTypeOK, AskStates
<1>4. ASSUME NEW a \in Asks, SetConversations(a) PROVE MessageBellTypeOK'
  <2>1. asked[a].step = "answered" => asked[a].count \in {0, 1}
    BY <1>1 DEF AskStates, NotAsked
  <2>2. counter' \in {0, 1} /\ latest' = latest
    BY <1>4, <2>1 DEF SetConversations
  <2>3. apiError' \in BOOLEAN
    BY <1>4 DEF SetConversations
  <2> PICK rest \in [Asks -> AskStates] : rest = [asked EXCEPT ![a] = NotAsked]
    BY <1>1
  <2>4. asked' = rest \/ asked' \in Asking(rest)
    BY <1>4 DEF SetConversations
  <2>5. asked' \in [Asks -> AskStates]
    BY <2>4, AskingAsks
  <2> QED
    BY <2>2, <2>3, <2>5 DEF MessageBellTypeOK, AskStates
<1>5. CASE UNCHANGED messageBellVars
  BY <1>5 DEF messageBellVars, MessageBellTypeOK
<1> QED
  BY <1>2, <1>3, <1>4, <1>5 DEF MessageBellNext
-------------------------------------------------------------------------------
(* A step of the client is a step of one part, and the others stay.        *)
LEMMA ClientNextIsEach ==
  ASSUME [ClientNext]_clientVars
  PROVE  /\ [ChatNext]_chatVars /\ [TabNext]_tabVars /\ [SearchNext]_searchVars
         /\ [NotificationNext]_notificationVars /\ [MessageBellNext]_messageBellVars
BY Zenon DEF ClientNext, clientVars, parts

(* Whatever is proved of the behaviours of one part holds of the client.   *)
THEOREM ClientIsEach == ClientSpec => ChatSpec /\ TabSpec /\ SearchSpec
<1>1. ClientInit => ChatInit /\ TabInit /\ SearchInit
  BY DEF ClientInit
<1> QED
  BY <1>1, ClientNextIsEach, PTL DEF ClientSpec, ChatSpec, TabSpec, SearchSpec

(* Every variable of every part keeps its type: in particular no badge is  *)
(* below nothing or above the number of notifications.                     *)
THEOREM ClientTypeCorrect == ClientSpec => []ClientTypeOK
<1>1. ChatSpec => []ChatTypeOK
  <2>1. ChatInv => ChatTypeOK
    <3> SUFFICES ASSUME ChatInv PROVE ChatTypeOK
      OBVIOUS
    <3>1. posting \subseteq Ids /\ missed \subseteq Ids /\ byRest \subseteq Ids
      BY ChatNumbers DEF ChatInv, Ids
    <3>2. \A s \in {wire, view} : \A i \in DOMAIN s : s[i] \in Ids
      BY ChatNumbers DEF ChatInv, Elements, Ids
    <3>3. page.step \in {"closed", "loading", "loaded", "shown", "more"}
      BY DEF ChatInv, PageStates
    <3>4. /\ send.step \in {"none", "asked", "stored", "answered", "stuck"}
          /\ send.step # "none" => send.via \in {"socket", "rest", "again", "lost"} /\ page.step # "closed"
      BY DEF ChatInv, SendStates, Vias
    <3> QED
      BY <3>1, <3>2, <3>3, <3>4 DEF ChatInv, ChatTypeOK
  <2> QED
    BY <2>1, ChatInitHolds, ChatNextHolds, PTL DEF ChatSpec
<1>2. TabSpec => []TabTypeOK
  <2>1. TabInv => TabTypeOK
    <3> SUFFICES ASSUME TabInv PROVE TabTypeOK
      OBVIOUS
    <3>1. \A i \in DOMAIN events : events[i].poll \in Polls /\ events[i].changes \in 1..Gone
      BY EventRecord
    <3>2. tab.step \in {"closed", "loading", "loaded", "shown", "error"}
      BY DEF TabInv, TabStates
    <3> QED
      BY <3>1, <3>2 DEF TabInv, TabTypeOK
  <2> QED
    BY <2>1, TabInitHolds, TabNextHolds, PTL DEF TabSpec
<1>3. SearchSpec => []SearchTypeOK
  <2>1. SearchInv => SearchTypeOK
    BY DEF SearchInv, SearchTypeOK, Question, NoQuery
  <2> QED
    BY <2>1, SearchInitInv, SearchInvNext, PTL DEF SearchSpec
<1>4. ClientInit => NotificationTypeOK /\ MessageBellTypeOK
  BY NotificationTypeInit, MessageBellTypeInit DEF ClientInit
<1>5. NotificationTypeOK /\ MessageBellTypeOK /\ [ClientNext]_clientVars
      => (NotificationTypeOK /\ MessageBellTypeOK)'
  BY ClientNextIsEach, NotificationTypeNext, MessageBellTypeNext
<1>6. ClientSpec => [](NotificationTypeOK /\ MessageBellTypeOK)
  BY <1>4, <1>5, PTL DEF ClientSpec
<1> QED
  BY <1>1, <1>2, <1>3, <1>6, ClientIsEach, PTL DEF ClientTypeOK
===============================================================================
