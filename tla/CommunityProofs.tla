--------------------------- MODULE CommunityProofs ---------------------------
(***************************************************************************)
(* Proofs about Participation, and about Community, which adds a poll or a *)
(* list of items to it, for every finite set of people and of options,     *)
(* every stock of places, set of items and number of handlers in flight.   *)
(***************************************************************************)
EXTENDS Community, FiniteSetTheorems, TLAPS

(* What a handler of any of the three has in hand.                         *)
AnyHand == ParticipationHand \cup PollHand \cup ItemHand

(* The request an answer is about is in the table: rows are never deleted. *)
AnswersExist ==
  \A h \in Hands : hand[h].step = "answerWrite" => hand[h].user \in DOMAIN participation

ParticipationInv ==
  /\ ParticipationTypeOK
  /\ hand \in [Hands -> AnyHand]
  /\ AnswersExist

LEMMA HandStates ==
  /\ Idle \in AnyHand /\ Idle.step = "idle"
  /\ \A u \in People, n \in Int : [step |-> "askCount", user |-> u, left |-> n] \in AnyHand
  /\ \A u \in People, step \in {"askWrite", "askNotify"} :
       [step |-> step, user |-> u] \in AnyHand
  /\ \A u \in People, status \in {"ACCEPTED", "REFUSED"} :
       [step |-> "answerWrite", user |-> u, status |-> status] \in AnyHand
BY DEF AnyHand, ParticipationHand, Idle

(* What a handler has in hand. *)
LEMMA HandHolds ==
  ASSUME ParticipationInv, NEW h \in Hands
  PROVE  /\ hand[h].step \in {"askCount", "askWrite", "askNotify", "answerWrite"}
              => hand[h].user \in People
         /\ hand[h].step = "answerWrite"
              => /\ hand[h].user \in DOMAIN participation
                 /\ hand[h].status \in {"ACCEPTED", "REFUSED"}
BY DEF ParticipationInv, AnswersExist, AnyHand, ParticipationHand, PollHand, ItemHand, Idle

(* A handler moves on while the table only gains rows. *)
LEMMA InHandKeeps ==
  ASSUME ParticipationInv, NEW h \in Hands, NEW state \in AnyHand, InHand(h, state),
         state.step = "answerWrite" => state.user \in DOMAIN participation',
         DOMAIN participation \subseteq DOMAIN participation'
  PROVE  hand' \in [Hands -> AnyHand] /\ AnswersExist'
BY DEF ParticipationInv, AnswersExist, InHand

(* What an answer writes, row by row. *)
LEMMA AnswerWritten ==
  ASSUME ParticipationInv, NEW h \in Hands, AnswerWrite(h)
  PROVE  /\ hand[h].user \in DOMAIN participation /\ hand[h].user \in People
         /\ hand[h].status \in {"ACCEPTED", "REFUSED"}
         /\ DOMAIN participation' = DOMAIN participation
         /\ participation'[hand[h].user] = hand[h].status
         /\ \A v \in DOMAIN participation \ {hand[h].user} : participation'[v] = participation[v]
         /\ participation' \in [DOMAIN participation' -> RequestStatus]
BY HandHolds DEF AnswerWrite, ParticipationInv, ParticipationTypeOK, RequestStatus

LEMMA ParticipationInvInit == ParticipationInit => ParticipationInv
<1> SUFFICES ASSUME ParticipationInit PROVE ParticipationInv
  OBVIOUS
<1>1. ParticipationTypeOK
  <2>1. DOMAIN participation = {} /\ participation \in [DOMAIN participation -> RequestStatus]
    BY DEF ParticipationInit, NoRows
  <2>2. places \in Int
    BY ParticipationAssumption DEF ParticipationInit
  <2> QED
    BY <2>1, <2>2 DEF ParticipationInit, ParticipationTypeOK
<1>2. hand \in [Hands -> AnyHand] /\ AnswersExist
  BY HandStates DEF ParticipationInit, AnswersExist
<1> QED
  BY <1>1, <1>2 DEF ParticipationInv

LEMMA ParticipationInvNext ==
  ParticipationInv /\ [ParticipationNext]_participationVars => ParticipationInv'
<1> SUFFICES ASSUME ParticipationInv, [ParticipationNext]_participationVars
             PROVE  ParticipationInv'
  OBVIOUS
<1>1. ASSUME NEW h \in Hands, NEW u \in People, Ask(h, u) PROVE ParticipationInv'
  <2>1. hand' \in [Hands -> AnyHand] /\ AnswersExist'
    BY <1>1, HandStates, InHandKeeps
    DEF Ask, eventTables, ParticipationInv, ParticipationTypeOK
  <2> QED
    BY <1>1, <2>1 DEF Ask, eventTables, ParticipationInv, ParticipationTypeOK
<1>2. ASSUME NEW h \in Hands, AskCount(h) PROVE ParticipationInv'
  <2>1. hand[h].user \in People
    BY <1>2, HandHolds DEF AskCount
  <2>2. PICK state \in {Idle, [step |-> "askWrite", user |-> hand[h].user]} : InHand(h, state)
    BY <1>2 DEF AskCount
  <2>3. state \in AnyHand
    BY <2>1, HandStates
  <2>5. state.step # "answerWrite"
    BY HandStates
  <2>4. hand' \in [Hands -> AnyHand] /\ AnswersExist'
    BY <1>2, <2>2, <2>3, <2>5, InHandKeeps DEF AskCount
  <2> QED
    BY <1>2, <2>1, <2>4 DEF AskCount, ParticipationInv, ParticipationTypeOK
<1>3. ASSUME NEW h \in Hands, AskWrite(h) PROVE ParticipationInv'
  <2>1. hand[h].user \in People
    BY <1>3, HandHolds DEF AskWrite
  <2>2. CASE hand[h].user \in DOMAIN participation
    <3>1. hand' \in [Hands -> AnyHand] /\ AnswersExist'
      BY <1>3, <2>2, HandStates, InHandKeeps DEF AskWrite
    <3> QED
      BY <1>3, <2>2, <3>1 DEF AskWrite, ParticipationInv, ParticipationTypeOK
  <2>3. CASE hand[h].user \notin DOMAIN participation
    <3>1. /\ DOMAIN participation' = DOMAIN participation \cup {hand[h].user}
          /\ participation' \in [DOMAIN participation' -> RequestStatus]
      BY <1>3, <2>3 DEF AskWrite, Put, ParticipationInv, ParticipationTypeOK, RequestStatus
    <3>2. hand' \in [Hands -> AnyHand] /\ AnswersExist'
      BY <1>3, <2>1, <2>3, <3>1, HandStates, InHandKeeps DEF AskWrite
    <3> QED
      BY <1>3, <2>1, <3>1, <3>2 DEF AskWrite, ParticipationInv, ParticipationTypeOK
  <2> QED
    BY <2>2, <2>3
<1>4. ASSUME NEW h \in Hands, AskNotify(h) PROVE ParticipationInv'
  <2>1. hand' \in [Hands -> AnyHand] /\ AnswersExist'
    BY <1>4, HandStates, InHandKeeps DEF AskNotify
  <2> QED
    BY <1>4, <2>1 DEF AskNotify, ParticipationInv, ParticipationTypeOK
<1>5. ASSUME NEW h \in Hands, NEW u \in DOMAIN participation,
             NEW status \in {"ACCEPTED", "REFUSED"}, Answer(h, u, status)
      PROVE  ParticipationInv'
  <2>1. u \in People
    BY DEF ParticipationInv, ParticipationTypeOK
  <2>2. hand' \in [Hands -> AnyHand] /\ AnswersExist'
    BY <1>5, <2>1, HandStates, InHandKeeps DEF Answer, eventTables
  <2> QED
    BY <1>5, <2>2 DEF Answer, Meets, eventTables, ParticipationInv, ParticipationTypeOK
<1>6. ASSUME NEW h \in Hands, AnswerWrite(h) PROVE ParticipationInv'
  <2>1. hand' \in [Hands -> AnyHand] /\ AnswersExist'
    BY <1>6, HandStates, AnswerWritten, InHandKeeps DEF AnswerWrite
  <2>2. places' \in Int
    BY <1>6 DEF AnswerWrite, ParticipationInv, ParticipationTypeOK
  <2>3. notices' \subseteq ({Organizer} \X {"PENDING"}) \cup (People \X {"ACCEPTED", "REFUSED"})
    <3>1. <<hand[h].user, hand[h].status>> \in People \X {"ACCEPTED", "REFUSED"}
      BY <1>6, AnswerWritten
    <3> QED
      BY <1>6, <3>1 DEF AnswerWrite, ParticipationInv, ParticipationTypeOK
  <2> QED
    BY <1>6, <2>1, <2>2, <2>3, AnswerWritten
    DEF AnswerWrite, ParticipationInv, ParticipationTypeOK
<1>7. CASE CallOff
  BY <1>7 DEF CallOff, ParticipationInv, ParticipationTypeOK, AnswersExist
<1>8. CASE HandlersFail
  BY <1>8, HandStates
  DEF HandlersFail, HandsStop, eventTables, ParticipationInv, ParticipationTypeOK, AnswersExist
<1>9. CASE UNCHANGED participationVars
  BY <1>9 DEF participationVars, eventTables, ParticipationInv, ParticipationTypeOK, AnswersExist
<1> QED
  BY <1>1, <1>2, <1>3, <1>4, <1>5, <1>6, <1>7, <1>8, <1>9
  DEF ParticipationNext, ParticipationStep
-------------------------------------------------------------------------------
(* The accepted are finitely many, and counted. *)
LEMMA AcceptedFinite ==
  ASSUME ParticipationInv
  PROVE  IsFiniteSet(Accepted) /\ Cardinality(Accepted) \in Nat
<1>1. Accepted \subseteq People
  BY DEF Accepted, ParticipationInv, ParticipationTypeOK
<1> QED
  BY <1>1, ParticipationAssumption, FS_Subset, FS_CardinalityType

(* Only an answer changes who is accepted, or the stock. *)
LEMMA OthersKeepAccepted ==
  ASSUME ParticipationInv, [ParticipationNext]_participationVars,
         \A h \in Hands : ~AnswerWrite(h)
  PROVE  Accepted' = Accepted /\ places' = places
<1>1. ASSUME NEW h \in Hands, AskWrite(h) PROVE Accepted' = Accepted /\ places' = places
  BY <1>1 DEF AskWrite, Accepted, Put
<1>2. ASSUME UNCHANGED <<participation, places>> PROVE Accepted' = Accepted /\ places' = places
  BY <1>2 DEF Accepted
<1>3. (\E h \in Hands : AskWrite(h)) \/ UNCHANGED <<participation, places>>
  BY DEF ParticipationNext, ParticipationStep, Ask, AskCount, AskNotify, Answer, CallOff,
         HandlersFail, HandsStop, participationVars, eventTables
<1> QED
  BY <1>1, <1>2, <1>3

(* An acceptance adds at most one person and takes one place; a refusal    *)
(* adds nobody.  Where the request was pending, exactly so.                *)
LEMMA AnswerCounts ==
  ASSUME ParticipationInv, NEW h \in Hands, AnswerWrite(h)
  PROVE  /\ hand[h].status = "ACCEPTED" =>
              /\ places' = places - 1
              /\ Cardinality(Accepted') <= Cardinality(Accepted) + 1
              /\ participation[hand[h].user] = "PENDING"
                   => Cardinality(Accepted') = Cardinality(Accepted) + 1
         /\ hand[h].status = "REFUSED" =>
              /\ places' = places
              /\ Cardinality(Accepted') <= Cardinality(Accepted)
              /\ participation[hand[h].user] = "PENDING" => Accepted' = Accepted
<1> DEFINE u == hand[h].user
<1>1. CASE hand[h].status = "ACCEPTED"
  <2>1. Accepted' = Accepted \cup {u}
    BY <1>1, AnswerWritten DEF Accepted
  <2>2. participation[u] = "PENDING" => u \notin Accepted
    BY DEF Accepted
  <2>3. places' = places - 1
    BY <1>1 DEF AnswerWrite
  <2>4. /\ Cardinality(Accepted \cup {u}) = IF u \in Accepted THEN Cardinality(Accepted)
                                            ELSE Cardinality(Accepted) + 1
        /\ Cardinality(Accepted) \in Nat
    BY AcceptedFinite, FS_AddElement
  <2>5. /\ Cardinality(Accepted') <= Cardinality(Accepted) + 1
        /\ participation[u] = "PENDING" => Cardinality(Accepted') = Cardinality(Accepted) + 1
    BY <2>1, <2>2, <2>4
  <2> QED
    BY <1>1, <2>3, <2>5
<1>2. CASE hand[h].status = "REFUSED"
  <2>1. Accepted' = Accepted \ {u}
    BY <1>2, AnswerWritten DEF Accepted
  <2>2. participation[u] = "PENDING" => u \notin Accepted
    BY DEF Accepted
  <2>3. places' = places
    BY <1>2 DEF AnswerWrite
  <2>4. Cardinality(Accepted') <= Cardinality(Accepted)
    BY <2>1, AcceptedFinite, FS_Subset
  <2> QED
    BY <1>2, <2>1, <2>2, <2>3, <2>4
<1> QED
  BY <1>1, <1>2, AnswerWritten

LEMMA CoverNext ==
  ParticipationInv /\ PlacesCover /\ [ParticipationNext]_participationVars => PlacesCover'
<1> SUFFICES ASSUME ParticipationInv, PlacesCover, [ParticipationNext]_participationVars
             PROVE  PlacesCover'
  OBVIOUS
<1>1. ParticipationInv'
  BY ParticipationInvNext
<1>2. /\ Cardinality(Accepted) \in Nat /\ Cardinality(Accepted') \in Nat
      /\ places \in Int /\ InitialPlaces \in Nat
  <2>1. Accepted' \subseteq People
    BY <1>1 DEF Accepted, ParticipationInv, ParticipationTypeOK
  <2>2. Cardinality(Accepted') \in Nat
    BY <2>1, ParticipationAssumption, FS_Subset, FS_CardinalityType
  <2> QED
    BY <2>2, AcceptedFinite, ParticipationAssumption DEF ParticipationInv, ParticipationTypeOK
<1>3. ASSUME NEW h \in Hands, AnswerWrite(h) PROVE PlacesCover'
  <2>1. hand[h].status \in {"ACCEPTED", "REFUSED"}
    BY <1>3, AnswerWritten
  <2>2. \/ places' = places - 1 /\ Cardinality(Accepted') <= Cardinality(Accepted) + 1
        \/ places' = places /\ Cardinality(Accepted') <= Cardinality(Accepted)
    BY <1>3, <2>1, AnswerCounts
  <2> QED
    BY <1>2, <2>2 DEF PlacesCover
<1>4. ASSUME \A h \in Hands : ~AnswerWrite(h) PROVE PlacesCover'
  BY <1>4, OthersKeepAccepted DEF PlacesCover
<1> QED
  BY <1>3, <1>4

(* The event is never promised to more people than it has places for, as   *)
(* far as the stock tells: for each who is accepted a place was taken,     *)
(* however the answers overlap and whatever a restart cuts short.          *)
THEOREM PlacesAreCovered == ParticipationSpec => []PlacesCover
<1>1. ParticipationInit => PlacesCover
  <2> SUFFICES ASSUME ParticipationInit PROVE PlacesCover
    OBVIOUS
  <2>1. Accepted = {}
    BY DEF ParticipationInit, Accepted, NoRows
  <2> QED
    BY <2>1, FS_EmptySet, ParticipationAssumption DEF ParticipationInit, PlacesCover
<1> QED
  BY <1>1, ParticipationInvInit, ParticipationInvNext, CoverNext, PTL DEF ParticipationSpec
-------------------------------------------------------------------------------
(* Unless answers overlapped, there is one in flight at most; the request  *)
(* it was made for is still pending, and there is a place for an           *)
(* acceptance.                                                             *)
OneAnswer ==
  "answers" \notin mishaps =>
    /\ \A g, h \in Hands :
         hand[g].step = "answerWrite" /\ hand[h].step = "answerWrite" => g = h
    /\ \A h \in Hands : hand[h].step = "answerWrite" =>
         /\ participation[hand[h].user] = "PENDING"
         /\ hand[h].status = "ACCEPTED" => places >= 1

(* The steps that change neither rows that are there nor the stock, and    *)
(* put no answer into a hand.                                              *)
LEMMA OtherSteps ==
  ASSUME ParticipationInv, [ParticipationNext]_participationVars, OneAnswer,
         \A h \in Hands : ~AnswerWrite(h),
         \A h \in Hands, u \in DOMAIN participation, status \in {"ACCEPTED", "REFUSED"} :
           ~Answer(h, u, status)
  PROVE  OneAnswer'
<1>1. ASSUME NEW h \in Hands, NEW state, state.step # "answerWrite", InHand(h, state),
             UNCHANGED <<places, mishaps>>,
             \A u \in DOMAIN participation : participation'[u] = participation[u]
      PROVE  OneAnswer'
  <2>1. \A g \in Hands : hand'[g].step = "answerWrite" => g # h /\ hand'[g] = hand[g]
    BY <1>1 DEF InHand, ParticipationInv
  <2>2. \A g \in Hands : hand[g].step = "answerWrite" => hand[g].user \in DOMAIN participation
    BY HandHolds
  <2> QED
    BY <1>1, <2>1, <2>2 DEF OneAnswer
<1>2. ASSUME NEW h \in Hands, NEW u \in People, Ask(h, u) PROVE OneAnswer'
  BY <1>1, <1>2 DEF Ask, eventTables
<1>3. ASSUME NEW h \in Hands, AskCount(h) PROVE OneAnswer'
  <2>1. PICK state \in {Idle, [step |-> "askWrite", user |-> hand[h].user]} : InHand(h, state)
    BY <1>3 DEF AskCount
  <2>2. state.step # "answerWrite"
    BY HandStates
  <2> QED
    BY <1>1, <1>3, <2>1, <2>2 DEF AskCount
<1>4. ASSUME NEW h \in Hands, AskWrite(h) PROVE OneAnswer'
  <2>1. PICK state \in {Idle, [step |-> "askNotify", user |-> hand[h].user]} : InHand(h, state)
    BY <1>4 DEF AskWrite
  <2>2. state.step # "answerWrite"
    BY HandStates
  <2>3. \A u \in DOMAIN participation : participation'[u] = participation[u]
    BY <1>4 DEF AskWrite, Put
  <2> QED
    BY <1>1, <1>4, <2>1, <2>2, <2>3 DEF AskWrite
<1>5. ASSUME NEW h \in Hands, AskNotify(h) PROVE OneAnswer'
  BY <1>1, <1>5, HandStates DEF AskNotify
<1>6. CASE CallOff \/ UNCHANGED participationVars
  BY <1>6 DEF CallOff, participationVars, eventTables, OneAnswer
<1>7. CASE HandlersFail
  BY <1>7, HandStates DEF HandlersFail, HandsStop, eventTables, OneAnswer
<1> QED
  BY <1>2, <1>3, <1>4, <1>5, <1>6, <1>7 DEF ParticipationNext, ParticipationStep

LEMMA OneAnswerNext ==
  ParticipationInv /\ OneAnswer /\ [ParticipationNext]_participationVars => OneAnswer'
<1> SUFFICES ASSUME ParticipationInv, OneAnswer, [ParticipationNext]_participationVars
             PROVE  OneAnswer'
  OBVIOUS
<1>1. ASSUME NEW h \in Hands, NEW u \in DOMAIN participation,
             NEW status \in {"ACCEPTED", "REFUSED"}, Answer(h, u, status)
      PROVE  OneAnswer'
  <2>1. SUFFICES ASSUME "answers" \notin mishaps' PROVE OneAnswer'
    BY DEF OneAnswer
  <2>2. /\ "answers" \notin mishaps
        /\ \A g \in Hands \ {h} : hand[g].step # "answerWrite"
    BY <1>1, <2>1 DEF Answer, Meets
  <2>3. /\ hand'[h] = [step |-> "answerWrite", user |-> u, status |-> status]
        /\ \A g \in Hands \ {h} : hand'[g] = hand[g]
    BY <1>1 DEF Answer, InHand, ParticipationInv
  <2>4. /\ UNCHANGED <<participation, places>> /\ participation[u] = "PENDING"
        /\ status = "ACCEPTED" => places >= 1
    BY <1>1 DEF Answer, eventTables
  <2> QED
    BY <2>2, <2>3, <2>4 DEF OneAnswer
<1>2. ASSUME NEW h \in Hands, AnswerWrite(h) PROVE OneAnswer'
  <2>1. SUFFICES ASSUME "answers" \notin mishaps' PROVE OneAnswer'
    BY DEF OneAnswer
  <2>2. "answers" \notin mishaps /\ hand[h].step = "answerWrite"
    BY <1>2, <2>1 DEF AnswerWrite
  <2>3. \A g \in Hands \ {h} : hand[g].step # "answerWrite"
    BY <2>2 DEF OneAnswer
  <2>4. hand'[h] = Idle /\ \A g \in Hands \ {h} : hand'[g] = hand[g]
    BY <1>2 DEF AnswerWrite, InHand, ParticipationInv
  <2>5. \A g \in Hands : hand'[g].step # "answerWrite"
    BY <2>3, <2>4, HandStates
  <2> QED
    BY <2>5 DEF OneAnswer
<1> QED
  BY <1>1, <1>2, OtherSteps

LEMMA ExactNext ==
  ParticipationInv /\ OneAnswer /\ PlacesExact /\ [ParticipationNext]_participationVars
    => PlacesExact'
<1> SUFFICES ASSUME ParticipationInv, OneAnswer, PlacesExact,
                    [ParticipationNext]_participationVars, "answers" \notin mishaps'
             PROVE  places' >= 0 /\ places' + Cardinality(Accepted') = InitialPlaces
  BY DEF PlacesExact
<1>1. "answers" \notin mishaps
  BY DEF ParticipationNext, ParticipationStep, Ask, AskCount, AskWrite, AskNotify, Answer, Meets,
         AnswerWrite, CallOff, HandlersFail, HandsStop, participationVars, eventTables
<1>2. places >= 0 /\ places + Cardinality(Accepted) = InitialPlaces
  BY <1>1 DEF PlacesExact
<1>3. Cardinality(Accepted) \in Nat /\ places \in Int /\ InitialPlaces \in Nat
  BY AcceptedFinite, ParticipationAssumption DEF ParticipationInv, ParticipationTypeOK
<1>4. ASSUME NEW h \in Hands, AnswerWrite(h)
      PROVE  places' >= 0 /\ places' + Cardinality(Accepted') = InitialPlaces
  <2>1. /\ participation[hand[h].user] = "PENDING"
        /\ hand[h].status = "ACCEPTED" => places >= 1
    BY <1>1, <1>4 DEF OneAnswer, AnswerWrite
  <2>2. hand[h].status \in {"ACCEPTED", "REFUSED"}
    BY <1>4, AnswerWritten
  <2>3. CASE hand[h].status = "ACCEPTED"
    <3>1. /\ places' = places - 1 /\ places >= 1
          /\ Cardinality(Accepted') = Cardinality(Accepted) + 1
      BY <1>4, <2>1, <2>3, AnswerCounts
    <3> QED
      BY <1>2, <1>3, <3>1
  <2>4. CASE hand[h].status = "REFUSED"
    BY <1>2, <1>4, <2>1, <2>4, AnswerCounts
  <2> QED
    BY <2>2, <2>3, <2>4
<1>5. ASSUME \A h \in Hands : ~AnswerWrite(h)
      PROVE  places' >= 0 /\ places' + Cardinality(Accepted') = InitialPlaces
  BY <1>2, <1>5, OthersKeepAccepted
<1> QED
  BY <1>4, <1>5

(* While the organizer gives one answer at a time, the stock and the       *)
(* accepted are exactly the places of the event, and the event is never    *)
(* overbooked, whoever asks meanwhile and wherever the process restarts.   *)
THEOREM PlacesAreExact == ParticipationSpec => []PlacesExact
<1>1. ParticipationInit => OneAnswer /\ PlacesExact
  <2> SUFFICES ASSUME ParticipationInit PROVE OneAnswer /\ PlacesExact
    OBVIOUS
  <2>1. Accepted = {}
    BY DEF ParticipationInit, Accepted, NoRows
  <2>2. OneAnswer
    BY HandStates DEF ParticipationInit, OneAnswer
  <2> QED
    BY <2>1, <2>2, FS_EmptySet, ParticipationAssumption DEF ParticipationInit, PlacesExact
<1> QED
  BY <1>1, ParticipationInvInit, ParticipationInvNext, OneAnswerNext, ExactNext, PTL
  DEF ParticipationSpec
-------------------------------------------------------------------------------
LEMMA ToldNext ==
  ParticipationInv /\ AnsweredIsTold /\ [ParticipationNext]_participationVars => AnsweredIsTold'
<1> SUFFICES ASSUME ParticipationInv, AnsweredIsTold, [ParticipationNext]_participationVars
             PROVE  AnsweredIsTold'
  OBVIOUS
<1>1. ASSUME NEW h \in Hands, AnswerWrite(h) PROVE AnsweredIsTold'
  <2>1. notices' = notices \cup {<<hand[h].user, hand[h].status>>}
    BY <1>1 DEF AnswerWrite
  <2> QED
    BY <1>1, <2>1, AnswerWritten DEF AnsweredIsTold
<1>2. ASSUME NEW h \in Hands, AskWrite(h) PROVE AnsweredIsTold'
  BY <1>2 DEF AskWrite, Put, AnsweredIsTold
<1>3. ASSUME UNCHANGED participation, notices \subseteq notices' PROVE AnsweredIsTold'
  BY <1>3 DEF AnsweredIsTold
<1>4. \/ \E h \in Hands : AnswerWrite(h) \/ AskWrite(h)
      \/ UNCHANGED participation /\ notices \subseteq notices'
  BY DEF ParticipationNext, ParticipationStep, Ask, AskCount, AskNotify, Answer, CallOff,
         HandlersFail, HandsStop, participationVars, eventTables
<1> QED
  BY <1>1, <1>2, <1>3, <1>4

(* An answer and its notice are one commit: nobody's request is answered   *)
(* without a notice of that answer.                                        *)
THEOREM AnsweredAreTold == ParticipationSpec => []AnsweredIsTold
<1>1. ParticipationInit => AnsweredIsTold
  BY DEF ParticipationInit, AnsweredIsTold, NoRows
<1> QED
  BY <1>1, ParticipationInvInit, ParticipationInvNext, ToldNext, PTL DEF ParticipationSpec

-------------------------------------------------------------------------------
(* Community. The handlers that are at one of these steps stay, and no other *)
(* comes there.                                                            *)
Elsewhere(steps) ==
  \A h \in Hands : hand[h].step \in steps \/ hand'[h].step \in steps => hand'[h] = hand[h]

LEMMA MovesElsewhere ==
  ASSUME hand \in [Hands -> AnyHand], NEW h \in Hands, NEW state, InHand(h, state),
         NEW steps, hand[h].step \notin steps, state.step \notin steps
  PROVE  Elsewhere(steps)
BY DEF InHand, Elsewhere

(* The steps of the three are different steps. *)
LEMMA StepsApart ==
  /\ \A x \in {"idle", "askCount", "askWrite", "askNotify", "answerWrite"} :
       x \notin PollSteps /\ x \notin ItemSteps
  /\ PollSteps \cap ItemSteps = {}
BY DEF PollSteps, ItemSteps

Aside == Elsewhere(PollSteps) /\ Elsewhere(ItemSteps)

(* A step of Participation that is no restart leaves the polls and the     *)
(* lists alone.                                                            *)
LEMMA ParticipationElsewhere ==
  ASSUME ParticipationInv, [ParticipationNext]_participationVars, ~HandlersFail
  PROVE  /\ mishaps' \in {mishaps, mishaps \cup {"answers"}}
         /\ Aside
<1>1. ASSUME NEW h \in Hands, NEW state, InHand(h, state),
             {hand[h].step, state.step} \subseteq {"idle", "askCount", "askWrite", "askNotify", "answerWrite"}
      PROVE  Aside
  BY <1>1, MovesElsewhere, StepsApart DEF ParticipationInv, Aside
<1>2. ASSUME NEW h \in Hands, NEW u \in People, Ask(h, u) PROVE Aside
  BY <1>1, <1>2, HandStates DEF Ask
<1>3. ASSUME NEW h \in Hands, AskCount(h) PROVE Aside
  <2>1. PICK state \in {Idle, [step |-> "askWrite", user |-> hand[h].user]} : InHand(h, state)
    BY <1>3 DEF AskCount
  <2>2. state.step \in {"idle", "askWrite"}
    BY HandStates
  <2> QED
    BY <1>1, <1>3, <2>1, <2>2 DEF AskCount
<1>4. ASSUME NEW h \in Hands, AskWrite(h) PROVE Aside
  <2>1. PICK state \in {Idle, [step |-> "askNotify", user |-> hand[h].user]} : InHand(h, state)
    BY <1>4 DEF AskWrite
  <2>2. state.step \in {"idle", "askNotify"}
    BY HandStates
  <2> QED
    BY <1>1, <1>4, <2>1, <2>2 DEF AskWrite
<1>5. ASSUME NEW h \in Hands, AskNotify(h) \/ AnswerWrite(h) PROVE Aside
  BY <1>1, <1>5, HandStates DEF AskNotify, AnswerWrite
<1>6. ASSUME NEW h \in Hands, NEW u \in DOMAIN participation,
             NEW status \in {"ACCEPTED", "REFUSED"}, Answer(h, u, status)
      PROVE  Aside
  BY <1>1, <1>6, HandStates DEF Answer
<1>7. CASE CallOff \/ UNCHANGED participationVars
  BY <1>7 DEF CallOff, participationVars, Elsewhere, Aside
<1>8. mishaps' \in {mishaps, mishaps \cup {"answers"}}
  BY DEF ParticipationNext, ParticipationStep, Ask, AskCount, AskWrite, AskNotify, Answer, Meets,
         AnswerWrite, CallOff, HandlersFail, HandsStop, participationVars, eventTables
<1>9. Aside
  <2>1. ASSUME NEW h \in Hands, ParticipationStep(h) PROVE Aside
    BY <1>2, <1>3, <1>4, <1>5, <1>6, <2>1 DEF ParticipationStep
  <2>2. (\E h \in Hands : ParticipationStep(h)) \/ CallOff \/ UNCHANGED participationVars
    BY DEF ParticipationNext
  <2> QED
    BY <1>7, <2>1, <2>2
<1> QED
  BY <1>8, <1>9

(* What is known of the requests, the answers and the places.              *)
AnswersInv == ParticipationInv /\ OneAnswer /\ PlacesCover /\ PlacesExact

LEMMA AnswersElsewhere ==
  ASSUME AnswersInv, UNCHANGED eventTables, hand' \in [Hands -> AnyHand],
         mishaps' \in {mishaps, mishaps \cup {"votes"}, mishaps \cup {"claims"}},
         Elsewhere({"answerWrite"})
  PROVE  AnswersInv'
<1>1. UNCHANGED <<participation, places, calledOff, notices, turnedAway>>
  BY DEF eventTables
<1>2. ParticipationTypeOK'
  BY <1>1 DEF AnswersInv, ParticipationInv, ParticipationTypeOK
<1>3. AnswersExist' /\ OneAnswer'
  BY <1>1 DEF AnswersInv, ParticipationInv, AnswersExist, OneAnswer, Elsewhere
<1>4. Accepted' = Accepted
  BY <1>1 DEF Accepted
<1>5. PlacesCover' /\ PlacesExact'
  BY <1>1, <1>4 DEF AnswersInv, PlacesCover, PlacesExact
<1> QED
  BY <1>2, <1>3, <1>5 DEF AnswersInv, ParticipationInv

LEMMA AnswersNext == AnswersInv /\ [ParticipationNext]_participationVars => AnswersInv'
BY ParticipationInvNext, OneAnswerNext, CoverNext, ExactNext DEF AnswersInv
-------------------------------------------------------------------------------
(* The poll: what is known of it by a handler at one of these steps.       *)
Known(k) ==
  /\ k.step \in {"voteWrite", "changeDelete", "changeWrite",
                 "pollClosing", "pollDeleting", "pollFetch"} => poll # NoPoll
  /\ k.step \in {"voteWrite", "changeDelete", "changeWrite"} /\ ~poll.multiple
       => \E c \in Options : k.choice = {c}

(* And what is known if no other handler of the poll is in flight.         *)
Ready(k) ==
  /\ k.step \in {"voteWrite", "changeWrite"} => VotesOf(k.user) = {}
  /\ k.step \in {"changeDelete", "changeWrite", "pollFetch"} => poll.status # "DELETED"
  /\ k.step = "announce" => k.fresh

(* Unless two of them have overlapped, a handler is alone with the poll, a *)
(* poll with one choice has one vote a person, and a room that is behind is *)
(* about to be sent the poll.                                              *)
VotesAlone ==
  "votes" \notin mishaps =>
    /\ \A g, h \in Hands : hand[g].step \in PollSteps /\ hand[h].step \in PollSteps => g = h
    /\ \A h \in Hands : Ready(hand[h])
    /\ "unsent" \notin mishaps /\ ~current =>
         \E h \in Hands : hand[h].step \in {"changeWrite", "pollFetch", "announce"}
    /\ poll # NoPoll /\ ~poll.multiple => \A v, w \in votes : v[1] = w[1] => v = w

VotesInv ==
  /\ PollsTypeOK
  /\ poll = NoPoll => votes = {}
  /\ \A h \in Hands : Known(hand[h])
  /\ VotesAlone

LEMMA VotesElsewhere ==
  ASSUME VotesInv, UNCHANGED pollVars, mishaps \subseteq mishaps', Elsewhere(PollSteps)
  PROVE  VotesInv'
<1>1. UNCHANGED <<poll, votes, current>>
  BY DEF pollVars
<1>2. PollsTypeOK' /\ (poll = NoPoll => votes = {})'
  BY <1>1 DEF VotesInv, PollsTypeOK
<1>3. ASSUME NEW h \in Hands PROVE Known(hand[h])' /\ (Ready(hand[h]) => Ready(hand[h])')
  <2>1. Known(hand[h])
    BY DEF VotesInv
  <2>2. CASE hand'[h] = hand[h]
    BY <1>1, <2>1, <2>2 DEF Known, Ready, VotesOf
  <2>3. CASE hand'[h].step \notin PollSteps
    BY <2>3 DEF Known, Ready, PollSteps
  <2> QED
    BY <2>2, <2>3 DEF Elsewhere
<1>4. VotesAlone'
  <2> SUFFICES ASSUME "votes" \notin mishaps' PROVE VotesAlone'
    BY DEF VotesAlone
  <2>1. "votes" \notin mishaps
    OBVIOUS
  <2>2. (\A g, h \in Hands : hand[g].step \in PollSteps /\ hand[h].step \in PollSteps => g = h)'
    BY <2>1 DEF VotesInv, VotesAlone, Elsewhere
  <2>3. (\A h \in Hands : Ready(hand[h]))'
    BY <1>3, <2>1 DEF VotesInv, VotesAlone
  <2>4. ("unsent" \notin mishaps /\ ~current =>
           \E h \in Hands : hand[h].step \in {"changeWrite", "pollFetch", "announce"})'
    BY <1>1, <2>1 DEF VotesInv, VotesAlone, Elsewhere, PollSteps
  <2>5. (poll # NoPoll /\ ~poll.multiple => \A v, w \in votes : v[1] = w[1] => v = w)'
    BY <1>1, <2>1 DEF VotesInv, VotesAlone
  <2> QED
    BY <2>2, <2>3, <2>4, <2>5 DEF VotesAlone
<1> QED
  BY <1>2, <1>3, <1>4 DEF VotesInv

LEMMA VotesRestart ==
  ASSUME VotesInv, HandlersFail, UNCHANGED pollVars
  PROVE  VotesInv'
<1>1. PICK gone \in SUBSET Hands : HandsStop(gone)
  BY DEF HandlersFail
<1>2. /\ UNCHANGED <<poll, votes, current>>
      /\ mishaps' = IF \E h \in gone : hand[h].step \in Unsent THEN mishaps \cup {"unsent"} ELSE mishaps
      /\ \A h \in Hands : hand'[h] = IF h \in gone THEN Idle ELSE hand[h]
  BY <1>1 DEF pollVars, HandsStop
<1>3. PollsTypeOK' /\ (poll = NoPoll => votes = {})'
  BY <1>2 DEF VotesInv, PollsTypeOK
<1>4. Known(Idle) /\ Ready(Idle) /\ Idle.step \notin PollSteps
  BY HandStates, StepsApart DEF Known, Ready
<1>5. ASSUME NEW k PROVE (Known(k) => Known(k)') /\ (Ready(k) => Ready(k)')
  BY <1>2 DEF Known, Ready, VotesOf
<1>6. \A h \in Hands : Known(hand[h])' /\ (Ready(hand[h]) => Ready(hand[h])')
  BY <1>2, <1>4, <1>5 DEF VotesInv
<1>7. ASSUME "votes" \notin mishaps PROVE VotesAlone'
  <2>1. (\A g, h \in Hands : hand[g].step \in PollSteps /\ hand[h].step \in PollSteps => g = h)'
    BY <1>2, <1>4, <1>7 DEF VotesInv, VotesAlone
  <2>2. (\A h \in Hands : Ready(hand[h]))'
    BY <1>6, <1>7 DEF VotesInv, VotesAlone
  <2>3. ("unsent" \notin mishaps /\ ~current =>
           \E h \in Hands : hand[h].step \in {"changeWrite", "pollFetch", "announce"})'
    <3>1. SUFFICES ASSUME "unsent" \notin mishaps', ~current'
                   PROVE  \E h \in Hands : hand'[h].step \in {"changeWrite", "pollFetch", "announce"}
      OBVIOUS
    <3>2. mishaps' = mishaps /\ \A h \in gone : hand[h].step \notin Unsent
      BY <1>2, <3>1
    <3>3. PICK h \in Hands : hand[h].step \in {"changeWrite", "pollFetch", "announce"}
      BY <1>2, <1>7, <3>1, <3>2 DEF VotesInv, VotesAlone
    <3>4. h \notin gone
      BY <3>2, <3>3 DEF Unsent
    <3> QED
      BY <1>2, <3>3, <3>4
  <2>4. (poll # NoPoll /\ ~poll.multiple => \A v, w \in votes : v[1] = w[1] => v = w)'
    BY <1>2, <1>7 DEF VotesInv, VotesAlone
  <2> QED
    BY <2>1, <2>2, <2>3, <2>4 DEF VotesAlone
<1> QED
  BY <1>2, <1>3, <1>6, <1>7 DEF VotesInv, VotesAlone

LEMMA HandMoves ==
  ASSUME hand \in [Hands -> AnyHand], NEW h \in Hands, NEW state \in AnyHand, InHand(h, state)
  PROVE  /\ hand' \in [Hands -> AnyHand] /\ hand'[h] = state
         /\ \A g \in Hands \ {h} : hand'[g] = hand[g]
BY DEF InHand

LEMMA PollHandStates ==
  /\ \A u \in Everyone, step \in {"pollCreate", "pollClose", "pollDelete", "pollClosing",
                                  "pollDeleting", "pollFetch"} :
       [step |-> step, user |-> u] \in AnyHand
  /\ \A u \in Everyone, choice \in SUBSET Options \ {{}}, twice \in BOOLEAN,
        step \in {"vote", "voteWrite", "change", "changeDelete", "changeWrite"} :
       [step |-> step, user |-> u, choice |-> choice, twice |-> twice] \in AnyHand
  /\ \A fresh \in BOOLEAN : [step |-> "announce", fresh |-> fresh] \in AnyHand
  /\ Idle \in AnyHand /\ Idle.step = "idle"
  /\ Fetched \in AnyHand /\ Fetched.step = "announce" /\ Fetched.fresh
BY DEF AnyHand, PollHand, ParticipationHand, Idle, Fetched

(* What a handler of the poll has in hand, and how it goes on.             *)
LEMMA PollHolds ==
  ASSUME ParticipationInv, NEW h \in Hands
  PROVE  /\ hand[h].step \in {"pollCreate", "pollClose", "pollDelete", "pollClosing",
                              "pollDeleting", "pollFetch"} =>
              hand[h] \in [step : {"pollCreate", "pollClose", "pollDelete", "pollClosing",
                                   "pollDeleting", "pollFetch"}, user : Everyone]
         /\ hand[h].step \in {"vote", "voteWrite", "change", "changeDelete", "changeWrite"} =>
              hand[h] \in [step : {"vote", "voteWrite", "change", "changeDelete", "changeWrite"},
                           user : Everyone, choice : SUBSET Options \ {{}}, twice : BOOLEAN]
         /\ hand[h].step = "announce" => hand[h] \in [step : {"announce"}, fresh : BOOLEAN]
BY DEF ParticipationInv, AnyHand, ParticipationHand, PollHand, ItemHand, Idle

(* A write of h also marks what the others have fetched as overtaken.      *)
LEMMA OvertakesMoves ==
  ASSUME ParticipationInv, NEW h \in Hands, NEW state \in AnyHand, Overtakes(h, state)
  PROVE  /\ hand' \in [Hands -> AnyHand] /\ hand'[h] = state /\ ~current'
         /\ \A g \in Hands \ {h} : /\ hand[g].step # "announce" => hand'[g] = hand[g]
                                   /\ hand[g].step = "announce" => hand'[g].step = "announce"
<1>1. \A g \in Hands : hand[g].step = "announce" =>
        /\ [hand[g] EXCEPT !.fresh = FALSE] \in AnyHand
        /\ [hand[g] EXCEPT !.fresh = FALSE].step = "announce"
  BY PollHolds DEF AnyHand, PollHand
<1>2. \A g \in Hands : hand[g] \in AnyHand
  BY DEF ParticipationInv
<1> QED
  BY <1>1, <1>2 DEF Overtakes

(* Any of the steps: h goes on from its step, or begins, to another state  *)
(* of a handler of the poll, or is done.                                   *)
PollMoves(h, state) ==
  /\ state \in AnyHand /\ {hand[h].step, state.step} \subseteq PollSteps \cup {"idle"}
  /\ InHand(h, state) \/ Overtakes(h, state)

LEMMA PollMovesElsewhere ==
  ASSUME ParticipationInv, NEW h \in Hands, NEW state, PollMoves(h, state)
  PROVE  /\ hand' \in [Hands -> AnyHand]
         /\ Elsewhere(ItemSteps) /\ Elsewhere({"answerWrite"})
<1>1. state \in AnyHand /\ {hand[h].step, state.step} \subseteq PollSteps \cup {"idle"}
  BY DEF PollMoves
<1>2. /\ hand' \in [Hands -> AnyHand] /\ hand'[h] = state
      /\ \A g \in Hands \ {h} : /\ hand[g].step # "announce" => hand'[g] = hand[g]
                                /\ hand[g].step = "announce" => hand'[g].step = "announce"
  BY <1>1, HandMoves, OvertakesMoves DEF PollMoves, ParticipationInv
<1>3. "announce" \notin ItemSteps /\ "answerWrite" \notin PollSteps /\ "idle" \notin ItemSteps
  BY DEF ItemSteps, PollSteps
<1> QED
  BY <1>1, <1>2, <1>3, StepsApart DEF Elsewhere

(* A handler that is at no step of the poll knows nothing of it.           *)
LEMMA OthersKnow ==
  ASSUME NEW k, k.step \notin PollSteps
  PROVE  (Known(k) /\ Ready(k))'
BY DEF Known, Ready, PollSteps

(* A handler of the poll that only reads, goes on or gives up.             *)
LEMMA ReadKeepsVotes ==
  ASSUME ParticipationInv, VotesInv, NEW h \in Hands, NEW state \in AnyHand, InHand(h, state),
         hand[h].step \in PollSteps, UNCHANGED <<pollVars, mishaps>>,
         Known(state), "votes" \notin mishaps => Ready(state),
         "votes" \notin mishaps /\ hand[h].step \in {"changeWrite", "pollFetch", "announce"}
           => state.step \in {"changeWrite", "pollFetch", "announce"}
  PROVE  VotesInv'
<1>1. UNCHANGED <<poll, votes, current, mishaps>>
  BY DEF pollVars
<1>2. /\ hand'[h] = state
      /\ \A g \in Hands \ {h} : hand'[g] = hand[g]
  BY HandMoves DEF ParticipationInv
<1>3. PollsTypeOK' /\ (poll = NoPoll => votes = {})'
  BY <1>1 DEF VotesInv, PollsTypeOK
<1>4. ASSUME NEW k PROVE (Known(k) => Known(k)') /\ (Ready(k) => Ready(k)')
  BY <1>1 DEF Known, Ready, VotesOf
<1>5. (\A g \in Hands : Known(hand[g]))'
  BY <1>2, <1>4 DEF VotesInv
<1>6. ASSUME "votes" \notin mishaps PROVE VotesAlone'
  <2>1. \A g \in Hands \ {h} : hand[g].step \notin PollSteps
    BY <1>6 DEF VotesInv, VotesAlone
  <2>2. (\A g \in Hands : Ready(hand[g]))'
    BY <1>2, <1>4, <1>6 DEF VotesInv, VotesAlone
  <2>3. ASSUME "unsent" \notin mishaps, ~current
        PROVE  hand'[h].step \in {"changeWrite", "pollFetch", "announce"}
    BY <1>2, <1>6, <2>1, <2>3 DEF VotesInv, VotesAlone, PollSteps
  <2>4. (poll # NoPoll /\ ~poll.multiple => \A v, w \in votes : v[1] = w[1] => v = w)'
    BY <1>1, <1>6 DEF VotesInv, VotesAlone
  <2> QED
    BY <1>1, <1>2, <2>1, <2>2, <2>3, <2>4 DEF VotesAlone
<1> QED
  BY <1>1, <1>3, <1>5, <1>6 DEF VotesInv, VotesAlone

(* A handler of the poll that writes.                                      *)
LEMMA WriteKeepsVotes ==
  ASSUME ParticipationInv, VotesInv, NEW h \in Hands, NEW state \in AnyHand, Overtakes(h, state),
         hand[h].step \in PollSteps, UNCHANGED mishaps,
         poll' \in Poll, votes' \subseteq Everyone \X Options, poll' = NoPoll => votes' = {},
         poll # NoPoll => poll' # NoPoll /\ poll'.multiple = poll.multiple,
         Known(state)',
         "votes" \notin mishaps =>
           /\ Ready(state)'
           /\ state.step \in {"changeWrite", "pollFetch", "announce"}
           /\ poll' # NoPoll /\ ~poll'.multiple => \A v, w \in votes' : v[1] = w[1] => v = w
  PROVE  VotesInv'
<1>1. /\ hand'[h] = state /\ current' = FALSE
      /\ \A g \in Hands \ {h} : /\ hand[g].step # "announce" => hand'[g] = hand[g]
                                /\ hand[g].step = "announce" => hand'[g].step = "announce"
  BY OvertakesMoves DEF Overtakes
<1>2. PollsTypeOK' /\ (poll = NoPoll => votes = {})'
  BY <1>1 DEF PollsTypeOK
<1>3. ASSUME NEW k, Known(k) PROVE Known(k)'
  BY <1>3 DEF Known
<1>4. ASSUME NEW k, k.step = "announce" PROVE Known(k)'
  BY <1>4 DEF Known
<1>5. (\A g \in Hands : Known(hand[g]))'
  BY <1>1, <1>3, <1>4 DEF VotesInv
<1>6. ASSUME "votes" \notin mishaps PROVE VotesAlone'
  <2>1. \A g \in Hands \ {h} : hand[g].step \notin PollSteps /\ hand'[g] = hand[g]
    BY <1>1, <1>6 DEF VotesInv, VotesAlone, PollSteps
  <2>2. (\A g \in Hands : Ready(hand[g]))'
    BY <1>1, <1>6, <2>1, OthersKnow
  <2> QED
    BY <1>1, <1>6, <2>1, <2>2 DEF VotesAlone
<1> QED
  BY <1>2, <1>5, <1>6 DEF VotesInv, VotesAlone

(* What each step of the polls does to everything else.                    *)
KeepsVotes(h) ==
  /\ UNCHANGED eventTables /\ mishaps' \in {mishaps, mishaps \cup {"votes"}}
  /\ \E state : PollMoves(h, state)
  /\ VotesInv'

(* A handler of the poll that begins. *)
LEMMA PollAccessNext ==
  ASSUME ParticipationInv, VotesInv, NEW h \in Hands, NEW u \in Everyone, PollAccess(h, u)
  PROVE  KeepsVotes(h)
<1>1. PICK state \in AnyHand :
        /\ state.step \in {"pollCreate", "pollClose", "pollDelete", "vote", "change"}
        /\ Access(h, u, "votes", PollSteps, state)
  BY PollHandStates DEF PollAccess
<1>2. /\ hand[h] = Idle /\ InHand(h, state) /\ UNCHANGED <<poll, votes, current>>
      /\ UNCHANGED eventTables /\ mishaps' \in {mishaps, mishaps \cup {"votes"}}
      /\ "votes" \notin mishaps' => \A g \in Hands \ {h} : hand[g].step \notin PollSteps
  BY <1>1 DEF Access, Meets, PollAccess, pollVars
<1>3. /\ hand'[h] = state
      /\ \A g \in Hands \ {h} : hand'[g] = hand[g]
  BY <1>2, HandMoves DEF ParticipationInv
<1>4. PollMoves(h, state)
  BY <1>1, <1>2, HandStates DEF PollMoves, PollSteps
<1>5. PollsTypeOK' /\ (poll = NoPoll => votes = {})'
  BY <1>2 DEF VotesInv, PollsTypeOK
<1>6. Known(state)' /\ Ready(state)'
  BY <1>1 DEF Known, Ready
<1>7. ASSUME NEW k PROVE (Known(k) => Known(k)') /\ (Ready(k) => Ready(k)')
  BY <1>2 DEF Known, Ready, VotesOf
<1>8. (\A g \in Hands : Known(hand[g]))'
  BY <1>3, <1>6, <1>7 DEF VotesInv
<1>9. ASSUME "votes" \notin mishaps' PROVE VotesAlone'
  <2>1. "votes" \notin mishaps /\ ("unsent" \in mishaps' <=> "unsent" \in mishaps)
    BY <1>2, <1>9
  <2>2. (\A g \in Hands : Ready(hand[g]))'
    BY <1>3, <1>6, <1>7, <2>1 DEF VotesInv, VotesAlone
  <2>3. \A g \in Hands \ {h} : hand[g].step \notin PollSteps
    BY <1>2, <1>9
  <2>4. "unsent" \notin mishaps => current
    BY <1>2, <2>1, <2>3, HandStates DEF VotesInv, VotesAlone, PollSteps
  <2>5. (poll # NoPoll /\ ~poll.multiple => \A v, w \in votes : v[1] = w[1] => v = w)'
    BY <1>2, <2>1 DEF VotesInv, VotesAlone
  <2> QED
    BY <1>2, <1>3, <2>1, <2>2, <2>3, <2>4, <2>5 DEF VotesAlone
<1>10. VotesInv'
  BY <1>5, <1>8, <1>9 DEF VotesInv, VotesAlone
<1> QED
  BY <1>2, <1>4, <1>10 DEF KeepsVotes

LEMMA ReadsNext ==
  ASSUME ParticipationInv, VotesInv, NEW h \in Hands, NEW state \in AnyHand, InHand(h, state),
         hand[h].step \in PollSteps, state.step \in PollSteps \cup {"idle"},
         UNCHANGED <<eventTables, mishaps, pollVars>>,
         Known(state), "votes" \notin mishaps => Ready(state),
         "votes" \notin mishaps /\ hand[h].step \in {"changeWrite", "pollFetch", "announce"}
           => state.step \in {"changeWrite", "pollFetch", "announce"}
  PROVE  KeepsVotes(h)
<1>1. VotesInv'
  BY ReadKeepsVotes
<1>2. PollMoves(h, state)
  BY DEF PollMoves
<1> QED
  BY <1>1, <1>2 DEF KeepsVotes

LEMMA WritesNext ==
  ASSUME ParticipationInv, VotesInv, NEW h \in Hands, NEW state \in AnyHand, Overtakes(h, state),
         hand[h].step \in PollSteps, state.step \in PollSteps \cup {"idle"},
         UNCHANGED <<eventTables, mishaps>>,
         poll' \in Poll, votes' \subseteq Everyone \X Options, poll' = NoPoll => votes' = {},
         poll # NoPoll => poll' # NoPoll /\ poll'.multiple = poll.multiple,
         Known(state)',
         "votes" \notin mishaps =>
           /\ Ready(state)'
           /\ state.step \in {"changeWrite", "pollFetch", "announce"}
           /\ poll' # NoPoll /\ ~poll'.multiple => \A v, w \in votes' : v[1] = w[1] => v = w
  PROVE  KeepsVotes(h)
<1>1. VotesInv'
  BY WriteKeepsVotes
<1>2. PollMoves(h, state)
  BY DEF PollMoves
<1> QED
  BY <1>1, <1>2 DEF KeepsVotes

LEMMA PollCreateNext ==
  ASSUME ParticipationInv, VotesInv, NEW h \in Hands, PollCreate(h)
  PROVE  KeepsVotes(h)
<1>1. hand[h].step = "pollCreate" /\ hand[h].user \in Everyone
  BY PollHolds DEF PollCreate
<1>2. Known(Idle) /\ Ready(Idle) /\ Known(Fetched)' /\ Ready(Fetched)'
  BY HandStates, PollHandStates DEF Known, Ready
<1>3. CASE poll = NoPoll /\ Overtakes(h, Fetched)
  <2>1. PICK multiple \in BOOLEAN :
          poll' = [status |-> "OPEN", creator |-> hand[h].user,
                   multiple |-> multiple, due |-> FALSE]
    BY <1>3, PollHandStates DEF PollCreate, Overtakes, InHand
  <2>2. poll' \in Poll /\ poll' # NoPoll
    BY <1>1, <2>1 DEF Poll, NoPoll
  <2>3. votes' = {} /\ UNCHANGED <<eventTables, mishaps>>
    BY <1>3 DEF PollCreate, VotesInv
  <2> QED
    BY <1>1, <1>2, <1>3, <2>2, <2>3, PollHandStates, WritesNext DEF PollSteps
<1>4. CASE InHand(h, Idle) /\ UNCHANGED pollVars
  BY <1>1, <1>2, <1>4, HandStates, ReadsNext DEF PollCreate, PollSteps
<1> QED
  BY <1>3, <1>4 DEF PollCreate, pollVars

LEMMA VoteReadNext ==
  ASSUME ParticipationInv, VotesInv, NEW h \in Hands, VoteRead(h)
  PROVE  KeepsVotes(h)
<1>1. /\ hand[h].step \in {"vote", "change"} /\ UNCHANGED <<eventTables, mishaps, pollVars>>
      /\ hand[h] \in [step : {"vote", "voteWrite", "change", "changeDelete", "changeWrite"},
                      user : Everyone, choice : SUBSET Options \ {{}}, twice : BOOLEAN]
  BY PollHolds DEF VoteRead
<1>2. CASE InHand(h, Idle)
  BY <1>1, <1>2, HandStates, ReadsNext DEF PollSteps, Known, Ready
<1>3. ASSUME OpenPoll, poll.multiple \/ Cardinality(hand[h].choice) = 1,
             NEW next \in {"voteWrite", "changeDelete"}, NextOf(h, next),
             next = "voteWrite" => VotesOf(hand[h].user) = {}
      PROVE  KeepsVotes(h)
  <2>1. PICK state : state = [hand[h] EXCEPT !.step = next]
    OBVIOUS
  <2>2. /\ state.step = next /\ state.user = hand[h].user /\ state.choice = hand[h].choice
        /\ state \in [step : {"voteWrite", "changeDelete"},
                      user : Everyone, choice : SUBSET Options \ {{}}, twice : BOOLEAN]
    BY <1>1, <2>1
  <2>3. state \in AnyHand /\ InHand(h, state)
    BY <1>3, <2>1, <2>2 DEF NextOf, AnyHand, PollHand
  <2>4. poll # NoPoll /\ poll.status = "OPEN"
    BY <1>3 DEF OpenPoll, NoPoll
  <2>5. ~poll.multiple => \E c \in Options : state.choice = {c}
    <3>1. IsFiniteSet(state.choice) /\ state.choice \subseteq Options
      BY <2>2, PollsAssumption, FS_Subset
    <3> QED
      BY <1>3, <2>2, <3>1, FS_Singleton
  <2>6. Known(state) /\ Ready(state)
    BY <1>3, <2>2, <2>4, <2>5 DEF Known, Ready
  <2> QED
    BY <1>1, <2>2, <2>3, <2>6, ReadsNext DEF PollSteps
<1> QED
  BY <1>2, <1>3 DEF VoteRead

LEMMA ChangeDeleteNext ==
  ASSUME ParticipationInv, VotesInv, NEW h \in Hands, ChangeDelete(h)
  PROVE  KeepsVotes(h)
<1>1. PICK state : state = [hand[h] EXCEPT !.step = "changeWrite"]
  OBVIOUS
<1>2. /\ hand[h].step = "changeDelete" /\ UNCHANGED <<eventTables, mishaps, poll>>
      /\ hand[h] \in [step : {"vote", "voteWrite", "change", "changeDelete", "changeWrite"},
                      user : Everyone, choice : SUBSET Options \ {{}}, twice : BOOLEAN]
      /\ Overtakes(h, state)
  BY <1>1, PollHolds DEF ChangeDelete
<1>3. /\ state.step = "changeWrite" /\ state.user = hand[h].user /\ state.choice = hand[h].choice
      /\ state \in [step : {"changeWrite"}, user : Everyone, choice : SUBSET Options \ {{}}, twice : BOOLEAN]
  BY <1>1, <1>2
<1>4. state \in AnyHand
  BY <1>3 DEF AnyHand, PollHand
<1>5. Known(hand[h]) /\ ("votes" \notin mishaps => Ready(hand[h]))
  BY DEF VotesInv, VotesAlone
<1>6. Known(state)'
  BY <1>2, <1>3, <1>5 DEF Known
<1>7. votes' = {v \in votes : v[1] # state.user}
  BY <1>3 DEF ChangeDelete, VotesOf
<1>8. "votes" \notin mishaps => Ready(state)'
  BY <1>2, <1>3, <1>5, <1>7 DEF Ready, VotesOf
<1>9. /\ poll' \in Poll /\ votes' \subseteq Everyone \X Options /\ (poll' = NoPoll => votes' = {})
      /\ poll # NoPoll => poll' # NoPoll /\ poll'.multiple = poll.multiple
  BY <1>2, <1>7 DEF VotesInv, PollsTypeOK
<1>10. "votes" \notin mishaps =>
         (poll' # NoPoll /\ ~poll'.multiple => \A v, w \in votes' : v[1] = w[1] => v = w)
  BY <1>2, <1>7 DEF VotesInv, VotesAlone
<1> QED
  BY <1>2, <1>3, <1>4, <1>6, <1>8, <1>9, <1>10, WritesNext DEF PollSteps

LEMMA VoteWriteNext ==
  ASSUME ParticipationInv, VotesInv, NEW h \in Hands, VoteWrite(h)
  PROVE  KeepsVotes(h)
<1>1. /\ hand[h].step \in {"voteWrite", "changeWrite"} /\ UNCHANGED <<eventTables, mishaps, poll>>
      /\ hand[h] \in [step : {"vote", "voteWrite", "change", "changeDelete", "changeWrite"},
                      user : Everyone, choice : SUBSET Options \ {{}}, twice : BOOLEAN]
  BY PollHolds DEF VoteWrite
<1>2. Known(hand[h]) /\ ("votes" \notin mishaps => Ready(hand[h]))
  BY DEF VotesInv, VotesAlone
<1>3. PICK u \in Everyone, choice \in SUBSET Options :
        u = hand[h].user /\ choice = hand[h].choice /\ Ballot(h) = {u} \X choice
  BY <1>1 DEF Ballot
<1>4. ASSUME poll.status # "DELETED", votes' = votes \cup ({u} \X choice),
             Overtakes(h, [step |-> "pollFetch", user |-> u])
      PROVE  KeepsVotes(h)
  <2>1. PICK state \in AnyHand : /\ state = [step |-> "pollFetch", user |-> u]
                                 /\ state.step = "pollFetch"
    BY PollHandStates
  <2>2. poll # NoPoll
    BY <1>1, <1>2 DEF Known
  <2>3. Known(state)' /\ Ready(state)'
    BY <1>1, <1>4, <2>1, <2>2 DEF Known, Ready
  <2>4. poll' \in Poll /\ votes' \subseteq Everyone \X Options
    BY <1>1, <1>4 DEF VotesInv, PollsTypeOK
  <2>5. ASSUME "votes" \notin mishaps, ~poll.multiple
        PROVE  \A v, w \in votes' : v[1] = w[1] => v = w
    <3>1. PICK c \in Options : choice = {c}
      BY <1>1, <1>2, <1>3, <2>5 DEF Known
    <3>2. \A v \in votes : v[1] # u
      BY <1>1, <1>2, <1>3, <2>5 DEF Ready, VotesOf
    <3>3. \A v, w \in votes : v[1] = w[1] => v = w
      BY <2>2, <2>5 DEF VotesInv, VotesAlone
    <3>4. votes' = votes \cup {<<u, c>>}
      BY <1>4, <3>1
    <3> QED
      BY <3>2, <3>3, <3>4
  <2>6. Overtakes(h, state) /\ UNCHANGED <<eventTables, mishaps, poll>>
    BY <1>1, <1>4, <2>1
  <2> QED
    BY <1>1, <2>1, <2>2, <2>3, <2>4, <2>5, <2>6, WritesNext DEF PollSteps
<1> QED
  BY <1>3, <1>4 DEF VoteWrite, CanVote

LEMMA SettleReadNext ==
  ASSUME ParticipationInv, VotesInv, NEW h \in Hands, SettleRead(h)
  PROVE  KeepsVotes(h)
<1>1. /\ hand[h].step \in {"pollClose", "pollDelete"}
      /\ UNCHANGED <<eventTables, mishaps, pollVars>>
      /\ hand[h] \in [step : {"pollCreate", "pollClose", "pollDelete", "pollClosing",
                              "pollDeleting", "pollFetch"}, user : Everyone]
  BY PollHolds DEF SettleRead
<1>2. CASE InHand(h, Idle)
  BY <1>1, <1>2, HandStates, PollHandStates, ReadsNext DEF PollSteps, Known, Ready
<1>3. ASSUME NEW next \in {"pollClosing", "pollDeleting"}, NextOf(h, next),
             poll.status \in {"OPEN", "CLOSED"}
      PROVE  KeepsVotes(h)
  <2>1. PICK state : state = [hand[h] EXCEPT !.step = next]
    OBVIOUS
  <2>2. state.step = next /\ state \in [step : {"pollClosing", "pollDeleting"}, user : Everyone]
    BY <1>1, <2>1
  <2>3. state \in AnyHand /\ InHand(h, state)
    BY <1>3, <2>1, <2>2 DEF NextOf, AnyHand, PollHand
  <2>4. Known(state) /\ Ready(state)
    BY <1>3, <2>2 DEF Known, Ready, NoPoll
  <2> QED
    BY <1>1, <2>2, <2>3, <2>4, ReadsNext DEF PollSteps
<1> QED
  BY <1>2, <1>3 DEF SettleRead

LEMMA SettleWriteNext ==
  ASSUME ParticipationInv, VotesInv, NEW h \in Hands, SettleWrite(h)
  PROVE  KeepsVotes(h)
<1>1. /\ hand[h].step \in {"pollClosing", "pollDeleting"} /\ UNCHANGED <<eventTables, mishaps>>
      /\ hand[h] \in [step : {"pollCreate", "pollClose", "pollDelete", "pollClosing",
                              "pollDeleting", "pollFetch"}, user : Everyone]
  BY PollHolds DEF SettleWrite
<1>2. poll # NoPoll /\ poll \in Poll /\ votes \subseteq Everyone \X Options
  BY <1>1 DEF VotesInv, Known, PollsTypeOK
<1>3. CASE InHand(h, Idle) /\ UNCHANGED <<poll, votes, current>>
  <2>1. Known(Idle) /\ Ready(Idle) /\ UNCHANGED pollVars
    BY <1>3, HandStates DEF Known, Ready, pollVars
  <2> QED
    BY <1>1, <1>3, <2>1, PollHandStates, ReadsNext DEF PollSteps
<1>4. ASSUME poll' = [poll EXCEPT !.status = "CLOSED"], UNCHANGED votes,
             Overtakes(h, [hand[h] EXCEPT !.step = "pollFetch"])
      PROVE  KeepsVotes(h)
  <2>1. PICK state : state = [hand[h] EXCEPT !.step = "pollFetch"]
    OBVIOUS
  <2>2. state.step = "pollFetch" /\ state \in AnyHand /\ Overtakes(h, state)
    BY <1>1, <1>4, <2>1, PollHandStates
  <2>3. /\ poll' \in Poll /\ poll' # NoPoll /\ poll'.multiple = poll.multiple
        /\ poll'.status = "CLOSED"
    BY <1>2, <1>4 DEF Poll, NoPoll
  <2>4. Known(state)' /\ Ready(state)'
    BY <2>2, <2>3 DEF Known, Ready
  <2>5. "votes" \notin mishaps =>
          (poll' # NoPoll /\ ~poll'.multiple => \A v, w \in votes' : v[1] = w[1] => v = w)
    BY <1>2, <1>4, <2>3 DEF VotesInv, VotesAlone
  <2> QED
    BY <1>1, <1>2, <1>4, <2>2, <2>3, <2>4, <2>5, WritesNext DEF PollSteps
<1>5. ASSUME poll' = [poll EXCEPT !.status = "DELETED"], votes' = {}, Overtakes(h, Fetched)
      PROVE  KeepsVotes(h)
  <2>1. poll' \in Poll /\ poll' # NoPoll /\ poll'.multiple = poll.multiple
    BY <1>2, <1>5 DEF Poll, NoPoll
  <2>2. Known(Fetched)' /\ Ready(Fetched)'
    BY PollHandStates DEF Known, Ready
  <2> QED
    BY <1>1, <1>5, <2>1, <2>2, PollHandStates, WritesNext DEF PollSteps
<1> QED
  BY <1>3, <1>4, <1>5 DEF SettleWrite

LEMMA PollFetchNext ==
  ASSUME ParticipationInv, VotesInv, NEW h \in Hands, PollFetch(h)
  PROVE  KeepsVotes(h)
<1>1. hand[h].step = "pollFetch" /\ UNCHANGED <<eventTables, mishaps, pollVars>>
  BY DEF PollFetch
<1>2. Known(Idle) /\ Ready(Idle) /\ Known(Fetched) /\ Ready(Fetched)
  BY HandStates, PollHandStates DEF Known, Ready
<1>3. CASE poll.status # "DELETED" /\ InHand(h, Fetched)
  BY <1>1, <1>2, <1>3, PollHandStates, ReadsNext DEF PollSteps
<1>4. CASE poll.status = "DELETED" /\ InHand(h, Idle)
  <2>1. "votes" \in mishaps
    BY <1>1, <1>4 DEF VotesInv, VotesAlone, Ready
  <2> QED
    BY <1>1, <1>2, <1>4, <2>1, PollHandStates, ReadsNext DEF PollSteps
<1> QED
  BY <1>3, <1>4 DEF PollFetch

LEMMA AnnounceNext ==
  ASSUME ParticipationInv, VotesInv, NEW h \in Hands, Announce(h)
  PROVE  KeepsVotes(h)
<1>1. /\ hand[h].step = "announce" /\ InHand(h, Idle) /\ current' = hand[h].fresh
      /\ UNCHANGED <<eventTables, mishaps, poll, votes>> /\ hand[h].fresh \in BOOLEAN
  BY PollHolds DEF Announce
<1>2. hand'[h] = Idle /\ \A g \in Hands \ {h} : hand'[g] = hand[g]
  BY <1>1, PollHandStates, HandMoves DEF ParticipationInv
<1>3. PollsTypeOK' /\ (poll = NoPoll => votes = {})'
  BY <1>1 DEF VotesInv, PollsTypeOK
<1>4. ASSUME NEW k PROVE (Known(k) => Known(k)') /\ (Ready(k) => Ready(k)')
  BY <1>1 DEF Known, Ready, VotesOf
<1>5. Known(Idle) /\ Ready(Idle)
  BY HandStates DEF Known, Ready
<1>6. (\A g \in Hands : Known(hand[g]))'
  BY <1>2, <1>4, <1>5 DEF VotesInv
<1>7. ASSUME "votes" \notin mishaps PROVE VotesAlone'
  <2>1. current' = TRUE
    BY <1>1, <1>7 DEF VotesInv, VotesAlone, Ready
  <2>2. (\A g \in Hands : Ready(hand[g]))'
    BY <1>2, <1>4, <1>5, <1>7 DEF VotesInv, VotesAlone
  <2>3. (\A f, g \in Hands : hand[f].step \in PollSteps /\ hand[g].step \in PollSteps => f = g)'
    BY <1>1, <1>2, <1>7 DEF VotesInv, VotesAlone, PollSteps
  <2> QED
    BY <1>1, <1>7, <2>1, <2>2, <2>3 DEF VotesInv, VotesAlone
<1>8. VotesInv'
  BY <1>1, <1>3, <1>6, <1>7 DEF VotesInv, VotesAlone
<1>9. PollMoves(h, Idle)
  BY <1>1, PollHandStates DEF PollMoves, PollSteps
<1> QED
  BY <1>1, <1>8, <1>9 DEF KeepsVotes

LEMMA PollDueNext ==
  ASSUME VotesInv, PollDue
  PROVE  VotesInv'
<1>1. UNCHANGED <<hand, mishaps, votes, current>>
  BY DEF PollDue, participationVars
<1>2. /\ poll # NoPoll /\ poll' \in Poll /\ poll' # NoPoll
      /\ poll'.status = poll.status /\ poll'.multiple = poll.multiple
  <2>1. poll \in [status : {"OPEN", "CLOSED", "DELETED"}, creator : Everyone,
                  multiple : BOOLEAN, due : BOOLEAN]
    BY DEF PollDue, VotesInv, PollsTypeOK, Poll, NoPoll
  <2>2. poll' = [poll EXCEPT !.due = TRUE]
    BY DEF PollDue
  <2>3. /\ poll' \in [status : {"OPEN", "CLOSED", "DELETED"}, creator : Everyone,
                      multiple : BOOLEAN, due : BOOLEAN]
        /\ poll'.status = poll.status /\ poll'.multiple = poll.multiple
    BY <2>1, <2>2
  <2> QED
    BY <2>1, <2>3 DEF Poll, NoPoll
<1>3. PollsTypeOK'
  BY <1>1, <1>2 DEF VotesInv, PollsTypeOK
<1>4. ASSUME NEW k PROVE (Known(k) => Known(k)') /\ (Ready(k) => Ready(k)')
  BY <1>1, <1>2 DEF Known, Ready, VotesOf
<1>5. VotesAlone'
  BY <1>1, <1>2, <1>4 DEF VotesInv, VotesAlone
<1> QED
  BY <1>1, <1>2, <1>3, <1>4, <1>5 DEF VotesInv

LEMMA PollsStepNext ==
  ASSUME ParticipationInv, VotesInv, NEW h \in Hands, PollsStep(h), ~VoteFails(h)
  PROVE  KeepsVotes(h)
BY PollAccessNext, PollCreateNext, VoteReadNext, ChangeDeleteNext, VoteWriteNext,
   SettleReadNext, SettleWriteNext, PollFetchNext, AnnounceNext
DEF PollsStep

-------------------------------------------------------------------------------
(* The list: what a handler at one of these steps knows of the item, if no *)
(* other handler of the list is in flight.                                 *)
Offered(k) ==
  /\ k.step = "claimWrite" /\ k.item \in DOMAIN item
       => Nobody \in {item[k.item].claimedBy, k.claimedBy}
  /\ k.step = "itemsSend" => k.fresh

(* Unless two of them have overlapped, a handler is alone with the list,   *)
(* and a room that is behind is about to be sent it.                       *)
ClaimsAlone ==
  "claims" \notin mishaps =>
    /\ \A g, h \in Hands : hand[g].step \in ItemSteps /\ hand[h].step \in ItemSteps => g = h
    /\ \A h \in Hands : Offered(hand[h])
    /\ "unsent" \notin mishaps /\ ~boardFresh =>
         \E h \in Hands : hand[h].step \in {"itemsFetch", "itemsSend"}

ClaimsInv == ItemsTypeOK /\ ClaimsAlone

LEMMA ClaimsElsewhere ==
  ASSUME ClaimsInv, UNCHANGED itemVars, mishaps \subseteq mishaps', Elsewhere(ItemSteps)
  PROVE  ClaimsInv'
<1>1. UNCHANGED <<itemList, item, drawn, boardFresh>>
  BY DEF itemVars
<1>2. ItemsTypeOK'
  BY <1>1 DEF ClaimsInv, ItemsTypeOK
<1>3. ASSUME NEW h \in Hands PROVE Offered(hand[h]) => Offered(hand[h])'
  <2>1. CASE hand'[h] = hand[h]
    BY <1>1, <2>1 DEF Offered
  <2>2. CASE hand'[h].step \notin ItemSteps
    BY <2>2 DEF Offered, ItemSteps
  <2> QED
    BY <2>1, <2>2 DEF Elsewhere
<1>4. ASSUME "claims" \notin mishaps' PROVE ClaimsAlone'
  <2>1. "claims" \notin mishaps
    BY <1>4
  <2>2. (\A g, h \in Hands : hand[g].step \in ItemSteps /\ hand[h].step \in ItemSteps => g = h)'
    BY <2>1 DEF ClaimsInv, ClaimsAlone, Elsewhere
  <2>3. (\A h \in Hands : Offered(hand[h]))'
    BY <1>3, <2>1 DEF ClaimsInv, ClaimsAlone
  <2>4. ("unsent" \notin mishaps /\ ~boardFresh =>
           \E h \in Hands : hand[h].step \in {"itemsFetch", "itemsSend"})'
    BY <1>1, <2>1 DEF ClaimsInv, ClaimsAlone, Elsewhere, ItemSteps
  <2> QED
    BY <2>2, <2>3, <2>4 DEF ClaimsAlone
<1> QED
  BY <1>2, <1>4 DEF ClaimsInv, ClaimsAlone

LEMMA ClaimsRestart ==
  ASSUME ClaimsInv, HandlersFail, UNCHANGED itemVars
  PROVE  ClaimsInv'
<1>1. PICK gone \in SUBSET Hands : HandsStop(gone)
  BY DEF HandlersFail
<1>2. /\ UNCHANGED <<itemList, item, drawn, boardFresh>>
      /\ mishaps' = IF \E h \in gone : hand[h].step \in Unsent THEN mishaps \cup {"unsent"} ELSE mishaps
      /\ \A h \in Hands : hand'[h] = IF h \in gone THEN Idle ELSE hand[h]
  BY <1>1 DEF itemVars, HandsStop
<1>3. ItemsTypeOK'
  BY <1>2 DEF ClaimsInv, ItemsTypeOK
<1>4. Offered(Idle) /\ Idle.step \notin ItemSteps
  BY HandStates, StepsApart DEF Offered
<1>5. ASSUME NEW k PROVE Offered(k) => Offered(k)'
  BY <1>2 DEF Offered
<1>6. ASSUME "claims" \notin mishaps PROVE ClaimsAlone'
  <2>1. (\A g, h \in Hands : hand[g].step \in ItemSteps /\ hand[h].step \in ItemSteps => g = h)'
    BY <1>2, <1>4, <1>6 DEF ClaimsInv, ClaimsAlone
  <2>2. (\A h \in Hands : Offered(hand[h]))'
    BY <1>2, <1>4, <1>5, <1>6 DEF ClaimsInv, ClaimsAlone
  <2>3. ("unsent" \notin mishaps /\ ~boardFresh =>
           \E h \in Hands : hand[h].step \in {"itemsFetch", "itemsSend"})'
    <3>1. SUFFICES ASSUME "unsent" \notin mishaps', ~boardFresh'
                   PROVE  \E h \in Hands : hand'[h].step \in {"itemsFetch", "itemsSend"}
      OBVIOUS
    <3>2. mishaps' = mishaps /\ \A h \in gone : hand[h].step \notin Unsent
      BY <1>2, <3>1
    <3>3. PICK h \in Hands : hand[h].step \in {"itemsFetch", "itemsSend"}
      BY <1>2, <1>6, <3>1, <3>2 DEF ClaimsInv, ClaimsAlone
    <3>4. h \notin gone
      BY <3>2, <3>3 DEF Unsent
    <3> QED
      BY <1>2, <3>3, <3>4
  <2> QED
    BY <2>1, <2>2, <2>3 DEF ClaimsAlone
<1> QED
  BY <1>2, <1>3, <1>6 DEF ClaimsInv, ClaimsAlone

LEMMA ItemHandStates ==
  /\ \A u \in Everyone, step \in {"list", "add", "itemCreate"} :
       [step |-> step, user |-> u] \in AnyHand
  /\ \A u \in Everyone, adding \in BOOLEAN :
       [step |-> "listCreate", user |-> u, adding |-> adding] \in AnyHand
  /\ \A u \in Everyone, x \in Items,
        step \in {"update", "updateWrite", "delete", "deleteWrite", "claim"} :
       [step |-> step, user |-> u, item |-> x] \in AnyHand
  /\ \A x \in Items, u \in Everyone \cup {Nobody} :
       [step |-> "claimWrite", item |-> x, claimedBy |-> u] \in AnyHand
  /\ \A fresh \in BOOLEAN : [step |-> "itemsSend", fresh |-> fresh] \in AnyHand
  /\ [step |-> "itemsFetch"] \in AnyHand
  /\ Idle \in AnyHand /\ Idle.step = "idle"
BY DEF AnyHand, ItemHand, ParticipationHand, Idle

(* What a handler of the list has in hand.                                 *)
LEMMA ItemHolds ==
  ASSUME ParticipationInv, NEW h \in Hands
  PROVE  /\ hand[h].step \in {"list", "listCreate", "add", "itemCreate"} => hand[h].user \in Everyone
         /\ hand[h].step \in {"update", "updateWrite", "delete", "deleteWrite", "claim"} =>
              hand[h] \in [step : {"update", "updateWrite", "delete", "deleteWrite", "claim"},
                           user : Everyone, item : Items]
         /\ hand[h].step = "claimWrite" =>
              hand[h].item \in Items /\ hand[h].claimedBy \in Everyone \cup {Nobody}
         /\ hand[h].step = "itemsSend" => hand[h] \in [step : {"itemsSend"}, fresh : BOOLEAN]
BY DEF ParticipationInv, AnyHand, ParticipationHand, PollHand, ItemHand, Idle

(* A write of h also marks what the others have fetched as overtaken.      *)
LEMMA OvertakesItemsMoves ==
  ASSUME ParticipationInv, NEW h \in Hands, OvertakesItems(h)
  PROVE  /\ hand' \in [Hands -> AnyHand] /\ hand'[h] = [step |-> "itemsFetch"] /\ ~boardFresh'
         /\ \A g \in Hands \ {h} : /\ hand[g].step # "itemsSend" => hand'[g] = hand[g]
                                   /\ hand[g].step = "itemsSend" => hand'[g].step = "itemsSend"
<1>1. \A g \in Hands : hand[g].step = "itemsSend" =>
        /\ [hand[g] EXCEPT !.fresh = FALSE] \in AnyHand
        /\ [hand[g] EXCEPT !.fresh = FALSE].step = "itemsSend"
  BY ItemHolds DEF AnyHand, ItemHand
<1>2. \A g \in Hands : hand[g] \in AnyHand
  BY DEF ParticipationInv
<1> QED
  BY <1>1, <1>2, ItemHandStates DEF OvertakesItems

(* Any of the steps of the list: h goes on, begins, or is done.            *)
ItemMoves(h, state) ==
  /\ state \in AnyHand /\ {hand[h].step, state.step} \subseteq ItemSteps \cup {"idle"}
  /\ InHand(h, state) \/ (state = [step |-> "itemsFetch"] /\ OvertakesItems(h))

LEMMA ItemMovesElsewhere ==
  ASSUME ParticipationInv, NEW h \in Hands, NEW state, ItemMoves(h, state)
  PROVE  /\ hand' \in [Hands -> AnyHand]
         /\ Elsewhere(PollSteps) /\ Elsewhere({"answerWrite"})
<1>1. state \in AnyHand /\ {hand[h].step, state.step} \subseteq ItemSteps \cup {"idle"}
  BY DEF ItemMoves
<1>2. /\ hand' \in [Hands -> AnyHand] /\ hand'[h] = state
      /\ \A g \in Hands \ {h} : /\ hand[g].step # "itemsSend" => hand'[g] = hand[g]
                                /\ hand[g].step = "itemsSend" => hand'[g].step = "itemsSend"
  BY <1>1, HandMoves, OvertakesItemsMoves DEF ItemMoves, ParticipationInv
<1>3. "itemsSend" \notin PollSteps /\ "answerWrite" \notin ItemSteps /\ "idle" \notin PollSteps
  BY DEF ItemSteps, PollSteps
<1> QED
  BY <1>1, <1>2, <1>3, StepsApart DEF Elsewhere

(* What each step of the list does to everything else.                     *)
KeepsClaims(h) ==
  /\ UNCHANGED eventTables /\ mishaps' \in {mishaps, mishaps \cup {"claims"}}
  /\ \E state : ItemMoves(h, state)
  /\ ClaimsInv'

LEMMA OthersOffered ==
  ASSUME NEW k, k.step \notin ItemSteps
  PROVE  Offered(k)'
BY DEF Offered, ItemSteps

(* A handler of the list that writes no item. *)
LEMMA ItemReadsNext ==
  ASSUME ParticipationInv, ClaimsInv, NEW h \in Hands, NEW state \in AnyHand, InHand(h, state),
         hand[h].step \in ItemSteps, state.step \in ItemSteps \cup {"idle"},
         UNCHANGED <<eventTables, mishaps, item, drawn, boardFresh>>, itemList' \in BOOLEAN,
         "claims" \notin mishaps => Offered(state),
         hand[h].step \notin {"itemsFetch", "itemsSend"} \/ state.step = "itemsSend"
  PROVE  KeepsClaims(h)
<1>1. /\ hand'[h] = state
      /\ \A g \in Hands \ {h} : hand'[g] = hand[g]
  BY HandMoves DEF ParticipationInv
<1>2. ItemsTypeOK'
  BY DEF ClaimsInv, ItemsTypeOK
<1>3. ASSUME NEW k PROVE Offered(k) => Offered(k)'
  BY DEF Offered
<1>4. ASSUME "claims" \notin mishaps PROVE ClaimsAlone'
  <2>1. \A g \in Hands \ {h} : hand[g].step \notin ItemSteps
    BY <1>4 DEF ClaimsInv, ClaimsAlone
  <2>2. (\A g \in Hands : Offered(hand[g]))'
    BY <1>1, <1>3, <1>4 DEF ClaimsInv, ClaimsAlone
  <2>3. ASSUME "unsent" \notin mishaps, ~boardFresh
        PROVE  hand'[h].step \in {"itemsFetch", "itemsSend"}
    BY <1>1, <1>4, <2>1, <2>3 DEF ClaimsInv, ClaimsAlone, ItemSteps
  <2> QED
    BY <1>1, <2>1, <2>2, <2>3 DEF ClaimsAlone
<1>5. ClaimsInv'
  BY <1>2, <1>4 DEF ClaimsInv, ClaimsAlone
<1>6. ItemMoves(h, state)
  BY DEF ItemMoves
<1> QED
  BY <1>5, <1>6 DEF KeepsClaims

(* A handler of the list that writes one. *)
LEMMA ItemWritesNext ==
  ASSUME ParticipationInv, ClaimsInv, NEW h \in Hands, OvertakesItems(h),
         hand[h].step \in ItemSteps, UNCHANGED <<eventTables, mishaps, itemList>>,
         DOMAIN item' \subseteq drawn', item' \in [DOMAIN item' -> ItemRow],
         drawn' \subseteq Items
  PROVE  KeepsClaims(h)
<1>1. PICK state \in AnyHand : state = [step |-> "itemsFetch"] /\ state.step = "itemsFetch"
  BY ItemHandStates
<1>2. /\ hand'[h] = state /\ boardFresh' = FALSE
      /\ \A g \in Hands \ {h} : /\ hand[g].step # "itemsSend" => hand'[g] = hand[g]
                                /\ hand[g].step = "itemsSend" => hand'[g].step = "itemsSend"
  BY <1>1, OvertakesItemsMoves DEF OvertakesItems
<1>3. ItemsTypeOK'
  BY <1>2 DEF ClaimsInv, ItemsTypeOK
<1>4. ASSUME "claims" \notin mishaps PROVE ClaimsAlone'
  <2>1. \A g \in Hands \ {h} : hand[g].step \notin ItemSteps /\ hand'[g] = hand[g]
    BY <1>2, <1>4 DEF ClaimsInv, ClaimsAlone, ItemSteps
  <2>2. Offered(state)'
    BY <1>1 DEF Offered
  <2>3. (\A g \in Hands : Offered(hand[g]))'
    BY <1>2, <2>1, <2>2, OthersOffered
  <2> QED
    BY <1>1, <1>2, <2>1, <2>3 DEF ClaimsAlone
<1>5. ClaimsInv'
  BY <1>3, <1>4 DEF ClaimsInv, ClaimsAlone
<1>6. ItemMoves(h, state)
  BY <1>1, ItemHandStates DEF ItemMoves, ItemSteps
<1> QED
  BY <1>5, <1>6 DEF KeepsClaims

LEMMA ItemAccessNext ==
  ASSUME ParticipationInv, ClaimsInv, NEW h \in Hands, NEW u \in Everyone, ItemAccess(h, u)
  PROVE  KeepsClaims(h)
<1>1. PICK state \in AnyHand :
        /\ state.step \in {"list", "add", "update", "delete", "claim"}
        /\ Access(h, u, "claims", ItemSteps, state)
  <2>1. DOMAIN item \subseteq Items
    BY DEF ClaimsInv, ItemsTypeOK
  <2> QED
    BY <2>1, ItemHandStates DEF ItemAccess
<1>2. /\ hand[h] = Idle /\ InHand(h, state) /\ UNCHANGED <<itemList, item, drawn, boardFresh>>
      /\ UNCHANGED eventTables /\ mishaps' \in {mishaps, mishaps \cup {"claims"}}
      /\ "claims" \notin mishaps' => \A g \in Hands \ {h} : hand[g].step \notin ItemSteps
  BY <1>1 DEF Access, Meets, ItemAccess, itemVars
<1>3. hand'[h] = state /\ \A g \in Hands \ {h} : hand'[g] = hand[g]
  BY <1>2, HandMoves DEF ParticipationInv
<1>4. ItemMoves(h, state)
  BY <1>1, <1>2, HandStates DEF ItemMoves, ItemSteps
<1>5. ItemsTypeOK'
  BY <1>2 DEF ClaimsInv, ItemsTypeOK
<1>6. Offered(state)'
  BY <1>1 DEF Offered
<1>7. ASSUME NEW k PROVE Offered(k) => Offered(k)'
  BY <1>2 DEF Offered
<1>8. ASSUME "claims" \notin mishaps' PROVE ClaimsAlone'
  <2>1. "claims" \notin mishaps /\ ("unsent" \in mishaps' <=> "unsent" \in mishaps)
    BY <1>2, <1>8
  <2>2. (\A g \in Hands : Offered(hand[g]))'
    BY <1>3, <1>6, <1>7, <2>1 DEF ClaimsInv, ClaimsAlone
  <2>3. \A g \in Hands \ {h} : hand[g].step \notin ItemSteps
    BY <1>2, <1>8
  <2>4. "unsent" \notin mishaps => boardFresh
    BY <1>2, <2>1, <2>3, HandStates DEF ClaimsInv, ClaimsAlone, ItemSteps
  <2> QED
    BY <1>2, <1>3, <2>1, <2>2, <2>3, <2>4 DEF ClaimsAlone
<1>9. ClaimsInv'
  BY <1>5, <1>8 DEF ClaimsInv, ClaimsAlone
<1> QED
  BY <1>2, <1>4, <1>9 DEF KeepsClaims

LEMMA ListNext ==
  ASSUME ParticipationInv, ClaimsInv, NEW h \in Hands,
         GetList(h) \/ ListCreate(h) \/ ItemNotCreated(h) \/ FetchItems(h)
  PROVE  KeepsClaims(h)
<1>1. itemList \in BOOLEAN
  BY DEF ClaimsInv, ItemsTypeOK
<1>2. ASSUME NEW state \in AnyHand, InHand(h, state), itemList' \in BOOLEAN,
             UNCHANGED <<eventTables, mishaps, item, drawn, boardFresh>>,
             hand[h].step \in {"list", "listCreate", "add", "itemCreate"},
             state.step \in {"idle", "listCreate", "itemCreate"}
      PROVE  KeepsClaims(h)
  <2>1. Offered(state)
    BY <1>2 DEF Offered
  <2> QED
    BY <1>2, <2>1, ItemReadsNext DEF ItemSteps
<1>3. CASE GetList(h)
  <2>1. PICK u \in Everyone : u = hand[h].user
    BY <1>3, ItemHolds DEF GetList
  <2>2. PICK adding \in BOOLEAN : adding = (hand[h].step = "add")
    OBVIOUS
  <2>3. PICK state \in {[step |-> "listCreate", user |-> u, adding |-> adding],
                        [step |-> "itemCreate", user |-> u], Idle} : InHand(h, state)
    BY <1>3, <2>1, <2>2 DEF GetList
  <2>4. state \in AnyHand /\ state.step \in {"idle", "listCreate", "itemCreate"}
    <3>1. /\ [step |-> "listCreate", user |-> u, adding |-> adding] \in AnyHand
          /\ [step |-> "itemCreate", user |-> u] \in AnyHand
      BY ItemHandStates
    <3> QED
      BY <2>3, <3>1, ItemHandStates
  <2>5. /\ hand[h].step \in {"list", "add"} /\ itemList' \in BOOLEAN
        /\ UNCHANGED <<eventTables, mishaps, item, drawn, boardFresh>>
    BY <1>1, <1>3 DEF GetList, itemVars
  <2> QED
    BY <1>2, <2>3, <2>4, <2>5
<1>4. CASE ListCreate(h)
  <2>1. PICK u \in Everyone : u = hand[h].user
    BY <1>4, ItemHolds DEF ListCreate
  <2>2. PICK state \in {[step |-> "itemCreate", user |-> u], Idle} : InHand(h, state)
    BY <1>4, <2>1 DEF ListCreate
  <2>3. state \in AnyHand /\ state.step \in {"idle", "listCreate", "itemCreate"}
    <3>1. [step |-> "itemCreate", user |-> u] \in AnyHand
      BY ItemHandStates
    <3> QED
      BY <2>2, <3>1, ItemHandStates
  <2>4. /\ hand[h].step = "listCreate" /\ itemList' \in BOOLEAN
        /\ UNCHANGED <<eventTables, mishaps, item, drawn, boardFresh>>
    BY <1>4 DEF ListCreate
  <2> QED
    BY <1>2, <2>2, <2>3, <2>4
<1>5. CASE ItemNotCreated(h)
  BY <1>1, <1>2, <1>5, ItemHandStates DEF ItemNotCreated, itemVars
<1>6. CASE FetchItems(h)
  <2>1. PICK state \in AnyHand : /\ state = [step |-> "itemsSend", fresh |-> TRUE]
                                 /\ state.step = "itemsSend" /\ state.fresh
    BY ItemHandStates
  <2>2. Offered(state)
    BY <2>1 DEF Offered
  <2> QED
    BY <1>1, <1>6, <2>1, <2>2, ItemReadsNext DEF FetchItems, itemVars, ItemSteps
<1> QED
  BY <1>3, <1>4, <1>5, <1>6

LEMMA ItemReadNext ==
  ASSUME ParticipationInv, ClaimsInv, NEW h \in Hands, ItemRead(h) \/ ClaimRead(h)
  PROVE  KeepsClaims(h)
<1>1. /\ hand[h].step \in {"update", "delete", "claim"}
      /\ hand[h] \in [step : {"update", "updateWrite", "delete", "deleteWrite", "claim"},
                      user : Everyone, item : Items]
      /\ UNCHANGED <<eventTables, mishaps, item, drawn, boardFresh, itemList>>
      /\ itemList \in BOOLEAN
  BY ItemHolds DEF ItemRead, ClaimRead, itemVars, ClaimsInv, ItemsTypeOK
<1>2. ASSUME NEW state \in AnyHand, InHand(h, state),
             state.step \in {"idle", "updateWrite", "deleteWrite", "claimWrite"}, Offered(state)
      PROVE  KeepsClaims(h)
  BY <1>1, <1>2, ItemReadsNext DEF ItemSteps
<1>3. CASE InHand(h, Idle)
  <2>1. Offered(Idle)
    BY HandStates DEF Offered
  <2> QED
    BY <1>2, <1>3, <2>1, ItemHandStates
<1>4. ASSUME NEW next \in {"updateWrite", "deleteWrite"}, NextOf(h, next) PROVE KeepsClaims(h)
  <2>1. PICK state : state = [hand[h] EXCEPT !.step = next]
    OBVIOUS
  <2>2. /\ state.step = next
        /\ state \in [step : {"updateWrite", "deleteWrite"}, user : Everyone, item : Items]
    BY <1>1, <2>1
  <2>3. state \in AnyHand /\ Offered(state)
    BY <2>2 DEF AnyHand, ItemHand, Offered
  <2> QED
    BY <1>2, <1>4, <2>1, <2>2, <2>3 DEF NextOf
<1>5. ASSUME hand[h].item \in DOMAIN item, item[hand[h].item].claimedBy \in {hand[h].user, Nobody},
             InHand(h, [step |-> "claimWrite", item |-> hand[h].item,
                        claimedBy |-> IF item[hand[h].item].claimedBy = hand[h].user THEN Nobody
                                      ELSE hand[h].user])
      PROVE  KeepsClaims(h)
  <2>1. PICK x \in Items, u \in Everyone : x = hand[h].item /\ u = hand[h].user
    BY <1>1
  <2>2. PICK by \in {u, Nobody} : by = IF item[x].claimedBy = u THEN Nobody ELSE u
    OBVIOUS
  <2>3. PICK state \in AnyHand :
          /\ state = [step |-> "claimWrite", item |-> x, claimedBy |-> by]
          /\ state.step = "claimWrite" /\ state.item = x /\ state.claimedBy = by
    <3>1. by \in Everyone \cup {Nobody}
      OBVIOUS
    <3>2. [step |-> "claimWrite", item |-> x, claimedBy |-> by] \in AnyHand
      BY <3>1, ItemHandStates
    <3> QED
      BY <3>2
  <2>4. Offered(state)
    BY <1>5, <2>1, <2>2, <2>3 DEF Offered
  <2> QED
    BY <1>2, <1>5, <2>1, <2>2, <2>3, <2>4
<1>6. CASE ItemRead(h)
  BY <1>3, <1>4, <1>6 DEF ItemRead
<1>7. CASE ClaimRead(h)
  BY <1>3, <1>5, <1>7 DEF ClaimRead
<1> QED
  BY <1>6, <1>7

LEMMA ItemWriteNext ==
  ASSUME ParticipationInv, ClaimsInv, NEW h \in Hands,
         ItemCreate(h) \/ ItemWrite(h) \/ ClaimWrite(h)
  PROVE  KeepsClaims(h)
<1>1. /\ DOMAIN item \subseteq drawn /\ item \in [DOMAIN item -> ItemRow]
      /\ drawn \subseteq Items /\ itemList \in BOOLEAN
  BY DEF ClaimsInv, ItemsTypeOK
<1>2. CASE ItemCreate(h)
  <2>1. hand[h].step = "itemCreate" /\ hand[h].user \in Everyone
    BY <1>2, ItemHolds DEF ItemCreate
  <2>2. PICK row : row = [addedBy |-> hand[h].user, claimedBy |-> Nobody]
    OBVIOUS
  <2>3. row \in ItemRow
    BY <2>1, <2>2 DEF ItemRow
  <2>4. PICK x \in Items \ drawn : item' = Put(item, x, row) /\ drawn' = drawn \cup {x}
    BY <1>2, <2>2 DEF ItemCreate
  <2>5. DOMAIN item' \subseteq drawn' /\ item' \in [DOMAIN item' -> ItemRow]
    BY <1>1, <2>3, <2>4 DEF Put
  <2> QED
    BY <1>1, <1>2, <2>1, <2>4, <2>5, ItemWritesNext DEF ItemCreate, ItemSteps
<1>3. ASSUME hand[h].step \in {"updateWrite", "deleteWrite", "claimWrite"}, InHand(h, Idle),
             UNCHANGED <<eventTables, mishaps, itemList, item, drawn, boardFresh>>
      PROVE  KeepsClaims(h)
  <2>1. Offered(Idle)
    BY HandStates DEF Offered
  <2> QED
    BY <1>1, <1>3, <2>1, ItemHandStates, ItemReadsNext DEF ItemSteps
<1>4. CASE ItemWrite(h)
  <2>1. CASE hand[h].item \in DOMAIN item
    <3>1. item' \in {item, Drop(item, {hand[h].item})} /\ OvertakesItems(h)
      BY <1>4, <2>1 DEF ItemWrite
    <3>2. DOMAIN item' \subseteq drawn /\ item' \in [DOMAIN item' -> ItemRow]
      BY <1>1, <3>1 DEF Drop
    <3> QED
      BY <1>1, <1>4, <3>1, <3>2, ItemWritesNext DEF ItemWrite, ItemSteps
  <2>2. CASE hand[h].item \notin DOMAIN item
    BY <1>3, <1>4, <2>2 DEF ItemWrite
  <2> QED
    BY <2>1, <2>2
<1>5. CASE ClaimWrite(h)
  <2>1. CASE hand[h].item \in DOMAIN item
    <3>1. hand[h].claimedBy \in Everyone \cup {Nobody}
      BY <1>5, ItemHolds DEF ClaimWrite
    <3>2. item' = [item EXCEPT ![hand[h].item].claimedBy = hand[h].claimedBy] /\ OvertakesItems(h)
      BY <1>5, <2>1 DEF ClaimWrite
    <3>3. DOMAIN item' \subseteq drawn /\ item' \in [DOMAIN item' -> ItemRow]
      BY <1>1, <3>1, <3>2 DEF ItemRow
    <3> QED
      BY <1>1, <1>5, <3>2, <3>3, ItemWritesNext DEF ClaimWrite, ItemSteps
  <2>2. CASE hand[h].item \notin DOMAIN item
    BY <1>3, <1>5, <2>2 DEF ClaimWrite
  <2> QED
    BY <2>1, <2>2
<1> QED
  BY <1>2, <1>4, <1>5

LEMMA SendItemsNext ==
  ASSUME ParticipationInv, ClaimsInv, NEW h \in Hands, SendItems(h)
  PROVE  KeepsClaims(h)
<1>1. /\ hand[h].step = "itemsSend" /\ InHand(h, Idle) /\ boardFresh' = hand[h].fresh
      /\ UNCHANGED <<eventTables, mishaps, itemList, item, drawn>> /\ hand[h].fresh \in BOOLEAN
  BY ItemHolds DEF SendItems
<1>2. hand'[h] = Idle /\ \A g \in Hands \ {h} : hand'[g] = hand[g]
  BY <1>1, ItemHandStates, HandMoves DEF ParticipationInv
<1>3. ItemsTypeOK'
  BY <1>1 DEF ClaimsInv, ItemsTypeOK
<1>4. ASSUME NEW k PROVE Offered(k) => Offered(k)'
  BY <1>1 DEF Offered
<1>5. Offered(Idle)'
  BY HandStates DEF Offered
<1>6. ASSUME "claims" \notin mishaps PROVE ClaimsAlone'
  <2>1. boardFresh' = TRUE
    BY <1>1, <1>6 DEF ClaimsInv, ClaimsAlone, Offered
  <2>2. (\A g \in Hands : Offered(hand[g]))'
    BY <1>2, <1>4, <1>5, <1>6 DEF ClaimsInv, ClaimsAlone
  <2>3. (\A f, g \in Hands : hand[f].step \in ItemSteps /\ hand[g].step \in ItemSteps => f = g)'
    BY <1>1, <1>2, <1>6 DEF ClaimsInv, ClaimsAlone, ItemSteps
  <2> QED
    BY <2>1, <2>2, <2>3 DEF ClaimsAlone
<1>7. ClaimsInv'
  BY <1>1, <1>3, <1>6 DEF ClaimsInv, ClaimsAlone
<1>8. ItemMoves(h, Idle)
  BY <1>1, ItemHandStates DEF ItemMoves, ItemSteps
<1> QED
  BY <1>1, <1>7, <1>8 DEF KeepsClaims

LEMMA ItemsStepNext ==
  ASSUME ParticipationInv, ClaimsInv, NEW h \in Hands, ItemsStep(h)
  PROVE  KeepsClaims(h)
BY ItemAccessNext, ListNext, ItemReadNext, ItemWriteNext, SendItemsNext DEF ItemsStep

-------------------------------------------------------------------------------
(* All that is known together. *)
CommunityInv == AnswersInv /\ VotesInv /\ ClaimsInv

LEMMA AnswersInit == ParticipationInit \/ AskedInit => AnswersInv
<1>1. ASSUME ParticipationInit PROVE OneAnswer /\ PlacesCover /\ PlacesExact
  <2>1. Accepted = {}
    BY <1>1 DEF ParticipationInit, Accepted, NoRows
  <2>2. OneAnswer
    BY <1>1, HandStates DEF ParticipationInit, OneAnswer
  <2> QED
    BY <1>1, <2>1, <2>2, FS_EmptySet, ParticipationAssumption
    DEF ParticipationInit, PlacesCover, PlacesExact
<1>2. ASSUME AskedInit PROVE AnswersInv
  <2>1. PICK u \in People : participation = [x \in {u} |-> "PENDING"]
    BY <1>2 DEF AskedInit
  <2>2. Accepted = {}
    BY <2>1 DEF Accepted
  <2>3. /\ DOMAIN participation \subseteq People
        /\ participation \in [DOMAIN participation -> RequestStatus]
    BY <2>1 DEF RequestStatus
  <2>4. ParticipationTypeOK
    <3>1. notices = {<<Organizer, "PENDING">>}
      BY <1>2 DEF AskedInit
    <3>2. places \in Int
      BY <1>2, ParticipationAssumption DEF AskedInit
    <3>3. calledOff \in BOOLEAN /\ turnedAway = {} /\ mishaps = {}
      BY <1>2 DEF AskedInit
    <3> QED
      BY <2>3, <3>1, <3>2, <3>3 DEF ParticipationTypeOK
  <2>5. hand \in [Hands -> AnyHand] /\ AnswersExist /\ OneAnswer
    BY <1>2, HandStates DEF AskedInit, AnswersExist, OneAnswer
  <2>6. PlacesCover /\ PlacesExact
    BY <1>2, <2>2, FS_EmptySet, ParticipationAssumption DEF AskedInit, PlacesCover, PlacesExact
  <2> QED
    BY <2>4, <2>5, <2>6 DEF AnswersInv, ParticipationInv
<1> QED
  BY <1>1, <1>2, ParticipationInvInit DEF AnswersInv

LEMMA CommunityInvInit == CommunityInit => CommunityInv
<1> SUFFICES ASSUME CommunityInit PROVE CommunityInv
  OBVIOUS
<1>1. AnswersInv
  BY AnswersInit DEF CommunityInit
<1>2. hand = [h \in Hands |-> Idle] /\ mishaps = {}
  BY DEF CommunityInit, ParticipationInit, AskedInit
<1>3. VotesInv
  <2>1. PollsTypeOK /\ votes = {} /\ current /\ poll = NoPoll
    BY DEF CommunityInit, PollsInit, PollsTypeOK, Poll
  <2>2. \A h \in Hands : Known(hand[h]) /\ Ready(hand[h])
    BY <1>2, HandStates DEF Known, Ready
  <2> QED
    BY <1>2, <2>1, <2>2, HandStates, StepsApart DEF VotesInv, VotesAlone
<1>4. ClaimsInv
  <2>1. ItemsTypeOK /\ boardFresh
    BY DEF CommunityInit, ItemsInit, ItemsTypeOK, NoRows
  <2>2. \A h \in Hands : Offered(hand[h])
    BY <1>2, HandStates DEF Offered
  <2> QED
    BY <1>2, <2>1, <2>2, HandStates, StepsApart DEF ClaimsInv, ClaimsAlone
<1> QED
  BY <1>1, <1>3, <1>4 DEF CommunityInv

(* The steps of the three, each of which leaves the others' tables alone.  *)
LEMMA CommunitySteps ==
  ASSUME [CommunityNext]_communityVars
  PROVE  \/ [ParticipationNext]_participationVars /\ UNCHANGED <<pollVars, itemVars>>
         \/ (\E h \in Hands : PollsStep(h)) /\ UNCHANGED itemVars
         \/ PollDue /\ UNCHANGED itemVars
         \/ (\E h \in Hands : ItemsStep(h)) /\ UNCHANGED pollVars
<1>1. CASE UNCHANGED communityVars
  BY <1>1 DEF communityVars
<1>2. ASSUME HandlersFail \/ \E h \in Hands : Answering(h) PROVE ParticipationNext
  BY <1>2 DEF Answering, ParticipationNext, ParticipationStep
<1> QED
  BY <1>1, <1>2 DEF CommunityNext

LEMMA CommunityInvNext == CommunityInv /\ [CommunityNext]_communityVars => CommunityInv'
<1> SUFFICES ASSUME CommunityInv, [CommunityNext]_communityVars PROVE CommunityInv'
  OBVIOUS
<1>1. AnswersInv /\ VotesInv /\ ClaimsInv /\ ParticipationInv
  BY DEF CommunityInv, AnswersInv
<1>2. CASE [ParticipationNext]_participationVars /\ UNCHANGED <<pollVars, itemVars>>
  <2>1. AnswersInv'
    BY <1>1, <1>2, AnswersNext
  <2>2. CASE HandlersFail
    BY <1>1, <1>2, <2>1, <2>2, VotesRestart, ClaimsRestart DEF CommunityInv
  <2>3. CASE ~HandlersFail
    <3>1. mishaps \subseteq mishaps' /\ Elsewhere(PollSteps) /\ Elsewhere(ItemSteps)
      BY <1>1, <1>2, <2>3, ParticipationElsewhere DEF Aside
    <3> QED
      BY <1>1, <1>2, <2>1, <3>1, VotesElsewhere, ClaimsElsewhere DEF CommunityInv
  <2> QED
    BY <2>2, <2>3
<1>3. ASSUME NEW h \in Hands, PollsStep(h), ~VoteFails(h), UNCHANGED itemVars
      PROVE  CommunityInv'
  <2>1. KeepsVotes(h)
    BY <1>1, <1>3, PollsStepNext
  <2>2. PICK state : PollMoves(h, state)
    BY <2>1 DEF KeepsVotes
  <2>3. /\ hand' \in [Hands -> AnyHand]
        /\ Elsewhere(ItemSteps) /\ Elsewhere({"answerWrite"})
    BY <1>1, <2>2, PollMovesElsewhere
  <2>4. UNCHANGED eventTables /\ mishaps' \in {mishaps, mishaps \cup {"votes"}} /\ VotesInv'
    BY <2>1 DEF KeepsVotes
  <2>5. AnswersInv'
    BY <1>1, <2>3, <2>4, AnswersElsewhere
  <2>6. ClaimsInv'
    BY <1>1, <1>3, <2>3, <2>4, ClaimsElsewhere
  <2> QED
    BY <2>4, <2>5, <2>6 DEF CommunityInv
<1>4. CASE PollDue /\ UNCHANGED itemVars
  <2>1. UNCHANGED <<eventTables, mishaps, hand>>
    BY <1>4 DEF PollDue, participationVars
  <2>2. Elsewhere(ItemSteps) /\ Elsewhere({"answerWrite"})
    BY <2>1 DEF Elsewhere
  <2>3. hand' \in [Hands -> AnyHand]
    BY <1>1, <2>1 DEF ParticipationInv
  <2> QED
    BY <1>1, <1>4, <2>1, <2>2, <2>3, AnswersElsewhere, PollDueNext, ClaimsElsewhere DEF CommunityInv
<1>5. ASSUME NEW h \in Hands, ItemsStep(h), UNCHANGED pollVars PROVE CommunityInv'
  <2>1. KeepsClaims(h)
    BY <1>1, <1>5, ItemsStepNext
  <2>2. PICK state : ItemMoves(h, state)
    BY <2>1 DEF KeepsClaims
  <2>3. /\ hand' \in [Hands -> AnyHand]
        /\ Elsewhere(PollSteps) /\ Elsewhere({"answerWrite"})
    BY <1>1, <2>2, ItemMovesElsewhere
  <2>4. UNCHANGED eventTables /\ mishaps' \in {mishaps, mishaps \cup {"claims"}} /\ ClaimsInv'
    BY <2>1 DEF KeepsClaims
  <2>5. AnswersInv'
    BY <1>1, <2>3, <2>4, AnswersElsewhere
  <2>6. VotesInv'
    BY <1>1, <1>5, <2>3, <2>4, VotesElsewhere
  <2> QED
    BY <2>4, <2>5, <2>6 DEF CommunityInv
<1>6. ASSUME NEW h \in Hands, VoteFails(h), UNCHANGED itemVars
      PROVE  [ParticipationNext]_participationVars /\ UNCHANGED <<pollVars, itemVars>>
  BY <1>6 DEF VoteFails, HandlersFail, ParticipationNext
<1> QED
  BY <1>2, <1>3, <1>4, <1>5, <1>6, CommunitySteps

(* Every variable keeps its type, whoever asks, votes, claims, overlaps     *)
(* and restarts, for every value of the constants.                         *)
THEOREM CommunityTypeCorrect == CommunitySpec => []CommunityTypeOK
<1>1. CommunityInv => CommunityTypeOK
  BY DEF CommunityInv, AnswersInv, ParticipationInv, AnyHand, VotesInv, ClaimsInv, CommunityTypeOK
<1> QED
  BY <1>1, CommunityInvInit, CommunityInvNext, PTL DEF CommunitySpec

(* What PlacesAreCovered and PlacesAreExact say of the requests holds with *)
(* a poll or a list of items beside them.                                  *)
THEOREM CommunityPlaces == CommunitySpec => [](PlacesCover /\ PlacesExact)
<1>1. CommunityInv => PlacesCover /\ PlacesExact
  BY DEF CommunityInv, AnswersInv
<1> QED
  BY <1>1, CommunityInvInit, CommunityInvNext, PTL DEF CommunitySpec

(* A poll with one choice has one vote a person, for any number of voters  *)
(* and options, unless two handlers of the poll overlapped.                *)
THEOREM VotesStaySingle == CommunitySpec => []OneVoteEach
<1>1. CommunityInv => OneVoteEach
  <2> SUFFICES ASSUME CommunityInv, poll # NoPoll, ~poll.multiple, "votes" \notin mishaps,
                      NEW u \in Everyone
               PROVE  Cardinality(VotesOf(u)) <= 1
    BY DEF OneVoteEach
  <2>1. \A v, w \in VotesOf(u) : v = w
    BY DEF CommunityInv, VotesInv, VotesAlone, VotesOf
  <2>2. VotesOf(u) = {} \/ \E v : VotesOf(u) = {v}
    BY <2>1
  <2>3. CASE VotesOf(u) = {}
    <3>1. Cardinality(VotesOf(u)) = 0
      BY <2>3, FS_EmptySet
    <3> QED
      BY <3>1
  <2>4. ASSUME NEW v, VotesOf(u) = {v} PROVE Cardinality(VotesOf(u)) <= 1
    <3>1. Cardinality({v}) = 1
      BY FS_Singleton
    <3> QED
      BY <2>4, <3>1
  <2> QED
    BY <2>2, <2>3, <2>4
<1> QED
  BY <1>1, CommunityInvInit, CommunityInvNext, PTL DEF CommunitySpec

(* Once all is quiet the event's room has been sent the poll, and the list, *)
(* as they are, unless two handlers overlapped or one failed between its   *)
(* commit and its broadcast.                                               *)
THEOREM RoomsStayCurrent == CommunitySpec => []RoomsAreCurrent
<1>1. CommunityInv => RoomsAreCurrent
  <2> SUFFICES ASSUME CommunityInv PROVE RoomIsCurrent /\ BoardIsCurrent
    BY DEF RoomsAreCurrent
  <2>1. RoomIsCurrent
    BY DEF CommunityInv, VotesInv, VotesAlone, PollsTypeOK, RoomIsCurrent, PollSteps
  <2>2. BoardIsCurrent
    BY DEF CommunityInv, ClaimsInv, ClaimsAlone, ItemsTypeOK, BoardIsCurrent, ItemSteps
  <2> QED
    BY <2>1, <2>2
<1> QED
  BY <1>1, CommunityInvInit, CommunityInvNext, PTL DEF CommunitySpec

(* What a step may not do to a claim. *)
ClaimKept ==
  \A x \in DOMAIN item :
    /\ x \in DOMAIN item' /\ "claims" \notin mishaps
    /\ item[x].claimedBy # Nobody
    => item'[x].claimedBy \in {item[x].claimedBy, Nobody}

LEMMA ClaimKeptNext == CommunityInv /\ [CommunityNext]_communityVars => ClaimKept
<1> SUFFICES ASSUME CommunityInv, [CommunityNext]_communityVars PROVE ClaimKept
  OBVIOUS
<1>1. ItemsTypeOK /\ ("claims" \notin mishaps => \A h \in Hands : Offered(hand[h]))
  BY DEF CommunityInv, ClaimsInv, ClaimsAlone
<1>2. CASE UNCHANGED item
  BY <1>2 DEF ClaimKept
<1>3. ASSUME NEW h \in Hands, ItemCreate(h) PROVE ClaimKept
  BY <1>1, <1>3 DEF ItemCreate, Put, ItemsTypeOK, ClaimKept
<1>4. ASSUME NEW h \in Hands, ItemWrite(h) PROVE ClaimKept
  BY <1>4 DEF ItemWrite, Drop, ClaimKept
<1>5. ASSUME NEW h \in Hands, ClaimWrite(h) PROVE ClaimKept
  <2> SUFFICES ASSUME NEW x \in DOMAIN item, "claims" \notin mishaps,
                      item[x].claimedBy # Nobody
               PROVE  item'[x].claimedBy \in {item[x].claimedBy, Nobody}
    BY DEF ClaimKept
  <2>1. item[x] \in ItemRow
    BY <1>1 DEF ItemsTypeOK
  <2>2. CASE x = hand[h].item
    <3>1. item'[x].claimedBy = hand[h].claimedBy
      BY <1>5, <2>1, <2>2 DEF ClaimWrite, ItemRow
    <3>2. hand[h].claimedBy = Nobody
      BY <1>1, <1>5, <2>2 DEF ClaimWrite, Offered
    <3> QED
      BY <3>1, <3>2
  <2>3. CASE x # hand[h].item
    BY <1>5, <2>3 DEF ClaimWrite
  <2> QED
    BY <2>2, <2>3
<1>6. ASSUME NEW h \in Hands, ItemsStep(h) PROVE ClaimKept
  <2>1. ItemCreate(h) \/ ItemWrite(h) \/ ClaimWrite(h) \/ UNCHANGED item
    BY <1>6 DEF ItemsStep, ItemAccess, GetList, ListCreate, ItemNotCreated, ItemRead, ClaimRead,
                FetchItems, SendItems, itemVars
  <2> QED
    BY <1>2, <1>3, <1>4, <1>5, <2>1
<1>7. CASE UNCHANGED itemVars
  BY <1>2, <1>7 DEF itemVars
<1> QED
  BY <1>6, <1>7, CommunitySteps

(* Nobody takes over what somebody else brings, for any number of items    *)
(* and participants, unless two handlers of the list overlapped.           *)
THEOREM ClaimsStay == CommunitySpec => ClaimsAreKept
<1>1. CommunityInv /\ [CommunityNext]_communityVars => [ClaimKept]_<<item, mishaps>>
  BY ClaimKeptNext
<1> QED
  BY <1>1, CommunityInvInit, CommunityInvNext, PTL DEF CommunitySpec, ClaimsAreKept, ClaimKept
===============================================================================
