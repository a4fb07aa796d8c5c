------------------------------- MODULE GateProofs -------------------------------
(***************************************************************************)
(* Proofs about TicketGate and the StaffInvitations that it extends, for   *)
(* every set of people, invitation ids, tickets and handlers in flight.    *)
(***************************************************************************)
EXTENDS TicketGate, TLAPS

(* The invitation a handler goes on with has been in the table: rows are   *)
(* marked DELETED and never leave the domain.                              *)
RowSteps == {"inviteNotify", "expire", "acceptStaff", "acceptWrite",
             "declineWrite", "cancelWrite", "unnotify"}

AtDeskExists ==
  \A k \in Desks : desk[k].step \in RowSteps => desk[k].invitation \in DOMAIN invitation

StaffInv == StaffTypeOK /\ AtDeskExists

LEMMA StaffDeskStates ==
  /\ Idle \in StaffDesk /\ Idle.step \notin RowSteps
  /\ \A step \in {"inviteFind", "inviteWrite"}, m \in Members :
       [step |-> step, member |-> m] \in StaffDesk
  /\ \A step \in RowSteps, i \in Invitations : [step |-> step, invitation |-> i] \in StaffDesk
BY DEF StaffDesk, Idle, RowSteps

(* What a handler at a desk has in hand. *)
LEMMA DeskHolds ==
  ASSUME StaffInv, NEW k \in Desks
  PROVE  /\ desk[k].step \in {"inviteFind", "inviteWrite"} => desk[k].member \in Members
         /\ desk[k].step \in RowSteps => desk[k].invitation \in DOMAIN invitation
BY DEF StaffInv, StaffTypeOK, AtDeskExists, StaffDesk, Idle, RowSteps

(* A handler moves on while the tables only gain rows. *)
LEMMA AtDeskKeeps ==
  ASSUME StaffInv, NEW k \in Desks, NEW state \in StaffDesk, AtDesk(k, state),
         state.step \in RowSteps => state.invitation \in DOMAIN invitation',
         DOMAIN invitation \subseteq DOMAIN invitation'
  PROVE  desk' \in [Desks -> StaffDesk] /\ AtDeskExists'
BY DEF StaffInv, StaffTypeOK, AtDesk, AtDeskExists

(* A change of the status of a row keeps the table typed. *)
LEMMA SetInvitationType ==
  ASSUME StaffInv, NEW i \in DOMAIN invitation,
         NEW status \in {"PENDING", "ACCEPTED", "DECLINED", "EXPIRED", "DELETED"},
         SetInvitation(i, status)
  PROVE  /\ DOMAIN invitation' = DOMAIN invitation
         /\ invitation' \in [DOMAIN invitation' -> InvitationRow]
<1>1. [invitation[i] EXCEPT !.status = status] \in InvitationRow
  BY DEF StaffInv, StaffTypeOK, InvitationRow
<1>2. invitation' = [invitation EXCEPT ![i] = [invitation[i] EXCEPT !.status = status]]
  BY DEF SetInvitation
<1> QED
  BY <1>1, <1>2 DEF StaffInv, StaffTypeOK

LEMMA StatusWriteKeeps ==
  ASSUME StaffInv, NEW k \in Desks, NEW i \in DOMAIN invitation,
         NEW status \in {"DECLINED", "EXPIRED", "DELETED"},
         NEW state \in StaffDesk, state.step \in RowSteps => state.invitation = i,
         StatusWrite(k, i, status, state),
         UNCHANGED <<staff, invited, phase, swept, cleanup>>
  PROVE  StaffInv'
<1>1. CASE Exists(i)
  <2>1. /\ DOMAIN invitation' = DOMAIN invitation
        /\ invitation' \in [DOMAIN invitation' -> InvitationRow]
    BY <1>1, SetInvitationType DEF StatusWrite
  <2>2. desk' \in [Desks -> StaffDesk] /\ AtDeskExists'
    BY <1>1, <2>1, AtDeskKeeps DEF StatusWrite
  <2> QED
    BY <2>1, <2>2 DEF StaffInv, StaffTypeOK
<1>2. CASE ~Exists(i)
  <2>1. desk' \in [Desks -> StaffDesk] /\ AtDeskExists'
    BY <1>2, StaffDeskStates, AtDeskKeeps DEF StatusWrite
  <2> QED
    BY <1>2, <2>1 DEF StatusWrite, StaffInv, StaffTypeOK
<1> QED
  BY <1>1, <1>2

LEMMA StaffInvInit == StaffInit => StaffInv
<1> SUFFICES ASSUME StaffInit PROVE StaffInv
  OBVIOUS
<1>1. DOMAIN invitation = {} /\ invitation \in [DOMAIN invitation -> InvitationRow]
  BY DEF StaffInit, NoRows
<1>2. desk \in [Desks -> StaffDesk] /\ AtDeskExists
  BY StaffDeskStates DEF StaffInit, AtDeskExists
<1> QED
  BY <1>1, <1>2 DEF StaffInit, StaffInv, StaffTypeOK

LEMMA StaffInvNext == StaffInv /\ [StaffNext]_staffVars => StaffInv'
<1> SUFFICES ASSUME StaffInv, [StaffNext]_staffVars PROVE StaffInv'
  OBVIOUS
<1>1. ASSUME NEW k \in Desks, NEW m \in Members, Invite(k, m) PROVE StaffInv'
  BY <1>1, StaffDeskStates, AtDeskKeeps DEF Invite, staffTables, StaffInv, StaffTypeOK, RowSteps
<1>2. ASSUME NEW k \in Desks, InviteFind(k) PROVE StaffInv'
  <2>1. PICK state \in {Idle, [step |-> "inviteWrite", member |-> desk[k].member]} :
          AtDesk(k, state)
    BY <1>2 DEF InviteFind
  <2>2. state \in StaffDesk /\ state.step \notin RowSteps
    BY <1>2, StaffDeskStates, DeskHolds DEF InviteFind, RowSteps
  <2> QED
    BY <1>2, <2>1, <2>2, AtDeskKeeps DEF InviteFind, staffTables, StaffInv, StaffTypeOK
<1>3. ASSUME NEW k \in Desks, InviteWrite(k) PROVE StaffInv'
  <2>1. PICK i \in Invitations \ DOMAIN invitation :
          /\ invitation' = Put(invitation, i, [member |-> desk[k].member, lapsed |-> FALSE,
                                               status |-> "PENDING"])
          /\ AtDesk(k, [step |-> "inviteNotify", invitation |-> i])
    BY <1>3 DEF InviteWrite
  <2>2. [member |-> desk[k].member, lapsed |-> FALSE, status |-> "PENDING"] \in InvitationRow
    BY <1>3, DeskHolds DEF InviteWrite, InvitationRow
  <2>3. /\ DOMAIN invitation' = DOMAIN invitation \cup {i}
        /\ invitation' \in [DOMAIN invitation' -> InvitationRow]
    BY <2>1, <2>2 DEF Put, StaffInv, StaffTypeOK
  <2>4. [step |-> "inviteNotify", invitation |-> i] \in StaffDesk
    BY StaffDeskStates DEF RowSteps
  <2>5. desk' \in [Desks -> StaffDesk] /\ AtDeskExists'
    BY <2>1, <2>3, <2>4, AtDeskKeeps
  <2> QED
    BY <1>3, <2>3, <2>5 DEF InviteWrite, StaffInv, StaffTypeOK
<1>4. ASSUME NEW k \in Desks, InviteNotify(k) PROVE StaffInv'
  BY <1>4, StaffDeskStates, DeskHolds, AtDeskKeeps
  DEF InviteNotify, StaffInv, StaffTypeOK, RowSteps
<1>5. ASSUME NEW k \in Desks, NEW i \in DOMAIN invitation,
             ReadInvitation(k, i) \/ CancelInvitation(k, i)
      PROVE  StaffInv'
  <2>1. PICK step \in {"expire", "acceptStaff", "declineWrite", "cancelWrite"} :
          AtDesk(k, [step |-> step, invitation |-> i])
    BY <1>5 DEF ReadInvitation, CancelInvitation
  <2>2. [step |-> step, invitation |-> i] \in StaffDesk
    BY StaffDeskStates DEF RowSteps, StaffInv, StaffTypeOK
  <2>3. UNCHANGED <<staffTables, phase, swept, cleanup>>
    BY <1>5 DEF ReadInvitation, CancelInvitation
  <2> QED
    BY <2>1, <2>2, <2>3, AtDeskKeeps DEF staffTables, StaffInv, StaffTypeOK
<1>6. ASSUME NEW k \in Desks, ExpireWrite(k) PROVE StaffInv'
  BY <1>6, StaffDeskStates, DeskHolds, StatusWriteKeeps DEF ExpireWrite, RowSteps
<1>7. ASSUME NEW k \in Desks, AcceptStaff(k) PROVE StaffInv'
  <2>1. desk[k].invitation \in DOMAIN invitation
    BY <1>7, DeskHolds DEF AcceptStaff, RowSteps
  <2>2. PICK state \in {Idle, [step |-> "acceptWrite", invitation |-> desk[k].invitation]} :
          AtDesk(k, state)
    BY <1>7 DEF AcceptStaff
  <2>3. state \in StaffDesk /\ (state.step \in RowSteps => state.invitation \in DOMAIN invitation)
    BY <2>1, StaffDeskStates DEF StaffInv, StaffTypeOK, RowSteps
  <2> QED
    BY <1>7, <2>2, <2>3, AtDeskKeeps DEF AcceptStaff, staffTables, StaffInv, StaffTypeOK
<1>8. ASSUME NEW k \in Desks, AcceptWrite(k) PROVE StaffInv'
  <2> DEFINE i == desk[k].invitation
  <2>1. i \in DOMAIN invitation
    BY <1>8, DeskHolds DEF AcceptWrite, RowSteps
  <2>2. CASE invitation[i].member \notin staff /\ Exists(i)
    <3>1. /\ DOMAIN invitation' = DOMAIN invitation
          /\ invitation' \in [DOMAIN invitation' -> InvitationRow]
      BY <1>8, <2>1, <2>2, SetInvitationType DEF AcceptWrite
    <3>2. desk' \in [Desks -> StaffDesk] /\ AtDeskExists'
      <4>1. AtDesk(k, [step |-> "unnotify", invitation |-> i])
        BY <1>8, <2>2 DEF AcceptWrite
      <4>2. [step |-> "unnotify", invitation |-> i] \in StaffDesk
        BY <2>1, StaffDeskStates DEF RowSteps, StaffInv, StaffTypeOK
      <4> QED
        BY <2>1, <3>1, <4>1, <4>2, AtDeskKeeps
    <3>3. staff' \subseteq Members
      BY <1>8, <2>1, <2>2 DEF AcceptWrite, StaffInv, StaffTypeOK, InvitationRow
    <3> QED
      BY <1>8, <3>1, <3>2, <3>3 DEF AcceptWrite, StaffInv, StaffTypeOK
  <2>3. CASE ~(invitation[i].member \notin staff /\ Exists(i))
    <3>1. AtDesk(k, Idle) /\ UNCHANGED <<staff, invitation>>
      BY <1>8, <2>3 DEF AcceptWrite
    <3> QED
      BY <1>8, <3>1, StaffDeskStates, AtDeskKeeps DEF AcceptWrite, StaffInv, StaffTypeOK
  <2> QED
    BY <2>2, <2>3
<1>9. ASSUME NEW k \in Desks, DeclineWrite(k) \/ CancelInvitationWrite(k) PROVE StaffInv'
  <2>1. desk[k].invitation \in DOMAIN invitation
    BY <1>9, DeskHolds DEF DeclineWrite, CancelInvitationWrite, RowSteps
  <2>2. [step |-> "unnotify", invitation |-> desk[k].invitation] \in StaffDesk
    BY <2>1, StaffDeskStates DEF RowSteps, StaffInv, StaffTypeOK
  <2> QED
    BY <1>9, <2>1, <2>2, StatusWriteKeeps DEF DeclineWrite, CancelInvitationWrite
<1>10. ASSUME NEW k \in Desks, Unnotify(k) PROVE StaffInv'
  BY <1>10, StaffDeskStates, AtDeskKeeps DEF Unnotify, StaffInv, StaffTypeOK
<1>11. CASE CleanupJob \/ ListStaffEvents \/ CleanupDelete \/ MinutePasses
  BY <1>11 DEF CleanupJob, ListStaffEvents, CleanupDelete, MinutePasses, staffTables,
               StaffInv, StaffTypeOK, AtDeskExists
<1>12. ASSUME NEW i \in DOMAIN invitation, Lapse(i) PROVE StaffInv'
  <2>1. [invitation[i] EXCEPT !.lapsed = TRUE] \in InvitationRow
    BY DEF StaffInv, StaffTypeOK, InvitationRow
  <2>2. /\ DOMAIN invitation' = DOMAIN invitation
        /\ invitation' \in [DOMAIN invitation' -> InvitationRow]
    BY <1>12, <2>1 DEF Lapse, StaffInv, StaffTypeOK
  <2> QED
    BY <1>12, <2>2 DEF Lapse, StaffInv, StaffTypeOK, AtDeskExists
<1>13. CASE ClockAdvances
  BY <1>13 DEF ClockAdvances, staffTables, StaffInv, StaffTypeOK, AtDeskExists
<1>14. CASE StaffRestart
  BY <1>14, StaffDeskStates DEF StaffRestart, staffTables, StaffInv, StaffTypeOK, AtDeskExists
<1>15. CASE UNCHANGED staffVars
  BY <1>15 DEF staffVars, staffTables, StaffInv, StaffTypeOK, AtDeskExists
<1> QED
  BY <1>1, <1>2, <1>3, <1>4, <1>5, <1>6, <1>7, <1>8, <1>9, <1>10, <1>11, <1>12,
     <1>13, <1>14, <1>15 DEF StaffNext, InvitationStep

(* Every variable keeps its type; in particular only invitations that have *)
(* been made are answered, cancelled or notified.                          *)
THEOREM StaffTypeCorrect == StaffSpec => []StaffTypeOK
<1>1. StaffInv => StaffTypeOK
  BY DEF StaffInv
<1> QED
  BY <1>1, StaffInvInit, StaffInvNext, PTL DEF StaffSpec
-------------------------------------------------------------------------------
(* Nobody loses the assignment before the end: the clean-up is only ever   *)
(* in flight for an event that has ended.                                  *)
CleanupAfterEnd == cleanup # "none" => phase = "ended"

LEMMA CleanupNext == CleanupAfterEnd /\ [StaffNext]_staffVars => CleanupAfterEnd'
BY DEF CleanupAfterEnd, StaffNext, InvitationStep, Invite, InviteFind, InviteWrite,
  InviteNotify, ReadInvitation, ExpireWrite, AcceptStaff, AcceptWrite, DeclineWrite,
  CancelInvitation, CancelInvitationWrite, Unnotify, CleanupJob, ListStaffEvents,
  CleanupDelete, MinutePasses, Lapse, ClockAdvances, StaffRestart, staffVars, staffTables

(* No step but the end of the event makes an accepted invitation one       *)
(* without an assignment.                                                  *)
LEMMA AcceptedNext ==
  StaffInv /\ CleanupAfterEnd /\ AcceptedIsStaff /\ [StaffNext]_staffVars => AcceptedIsStaff'
<1> SUFFICES ASSUME StaffInv, CleanupAfterEnd, AcceptedIsStaff, [StaffNext]_staffVars
             PROVE  AcceptedIsStaff'
  OBVIOUS
<1> USE DEF AcceptedIsStaff
<1>1. ASSUME NEW k \in Desks, NEW m \in Members, Invite(k, m) PROVE AcceptedIsStaff'
  BY <1>1 DEF Invite, staffTables
<1>2. ASSUME NEW k \in Desks, InviteFind(k) PROVE AcceptedIsStaff'
  BY <1>2 DEF InviteFind, staffTables
<1>3. ASSUME NEW k \in Desks, InviteWrite(k) PROVE AcceptedIsStaff'
  <2>1. PICK i \in Invitations \ DOMAIN invitation :
          invitation' = Put(invitation, i, [member |-> desk[k].member, lapsed |-> FALSE,
                                            status |-> "PENDING"])
    BY <1>3 DEF InviteWrite
  <2>2. invitation'[i].status = "PENDING"
    BY <2>1 DEF Put
  <2>3. \A j \in DOMAIN invitation : invitation'[j] = invitation[j]
    BY <2>1 DEF Put
  <2>4. DOMAIN invitation' = DOMAIN invitation \cup {i}
    BY <2>1 DEF Put
  <2> QED
    BY <1>3, <2>2, <2>3, <2>4 DEF InviteWrite
<1>4. ASSUME NEW k \in Desks, InviteNotify(k) \/ Unnotify(k) PROVE AcceptedIsStaff'
  BY <1>4 DEF InviteNotify, Unnotify
<1>5. ASSUME NEW k \in Desks, NEW i \in DOMAIN invitation,
             ReadInvitation(k, i) \/ CancelInvitation(k, i)
      PROVE  AcceptedIsStaff'
  BY <1>5 DEF ReadInvitation, CancelInvitation, staffTables
<1>6. ASSUME NEW k \in Desks, ExpireWrite(k) \/ DeclineWrite(k) \/ CancelInvitationWrite(k)
      PROVE  AcceptedIsStaff'
  <2>1. desk[k].invitation \in DOMAIN invitation
    BY <1>6, DeskHolds DEF ExpireWrite, DeclineWrite, CancelInvitationWrite, RowSteps
  <2>2. UNCHANGED <<staff, phase>>
    BY <1>6 DEF ExpireWrite, DeclineWrite, CancelInvitationWrite
  <2>3. \/ UNCHANGED invitation
        \/ \E status \in {"EXPIRED", "DECLINED", "DELETED"} :
             invitation' = [invitation EXCEPT ![desk[k].invitation].status = status]
    BY <1>6 DEF ExpireWrite, DeclineWrite, CancelInvitationWrite, StatusWrite, SetInvitation
  <2> QED
    BY <2>1, <2>2, <2>3 DEF StaffInv, StaffTypeOK, InvitationRow
<1>7. ASSUME NEW k \in Desks, AcceptStaff(k) PROVE AcceptedIsStaff'
  BY <1>7 DEF AcceptStaff, staffTables
<1>8. ASSUME NEW k \in Desks, AcceptWrite(k) PROVE AcceptedIsStaff'
  <2>1. \/ UNCHANGED <<staff, invitation>>
        \/ /\ staff' = staff \cup {invitation[desk[k].invitation].member}
           /\ invitation' = [invitation EXCEPT ![desk[k].invitation].status = "ACCEPTED"]
    BY <1>8 DEF AcceptWrite, SetInvitation
  <2>2. UNCHANGED phase
    BY <1>8 DEF AcceptWrite
  <2> QED
    BY <2>1, <2>2 DEF StaffInv, StaffTypeOK, InvitationRow
<1>9. CASE CleanupDelete
  BY <1>9 DEF CleanupDelete, CleanupAfterEnd
<1>10. CASE CleanupJob \/ ListStaffEvents \/ MinutePasses \/ StaffRestart
  BY <1>10 DEF CleanupJob, ListStaffEvents, MinutePasses, StaffRestart, staffTables
<1>11. ASSUME NEW i \in DOMAIN invitation, Lapse(i) PROVE AcceptedIsStaff'
  BY <1>11 DEF Lapse, StaffInv, StaffTypeOK, InvitationRow
<1>12. CASE ClockAdvances
  BY <1>12 DEF ClockAdvances, staffTables, StaffInv, StaffTypeOK
<1>13. CASE UNCHANGED staffVars
  BY <1>13 DEF staffVars, staffTables
<1> QED
  BY <1>1, <1>2, <1>3, <1>4, <1>5, <1>6, <1>7, <1>8, <1>9, <1>10, <1>11, <1>12, <1>13
  DEF StaffNext, InvitationStep

(* Until the event ends, whoever accepted an invitation is of its staff,   *)
(* however many answers, cancellations, expiries, clean-ups and restarts   *)
(* overlap: the transaction of acceptInvitation is enough.                 *)
THEOREM AcceptedAreStaff == StaffSpec => []AcceptedIsStaff
<1>1. StaffInit => StaffInv /\ CleanupAfterEnd /\ AcceptedIsStaff
  BY StaffInvInit DEF StaffInit, CleanupAfterEnd, AcceptedIsStaff, NoRows
<1>2. StaffInv /\ CleanupAfterEnd /\ AcceptedIsStaff /\ [StaffNext]_staffVars
        => (StaffInv /\ CleanupAfterEnd /\ AcceptedIsStaff)'
  BY StaffInvNext, CleanupNext, AcceptedNext
<1> QED
  BY <1>1, <1>2, PTL DEF StaffSpec
-------------------------------------------------------------------------------
(* A step at the gate leaves the invitations alone; a step of theirs leaves *)
(* the gate alone.                                                          *)
LEMMA GateNextIsStaffNext == [GateNext]_gateVars => [StaffNext]_staffVars
<1>1. ASSUME NEW t, OrderStep(t) PROVE UNCHANGED staffVars
  BY <1>1 DEF OrderStep, RefundRequest, RefundAnswer, RefundRequested, RefundApproved,
     RefundRejected, OrderRead, OrderWrite
<1>2. ASSUME NEW S, CancelEvent(S) \/ EventCancelled(S) PROVE UNCHANGED staffVars
  BY <1>2 DEF CancelEvent, OrderRead, EventCancelled
<1>3. ASSUME NEW s, ScannerStep(s) PROVE UNCHANGED staffVars
  BY <1>3 DEF ScannerStep, ScanTicket, ScanStaff, ScanWrite, ReviewRead, ReviewWrite
<1> QED
  BY <1>1, <1>2, <1>3 DEF GateNext, gateVars, doorVars, ReviewDelete, GateRestart

(* The gate contains the invitations as they are without it. *)
THEOREM GateHasItsStaff == GateSpec => StaffSpec
<1>1. GateInit => StaffInit
  BY DEF GateInit
<1> QED
  BY <1>1, GateNextIsStaffNext, PTL DEF GateSpec, StaffSpec

LEMMA ScanStates ==
  /\ Idle \in ScanState
  /\ \A t \in Tickets, m \in Members : [step |-> "scanStaff", ticket |-> t, member |-> m] \in ScanState
  /\ \A t \in Tickets, step \in {"scanWrite", "reviewWrite"} :
       [step |-> step, ticket |-> t] \in ScanState
BY DEF ScanState

(* What a handler at the gate has in hand. *)
LEMMA ScanHolds ==
  ASSUME GateTypeOK, NEW s \in Scanners
  PROVE  /\ scan[s].step \in {"scanStaff", "scanWrite", "reviewWrite"}
              => scan[s].ticket \in Tickets
         /\ scan[s].step = "scanStaff" => scan[s].member \in Members
BY DEF GateTypeOK, ScanState, Idle

LEMMA ScanningType ==
  ASSUME GateTypeOK, NEW s \in Scanners, NEW state \in ScanState, Scanning(s, state)
  PROVE  scan' \in [Scanners -> ScanState] /\ UNCHANGED orderWork
BY DEF GateTypeOK, Scanning

(* A handler of an order reads; another one writes. *)
LEMMA OrderReadType ==
  ASSUME GateTypeOK, NEW work \in OrderWork, OrderRead(work)
  PROVE  UNCHANGED <<staffVars, gateTables, scan>> /\ orderWork' \subseteq OrderWork
BY DEF OrderRead, GateTypeOK

LEMMA OrderWriteType ==
  ASSUME GateTypeOK, NEW t \in Tickets, NEW step \in {"request", "approve", "reject"},
         NEW status \in {"PAID", "REFUND_REQUESTED", "REFUNDED"},
         OrderWrite([step |-> step, ticket |-> t], status)
  PROVE  /\ UNCHANGED <<staffVars, validated, admissions, review, eventOff, scan>>
         /\ orderStatus' = [orderStatus EXCEPT ![t] = status]
         /\ orderWork' \subseteq orderWork /\ orderWork' \subseteq OrderWork
BY DEF OrderWrite, GateTypeOK

(* What a step of a handler of an order may change. *)
LEMMA OrderStepType ==
  ASSUME GateTypeOK, NEW t \in Tickets, OrderStep(t)
  PROVE  /\ UNCHANGED <<staffVars, validated, admissions, review, eventOff, scan>>
         /\ orderStatus' \in [Tickets -> {"PAID", "REFUND_REQUESTED", "REFUNDED"}]
         /\ orderWork' \subseteq OrderWork
<1>1. \A step \in {"request", "approve", "reject"} : [step |-> step, ticket |-> t] \in OrderWork
  BY DEF OrderWork
<1>2. CASE RefundRequest(t) \/ RefundAnswer(t, "approve") \/ RefundAnswer(t, "reject")
  <2>1. PICK work \in OrderWork : OrderRead(work)
    BY <1>1, <1>2 DEF RefundRequest, RefundAnswer
  <2> QED
    BY <2>1, OrderReadType DEF gateTables, GateTypeOK
<1>3. CASE RefundRequested(t) \/ RefundApproved(t) \/ RefundRejected(t)
  <2>1. PICK step \in {"request", "approve", "reject"},
             status \in {"PAID", "REFUND_REQUESTED", "REFUNDED"} :
          OrderWrite([step |-> step, ticket |-> t], status)
    BY <1>3 DEF RefundRequested, RefundApproved, RefundRejected
  <2>2. orderStatus' = [orderStatus EXCEPT ![t] = status]
    BY <2>1, OrderWriteType
  <2> QED
    BY <2>1, <2>2, OrderWriteType DEF GateTypeOK
<1> QED
  BY <1>2, <1>3 DEF OrderStep

GateInv == GateTypeOK /\ StaffInv

LEMMA GateTypeInit == GateInit => GateInv
<1> SUFFICES ASSUME GateInit PROVE GateInv
  OBVIOUS
<1>1. StaffInv
  BY StaffInvInit DEF GateInit
<1>2. scan \in [Scanners -> ScanState]
  BY ScanStates DEF GateInit
<1>3. admissions \in [Tickets -> 0..2]
  BY DEF GateInit
<1> QED
  BY <1>1, <1>2, <1>3 DEF GateInit, GateTypeOK, GateInv, StaffInv

LEMMA GateTypeNext == GateInv /\ [GateNext]_gateVars => GateInv'
<1> SUFFICES ASSUME GateInv, [GateNext]_gateVars PROVE GateTypeOK'
  BY GateNextIsStaffNext, StaffInvNext DEF GateInv
<1>1. StaffTypeOK'
  BY GateNextIsStaffNext, StaffInvNext DEF GateInv, StaffInv
<1> USE DEF GateInv
<1>2. ASSUME UNCHANGED <<gateTables, scan, orderWork>> PROVE GateTypeOK'
  BY <1>1, <1>2 DEF gateTables, GateTypeOK
<1>3. ASSUME NEW s \in Scanners, ScanWrite(s) PROVE GateTypeOK'
  <2>1. scan[s].ticket \in Tickets
    BY <1>3, ScanHolds DEF ScanWrite
  <2>2. scan' \in [Scanners -> ScanState] /\ UNCHANGED orderWork
    BY <1>3, ScanStates, ScanningType DEF ScanWrite
  <2>3. admissions' \in [Tickets -> 0..2]
    BY <1>3, <2>1 DEF ScanWrite, GateTypeOK
  <2> QED
    BY <1>1, <1>3, <2>1, <2>2, <2>3 DEF ScanWrite, GateTypeOK
<1>4. ASSUME NEW s \in Scanners, ReviewWrite(s) PROVE GateTypeOK'
  <2>1. scan[s].ticket \in Tickets
    BY <1>4, ScanHolds DEF ReviewWrite
  <2>2. scan' \in [Scanners -> ScanState] /\ UNCHANGED orderWork
    BY <1>4, ScanStates, ScanningType DEF ReviewWrite
  <2> QED
    BY <1>1, <1>4, <2>1, <2>2 DEF ReviewWrite, GateTypeOK
<1>5. ASSUME NEW s \in Scanners, NEW state \in ScanState, Scanning(s, state),
             UNCHANGED gateTables
      PROVE  GateTypeOK'
  BY <1>1, <1>5, ScanningType DEF GateTypeOK, gateTables
<1>6. ASSUME NEW s \in Scanners, ScanStaff(s) PROVE GateTypeOK'
  BY <1>5, <1>6, ScanStates, ScanHolds DEF ScanStaff
<1>7. ASSUME NEW s \in Scanners, NEW t \in Tickets,
             ReviewRead(s, t) \/ \E m \in Members : ScanTicket(s, t, m)
      PROVE  GateTypeOK'
  BY <1>5, <1>7, ScanStates DEF ReviewRead, ScanTicket
<1>8. ASSUME NEW t \in Tickets, OrderStep(t) PROVE GateTypeOK'
  BY <1>1, <1>8, OrderStepType DEF GateTypeOK
<1>9. ASSUME NEW t \in Tickets, ReviewDelete(t) PROVE GateTypeOK'
  BY <1>1, <1>9 DEF ReviewDelete, GateTypeOK
<1>10. CASE GateRestart
  BY <1>1, <1>10, ScanStates DEF GateRestart, gateTables, GateTypeOK
<1>11. ASSUME NEW S \in SUBSET Tickets, CancelEvent(S) PROVE GateTypeOK'
  <2>1. [step |-> "cancel", refunds |-> S] \in OrderWork
    BY DEF OrderWork
  <2> QED
    BY <1>1, <1>11, <2>1, OrderReadType DEF CancelEvent, gateTables, GateTypeOK
<1>12. ASSUME NEW S \in SUBSET Tickets, EventCancelled(S) PROVE GateTypeOK'
  BY <1>1, <1>12 DEF EventCancelled, GateTypeOK
<1> QED
  BY <1>2, <1>3, <1>4, <1>6, <1>7, <1>8, <1>9, <1>10, <1>11, <1>12
  DEF GateNext, ScannerStep, gateVars, doorVars

(* Every scan, review and handler of an order in flight keeps its type, next *)
(* to the tables of the staff.                                               *)
THEOREM GateTypeCorrect == GateSpec => []GateTypeOK
<1>1. GateInv => GateTypeOK
  BY DEF GateInv
<1> QED
  BY <1>1, GateTypeInit, GateTypeNext, PTL DEF GateSpec
-------------------------------------------------------------------------------
(* A validated ticket has let somebody in, and so has the ticket of a       *)
(* review that is being written; the end of the event stays its end.        *)
AttendanceKnown ==
  /\ \A t \in validated : admissions[t] > 0
  /\ \A s \in Scanners : scan[s].step = "reviewWrite"
       => admissions[scan[s].ticket] > 0 /\ phase = "ended"

LEMMA PhaseEnds == phase = "ended" /\ [StaffNext]_staffVars => phase' = "ended"
BY DEF StaffNext, InvitationStep, Invite, InviteFind, InviteWrite,
  InviteNotify, ReadInvitation, ExpireWrite, AcceptStaff, AcceptWrite, DeclineWrite,
  CancelInvitation, CancelInvitationWrite, Unnotify, CleanupJob, ListStaffEvents,
  CleanupDelete, MinutePasses, Lapse, ClockAdvances, StaffRestart, staffVars, staffTables

LEMMA AttendanceNext ==
  GateInv /\ AttendanceKnown /\ ReviewedByAttendants /\ [GateNext]_gateVars
    => AttendanceKnown' /\ ReviewedByAttendants'
<1> SUFFICES ASSUME GateInv, AttendanceKnown, ReviewedByAttendants, [GateNext]_gateVars
             PROVE  AttendanceKnown' /\ ReviewedByAttendants'
  OBVIOUS
<1> DEFINE Goal == AttendanceKnown' /\ ReviewedByAttendants'
<1>1. phase = "ended" => phase' = "ended"
  BY PhaseEnds, GateNextIsStaffNext
<1>2. ASSUME validated' \subseteq validated, admissions' = admissions, review' \subseteq review,
             \A s \in Scanners : scan'[s].step = "reviewWrite"
               => admissions[scan'[s].ticket] > 0 /\ phase' = "ended"
      PROVE  Goal
  BY <1>1, <1>2 DEF AttendanceKnown, ReviewedByAttendants
<1>3. ASSUME validated' \subseteq validated, admissions' = admissions, review' \subseteq review,
             NEW s \in Scanners, NEW state, Scanning(s, state),
             state.step = "reviewWrite" => admissions[state.ticket] > 0 /\ phase = "ended"
      PROVE  Goal
  <2>1. \A u \in Scanners : scan'[u].step = "reviewWrite"
               => admissions[scan'[u].ticket] > 0 /\ phase' = "ended"
    BY <1>1, <1>3 DEF Scanning, GateInv, GateTypeOK, AttendanceKnown
  <2> QED
    BY <1>2, <1>3, <2>1
<1>4. ASSUME NEW s \in Scanners, NEW t \in Tickets,
             ReviewRead(s, t) \/ \E m \in Members : ScanTicket(s, t, m)
      PROVE  Goal
  BY <1>3, <1>4 DEF ReviewRead, ScanTicket, CanReview, AttendanceKnown, gateTables
<1>5. ASSUME NEW s \in Scanners, ScanStaff(s) PROVE Goal
  <2>1. PICK state \in {Idle, [step |-> "scanWrite", ticket |-> scan[s].ticket]} :
          Scanning(s, state)
    BY <1>5 DEF ScanStaff
  <2>2. state.step # "reviewWrite"
    BY <2>1 DEF Idle
  <2> QED
    BY <1>3, <1>5, <2>1, <2>2 DEF ScanStaff, gateTables
<1>6. ASSUME NEW s \in Scanners, ScanWrite(s) PROVE Goal
  <2>1. /\ scan[s].ticket \in Tickets
        /\ admissions'[scan[s].ticket] > 0
        /\ \A t \in Tickets : admissions[t] > 0 => admissions'[t] > 0
    BY <1>6, ScanHolds DEF ScanWrite, GateInv, GateTypeOK
  <2>2. \A u \in Scanners : scan'[u].step = "reviewWrite"
               => /\ scan[u].step = "reviewWrite" /\ scan'[u].ticket = scan[u].ticket
                  /\ scan[u].ticket \in Tickets
    BY <1>6, ScanHolds DEF ScanWrite, Scanning, GateInv, GateTypeOK, Idle
  <2>3. AttendanceKnown'
    BY <1>1, <1>6, <2>1, <2>2 DEF ScanWrite, AttendanceKnown, GateInv, GateTypeOK
  <2>4. ReviewedByAttendants'
    BY <1>1, <1>6, <2>1 DEF ScanWrite, ReviewedByAttendants, GateInv, GateTypeOK
  <2> QED
    BY <2>3, <2>4
<1>7. ASSUME NEW s \in Scanners, ReviewWrite(s) PROVE Goal
  <2>1. admissions[scan[s].ticket] > 0 /\ phase = "ended"
    BY <1>7 DEF ReviewWrite, AttendanceKnown
  <2>2. \A u \in Scanners : scan'[u].step = "reviewWrite"
               => scan[u].step = "reviewWrite" /\ scan'[u].ticket = scan[u].ticket
    BY <1>7 DEF ReviewWrite, Scanning, GateInv, GateTypeOK, Idle
  <2> QED
    BY <1>1, <1>7, <2>1, <2>2 DEF ReviewWrite, AttendanceKnown, ReviewedByAttendants
<1>8. ASSUME scan' = scan, validated' \subseteq validated, admissions' = admissions,
             review' \subseteq review
      PROVE  Goal
  BY <1>1, <1>2, <1>8 DEF AttendanceKnown
<1>9. ASSUME NEW t \in Tickets, OrderStep(t) \/ ReviewDelete(t) PROVE Goal
  BY <1>8, <1>9, OrderStepType DEF ReviewDelete, GateInv
<1>10. ASSUME NEW S, CancelEvent(S) \/ EventCancelled(S) PROVE Goal
  BY <1>8, <1>10 DEF CancelEvent, OrderRead, gateTables, EventCancelled
<1>11. CASE GateRestart
  BY <1>2, <1>11 DEF GateRestart, gateTables, Idle
<1>12. ASSUME UNCHANGED <<gateTables, scan>> PROVE Goal
  BY <1>8, <1>12 DEF gateTables
<1> QED
  BY <1>4, <1>5, <1>6, <1>7, <1>9, <1>10, <1>11, <1>12 DEF GateNext, ScannerStep, gateVars, doorVars

(* No review of the event is by anybody who was not let in, and none is     *)
(* written before it is over, for any number of overlapping scans, reviews, *)
(* refunds and restarts.                                                    *)
THEOREM ReviewersAttended == GateSpec => []ReviewedByAttendants
<1>1. GateInit => AttendanceKnown /\ ReviewedByAttendants
  BY DEF GateInit, AttendanceKnown, ReviewedByAttendants, Idle
<1> QED
  BY <1>1, GateTypeInit, GateTypeNext, AttendanceNext, PTL DEF GateSpec
-------------------------------------------------------------------------------
(* What a step must leave alone for a ticket that is spent to stay so. *)
LEMMA SpentKeeps ==
  ASSUME NEW t \in Tickets, Spent(t),
         t \in validated => t \in validated',
         orderStatus[t] = "REFUNDED" /\ ~Reopening(t)
           => orderStatus'[t] = "REFUNDED" /\ ~Reopening(t)',
         Scanned(t)' => Scanned(t)
  PROVE  Spent(t)'
BY DEF Spent

(* A step of a scan or of a review is of a ticket that was being scanned,   *)
(* or is not spent.                                                         *)
LEMMA ScannerKeeps ==
  ASSUME GateTypeOK, NEW t \in Tickets, Spent(t), NEW s \in Scanners, ScannerStep(s)
  PROVE  Spent(t)'
<1>1. ASSUME NEW state, Scanning(s, state),
             state.step \in {"scanStaff", "scanWrite"} => state.ticket # t \/ Scanned(t),
             UNCHANGED orderStatus, validated \subseteq validated'
      PROVE  Spent(t)'
  <2>1. Scanned(t)' => Scanned(t)
    BY <1>1 DEF Scanning, Scanned, GateTypeOK
  <2>2. Reopening(t)' = Reopening(t)
    BY <1>1 DEF Scanning, Reopening
  <2> QED
    BY <1>1, <2>1, <2>2, SpentKeeps
<1>2. Idle.step = "idle"
  BY DEF Idle
<1>3. ASSUME NEW u \in Tickets, NEW m \in Members, ScanTicket(s, u, m) PROVE Spent(t)'
  <2>1. u # t
    BY <1>3 DEF ScanTicket, Spent
  <2> QED
    BY <1>1, <1>3, <2>1 DEF ScanTicket, gateTables
<1>4. CASE ScanStaff(s)
  <2>1. PICK state \in {Idle, [step |-> "scanWrite", ticket |-> scan[s].ticket]} :
          Scanning(s, state)
    BY <1>4 DEF ScanStaff
  <2>2. scan[s].ticket = t => Scanned(t)
    BY <1>4 DEF ScanStaff, Scanned
  <2> QED
    BY <1>1, <1>2, <1>4, <2>1, <2>2 DEF ScanStaff, gateTables
<1>5. CASE ScanWrite(s)
  BY <1>1, <1>2, <1>5 DEF ScanWrite
<1>6. ASSUME NEW u \in Tickets, ReviewRead(s, u) PROVE Spent(t)'
  BY <1>1, <1>6 DEF ReviewRead, gateTables
<1>7. CASE ReviewWrite(s)
  BY <1>1, <1>2, <1>7 DEF ReviewWrite
<1> QED
  BY <1>3, <1>4, <1>5, <1>6, <1>7 DEF ScannerStep

(* A request reads a PAID order and a refusal one that waits for an answer, *)
(* so that neither is about to write an order that was refunded before.     *)
LEMMA OrdersKeep ==
  ASSUME GateTypeOK, NEW t \in Tickets, Spent(t), NEW u \in Tickets, OrderStep(u)
  PROVE  Spent(t)'
<1>1. UNCHANGED <<validated, scan>> /\ Scanned(t)' = Scanned(t)
  BY OrderStepType DEF Scanned
<1>2. ASSUME orderStatus[t] = "REFUNDED", ~Reopening(t)
      PROVE  orderStatus'[t] = "REFUNDED" /\ ~Reopening(t)'
  <2>1. CASE RefundRequest(u) \/ RefundAnswer(u, "approve") \/ RefundAnswer(u, "reject")
    <3>1. PICK step \in {"request", "approve", "reject"} :
            /\ OrderRead([step |-> step, ticket |-> u])
            /\ step \in {"request", "reject"} => orderStatus[u] # "REFUNDED"
      BY <2>1 DEF RefundRequest, RefundAnswer
    <3>2. \A other \in {"request", "reject"} :
            [step |-> other, ticket |-> t] = [step |-> step, ticket |-> u] => other = step /\ t = u
      <4>1. \A other : /\ [step |-> other, ticket |-> t].step = other
                       /\ [step |-> other, ticket |-> t].ticket = t
        OBVIOUS
      <4>2. /\ [step |-> step, ticket |-> u].step = step
            /\ [step |-> step, ticket |-> u].ticket = u
        OBVIOUS
      <4> QED
        BY <4>1, <4>2
    <3>3. ~Reopening(t)'
      BY <1>2, <3>1, <3>2 DEF OrderRead, Reopening
    <3> QED
      BY <1>2, <3>1, <3>3 DEF OrderRead, gateTables
  <2>2. CASE RefundRequested(u) \/ RefundRejected(u)
    <3>1. PICK step \in {"request", "reject"}, status \in {"PAID", "REFUND_REQUESTED"} :
            OrderWrite([step |-> step, ticket |-> u], status)
      BY <2>2 DEF RefundRequested, RefundRejected
    <3>2. Reopening(u)
      BY <3>1 DEF OrderWrite, Reopening
    <3>3. u # t
      BY <1>2, <3>2
    <3>4. orderStatus'[t] = orderStatus[t] /\ orderWork' \subseteq orderWork
      BY <3>1, <3>3, OrderWriteType DEF GateTypeOK
    <3> QED
      BY <1>2, <3>4 DEF Reopening
  <2>3. CASE RefundApproved(u)
    <3>1. orderStatus' = [orderStatus EXCEPT ![u] = "REFUNDED"] /\ orderWork' \subseteq orderWork
      BY <2>3, OrderWriteType DEF RefundApproved
    <3> QED
      BY <1>2, <3>1 DEF Reopening, GateTypeOK
  <2> QED
    BY <2>1, <2>2, <2>3 DEF OrderStep
<1> QED
  BY <1>1, <1>2, SpentKeeps

(* The cancellation refunds the orders whose tickets it makes unused. *)
LEMMA CancelKeeps ==
  ASSUME GateTypeOK, NEW t \in Tickets, Spent(t), NEW S \in SUBSET Tickets,
         CancelEvent(S) \/ EventCancelled(S)
  PROVE  Spent(t)' \/ (t \notin validated' /\ Reopening(t))
<1>1. Scanned(t)' = Scanned(t)
  BY DEF CancelEvent, OrderRead, EventCancelled, Scanned
<1>2. Reopening(t)' => Reopening(t)
  <2>1. \A step \in {"request", "reject"} :
          [step |-> step, ticket |-> t] # [step |-> "cancel", refunds |-> S]
    <3>1. \A step : [step |-> step, ticket |-> t].step = step
      OBVIOUS
    <3>2. [step |-> "cancel", refunds |-> S].step = "cancel"
      OBVIOUS
    <3> QED
      BY <3>1, <3>2
  <2> QED
    BY <2>1 DEF CancelEvent, OrderRead, EventCancelled, Reopening
<1>3. CASE CancelEvent(S)
  BY <1>1, <1>2, <1>3, SpentKeeps DEF CancelEvent, OrderRead, gateTables
<1>4. CASE EventCancelled(S)
  <2>1. orderStatus'[t] = IF t \in S THEN "REFUNDED" ELSE orderStatus[t]
    BY <1>4 DEF EventCancelled
  <2>2. validated' = validated \ S
    BY <1>4 DEF EventCancelled
  <2> QED
    BY <1>1, <1>2, <2>1, <2>2 DEF Spent
<1> QED
  BY <1>3, <1>4

(* For any number of scans, refunds, refusals and cancellations at a time,  *)
(* a ticket that was used and is not just being scanned lets nobody else    *)
(* in, but for a cancellation that meets a request or a refusal.            *)
THEOREM SpentStaysSpent == GateSpec => TurnedAway
<1>1. ASSUME GateInv, [GateNext]_gateVars, NEW t \in Tickets, Spent(t)
      PROVE  Spent(t)' \/ (t \notin validated' /\ Reopening(t))
  <2> USE DEF GateInv
  <2>1. ASSUME NEW s \in Scanners, ScannerStep(s) PROVE Spent(t)'
    BY <1>1, <2>1, ScannerKeeps
  <2>2. ASSUME NEW u \in Tickets, OrderStep(u) PROVE Spent(t)'
    BY <1>1, <2>2, OrdersKeep
  <2>3. ASSUME NEW u, ReviewDelete(u) PROVE Spent(t)'
    BY <1>1, <2>3 DEF ReviewDelete, Spent, Scanned, Reopening
  <2>4. ASSUME NEW S \in SUBSET Tickets, CancelEvent(S) \/ EventCancelled(S)
        PROVE  Spent(t)' \/ (t \notin validated' /\ Reopening(t))
    BY <1>1, <2>4, CancelKeeps
  <2>5. CASE GateRestart
    <3>1. ~Scanned(t)' /\ ~Reopening(t)'
      BY <2>5 DEF GateRestart, Scanned, Reopening, Idle
    <3> QED
      BY <1>1, <2>5, <3>1 DEF GateRestart, gateTables, Spent
  <2>6. ASSUME UNCHANGED <<gateTables, scan, orderWork>> PROVE Spent(t)'
    BY <1>1, <2>6 DEF gateTables, Spent, Scanned, Reopening
  <2> QED
    BY <1>1, <2>1, <2>2, <2>3, <2>4, <2>5, <2>6 DEF GateNext, gateVars, doorVars
<1>2. GateInv /\ [GateNext]_gateVars
        => [\A t \in Tickets : Spent(t) => Spent(t)' \/ (t \notin validated' /\ Reopening(t))]_gateVars
  BY <1>1
<1> QED
  BY <1>2, GateTypeInit, GateTypeNext, PTL DEF GateSpec, TurnedAway
===============================================================================
