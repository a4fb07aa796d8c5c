------------------------------- MODULE TicketGate -------------------------------
(***************************************************************************)
(* The evening of the event: validateTicket of tickets.service.ts for the  *)
(* staff of StaffInvitations, against refunds and the event's cancellation, *)
(* and the reviews of reviews.service.ts that only those who were let in   *)
(* may write.  Every ticket belongs to a customer, and an order, of its    *)
(* own.  A handler of the order reads it and writes it later, whatever     *)
(* became of it meanwhile; its calls to Stripe are the subject of Checkout. *)
(***************************************************************************)
EXTENDS StaffInvitations

CONSTANTS
  Tickets,     (* the tickets of the event                                 *)
  Scanners,    (* validateTicket and review handlers in flight at a time   *)
  Production   (* NODE_ENV is production: the gate closes at the event's end *)

ASSUME GateAssumption == Production \in BOOLEAN

VARIABLES
  orderStatus, (* the status of each ticket's order                        *)
  validated,   (* the tickets that have a validatedAt                      *)
  admissions,  (* how often each ticket was answered SUCCESS; two is many  *)
  review,      (* the reviews table: the tickets whose owner has one       *)
  eventOff,    (* events.cancelled_at is set                               *)
  scan,        (* what each handler at the gate will do next               *)
  orderWork    (* the handlers of orders that have read and not written    *)

gateTables == <<orderStatus, validated, admissions, review, eventOff>>
doorVars == <<gateTables, scan, orderWork>>
gateVars == <<staffVars, doorVars>>

ScanState ==
  {Idle}
    \cup [step : {"scanStaff"}, ticket : Tickets, member : Members]
    \cup [step : {"scanWrite", "reviewWrite"}, ticket : Tickets]

OrderWork == [step : {"request", "approve", "reject"}, ticket : Tickets]
               \cup [step : {"cancel"}, refunds : SUBSET Tickets]

GateInit ==
  /\ StaffInit
  /\ orderStatus = [t \in Tickets |-> "PAID"]
  /\ validated = {}
  /\ admissions = [t \in Tickets |-> 0]
  /\ review = {}
  /\ eventOff = FALSE
  /\ scan = [s \in Scanners |-> Idle]
  /\ orderWork = {}

Scanning(s, state) ==
  /\ scan' = [scan EXCEPT ![s] = state]
  /\ UNCHANGED orderWork
-------------------------------------------------------------------------------
(* validateTicket: the ticket and its order, the assignment, the write *)

(* A ticket that this read refuses changes nothing. *)
ScanTicket(s, t, m) ==
  /\ scan[s] = Idle
  /\ t \notin validated
  /\ orderStatus[t] = "PAID"
  /\ Scanning(s, [step |-> "scanStaff", ticket |-> t, member |-> m])
  /\ UNCHANGED <<staffVars, gateTables>>

GateOpen == phase = "open" \/ (phase = "ended" /\ ~Production)

ScanStaff(s) ==
  /\ scan[s].step = "scanStaff"
  /\ Scanning(s, IF scan[s].member \in staff /\ GateOpen
                 THEN [step |-> "scanWrite", ticket |-> scan[s].ticket] ELSE Idle)
  /\ UNCHANGED <<staffVars, gateTables>>

ScanWrite(s) ==
  LET t == scan[s].ticket
  IN  /\ scan[s].step = "scanWrite"
      /\ validated' = validated \cup {t}
      /\ admissions' = [admissions EXCEPT ![t] = IF @ = 2 THEN 2 ELSE @ + 1]
      /\ Scanning(s, Idle)
      /\ UNCHANGED <<staffVars, orderStatus, review, eventOff>>
-------------------------------------------------------------------------------
(* What happens to the ticket's order meanwhile: a query reads it, and a    *)
(* later one writes its new status without a condition.  There may be more  *)
(* of a kind in flight, so that one is left when one has written.            *)

OrderRead(work) ==
  /\ orderWork' = orderWork \cup {work}
  /\ UNCHANGED <<staffVars, gateTables, scan>>

OrderWrite(work, status) ==
  /\ work \in orderWork
  /\ orderWork' \in {orderWork, orderWork \ {work}}
  /\ orderStatus' = [orderStatus EXCEPT ![work.ticket] = status]
  /\ UNCHANGED <<staffVars, validated, admissions, review, eventOff, scan>>

(* requestRefund: before, at, or after the event, as nothing in it tests    *)
(* the date, or whether the ticket was used.                                *)
RefundRequest(t) == orderStatus[t] = "PAID" /\ OrderRead([step |-> "request", ticket |-> t])
RefundRequested(t) == OrderWrite([step |-> "request", ticket |-> t], "REFUND_REQUESTED")

(* approveRefund and rejectRefund *)
RefundAnswer(t, answer) ==
  /\ orderStatus[t] = "REFUND_REQUESTED"
  /\ OrderRead([step |-> answer, ticket |-> t])

RefundApproved(t) == OrderWrite([step |-> "approve", ticket |-> t], "REFUNDED")
RefundRejected(t) == OrderWrite([step |-> "reject", ticket |-> t], "PAID")

(* cancelEvent, not after the start, and what Stripe answers: the orders of *)
(* refunds are those whose refund it accepts.                                *)
CancelEvent(refunds) ==
  /\ ~eventOff /\ phase # "ended"
  /\ \A t \in refunds : orderStatus[t] \in {"PAID", "REFUND_REQUESTED"}
  /\ OrderRead([step |-> "cancel", refunds |-> refunds])

(* Mutant: the orders of the event are no more than cancelled. *)
EventCancelledOnly(refunds) ==
  /\ [step |-> "cancel", refunds |-> refunds] \in orderWork
  /\ orderWork' \in {orderWork, orderWork \ {[step |-> "cancel", refunds |-> refunds]}}
  /\ eventOff' = TRUE
  /\ validated' = validated \ refunds
  /\ UNCHANGED <<staffVars, orderStatus, admissions, review, scan>>

(* Its transaction makes the tickets of the refunded orders unused again. *)
EventCancelled(refunds) ==
  /\ [step |-> "cancel", refunds |-> refunds] \in orderWork
  /\ orderWork' \in {orderWork, orderWork \ {[step |-> "cancel", refunds |-> refunds]}}
  /\ eventOff' = TRUE
  /\ orderStatus' = [t \in Tickets |-> IF t \in refunds THEN "REFUNDED" ELSE orderStatus[t]]
  /\ validated' = validated \ refunds
  /\ UNCHANGED <<staffVars, admissions, review, scan>>
-------------------------------------------------------------------------------
(* reviews.service.ts *)

(* Mutant: whoever has a ticket may review. *)
CanReviewWithoutAttending(t) == phase = "ended" /\ t \notin review

(* canUserReview, and the tests of create: the event is over, a ticket of   *)
(* the customer was validated, whatever has become of its order, and there  *)
(* is no review yet.                                                        *)
CanReview(t) == phase = "ended" /\ t \in validated /\ t \notin review

ReviewRead(s, t) ==
  /\ scan[s] = Idle
  /\ CanReview(t)
  /\ Scanning(s, [step |-> "reviewWrite", ticket |-> t])
  /\ UNCHANGED <<staffVars, gateTables>>

(* The review is unique per event and user: a second create fails. *)
ReviewWrite(s) ==
  /\ scan[s].step = "reviewWrite"
  /\ review' = review \cup {scan[s].ticket}
  /\ Scanning(s, Idle)
  /\ UNCHANGED <<staffVars, orderStatus, validated, admissions, eventOff>>

ReviewDelete(t) ==
  /\ t \in review
  /\ review' = review \ {t}
  /\ UNCHANGED <<staffVars, orderStatus, validated, admissions, eventOff, scan, orderWork>>
-------------------------------------------------------------------------------
(* The process restarts, with what its handlers were doing. *)
GateRestart ==
  /\ orderWork # {} \/ \E s \in Scanners : scan[s] # Idle
  /\ scan' = [s \in Scanners |-> Idle]
  /\ orderWork' = {}
  /\ UNCHANGED <<staffVars, gateTables>>

ScannerStep(s) ==
  \/ \E t \in Tickets, m \in Members : ScanTicket(s, t, m)
  \/ ScanStaff(s) \/ ScanWrite(s)
  \/ \E t \in Tickets : ReviewRead(s, t)
  \/ ReviewWrite(s)

OrderStep(t) ==
  \/ RefundRequest(t) \/ RefundRequested(t)
  \/ RefundAnswer(t, "approve") \/ RefundApproved(t)
  \/ RefundAnswer(t, "reject") \/ RefundRejected(t)

GateNext ==
  \/ StaffNext /\ UNCHANGED doorVars
  \/ \E s \in Scanners : ScannerStep(s)
  \/ \E t \in Tickets : OrderStep(t) \/ ReviewDelete(t)
  \/ \E refunds \in SUBSET Tickets : CancelEvent(refunds) \/ EventCancelled(refunds)
  \/ GateRestart

GateSpec == GateInit /\ [][GateNext]_gateVars
-------------------------------------------------------------------------------
(* Properties *)

(* Every variable has its type: the one type invariant of this module. *)
GateTypeOK ==
  /\ StaffTypeOK
  /\ orderStatus \in [Tickets -> {"PAID", "REFUND_REQUESTED", "REFUNDED"}]
  /\ validated \subseteq Tickets
  /\ admissions \in [Tickets -> 0..2]
  /\ review \subseteq Tickets
  /\ eventOff \in BOOLEAN
  /\ scan \in [Scanners -> ScanState]
  /\ orderWork \subseteq OrderWork

(* A validateTicket of the ticket has read it and not answered yet. *)
Scanned(t) == \E s \in Scanners :
  scan[s].step \in {"scanStaff", "scanWrite"} /\ scan[s].ticket = t

(* A requestRefund or rejectRefund of its order has read and not written. *)
Reopening(t) == \E step \in {"request", "reject"} : [step |-> step, ticket |-> t] \in orderWork

(* The ticket is used, or its order refunded, and no handler knows better. *)
Spent(t) ==
  /\ ~Scanned(t)
  /\ t \in validated \/ (orderStatus[t] = "REFUNDED" /\ ~Reopening(t))

(* Such a ticket is turned away from then on, through restarts, refund     *)
(* requests and answers, and the cancellation that makes it unused again,  *)
(* unless that cancellation commits while a request or a refusal is about  *)
(* to write the order.                                                     *)
TurnedAway ==
  [][\A t \in Tickets : Spent(t) => Spent(t)' \/ (t \notin validated' /\ Reopening(t))]_gateVars

(* Only who was let in reviews the event, and only once it is over, also   *)
(* when the order was refunded or the event cancelled since.               *)
ReviewedByAttendants ==
  \A t \in review : admissions[t] > 0 /\ phase = "ended"
===============================================================================
