------------------------------- MODULE Checkout -------------------------------
(***************************************************************************)
(* Paying for a booking, and getting the money back: orders.service.ts and *)
(* payment.service.ts over Stripe, composed with the booking handlers of   *)
(* Reservation and with cancelEvent of events.service.ts when it has       *)
(* orders to refund.  Reservation's own cancelEvent is replaced by it.     *)
(*                                                                         *)
(* All bookings belong to one customer and the event to one organizer, as  *)
(* the code refuses everybody else.  Promo codes are left out.  The event  *)
(* has not started, which only cancelEvent asks for.                       *)
(***************************************************************************)
EXTENDS Reservation

CONSTANTS
  Orders,          (* the orders.id that may ever be drawn: a bound        *)
  Intents,         (* the Stripe payment intents that may be made: a bound *)
  FreeOrder,       (* 'FREE_ORDER', in the place of a payment intent's id  *)
  FreeCategories,  (* the categories whose price is 0                      *)
  Calls,           (* order handlers that may be in flight at a time       *)
  Outages          (* may an order handler's queries fail?                 *)

ASSUME CheckoutAssumption ==
  /\ FreeOrder \notin Intents
  /\ FreeCategories \subseteq Categories
  /\ Outages \in BOOLEAN

VARIABLES
  order,    (* the orders table, with the number of tickets of each order  *)
  orderOf,  (* bookings.order_id, of the bookings that have one            *)
  intent,   (* Stripe's payment intents; due: its webhook is to be sent    *)
  call      (* what each order handler in flight will do next              *)

payments == <<order, orderOf, intent>>
checkoutVars == <<vars, payments, call>>

OrderRow == [payment : Intents \cup {FreeOrder}, category : Categories,
             tickets : Quantities, status : {"PAID", "REFUND_REQUESTED", "REFUNDED"}]

IntentRow == [booking : Bookings, status : {"created", "succeeded", "refunded"},
              due : BOOLEAN]

CallState ==
  {Idle}
    \cup [step : {"createIntent"}, booking : Bookings]
    \cup [step : {"confirmPayment"}, booking : Bookings,
          payment : Intents \cup {FreeOrder}, webhook : BOOLEAN]
    \cup [step : {"refundBookings", "refundLegacy", "refundOrder",
                  "approveStripe", "approveWrite", "rejectWrite"}, order : Orders]
    \cup [step : {"refundLegacyWrite"}, order : Orders, booking : Bookings]
    \cup [step : {"findOrders"}]
    \cup [step : {"refundAll"}, todo : SUBSET Orders, refunded : SUBSET Orders]
    \cup [step : {"findPending"}, refunded : SUBSET Orders]
    \cup [step : {"cancelWrite"}, refunded : SUBSET Orders, todo : SUBSET Bookings]

CheckoutInit ==
  /\ Init
  /\ order = EmptyTable
  /\ orderOf = EmptyTable
  /\ intent = EmptyTable
  /\ call = [k \in Calls |-> Idle]

GoCall(k, state) == call' = [call EXCEPT ![k] = state]

Live == {o \in DOMAIN order : order[o].status \in {"PAID", "REFUND_REQUESTED"}}

WithOrderStatus(S, status) ==
  [o \in DOMAIN order |-> IF o \in S THEN [order[o] EXCEPT !.status = status]
                                     ELSE order[o]]

Linked(o) == {b \in DOMAIN orderOf : orderOf[b] = o}

(* Mutant: a booking that is already confirmed is confirmed again. *)
PayableUnlessOverdue(b) == ~booking[b].overdue

(* What createPaymentIntent and confirmPayment ask of a booking. *)
Payable(b) == booking[b].status = "PENDING" /\ ~booking[b].overdue

(* Bound: no payment is confirmed once the order ids are used up. *)
OrdersLeft == Cardinality(Orders \ DOMAIN order)
                > Cardinality({k \in Calls : call[k].step = "confirmPayment"})

(* Bound: nobody starts a payment once the intents are used up. *)
IntentsLeft == Cardinality(Intents \ DOMAIN intent)
                 > Cardinality({k \in Calls : call[k].step = "createIntent"})

(* refundPayment: Stripe gives a payment back once, in full. *)
Refundable(p) == p \in DOMAIN intent /\ intent[p].status = "succeeded"

MoneyBack(p) == p \in DOMAIN intent /\ intent[p].status = "refunded"

StripeRefunds(p) == /\ Refundable(p)
                    /\ intent' = [intent EXCEPT ![p].status = "refunded"]
-------------------------------------------------------------------------------
(* initiatePayment of a booking that costs something *)

InitiatePayment(k, b) ==
  /\ call[k] = Idle
  /\ IntentsLeft
  /\ booking[b].category \notin FreeCategories
  /\ Payable(b)
  /\ GoCall(k, [step |-> "createIntent", booking |-> b])
  /\ UNCHANGED <<vars, payments>>

CreateIntent(k) ==
  /\ call[k].step = "createIntent"
  /\ \E i \in Intents \ DOMAIN intent :
       intent' = WithRow(intent, i, [booking |-> call[k].booking,
                                     status |-> "created", due |-> FALSE])
  /\ GoCall(k, Idle)
  /\ UNCHANGED <<vars, order, orderOf>>

(* The customer pays on Stripe's form, however long after. *)
CustomerPays(i) ==
  /\ intent[i].status = "created"
  /\ intent' = [intent EXCEPT ![i].status = "succeeded", ![i].due = TRUE]
  /\ UNCHANGED <<vars, order, orderOf, call>>
-------------------------------------------------------------------------------
(* confirmPayment: a transaction of one read, which decides, and unguarded *)
(* writes.  A booking that is not payable changes nothing.                 *)

ConfirmPaymentRead(k, b, payment, webhook) ==
  /\ call[k] = Idle
  /\ OrdersLeft
  /\ Payable(b)
  /\ GoCall(k, [step |-> "confirmPayment", booking |-> b,
                payment |-> payment, webhook |-> webhook])
  /\ UNCHANGED <<vars, payments>>

(* The endpoint takes the booking and the payment as the client names them: *)
(* Stripe is not asked whether that payment succeeded, nor what it is for.  *)
(* Bound: ids that Stripe does not know are left out.                       *)
PageConfirms(k, b, payment) == ConfirmPaymentRead(k, b, payment, FALSE)

(* initiatePayment of a free booking confirms it at once. *)
FreeConfirms(k, b) ==
  /\ booking[b].category \in FreeCategories
  /\ ConfirmPaymentRead(k, b, FreeOrder, FALSE)

(* Stripe takes an answer for good: the webhook's errors are swallowed. *)
Acknowledge(i) == intent' = [intent EXCEPT ![i].due = FALSE]

(* Mutant: the webhook is answered and nothing is done. *)
WebhookOnlyAnswered(k, i) ==
  /\ intent[i].due
  /\ call[k] = Idle
  /\ Acknowledge(i)
  /\ UNCHANGED <<vars, order, orderOf, call>>

WebhookConfirms(k, i) ==
  /\ intent[i].due
  /\ \/ ConfirmPaymentRead(k, intent[i].booking, i, TRUE)
     \/ /\ call[k] = Idle
        /\ ~Payable(intent[i].booking)
        /\ Acknowledge(i)
        /\ UNCHANGED <<vars, order, orderOf, call>>

(* Mutant: the booking is given the id of an order that is not created. *)
ConfirmPaymentDangling(k) ==
  LET b == call[k].booking
  IN  /\ call[k].step = "confirmPayment"
      /\ booking' = WithStatus(booking, {b}, "CONFIRMED")
      /\ \E o \in Orders \ DOMAIN order : orderOf' = WithRow(orderOf, b, o)
      /\ IF call[k].webhook THEN Acknowledge(call[k].payment) ELSE UNCHANGED intent
      /\ GoCall(k, Idle)
      /\ UNCHANGED <<locked, currentStock, cancelled, request, order>>

ConfirmPaymentWrite(k) ==
  LET b == call[k].booking
  IN  /\ call[k].step = "confirmPayment"
      /\ booking' = WithStatus(booking, {b}, "CONFIRMED")
      /\ \E o \in Orders \ DOMAIN order :
           /\ order' = WithRow(order, o, [payment |-> call[k].payment,
                                          category |-> booking[b].category,
                                          tickets |-> booking[b].quantity,
                                          status |-> "PAID"])
           /\ orderOf' = WithRow(orderOf, b, o)
      /\ IF call[k].webhook THEN Acknowledge(call[k].payment) ELSE UNCHANGED intent
      /\ GoCall(k, Idle)
      /\ UNCHANGED <<locked, currentStock, cancelled, request>>
-------------------------------------------------------------------------------
(* requestRefund: no transaction, each query commits on its own *)

RequestRefund(k, o) ==
  /\ call[k] = Idle
  /\ order[o].status = "PAID"
  /\ GoCall(k, [step |-> "refundBookings", order |-> o])
  /\ UNCHANGED <<vars, payments>>

RefundBookings(k) ==
  LET o == call[k].order
  IN  /\ call[k].step = "refundBookings"
      /\ booking' = WithStatus(booking, Linked(o), "CANCELLED")
      /\ GoCall(k, [step |-> IF Linked(o) = {} THEN "refundLegacy" ELSE "refundOrder",
                    order |-> o])
      /\ UNCHANGED <<locked, currentStock, cancelled, request, payments>>

(* An order that no booking points to any more: any CONFIRMED booking with *)
(* no order, of the same category and quantity, is taken for its booking.  *)
RefundLegacy(k) ==
  LET o == call[k].order
      alike == {b \in InStatus(booking, {"CONFIRMED"}) \ DOMAIN orderOf :
                  /\ booking[b].category = order[o].category
                  /\ booking[b].quantity = order[o].tickets}
  IN  /\ call[k].step = "refundLegacy"
      /\ \/ \E b \in alike :
              GoCall(k, [step |-> "refundLegacyWrite", order |-> o, booking |-> b])
         \/ alike = {} /\ GoCall(k, [step |-> "refundOrder", order |-> o])
      /\ UNCHANGED <<vars, payments>>

RefundLegacyWrite(k) ==
  /\ call[k].step = "refundLegacyWrite"
  /\ booking' = WithStatus(booking, {call[k].booking}, "CANCELLED")
  /\ GoCall(k, [step |-> "refundOrder", order |-> call[k].order])
  /\ UNCHANGED <<locked, currentStock, cancelled, request, payments>>

RefundOrder(k) ==
  /\ call[k].step = "refundOrder"
  /\ order' = WithOrderStatus({call[k].order}, "REFUND_REQUESTED")
  /\ GoCall(k, Idle)
  /\ UNCHANGED <<vars, orderOf, intent>>
-------------------------------------------------------------------------------
(* approveRefund and rejectRefund *)

ApproveRefund(k, o) ==
  /\ call[k] = Idle
  /\ order[o].status = "REFUND_REQUESTED"
  /\ GoCall(k, [step |-> "approveStripe", order |-> o])
  /\ UNCHANGED <<vars, payments>>

(* Mutant: a refund that Stripe refuses does not stop the approval. *)
ApproveWhateverStripeSays(k) ==
  LET o == call[k].order
  IN  /\ call[k].step = "approveStripe"
      /\ StripeRefunds(order[o].payment) \/ UNCHANGED intent
      /\ GoCall(k, [step |-> "approveWrite", order |-> o])
      /\ UNCHANGED <<vars, order, orderOf>>

(* Stripe refunds and the reply arrives or gets lost, or it refuses. *)
ApproveStripe(k) ==
  LET o == call[k].order
  IN  /\ call[k].step = "approveStripe"
      /\ \/ /\ StripeRefunds(order[o].payment)
            /\ \/ GoCall(k, [step |-> "approveWrite", order |-> o])
               \/ Outages /\ GoCall(k, Idle)
         \/ /\ ~Refundable(order[o].payment)
            /\ GoCall(k, Idle)
            /\ UNCHANGED intent
      /\ UNCHANGED <<vars, order, orderOf>>

(* Mutant: the refunded tickets' seats are not returned to the stock. *)
ApproveKeepsSeats(k) ==
  LET o == call[k].order
  IN  /\ call[k].step = "approveWrite"
      /\ booking' = WithStatus(booking, Linked(o), "CANCELLED")
      /\ order' = WithOrderStatus({o}, "REFUNDED")
      /\ GoCall(k, Idle)
      /\ UNCHANGED <<locked, currentStock, cancelled, request, orderOf, intent>>

ApproveWrite(k) ==
  LET o == call[k].order
  IN  /\ call[k].step = "approveWrite"
      /\ currentStock' = [currentStock EXCEPT ![order[o].category] = @ + order[o].tickets]
      /\ booking' = WithStatus(booking, Linked(o), "CANCELLED")
      /\ order' = WithOrderStatus({o}, "REFUNDED")
      /\ GoCall(k, Idle)
      /\ UNCHANGED <<locked, cancelled, request, orderOf, intent>>

(* Mutant: any order that is not PAID can be rejected. *)
RejectUnlessPaid(k, o) ==
  /\ call[k] = Idle
  /\ order[o].status # "PAID"
  /\ GoCall(k, [step |-> "rejectWrite", order |-> o])
  /\ UNCHANGED <<vars, payments>>

RejectRefund(k, o) ==
  /\ call[k] = Idle
  /\ order[o].status = "REFUND_REQUESTED"
  /\ GoCall(k, [step |-> "rejectWrite", order |-> o])
  /\ UNCHANGED <<vars, payments>>

RejectWrite(k) ==
  /\ call[k].step = "rejectWrite"
  /\ order' = WithOrderStatus({call[k].order}, "PAID")
  /\ GoCall(k, Idle)
  /\ UNCHANGED <<vars, orderOf, intent>>
-------------------------------------------------------------------------------
(* cancelEvent: Stripe first, order by order, then one transaction *)

CancelEventCheck(k) ==
  /\ call[k] = Idle
  /\ ~cancelled
  /\ GoCall(k, [step |-> "findOrders"])
  /\ UNCHANGED <<vars, payments>>

CancelEventOrders(k) ==
  /\ call[k].step = "findOrders"
  /\ GoCall(k, [step |-> "refundAll", todo |-> Live, refunded |-> {}])
  /\ UNCHANGED <<vars, payments>>

(* One refund of Promise.all ends, well or not; then all have ended. *)
CancelEventRefund(k) ==
  /\ call[k].step = "refundAll"
  /\ \/ \E o \in call[k].todo :
          \/ /\ StripeRefunds(order[o].payment)
             /\ \/ GoCall(k, [call[k] EXCEPT !.todo = @ \ {o}, !.refunded = @ \cup {o}])
                \/ Outages /\ GoCall(k, [call[k] EXCEPT !.todo = @ \ {o}])
          \/ /\ Outages \/ ~Refundable(order[o].payment)
             /\ GoCall(k, [call[k] EXCEPT !.todo = @ \ {o}])
             /\ UNCHANGED intent
     \/ /\ call[k].todo = {}
        /\ GoCall(k, [step |-> "findPending", refunded |-> call[k].refunded])
        /\ UNCHANGED intent
  /\ UNCHANGED <<vars, order, orderOf>>

CancelEventPending(k) ==
  /\ call[k].step = "findPending"
  /\ GoCall(k, [step |-> "cancelWrite", refunded |-> call[k].refunded,
                todo |-> InStatus(booking, {"PENDING"})])
  /\ UNCHANGED <<vars, payments>>

CancelEventCommit(k) ==
  /\ call[k].step = "cancelWrite"
  /\ order' = WithOrderStatus(call[k].refunded, "REFUNDED")
  /\ ReturnSeats(call[k].todo, "CANCELLED")
  /\ cancelled' = TRUE
  /\ GoCall(k, Idle)
  /\ UNCHANGED <<locked, request, orderOf, intent>>
-------------------------------------------------------------------------------
(* A query of the handler fails, what it has not committed is rolled back   *)
(* and it throws; the webhook's handler logs it and answers 200.            *)
CallFails(k) ==
  /\ Outages
  /\ call[k] # Idle
  /\ call[k].step # "refundAll"
  /\ IF call[k].step = "confirmPayment" /\ call[k].webhook
     THEN Acknowledge(call[k].payment) ELSE UNCHANGED intent
  /\ GoCall(k, Idle)
  /\ UNCHANGED <<vars, order, orderOf>>

(* The process restarts: its requests and calls are gone. *)
Restart ==
  /\ \/ \E r \in Requests : request[r] # Idle
     \/ \E k \in Calls : call[k] # Idle
  /\ request' = [r \in Requests |-> Idle]
  /\ call' = [k \in Calls |-> Idle]
  /\ UNCHANGED <<locked, tables, payments>>
-------------------------------------------------------------------------------
(* A call that has started goes on. *)
Proceed(k) ==
  \/ CreateIntent(k) \/ ConfirmPaymentWrite(k)
  \/ RefundBookings(k) \/ RefundLegacy(k) \/ RefundLegacyWrite(k) \/ RefundOrder(k)
  \/ ApproveStripe(k) \/ ApproveWrite(k) \/ RejectWrite(k)
  \/ CancelEventOrders(k) \/ CancelEventRefund(k)
  \/ CancelEventPending(k) \/ CancelEventCommit(k)

OrdersStep(k) ==
  \/ Proceed(k)
  \/ \E b \in DOMAIN booking : InitiatePayment(k, b) \/ FreeConfirms(k, b)
  \/ \E b \in DOMAIN booking, payment \in DOMAIN intent :
       PageConfirms(k, b, payment)
  \/ \E i \in DOMAIN intent : WebhookConfirms(k, i)
  \/ \E o \in DOMAIN order : RequestRefund(k, o) \/ ApproveRefund(k, o) \/ RejectRefund(k, o)
  \/ CancelEventCheck(k)
  \/ CallFails(k)

CheckoutNext ==
  \/ \E k \in Calls : OrdersStep(k)
  \/ \E i \in DOMAIN intent : CustomerPays(i)
  \/ Restart
  \/ /\ \/ \E r \in Requests : BookingsStep(r)
        \/ \E c \in Categories : TtlElapses(c)
        \/ \E b \in DOMAIN booking : Overdue(b)
     /\ UNCHANGED <<payments, call>>

CheckoutSpec == CheckoutInit /\ [][CheckoutNext]_checkoutVars
(* Node and Prisma let every call that has started go on.  Stripe delivers a *)
(* webhook again until it is answered; a call is strongly fair because the   *)
(* slots of Calls are a bound of the model, and because the process does not *)
(* restart each time at the same point.                                      *)
CheckoutFairness ==
  /\ \A k \in Calls : WF_checkoutVars(Proceed(k)) /\ SF_checkoutVars(ConfirmPaymentWrite(k))
  /\ \A i \in Intents :
       SF_checkoutVars(i \in DOMAIN intent /\ \E k \in Calls : WebhookConfirms(k, i))

CheckoutFairSpec == CheckoutSpec /\ Fairness /\ CheckoutFairness
-------------------------------------------------------------------------------
(* Properties *)

(* Every variable has its type: the one type invariant of this module. *)
CheckoutTypeOK ==
  /\ TypeOK
  /\ DOMAIN order \subseteq Orders /\ order \in [DOMAIN order -> OrderRow]
  /\ DOMAIN orderOf \subseteq DOMAIN booking
  /\ orderOf \in [DOMAIN orderOf -> DOMAIN order]
  /\ DOMAIN intent \subseteq Intents /\ intent \in [DOMAIN intent -> IntentRow]
  /\ call \in [Calls -> CallState]

(* The rows that a call in flight or a payment speaks of exist (a part of  *)
(* the inductive invariant of both theorems).                              *)
CallRowsExist ==
  /\ \A i \in DOMAIN intent : intent[i].booking \in DOMAIN booking
  /\ \A k \in Calls :
       /\ call[k].step \in {"createIntent", "confirmPayment"}
            => call[k].booking \in DOMAIN booking
       /\ call[k].step \in {"approveStripe", "approveWrite"}
            => call[k].order \in DOMAIN order
       /\ call[k].step = "refundAll" => call[k].todo \subseteq DOMAIN order

(* The orders whose money is back, by what Stripe says. *)
PaidBack == {o \in DOMAIN order : MoneyBack(order[o].payment)}

(* Who is about to write REFUNDED has seen Stripe give the money back (a   *)
(* part of the inductive invariant of RefundedHasMoneyBack).               *)
RefundsInHand ==
  \A k \in Calls :
    /\ call[k].step = "approveWrite" => call[k].order \in PaidBack
    /\ call[k].step \in {"refundAll", "findPending", "cancelWrite"}
         => call[k].refunded \subseteq PaidBack

(* An order is REFUNDED only when Stripe has given its money back, whatever *)
(* calls overlap, fail or die: approveRefund and cancelEvent write REFUNDED *)
(* long after, and only because, Stripe has accepted the refund.            *)
RefundedHasMoneyBack ==
  \A o \in DOMAIN order : order[o].status = "REFUNDED" => MoneyBack(order[o].payment)

(* Bookings that hold their seats themselves: no live order stands for them. *)
Unpaid == {b \in InStatus(booking, {"PENDING", "CONFIRMED"}) :
             b \in DOMAIN orderOf => orderOf[b] \notin Live}

TicketsOf(c) ==
  Cardinality({t \in Live \X Quantities : /\ order[t[1]].category = c
                                          /\ t[2] <= order[t[1]].tickets})

(* An order that no booking points to: a second order of its booking has    *)
(* taken it over.                                                           *)
Orphans(c) == {o \in DOMAIN order : order[o].category = c /\ Linked(o) = {}}

(* Until the event is cancelled no seat gets lost between a booking, its    *)
(* order and the stock, although requestRefund, approveRefund and           *)
(* rejectRefund free and take seats in commits of their own.  The exception *)
(* is a category with an order that has lost its booking: requestRefund     *)
(* cancels some other order-less booking for it, once per call, and no      *)
(* approval returns that booking's seats.                                   *)
NoSeatLostInCheckout ==
  cancelled \/ \A c \in Categories :
    \/ Orphans(c) # {}
    \/ InitialStock[c] <= currentStock[c] + Seats(booking, Unpaid, c) + TicketsOf(c)

(* A payment makes at most one order, however often the page and the        *)
(* webhook confirm it: what confirmPayment's test for a booking that is     *)
(* already CONFIRMED is for.                                                *)
OneOrderPerPayment ==
  \A o1, o2 \in DOMAIN order :
    order[o1].payment = order[o2].payment /\ order[o1].payment # FreeOrder => o1 = o2

(* A booking has its order and no other confirmation of it is on its way.   *)
Settled(b) ==
  /\ b \in DOMAIN orderOf
  /\ \A k \in Calls : call[k].step = "confirmPayment" => call[k].booking # b

(* Confirming is idempotent but for confirmations that overlap: once a      *)
(* booking is settled it is settled for good and keeps that order, whatever *)
(* page or webhook confirms it again with whatever payment, and after any   *)
(* refund, refusal, cancellation, expiry, failed query or restart.          *)
SettledForGood ==
  [][\A b \in DOMAIN orderOf : Settled(b) => Settled(b)' /\ orderOf'[b] = orderOf[b]]_checkoutVars

(* A refund is granted and no call that read the order before is under way: *)
(* requestRefund and rejectRefund write the status whatever it has become.  *)
Granted(o) ==
  /\ order[o].status = "REFUNDED"
  /\ \A k \in Calls :
       call[k].step \in {"refundBookings", "refundLegacy", "refundLegacyWrite",
                         "refundOrder", "rejectWrite"} => call[k].order # o

(* A refund that is granted stays granted, for any number of handlers: what *)
(* can undo it is only a call that had read the order before.               *)
GrantedIsFinal ==
  [][\A o \in DOMAIN order : Granted(o) => Granted(o)']_checkoutVars

(* The webhook takes up a payment that the page never comes back for: when  *)
(* it has succeeded, its booking does not stay payable for ever, over any   *)
(* number of restarts, as Stripe repeats the webhook until it is answered.  *)
(* Of a booking that is overdue or cancelled by then it says nothing.       *)
PaidIsTakenUp ==
  LET Waits(i) == /\ i \in DOMAIN intent /\ intent[i].status = "succeeded"
                  /\ Payable(intent[i].booking)
  IN  \A i \in Intents : Waits(i) ~> ~Waits(i)
===============================================================================
