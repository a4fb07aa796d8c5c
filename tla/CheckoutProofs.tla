---------------------------- MODULE CheckoutProofs ----------------------------
(***************************************************************************)
(* Proofs about Checkout, for every set of orders, intents and calls, over *)
(* the lemmas of ReservationProofs on the booking handlers.                *)
(***************************************************************************)
EXTENDS Checkout, ReservationProofs

(* A step of the booking handlers inside the composition. *)
BookingsInside ==
  /\ \/ \E r \in Requests : BookingsStep(r)
     \/ \E c \in Categories : TtlElapses(c)
     \/ \E b \in DOMAIN booking : Overdue(b)
  /\ UNCHANGED <<payments, call>>

LEMMA GoCallType ==
  ASSUME CheckoutTypeOK, NEW k \in Calls, NEW state \in CallState, GoCall(k, state)
  PROVE  call' \in [Calls -> CallState]
BY DEF CheckoutTypeOK, GoCall

(* The tables of Reservation keep their type when only bookings change and  *)
(* they do so by WithStatus.                                                *)
LEMMA StatusType ==
  ASSUME TypeOK, NEW S, NEW status \in BookingStatus,
         booking' = WithStatus(booking, S, status),
         UNCHANGED <<locked, currentStock, cancelled, request>>
  PROVE  TypeOK' /\ DOMAIN booking' = DOMAIN booking
<1>1. IsTable(booking') /\ DOMAIN booking' = DOMAIN booking
  BY WithStatusIsTable DEF TypeOK
<1> QED
  BY <1>1 DEF TypeOK

(* An order's new status leaves the orders table typed. *)
LEMMA OrderStatusType ==
  ASSUME CheckoutTypeOK, NEW S, NEW status \in {"PAID", "REFUND_REQUESTED", "REFUNDED"},
         order' = WithOrderStatus(S, status)
  PROVE  /\ DOMAIN order' = DOMAIN order
         /\ order' \in [DOMAIN order' -> OrderRow]
         /\ \A o \in DOMAIN order : order'[o].payment = order[o].payment
BY DEF CheckoutTypeOK, WithOrderStatus, OrderRow

(* What Stripe knows of a payment changes in its two fields only. *)
LEMMA IntentChangeType ==
  ASSUME CheckoutTypeOK, NEW i,
         \/ intent' = intent
         \/ Acknowledge(i)
         \/ StripeRefunds(i)
  PROVE  /\ DOMAIN intent' = DOMAIN intent
         /\ intent' \in [DOMAIN intent' -> IntentRow]
         /\ \A x \in DOMAIN intent : intent'[x].booking = intent[x].booking
         /\ \A p : MoneyBack(p) => MoneyBack(p)'
<1>1. intent \in [DOMAIN intent -> IntentRow]
  BY DEF CheckoutTypeOK
<1>2. CASE intent' = intent
  BY <1>1, <1>2 DEF MoneyBack
<1>3. CASE Acknowledge(i)
  BY <1>1, <1>3 DEF MoneyBack, Acknowledge, IntentRow
<1>4. CASE StripeRefunds(i)
  BY <1>1, <1>4 DEF MoneyBack, StripeRefunds, IntentRow
<1> QED
  BY <1>2, <1>3, <1>4

LEMMA CheckoutTypeInit == CheckoutInit => CheckoutTypeOK
<1> SUFFICES ASSUME CheckoutInit PROVE CheckoutTypeOK
  OBVIOUS
<1>1. TypeOK
  BY TypeInit DEF CheckoutInit
<1>2. call \in [Calls -> CallState]
  BY DEF CheckoutInit, CallState
<1> QED
  BY <1>1, <1>2 DEF CheckoutInit, CheckoutTypeOK, EmptyTable
-------------------------------------------------------------------------------
(* Every step, by the tables that it changes.  Rows stay, an order keeps    *)
(* its payment and an intent its booking, and money once back stays back.   *)
RowsKept ==
  /\ DOMAIN booking \subseteq DOMAIN booking'
  /\ DOMAIN order \subseteq DOMAIN order'
  /\ DOMAIN intent \subseteq DOMAIN intent'
  /\ \A o \in DOMAIN order : order'[o].payment = order[o].payment
  /\ \A i \in DOMAIN intent : intent'[i].booking = intent[i].booking
  /\ \A p : MoneyBack(p) => MoneyBack(p)'

LEMMA CallStateKept ==
  CheckoutTypeOK /\ [CheckoutNext]_checkoutVars => call' \in [Calls -> CallState]
<1> SUFFICES ASSUME CheckoutTypeOK, [CheckoutNext]_checkoutVars
             PROVE  call' \in [Calls -> CallState]
  OBVIOUS
<1>1. ASSUME NEW k \in Calls, GoCall(k, Idle) PROVE call' \in [Calls -> CallState]
  BY <1>1, GoCallType DEF CallState
<1>2. ASSUME NEW k \in Calls, Proceed(k) PROVE call' \in [Calls -> CallState]
  <2>1. call[k] \in CallState
    BY DEF CheckoutTypeOK
  <2>2. CASE CreateIntent(k) \/ ConfirmPaymentWrite(k) \/ RefundOrder(k)
             \/ ApproveWrite(k) \/ RejectWrite(k) \/ CancelEventCommit(k)
    BY <1>1, <2>2 DEF CreateIntent, ConfirmPaymentWrite, RefundOrder, ApproveWrite,
                      RejectWrite, CancelEventCommit
  <2>3. CASE RefundBookings(k)
    <3>1. call[k].order \in Orders
      BY <2>1, <2>3 DEF RefundBookings, CallState, Idle
    <3> QED
      BY <2>3, <3>1, GoCallType DEF RefundBookings, CallState
  <2>4. CASE RefundLegacy(k)
    <3>1. call[k].order \in Orders
      BY <2>1, <2>4 DEF RefundLegacy, CallState, Idle
    <3>2. InStatus(booking, {"CONFIRMED"}) \subseteq Bookings
      BY DEF InStatus, CheckoutTypeOK, TypeOK, IsTable
    <3> QED
      BY <2>4, <3>1, <3>2, GoCallType DEF RefundLegacy, CallState
  <2>5. CASE RefundLegacyWrite(k)
    <3>1. call[k].order \in Orders
      BY <2>1, <2>5 DEF RefundLegacyWrite, CallState, Idle
    <3> QED
      BY <2>5, <3>1, GoCallType DEF RefundLegacyWrite, CallState
  <2>6. CASE ApproveStripe(k)
    <3>1. call[k].order \in Orders
      BY <2>1, <2>6 DEF ApproveStripe, CallState, Idle
    <3>2. [step |-> "approveWrite", order |-> call[k].order] \in CallState
      BY <3>1 DEF CallState
    <3> QED
      BY <2>6, <3>2, <1>1, GoCallType DEF ApproveStripe
  <2>7. CASE CancelEventOrders(k)
    <3>1. Live \subseteq Orders
      BY DEF Live, CheckoutTypeOK
    <3> QED
      BY <2>7, <3>1, GoCallType DEF CancelEventOrders, CallState
  <2>8. CASE CancelEventRefund(k)
    <3>0. call[k].step = "refundAll"
      BY <2>8 DEF CancelEventRefund
    <3>1. call[k] \in [step : {"refundAll"}, todo : SUBSET Orders,
                       refunded : SUBSET Orders]
      BY <2>1, <3>0 DEF CallState, Idle
    <3>2. \A o \in call[k].todo :
            /\ [call[k] EXCEPT !.todo = @ \ {o}, !.refunded = @ \cup {o}] \in CallState
            /\ [call[k] EXCEPT !.todo = @ \ {o}] \in CallState
      BY <3>1 DEF CallState
    <3>3. [step |-> "findPending", refunded |-> call[k].refunded] \in CallState
      BY <3>1 DEF CallState
    <3> QED
      BY <2>8, <3>2, <3>3, GoCallType DEF CancelEventRefund
  <2>9. CASE CancelEventPending(k)
    <3>1. call[k].refunded \in SUBSET Orders
      BY <2>1, <2>9 DEF CancelEventPending, CallState, Idle
    <3>2. InStatus(booking, {"PENDING"}) \in SUBSET Bookings
      BY DEF InStatus, CheckoutTypeOK, TypeOK, IsTable
    <3> QED
      BY <2>9, <3>1, <3>2, GoCallType DEF CancelEventPending, CallState
  <2> QED
    BY <1>2, <2>2, <2>3, <2>4, <2>5, <2>6, <2>7, <2>8, <2>9 DEF Proceed
<1>3. ASSUME NEW k \in Calls, NEW b \in DOMAIN booking,
             InitiatePayment(k, b) \/ FreeConfirms(k, b)
      PROVE  call' \in [Calls -> CallState]
  <2>1. b \in Bookings
    BY DEF CheckoutTypeOK, TypeOK, IsTable
  <2> QED
    BY <1>3, <2>1, GoCallType DEF InitiatePayment, FreeConfirms, ConfirmPaymentRead, CallState
<1>4. ASSUME NEW k \in Calls, NEW i \in DOMAIN intent,
             (\E b \in DOMAIN booking : PageConfirms(k, b, i)) \/ WebhookConfirms(k, i)
      PROVE  call' \in [Calls -> CallState]
  <2>1. i \in Intents /\ intent[i].booking \in Bookings
    BY DEF CheckoutTypeOK, IntentRow
  <2>2. \A b \in Bookings, w \in BOOLEAN :
          [step |-> "confirmPayment", booking |-> b, payment |-> i, webhook |-> w] \in CallState
    BY <2>1 DEF CallState
  <2>3. CASE UNCHANGED call
    BY <2>3 DEF CheckoutTypeOK
  <2>4. CASE WebhookConfirms(k, i)
    BY <2>4, <2>1, <2>2, <2>3, GoCallType DEF WebhookConfirms, ConfirmPaymentRead
  <2>5. ASSUME NEW b \in DOMAIN booking, PageConfirms(k, b, i)
        PROVE  call' \in [Calls -> CallState]
    <3>1. b \in Bookings
      BY DEF CheckoutTypeOK, TypeOK, IsTable
    <3> QED
      BY <2>5, <3>1, <2>2, GoCallType DEF PageConfirms, ConfirmPaymentRead
  <2> QED
    BY <1>4, <2>4, <2>5
<1>5. ASSUME NEW k \in Calls, NEW o \in DOMAIN order,
             RequestRefund(k, o) \/ ApproveRefund(k, o) \/ RejectRefund(k, o)
      PROVE  call' \in [Calls -> CallState]
  <2>1. o \in Orders
    BY DEF CheckoutTypeOK
  <2> QED
    BY <1>5, <2>1, GoCallType DEF RequestRefund, ApproveRefund, RejectRefund, CallState
<1>6. ASSUME NEW k \in Calls, CancelEventCheck(k) PROVE call' \in [Calls -> CallState]
  BY <1>6, GoCallType DEF CancelEventCheck, CallState
<1>7. ASSUME NEW k \in Calls, CallFails(k) PROVE call' \in [Calls -> CallState]
  BY <1>7, <1>1 DEF CallFails
<1>8. CASE Restart
  BY <1>8 DEF Restart, CallState
<1>9. CASE UNCHANGED call
  BY <1>9 DEF CheckoutTypeOK
<1> QED
  BY <1>2, <1>3, <1>4, <1>5, <1>6, <1>7, <1>8, <1>9
  DEF CheckoutNext, OrdersStep, CustomerPays, checkoutVars
(* What CheckoutTypeOK says of the tables. *)
TablesOK ==
  /\ TypeOK
  /\ DOMAIN order \subseteq Orders /\ order \in [DOMAIN order -> OrderRow]
  /\ DOMAIN orderOf \subseteq DOMAIN booking
  /\ orderOf \in [DOMAIN orderOf -> DOMAIN order]
  /\ DOMAIN intent \subseteq Intents /\ intent \in [DOMAIN intent -> IntentRow]

LEMMA TablesNext ==
  CheckoutTypeOK /\ CallRowsExist /\ [CheckoutNext]_checkoutVars => TablesOK' /\ RowsKept
<1> SUFFICES ASSUME CheckoutTypeOK, CallRowsExist, [CheckoutNext]_checkoutVars
             PROVE  TablesOK' /\ RowsKept
  OBVIOUS
<1> DEFINE Goal == TablesOK' /\ RowsKept
<1>1. ASSUME UNCHANGED <<vars, payments>> PROVE Goal
  BY <1>1 DEF CheckoutTypeOK, TablesOK, RowsKept, vars, payments, TypeOK, MoneyBack
<1>2. ASSUME UNCHANGED <<vars, order, orderOf>>, NEW i,
             \/ intent' = intent
             \/ Acknowledge(i)
             \/ StripeRefunds(i)
      PROVE  Goal
  <2>1. /\ DOMAIN intent' = DOMAIN intent
        /\ intent' \in [DOMAIN intent' -> IntentRow]
        /\ \A x \in DOMAIN intent : intent'[x].booking = intent[x].booking
        /\ \A p : MoneyBack(p) => MoneyBack(p)'
    BY <1>2, IntentChangeType
  <2> QED
    BY <1>2, <2>1 DEF CheckoutTypeOK, TablesOK, RowsKept, vars, TypeOK
<1>3. ASSUME NEW S, NEW status \in BookingStatus,
             booking' = WithStatus(booking, S, status),
             UNCHANGED <<locked, currentStock, cancelled, request, payments>>
      PROVE  Goal
  <2>1. TypeOK' /\ DOMAIN booking' = DOMAIN booking
    BY <1>3, StatusType DEF CheckoutTypeOK
  <2> QED
    BY <1>3, <2>1 DEF CheckoutTypeOK, TablesOK, RowsKept, payments, MoneyBack
<1>4. ASSUME NEW S, NEW status \in {"PAID", "REFUND_REQUESTED", "REFUNDED"},
             order' = WithOrderStatus(S, status),
             UNCHANGED <<orderOf, intent>>, TypeOK', DOMAIN booking' = DOMAIN booking
      PROVE  Goal
  <2>1. /\ DOMAIN order' = DOMAIN order
        /\ order' \in [DOMAIN order' -> OrderRow]
        /\ \A o \in DOMAIN order : order'[o].payment = order[o].payment
    BY <1>4, OrderStatusType
  <2> QED
    BY <1>4, <2>1 DEF CheckoutTypeOK, TablesOK, RowsKept, MoneyBack
<1>5. ASSUME NEW k \in Calls, CreateIntent(k) PROVE Goal
  <2>1. PICK i \in Intents \ DOMAIN intent :
          intent' = WithRow(intent, i, [booking |-> call[k].booking,
                                        status |-> "created", due |-> FALSE])
    BY <1>5 DEF CreateIntent
  <2>2. call[k].booking \in Bookings
    BY <1>5 DEF CreateIntent, CheckoutTypeOK, CallState, Idle
  <2>3. /\ DOMAIN intent' \subseteq Intents /\ DOMAIN intent \subseteq DOMAIN intent'
        /\ intent' \in [DOMAIN intent' -> IntentRow]
        /\ \A x \in DOMAIN intent : intent'[x] = intent[x]
    BY <2>1, <2>2 DEF WithRow, CheckoutTypeOK, IntentRow
  <2> QED
    BY <1>5, <2>3 DEF CreateIntent, CheckoutTypeOK, TablesOK, RowsKept, vars, TypeOK, MoneyBack
<1>6. ASSUME NEW i \in DOMAIN intent, CustomerPays(i) PROVE Goal
  <2>1. /\ DOMAIN intent' = DOMAIN intent
        /\ intent' \in [DOMAIN intent' -> IntentRow]
        /\ \A x \in DOMAIN intent : intent'[x].booking = intent[x].booking
        /\ \A p : MoneyBack(p) => MoneyBack(p)'
    BY <1>6 DEF CustomerPays, CheckoutTypeOK, IntentRow, MoneyBack
  <2> QED
    BY <1>6, <2>1 DEF CustomerPays, CheckoutTypeOK, TablesOK, RowsKept, vars, TypeOK
<1>7. ASSUME NEW k \in Calls, ConfirmPaymentWrite(k) PROVE Goal
  <2> DEFINE b == call[k].booking
  <2>1. /\ b \in DOMAIN booking /\ booking[b] \in BookingRow
        /\ call[k].payment \in Intents \cup {FreeOrder}
    BY <1>7 DEF ConfirmPaymentWrite, CallRowsExist, CheckoutTypeOK, TypeOK, IsTable,
                CallState, Idle
  <2>2. TypeOK' /\ DOMAIN booking' = DOMAIN booking
    BY <1>7, StatusType DEF ConfirmPaymentWrite, CheckoutTypeOK, BookingStatus
  <2>3. PICK o \in Orders \ DOMAIN order :
          /\ order' = WithRow(order, o, [payment |-> call[k].payment,
                                         category |-> booking[b].category,
                                         tickets |-> booking[b].quantity,
                                         status |-> "PAID"])
          /\ orderOf' = WithRow(orderOf, b, o)
    BY <1>7 DEF ConfirmPaymentWrite
  <2>4. [payment |-> call[k].payment, category |-> booking[b].category,
         tickets |-> booking[b].quantity, status |-> "PAID"] \in OrderRow
    BY <2>1 DEF OrderRow, BookingRow
  <2>5. /\ DOMAIN order' = DOMAIN order \cup {o}
        /\ order' \in [DOMAIN order' -> OrderRow]
        /\ \A x \in DOMAIN order : order'[x] = order[x]
    BY <2>3, <2>4 DEF WithRow, CheckoutTypeOK
  <2>6. /\ DOMAIN orderOf' = DOMAIN orderOf \cup {b}
        /\ orderOf' \in [DOMAIN orderOf' -> DOMAIN order']
    BY <2>3, <2>5 DEF WithRow, CheckoutTypeOK
  <2>7. intent' = intent \/ Acknowledge(call[k].payment)
    BY <1>7 DEF ConfirmPaymentWrite
  <2>8. /\ DOMAIN intent' = DOMAIN intent
        /\ intent' \in [DOMAIN intent' -> IntentRow]
        /\ \A x \in DOMAIN intent : intent'[x].booking = intent[x].booking
        /\ \A p : MoneyBack(p) => MoneyBack(p)'
    BY <2>7, IntentChangeType
  <2> HIDE DEF b
  <2> QED
    BY <2>1, <2>2, <2>5, <2>6, <2>8 DEF CheckoutTypeOK, TablesOK, RowsKept
<1>8. ASSUME NEW k \in Calls, RefundBookings(k) \/ RefundLegacyWrite(k) PROVE Goal
  BY <1>8, <1>3 DEF RefundBookings, RefundLegacyWrite, BookingStatus
<1>9. ASSUME NEW k \in Calls, RefundOrder(k) \/ RejectWrite(k) PROVE Goal
  <2>1. TypeOK' /\ booking' = booking
    BY <1>9 DEF RefundOrder, RejectWrite, vars, CheckoutTypeOK, TypeOK
  <2> QED
    BY <1>9, <2>1, <1>4 DEF RefundOrder, RejectWrite
<1>10. ASSUME NEW k \in Calls, ApproveWrite(k) PROVE Goal
  <2>1. order[call[k].order] \in OrderRow
    BY <1>10 DEF ApproveWrite, CallRowsExist, CheckoutTypeOK
  <2>2. order[call[k].order].tickets \in Int /\ order[call[k].order].category \in Categories
    BY <2>1 DEF OrderRow, Quantities
  <2>3. currentStock' \in [Categories -> Int]
    <3> DEFINE c == order[call[k].order].category
               n == order[call[k].order].tickets
    <3>1. currentStock \in [Categories -> Int]
      BY DEF CheckoutTypeOK, TypeOK
    <3>2. currentStock' = [currentStock EXCEPT ![c] = @ + n]
      BY <1>10 DEF ApproveWrite
    <3> HIDE DEF c, n
    <3>3. c \in Categories /\ n \in Int
      BY <2>2 DEF c, n
    <3> QED
      BY <3>1, <3>2, <3>3
  <2>4. IsTable(booking') /\ DOMAIN booking' = DOMAIN booking
    BY <1>10, WithStatusIsTable DEF ApproveWrite, CheckoutTypeOK, TypeOK, BookingStatus
  <2>5. TypeOK'
    BY <1>10, <2>3, <2>4 DEF ApproveWrite, CheckoutTypeOK, TypeOK
  <2> QED
    BY <1>10, <2>4, <2>5, <1>4 DEF ApproveWrite
<1>11. ASSUME NEW k \in Calls, CancelEventCommit(k) PROVE Goal
  <2>1. call[k].todo \in SUBSET Bookings
    BY <1>11 DEF CancelEventCommit, CheckoutTypeOK, CallState, Idle
  <2>2. /\ currentStock' \in [Categories -> Int] /\ IsTable(booking')
        /\ DOMAIN booking' = DOMAIN booking
    BY <1>11, <2>1, ReturnSeatsType DEF CancelEventCommit, CheckoutTypeOK, BookingStatus
  <2>3. TypeOK'
    BY <1>11, <2>2 DEF CancelEventCommit, CheckoutTypeOK, TypeOK
  <2> QED
    BY <1>11, <2>2, <2>3, <1>4 DEF CancelEventCommit
<1>12. CASE Restart
  <2>1. TypeOK'
    BY <1>12 DEF Restart, tables, CheckoutTypeOK, TypeOK, RequestState
  <2> QED
    BY <1>12, <2>1 DEF Restart, tables, payments, CheckoutTypeOK, TablesOK, RowsKept, MoneyBack
<1>13. CASE BookingsInside
  <2>1. Next
    BY <1>13 DEF BookingsInside, Next
  <2>2. TypeOK' /\ DOMAIN booking \subseteq DOMAIN booking'
    BY <2>1, TypeNext, RowsStay DEF CheckoutTypeOK
  <2> QED
    BY <1>13, <2>2 DEF BookingsInside, payments, CheckoutTypeOK, TablesOK, RowsKept, MoneyBack
<1>14. ASSUME NEW k \in Calls, NEW i \in DOMAIN intent,
              (\E b \in DOMAIN booking : PageConfirms(k, b, i)) \/ WebhookConfirms(k, i)
       PROVE  Goal
  BY <1>14, <1>1, <1>2 DEF PageConfirms, WebhookConfirms, ConfirmPaymentRead
<1>15. ASSUME NEW k \in Calls, ApproveStripe(k) \/ CancelEventRefund(k) \/ CallFails(k)
       PROVE  Goal
  BY <1>15, <1>2 DEF ApproveStripe, CancelEventRefund, CallFails
<1>16. ASSUME NEW k \in Calls,
              \/ RefundLegacy(k) \/ CancelEventOrders(k) \/ CancelEventPending(k)
              \/ CancelEventCheck(k)
              \/ \E b \in DOMAIN booking : InitiatePayment(k, b) \/ FreeConfirms(k, b)
              \/ \E o \in DOMAIN order :
                   RequestRefund(k, o) \/ ApproveRefund(k, o) \/ RejectRefund(k, o)
       PROVE  Goal
  BY <1>16, <1>1 DEF RefundLegacy, CancelEventOrders, CancelEventPending, CancelEventCheck,
                     InitiatePayment, FreeConfirms, ConfirmPaymentRead, RequestRefund,
                     ApproveRefund, RejectRefund
<1>17. CASE UNCHANGED checkoutVars
  BY <1>17, <1>1 DEF checkoutVars
<1> QED
  BY <1>5, <1>6, <1>7, <1>8, <1>9, <1>10, <1>11, <1>12, <1>13, <1>14, <1>15, <1>16, <1>17
  DEF CheckoutNext, OrdersStep, Proceed, BookingsInside
(* A call that goes on speaks of the rows it spoke of, or of rows it has   *)
(* just found.                                                             *)
LEMMA CallRowsNext ==
  CheckoutTypeOK /\ CallRowsExist /\ [CheckoutNext]_checkoutVars => CallRowsExist'
<1> SUFFICES ASSUME CheckoutTypeOK, CallRowsExist, [CheckoutNext]_checkoutVars
             PROVE  CallRowsExist'
  OBVIOUS
<1> DEFINE Good(state) ==
             /\ state.step \in {"createIntent", "confirmPayment"}
                  => state.booking \in DOMAIN booking
             /\ state.step \in {"approveStripe", "approveWrite"} => state.order \in DOMAIN order
             /\ state.step = "refundAll" => state.todo \subseteq DOMAIN order
           IntentsGood == \A i \in DOMAIN intent' : intent'[i].booking \in DOMAIN booking'
<1>1. RowsKept
  BY TablesNext
<1>2. ASSUME NEW k \in Calls, NEW state, GoCall(k, state), Good(state), IntentsGood
      PROVE  CallRowsExist'
  BY <1>1, <1>2 DEF GoCall, CallRowsExist, RowsKept, CheckoutTypeOK
<1>3. ASSUME call' = call, IntentsGood PROVE CallRowsExist'
  BY <1>1, <1>3 DEF CallRowsExist, RowsKept
<1>4. ASSUME DOMAIN intent' = DOMAIN intent PROVE IntentsGood
  BY <1>1, <1>4 DEF RowsKept, CallRowsExist
<1>5. ASSUME NEW i, \/ intent' = intent \/ Acknowledge(i) \/ StripeRefunds(i)
      PROVE  IntentsGood
  BY <1>4, <1>5, IntentChangeType
<1>6. Good(Idle)
  BY DEF Idle
<1>7. ASSUME NEW k \in Calls, CreateIntent(k) PROVE CallRowsExist'
  <2>1. PICK i \in Intents \ DOMAIN intent :
          intent' = WithRow(intent, i, [booking |-> call[k].booking,
                                        status |-> "created", due |-> FALSE])
    BY <1>7 DEF CreateIntent
  <2>2. call[k].booking \in DOMAIN booking /\ booking' = booking
    BY <1>7 DEF CreateIntent, CallRowsExist, vars
  <2>3. IntentsGood
    BY <2>1, <2>2 DEF WithRow, CallRowsExist
  <2> QED
    BY <1>7, <1>2, <1>6, <2>3 DEF CreateIntent
<1>8. ASSUME NEW k \in Calls,
             \/ ConfirmPaymentWrite(k) \/ RefundBookings(k) \/ RefundLegacy(k)
             \/ RefundLegacyWrite(k) \/ RefundOrder(k) \/ ApproveWrite(k) \/ RejectWrite(k)
             \/ CancelEventOrders(k) \/ CancelEventPending(k) \/ CancelEventCommit(k)
             \/ CancelEventCheck(k) \/ CallFails(k)
      PROVE  CallRowsExist'
  <2>1. IntentsGood
    BY <1>8, <1>5 DEF ConfirmPaymentWrite, RefundBookings, RefundLegacy, RefundLegacyWrite,
       RefundOrder, ApproveWrite, RejectWrite, CancelEventOrders, CancelEventPending,
       CancelEventCommit, CancelEventCheck, CallFails, payments
  <2>2. CASE GoCall(k, Idle)
    BY <1>2, <1>6, <2>1, <2>2
  <2>3. CASE RefundBookings(k)
    BY <1>2, <2>1, <2>3 DEF RefundBookings
  <2>4. CASE RefundLegacy(k)
    <3>1. PICK b \in Bookings \cup {Idle} :
            \/ GoCall(k, [step |-> "refundLegacyWrite", order |-> call[k].order, booking |-> b])
            \/ GoCall(k, [step |-> "refundOrder", order |-> call[k].order])
      BY <2>4 DEF RefundLegacy, InStatus, CheckoutTypeOK, TypeOK, IsTable
    <3> QED
      BY <1>2, <2>1, <3>1
  <2>5. CASE RefundLegacyWrite(k)
    BY <1>2, <2>1, <2>5 DEF RefundLegacyWrite
  <2>6. CASE CancelEventOrders(k)
    BY <1>2, <2>1, <2>6 DEF CancelEventOrders, Live
  <2>7. CASE CancelEventPending(k)
    BY <1>2, <2>1, <2>7 DEF CancelEventPending
  <2>8. CASE CancelEventCheck(k)
    BY <1>2, <2>1, <2>8 DEF CancelEventCheck
  <2> QED
    BY <1>8, <2>2, <2>3, <2>4, <2>5, <2>6, <2>7, <2>8
    DEF ConfirmPaymentWrite, RefundOrder, ApproveWrite, RejectWrite, CancelEventCommit,
        CallFails
<1>9. ASSUME NEW k \in Calls, ApproveStripe(k) PROVE CallRowsExist'
  <2>1. IntentsGood
    BY <1>9, <1>5 DEF ApproveStripe
  <2>2. Good([step |-> "approveWrite", order |-> call[k].order])
    BY <1>9 DEF ApproveStripe, CallRowsExist
  <2> QED
    BY <1>9, <1>2, <1>6, <2>1, <2>2 DEF ApproveStripe
<1>10. ASSUME NEW k \in Calls, CancelEventRefund(k) PROVE CallRowsExist'
  <2>1. IntentsGood
    BY <1>10, <1>5 DEF CancelEventRefund
  <2>2. call[k].step = "refundAll"
    BY <1>10 DEF CancelEventRefund
  <2>3. call[k] \in [step : {"refundAll"}, todo : SUBSET Orders, refunded : SUBSET Orders]
    BY <2>2 DEF CheckoutTypeOK, CallState, Idle
  <2>4. call[k].todo \subseteq DOMAIN order
    BY <2>2 DEF CallRowsExist
  <2>5. \A o \in call[k].todo :
          /\ Good([call[k] EXCEPT !.todo = @ \ {o}, !.refunded = @ \cup {o}])
          /\ Good([call[k] EXCEPT !.todo = @ \ {o}])
    BY <2>3, <2>4
  <2>6. Good([step |-> "findPending", refunded |-> call[k].refunded])
    OBVIOUS
  <2> HIDE DEF Good
  <2> QED
    BY <1>10, <1>2, <2>1, <2>5, <2>6 DEF CancelEventRefund
<1>11. ASSUME NEW k \in Calls, NEW b \in DOMAIN booking, NEW payment, NEW webhook,
              ConfirmPaymentRead(k, b, payment, webhook)
       PROVE  CallRowsExist'
  BY <1>11, <1>2, <1>5 DEF ConfirmPaymentRead, payments
<1>12. ASSUME NEW k \in Calls, NEW i \in DOMAIN intent,
              (\E b \in DOMAIN booking : PageConfirms(k, b, i)) \/ WebhookConfirms(k, i)
       PROVE  CallRowsExist'
  <2>1. intent[i].booking \in DOMAIN booking
    BY DEF CallRowsExist
  <2> QED
    BY <1>12, <2>1, <1>11, <1>3, <1>5 DEF PageConfirms, WebhookConfirms
<1>13. ASSUME NEW k \in Calls, NEW b \in DOMAIN booking,
              InitiatePayment(k, b) \/ FreeConfirms(k, b)
       PROVE  CallRowsExist'
  BY <1>13, <1>2, <1>5, <1>11 DEF InitiatePayment, FreeConfirms, payments
<1>14. ASSUME NEW k \in Calls, NEW o \in DOMAIN order,
              RequestRefund(k, o) \/ ApproveRefund(k, o) \/ RejectRefund(k, o)
       PROVE  CallRowsExist'
  BY <1>14, <1>2, <1>5 DEF RequestRefund, ApproveRefund, RejectRefund, payments
<1>15. ASSUME NEW i \in DOMAIN intent, CustomerPays(i) PROVE CallRowsExist'
  BY <1>15, <1>3, <1>4 DEF CustomerPays
<1>16. CASE Restart
  <2>1. IntentsGood
    BY <1>16, <1>5 DEF Restart, payments
  <2> QED
    BY <1>16, <2>1 DEF Restart, CallRowsExist, Idle
<1>17. CASE BookingsInside \/ UNCHANGED checkoutVars
  BY <1>17, <1>3, <1>5 DEF BookingsInside, checkoutVars, payments
<1> QED
  BY <1>7, <1>8, <1>9, <1>10, <1>12, <1>13, <1>14, <1>15, <1>16, <1>17
  DEF CheckoutNext, OrdersStep, Proceed, BookingsInside

LEMMA CallRowsInit == CheckoutInit => CallRowsExist
BY DEF CheckoutInit, CallRowsExist, Idle, EmptyTable

LEMMA CheckoutTypeStep ==
  CheckoutTypeOK /\ CallRowsExist /\ [CheckoutNext]_checkoutVars => CheckoutTypeOK'
BY TablesNext, CallStateKept DEF TablesOK, CheckoutTypeOK

(* Every table, payment and call keeps its type: no order id dangles, and   *)
(* every payment and order in flight has its row.                           *)
THEOREM CheckoutTypeCorrect == CheckoutSpec => []CheckoutTypeOK
BY CheckoutTypeInit, CheckoutTypeStep, CallRowsInit, CallRowsNext, PTL DEF CheckoutSpec
-------------------------------------------------------------------------------
(* A call gets its right to write REFUNDED from Stripe's acceptance, in the *)
(* step in which it hears of it, and the money stays back.                  *)
LEMMA RefundsInHandNext ==
  /\ CheckoutTypeOK /\ CallRowsExist /\ RefundsInHand
  /\ [CheckoutNext]_checkoutVars
  => RefundsInHand'
<1> SUFFICES ASSUME CheckoutTypeOK, CallRowsExist, RefundsInHand, [CheckoutNext]_checkoutVars
             PROVE  RefundsInHand'
  OBVIOUS
<1> DEFINE Good(state) ==
             /\ state.step = "approveWrite" => state.order \in PaidBack'
             /\ state.step \in {"refundAll", "findPending", "cancelWrite"}
                  => state.refunded \subseteq PaidBack'
<1>1. PaidBack \subseteq PaidBack'
  BY TablesNext DEF RowsKept, PaidBack
<1>2. \A k \in Calls : Good(call[k])
  BY <1>1 DEF RefundsInHand
<1>3. ASSUME \A k \in Calls : Good(call'[k]) PROVE RefundsInHand'
  BY <1>3 DEF RefundsInHand
<1>4. ASSUME NEW k \in Calls, NEW state, GoCall(k, state), Good(state) PROVE RefundsInHand'
  BY <1>2, <1>3, <1>4 DEF GoCall, CheckoutTypeOK
<1>5. ASSUME call' = call PROVE RefundsInHand'
  BY <1>2, <1>3, <1>5
<1>6. ASSUME NEW k \in Calls, GoCall(k, Idle) PROVE RefundsInHand'
  BY <1>4, <1>6 DEF Idle
<1>7. ASSUME NEW k \in Calls, ApproveStripe(k) PROVE RefundsInHand'
  <2> DEFINE o == call[k].order
  <2>1. o \in DOMAIN order /\ order' = order
    BY <1>7 DEF ApproveStripe, CallRowsExist
  <2>2. CASE GoCall(k, [step |-> "approveWrite", order |-> o]) /\ StripeRefunds(order[o].payment)
    <3>1. o \in PaidBack'
      BY <2>1, <2>2
      DEF PaidBack, StripeRefunds, Refundable, MoneyBack, CheckoutTypeOK, IntentRow
    <3> QED
      BY <2>2, <3>1, <1>4
  <2> QED
    BY <1>7, <1>6, <2>2 DEF ApproveStripe
<1>8. ASSUME NEW k \in Calls, CancelEventRefund(k) PROVE RefundsInHand'
  <2>1. call[k].step = "refundAll" /\ order' = order
    BY <1>8 DEF CancelEventRefund
  <2>2. call[k] \in [step : {"refundAll"}, todo : SUBSET Orders, refunded : SUBSET Orders]
    BY <2>1 DEF CheckoutTypeOK, CallState, Idle
  <2>3. /\ call[k].refunded \subseteq PaidBack'
        /\ call[k].todo \subseteq DOMAIN order
    BY <1>2, <2>1 DEF CallRowsExist
  <2>4. ASSUME NEW o \in call[k].todo, StripeRefunds(order[o].payment) PROVE o \in PaidBack'
    BY <2>1, <2>3, <2>4
    DEF PaidBack, StripeRefunds, Refundable, MoneyBack, CheckoutTypeOK, IntentRow
  <2>5. \A o \in call[k].todo :
          /\ o \in PaidBack' => Good([call[k] EXCEPT !.todo = @ \ {o}, !.refunded = @ \cup {o}])
          /\ Good([call[k] EXCEPT !.todo = @ \ {o}])
    BY <2>2, <2>3
  <2>6. Good([step |-> "findPending", refunded |-> call[k].refunded])
    BY <2>3
  <2> HIDE DEF Good
  <2> QED
    BY <1>8, <1>4, <2>4, <2>5, <2>6 DEF CancelEventRefund
<1>9. ASSUME NEW k \in Calls, CancelEventPending(k) PROVE RefundsInHand'
  <2>1. call[k].refunded \subseteq PaidBack'
    BY <1>2, <1>9 DEF CancelEventPending
  <2> QED
    BY <1>9, <2>1, <1>4 DEF CancelEventPending
<1>10. ASSUME NEW k \in Calls, CancelEventOrders(k) PROVE RefundsInHand'
  BY <1>10, <1>4 DEF CancelEventOrders
<1>11. ASSUME NEW k \in Calls,
              \/ RefundBookings(k) \/ RefundLegacy(k) \/ RefundLegacyWrite(k)
              \/ CancelEventCheck(k)
       PROVE  RefundsInHand'
  <2>1. ASSUME NEW state, GoCall(k, state),
               state.step \in {"refundLegacy", "refundLegacyWrite", "refundOrder", "findOrders"}
        PROVE  RefundsInHand'
    BY <2>1, <1>4
  <2>2. CASE RefundLegacy(k)
    <3>1. PICK b \in Bookings \cup {Idle} :
            \/ GoCall(k, [step |-> "refundLegacyWrite", order |-> call[k].order, booking |-> b])
            \/ GoCall(k, [step |-> "refundOrder", order |-> call[k].order])
      BY <2>2 DEF RefundLegacy, InStatus, CheckoutTypeOK, TypeOK, IsTable
    <3> QED
      BY <2>1, <3>1
  <2> QED
    BY <1>11, <2>1, <2>2 DEF RefundBookings, RefundLegacyWrite, CancelEventCheck
<1>12. ASSUME NEW k \in Calls, NEW b, NEW payment, NEW webhook,
              ConfirmPaymentRead(k, b, payment, webhook)
       PROVE  RefundsInHand'
  BY <1>12, <1>4 DEF ConfirmPaymentRead
<1>13. ASSUME NEW k \in Calls,
              \/ \E b \in DOMAIN booking : InitiatePayment(k, b) \/ FreeConfirms(k, b)
              \/ \E b \in DOMAIN booking, payment \in DOMAIN intent : PageConfirms(k, b, payment)
              \/ \E i \in DOMAIN intent : WebhookConfirms(k, i)
              \/ \E o \in DOMAIN order :
                   RequestRefund(k, o) \/ ApproveRefund(k, o) \/ RejectRefund(k, o)
       PROVE  RefundsInHand'
  BY <1>13, <1>4, <1>5, <1>12
  DEF InitiatePayment, FreeConfirms, PageConfirms, WebhookConfirms, RequestRefund,
      ApproveRefund, RejectRefund
<1>14. ASSUME NEW k \in Calls,
              \/ CreateIntent(k) \/ ConfirmPaymentWrite(k) \/ RefundOrder(k)
              \/ ApproveWrite(k) \/ RejectWrite(k) \/ CancelEventCommit(k) \/ CallFails(k)
       PROVE  RefundsInHand'
  BY <1>14, <1>6 DEF CreateIntent, ConfirmPaymentWrite, RefundOrder, ApproveWrite,
                     RejectWrite, CancelEventCommit, CallFails
<1>15. CASE Restart
  BY <1>15, <1>3 DEF Restart, Idle
<1> QED
  BY <1>5, <1>7, <1>8, <1>9, <1>10, <1>11, <1>13, <1>14, <1>15
  DEF CheckoutNext, OrdersStep, Proceed, CustomerPays, checkoutVars

(* REFUNDED is only written by a call that has its refund in hand. *)
LEMMA MoneyBackNext ==
  /\ CheckoutTypeOK /\ CallRowsExist /\ RefundsInHand /\ RefundedHasMoneyBack
  /\ [CheckoutNext]_checkoutVars
  => RefundedHasMoneyBack'
<1> SUFFICES ASSUME CheckoutTypeOK, CallRowsExist, RefundsInHand, RefundedHasMoneyBack,
                    [CheckoutNext]_checkoutVars
             PROVE  RefundedHasMoneyBack'
  OBVIOUS
<1>1. RowsKept
  BY TablesNext
<1>2. ASSUME order' = order PROVE RefundedHasMoneyBack'
  BY <1>1, <1>2 DEF RefundedHasMoneyBack, RowsKept
<1>3. ASSUME NEW S, NEW status, order' = WithOrderStatus(S, status),
             status # "REFUNDED"
               \/ \A o \in S : o \in DOMAIN order => MoneyBack(order[o].payment)
      PROVE  RefundedHasMoneyBack'
  BY <1>1, <1>3 DEF RefundedHasMoneyBack, RowsKept, WithOrderStatus, CheckoutTypeOK, OrderRow
<1>4. ASSUME NEW k \in Calls, ConfirmPaymentWrite(k) PROVE RefundedHasMoneyBack'
  <2>1. PICK o \in Orders \ DOMAIN order :
          order' = WithRow(order, o, [payment |-> call[k].payment,
                                      category |-> booking[call[k].booking].category,
                                      tickets |-> booking[call[k].booking].quantity,
                                      status |-> "PAID"])
    BY <1>4 DEF ConfirmPaymentWrite
  <2>2. /\ DOMAIN order' = DOMAIN order \cup {o}
        /\ order'[o].status = "PAID"
        /\ \A x \in DOMAIN order : order'[x] = order[x]
    BY <2>1 DEF WithRow
  <2> QED
    BY <1>1, <2>2 DEF RefundedHasMoneyBack, RowsKept
<1>5. ASSUME NEW k \in Calls, RefundOrder(k) \/ RejectWrite(k) PROVE RefundedHasMoneyBack'
  BY <1>5, <1>3 DEF RefundOrder, RejectWrite
<1>6. ASSUME NEW k \in Calls, ApproveWrite(k) PROVE RefundedHasMoneyBack'
  BY <1>6, <1>3 DEF ApproveWrite, RefundsInHand, PaidBack
<1>7. ASSUME NEW k \in Calls, CancelEventCommit(k) PROVE RefundedHasMoneyBack'
  BY <1>7, <1>3 DEF CancelEventCommit, RefundsInHand, PaidBack
<1>8. ASSUME NEW k \in Calls,
             \/ CreateIntent(k) \/ RefundBookings(k) \/ RefundLegacy(k)
             \/ RefundLegacyWrite(k) \/ ApproveStripe(k) \/ CancelEventOrders(k)
             \/ CancelEventRefund(k) \/ CancelEventPending(k) \/ CancelEventCheck(k)
             \/ CallFails(k)
      PROVE  RefundedHasMoneyBack'
  BY <1>8, <1>2 DEF CreateIntent, RefundBookings, RefundLegacy, RefundLegacyWrite,
     ApproveStripe, CancelEventOrders, CancelEventRefund, CancelEventPending,
     CancelEventCheck, CallFails, payments
<1>9. ASSUME NEW k \in Calls,
             \/ \E b \in DOMAIN booking : InitiatePayment(k, b) \/ FreeConfirms(k, b)
             \/ \E b \in DOMAIN booking, payment \in DOMAIN intent : PageConfirms(k, b, payment)
             \/ \E i \in DOMAIN intent : WebhookConfirms(k, i)
             \/ \E o \in DOMAIN order :
                  RequestRefund(k, o) \/ ApproveRefund(k, o) \/ RejectRefund(k, o)
      PROVE  RefundedHasMoneyBack'
  BY <1>9, <1>2 DEF InitiatePayment, FreeConfirms, PageConfirms, WebhookConfirms,
     ConfirmPaymentRead, RequestRefund, ApproveRefund, RejectRefund, payments
<1>10. ASSUME NEW k \in Calls, OrdersStep(k) PROVE RefundedHasMoneyBack'
  BY <1>10, <1>4, <1>5, <1>6, <1>7, <1>8, <1>9 DEF OrdersStep, Proceed
<1> QED
  BY <1>2, <1>4, <1>5, <1>6, <1>7, <1>10
  DEF CheckoutNext, CustomerPays, Restart, payments, checkoutVars

(* No order says REFUNDED while Stripe still has the money, for any number  *)
(* of overlapping approvals, rejections and cancellations, failed or lost   *)
(* replies and restarts.                                                    *)
THEOREM RefundsAreBacked == CheckoutSpec => []RefundedHasMoneyBack
<1>1. CheckoutInit => RefundsInHand /\ RefundedHasMoneyBack
  BY DEF CheckoutInit, RefundsInHand, RefundedHasMoneyBack, Idle, EmptyTable
<1> QED
  BY <1>1, CheckoutTypeInit, CheckoutTypeStep, CallRowsInit, CallRowsNext,
     RefundsInHandNext, MoneyBackNext, PTL DEF CheckoutSpec
-------------------------------------------------------------------------------
(* The steps that write the tables of bookings and orders; all others read, *)
(* or write what Stripe or a call in flight knows.                          *)
LEMMA WritingSteps ==
  ASSUME [CheckoutNext]_checkoutVars
  PROVE  \/ UNCHANGED <<currentStock, booking, cancelled, order, orderOf>>
         \/ \E k \in Calls : \/ ConfirmPaymentWrite(k) \/ RefundBookings(k)
                             \/ RefundLegacyWrite(k) \/ RefundOrder(k)
                             \/ ApproveWrite(k) \/ RejectWrite(k) \/ CancelEventCommit(k)
         \/ BookingsInside
<1> DEFINE Reads == UNCHANGED <<currentStock, booking, cancelled, order, orderOf>>
<1>1. ASSUME NEW k \in Calls,
             \/ CreateIntent(k) \/ RefundLegacy(k) \/ ApproveStripe(k) \/ CancelEventOrders(k)
             \/ CancelEventRefund(k) \/ CancelEventPending(k)
      PROVE  Reads
  BY <1>1 DEF vars, tables, payments, CreateIntent, RefundLegacy, ApproveStripe,
              CancelEventOrders, CancelEventRefund, CancelEventPending
<1>2. ASSUME NEW k \in Calls, NEW b, InitiatePayment(k, b) \/ FreeConfirms(k, b) PROVE Reads
  BY <1>2 DEF vars, tables, payments, InitiatePayment, FreeConfirms, ConfirmPaymentRead
<1>3. ASSUME NEW k \in Calls, NEW i,
             (\E b \in DOMAIN booking : PageConfirms(k, b, i)) \/ WebhookConfirms(k, i)
      PROVE  Reads
  BY <1>3 DEF vars, tables, payments, PageConfirms, WebhookConfirms, ConfirmPaymentRead
<1>4. ASSUME NEW k \in Calls, NEW o,
             RequestRefund(k, o) \/ ApproveRefund(k, o) \/ RejectRefund(k, o)
      PROVE  Reads
  BY <1>4 DEF vars, tables, payments, RequestRefund, ApproveRefund, RejectRefund
<1>5. ASSUME NEW k \in Calls, CancelEventCheck(k) \/ CallFails(k) PROVE Reads
  BY <1>5 DEF vars, tables, payments, CancelEventCheck, CallFails
<1>6. ASSUME (\E i \in DOMAIN intent : CustomerPays(i)) \/ Restart \/ UNCHANGED checkoutVars
      PROVE  Reads
  BY <1>6 DEF vars, tables, payments, checkoutVars, CustomerPays, Restart
<1> HIDE DEF Reads
<1>7. ASSUME NEW k \in Calls, OrdersStep(k)
      PROVE  \/ Reads \/ ConfirmPaymentWrite(k) \/ RefundBookings(k)
             \/ RefundLegacyWrite(k) \/ RefundOrder(k)
             \/ ApproveWrite(k) \/ RejectWrite(k) \/ CancelEventCommit(k)
  BY <1>1, <1>2, <1>3, <1>4, <1>5, <1>7 DEF OrdersStep, Proceed
<1>8. \/ Reads \/ BookingsInside \/ \E k \in Calls : OrdersStep(k)
  BY <1>6 DEF CheckoutNext, BookingsInside
<1> QED
  BY <1>7, <1>8 DEF Reads

(* The booking handlers inside the composition are steps of Reservation. *)
LEMMA InFlightKept ==
  CheckoutTypeOK /\ InFlightRowsExist /\ [CheckoutNext]_checkoutVars => InFlightRowsExist'
<1> SUFFICES ASSUME CheckoutTypeOK, InFlightRowsExist, [CheckoutNext]_checkoutVars
             PROVE  InFlightRowsExist'
  OBVIOUS
<1>1. CASE BookingsInside
  BY <1>1, InFlightNext DEF BookingsInside, Next, CheckoutTypeOK
<1>2. ASSUME request' \in {request, [r \in Requests |-> Idle]},
             DOMAIN booking \subseteq DOMAIN booking'
      PROVE  InFlightRowsExist'
  BY <1>2 DEF InFlightRowsExist, Idle
<1>3. CASE Restart
  BY <1>3, <1>2 DEF Restart, tables
<1>4. ASSUME NEW k \in Calls, OrdersStep(k) PROVE InFlightRowsExist'
  <2>1. request' = request
    BY <1>4 DEF OrdersStep, Proceed, payments, vars,
       CreateIntent, ConfirmPaymentWrite, RefundBookings, RefundLegacy, RefundLegacyWrite,
       RefundOrder, ApproveStripe, ApproveWrite, RejectWrite, CancelEventOrders,
       CancelEventRefund, CancelEventPending, CancelEventCommit, CancelEventCheck,
       InitiatePayment, FreeConfirms, PageConfirms, WebhookConfirms, ConfirmPaymentRead,
       RequestRefund, ApproveRefund, RejectRefund, CallFails
  <2>2. booking' = booking \/ \E S, status : booking' = WithStatus(booking, S, status)
    BY <1>4 DEF OrdersStep, Proceed, payments, vars,
       CreateIntent, ConfirmPaymentWrite, RefundBookings, RefundLegacy, RefundLegacyWrite,
       RefundOrder, ApproveStripe, ApproveWrite, RejectWrite, CancelEventOrders,
       CancelEventRefund, CancelEventPending, CancelEventCommit, CancelEventCheck,
       InitiatePayment, FreeConfirms, PageConfirms, WebhookConfirms, ConfirmPaymentRead,
       RequestRefund, ApproveRefund, RejectRefund, CallFails, ReturnSeats
  <2> QED
    BY <2>1, <2>2, <1>2 DEF WithStatus
<1>5. ASSUME UNCHANGED vars PROVE InFlightRowsExist'
  BY <1>5 DEF vars, InFlightRowsExist
<1> QED
  BY <1>1, <1>3, <1>4, <1>5 DEF CheckoutNext, CustomerPays, checkoutVars, BookingsInside
-------------------------------------------------------------------------------
(* At most one booking points to an order, and the order has its category   *)
(* and as many tickets as it has seats.                                     *)
OrdersLinked ==
  /\ \A a, b \in DOMAIN orderOf : orderOf[a] = orderOf[b] => a = b
  /\ \A b \in DOMAIN orderOf : /\ order[orderOf[b]].category = booking[b].category
                               /\ order[orderOf[b]].tickets = booking[b].quantity

(* What no step changes of a row; and an order is never linked later on. *)
ShapeKept ==
  /\ \A b \in DOMAIN booking : /\ b \in DOMAIN booking'
                               /\ booking'[b].category = booking[b].category
                               /\ booking'[b].quantity = booking[b].quantity
  /\ \A o \in DOMAIN order : /\ o \in DOMAIN order'
                             /\ order'[o].category = order[o].category
                             /\ order'[o].tickets = order[o].tickets
                             /\ Linked(o)' \subseteq Linked(o)

(* The booking handlers write statuses and new rows only. *)
LEMMA BookingRowsKept ==
  ASSUME TypeOK, InFlightRowsExist, [Next]_vars
  PROVE  \A b \in DOMAIN booking : /\ b \in DOMAIN booking'
                                   /\ booking'[b].category = booking[b].category
                                   /\ booking'[b].quantity = booking[b].quantity
<1>1. Ledger!Next \/ UNCHANGED booking
  BY LedgerStep DEF Ledger!vars
<1> DEFINE Kept == \A b \in DOMAIN booking : /\ b \in DOMAIN booking'
                                            /\ booking'[b].category = booking[b].category
                                            /\ booking'[b].quantity = booking[b].quantity
<1>2. ASSUME NEW S, NEW status, booking' = WithStatus(booking, S, status) PROVE Kept
  BY <1>2 DEF WithStatus, TypeOK, IsTable, BookingRow
<1>3. ASSUME NEW S, NEW status, Ledger!Release(S, status) PROVE Kept
  BY <1>2, <1>3, SameOperators DEF Ledger!Release
<1>4. ASSUME NEW b, NEW c, NEW q, Ledger!Reserve(b, c, q) PROVE Kept
  BY <1>4, SameOperators DEF Ledger!Reserve, WithRow
<1>5. ASSUME NEW b \in DOMAIN booking, Ledger!Overdue(b) \/ Ledger!Confirm(b) PROVE Kept
  <2>1. CASE booking' = [booking EXCEPT ![b].overdue = TRUE]
    BY <2>1 DEF TypeOK, IsTable, BookingRow
  <2> QED
    BY <1>2, <1>5, <2>1, SameOperators DEF Ledger!Overdue, Ledger!Confirm
<1>6. CASE Ledger!Next
  <2>1. ASSUME NEW S, Ledger!CancelEvent(S) PROVE Kept
    BY <1>3, <2>1 DEF Ledger!CancelEvent
  <2>2. ASSUME NEW b \in DOMAIN booking, NEW status, Ledger!Release({b}, status) PROVE Kept
    BY <1>3, <2>2
  <2>3. CASE \E b \in DOMAIN booking, status \in {"CANCELLED", "EXPIRED"} :
               Ledger!Release({b}, status) /\ UNCHANGED cancelled
    BY <2>2, <2>3
  <2>4. CASE \E b \in Bookings, c \in Categories, q \in Quantities : Ledger!Reserve(b, c, q)
    BY <1>4, <2>4
  <2>5. CASE \E b \in DOMAIN booking : Ledger!Overdue(b) \/ Ledger!Confirm(b)
    BY <1>5, <2>5
  <2> QED
    BY <1>6, <2>1, <2>3, <2>4, <2>5, SameOperators DEF Ledger!Next
<1>7. CASE UNCHANGED booking
  BY <1>7
<1> QED
  BY <1>1, <1>6, <1>7

LEMMA ShapeNext ==
  ASSUME CheckoutTypeOK, CallRowsExist, InFlightRowsExist, OrdersLinked,
         [CheckoutNext]_checkoutVars
  PROVE  ShapeKept /\ OrdersLinked'
<1> DEFINE Rows(new) == \A b \in DOMAIN booking :
                          /\ b \in DOMAIN new
                          /\ new[b].category = booking[b].category
                          /\ new[b].quantity = booking[b].quantity
<1>1. ASSUME UNCHANGED orderOf, Rows(booking'),
             \/ order' = order
             \/ \E S, status : order' = WithOrderStatus(S, status)
      PROVE  ShapeKept /\ OrdersLinked'
  <2>1. \A o \in DOMAIN order : /\ o \in DOMAIN order'
                               /\ order'[o].category = order[o].category
                               /\ order'[o].tickets = order[o].tickets
    BY <1>1 DEF WithOrderStatus, CheckoutTypeOK, OrderRow
  <2>2. \A b \in DOMAIN orderOf : b \in DOMAIN booking /\ orderOf[b] \in DOMAIN order
    BY DEF CheckoutTypeOK
  <2> QED
    BY <1>1, <2>1, <2>2 DEF ShapeKept, OrdersLinked, Linked
<1>2. ASSUME NEW S, NEW status PROVE Rows(WithStatus(booking, S, status))
  BY DEF WithStatus, CheckoutTypeOK, TypeOK, IsTable, BookingRow
<1>3. ASSUME NEW k \in Calls, ConfirmPaymentWrite(k) PROVE ShapeKept /\ OrdersLinked'
  <2> DEFINE b == call[k].booking
  <2>1. PICK o \in Orders \ DOMAIN order :
          /\ order' = WithRow(order, o, [payment |-> call[k].payment,
                                         category |-> booking[b].category,
                                         tickets |-> booking[b].quantity,
                                         status |-> "PAID"])
          /\ orderOf' = WithRow(orderOf, b, o)
    BY <1>3 DEF ConfirmPaymentWrite
  <2>2. b \in DOMAIN booking
    BY <1>3 DEF ConfirmPaymentWrite, CallRowsExist
  <2>3. Rows(booking')
    BY <1>2, <1>3 DEF ConfirmPaymentWrite
  <2>4. /\ DOMAIN order' = DOMAIN order \cup {o}
        /\ \A x \in DOMAIN order : order'[x] = order[x]
        /\ order'[o].category = booking[b].category
        /\ order'[o].tickets = booking[b].quantity
    BY <2>1 DEF WithRow
  <2>5. /\ DOMAIN orderOf' = DOMAIN orderOf \cup {b} /\ orderOf'[b] = o
        /\ \A x \in DOMAIN orderOf : x # b => orderOf'[x] = orderOf[x]
    BY <2>1 DEF WithRow
  <2>6. \A x \in DOMAIN orderOf : x \in DOMAIN booking /\ orderOf[x] \in DOMAIN order
    BY DEF CheckoutTypeOK
  <2> HIDE DEF b
  <2>7. \A x \in DOMAIN order : Linked(x)' \subseteq Linked(x)
    BY <2>5 DEF Linked
  <2>8. ShapeKept
    BY <2>3, <2>4, <2>7 DEF ShapeKept
  <2>9. \A x, y \in DOMAIN orderOf' : orderOf'[x] = orderOf'[y] => x = y
    BY <2>5, <2>6 DEF OrdersLinked
  <2>10. \A x \in DOMAIN orderOf' : /\ order'[orderOf'[x]].category = booking'[x].category
                                    /\ order'[orderOf'[x]].tickets = booking'[x].quantity
    BY <2>2, <2>3, <2>4, <2>5, <2>6 DEF OrdersLinked
  <2> QED
    BY <2>8, <2>9, <2>10 DEF OrdersLinked
<1>4. CASE BookingsInside
  <2>1. Rows(booking')
    BY <1>4, BookingRowsKept DEF BookingsInside, Next, CheckoutTypeOK
  <2> QED
    BY <1>1, <1>4, <2>1 DEF BookingsInside, payments
<1>5. ASSUME NEW k \in Calls,
             \/ RefundBookings(k) \/ RefundLegacyWrite(k) \/ RefundOrder(k)
             \/ ApproveWrite(k) \/ RejectWrite(k) \/ CancelEventCommit(k)
      PROVE  ShapeKept /\ OrdersLinked'
  <2>1. booking' = booking \/ \E S, status : booking' = WithStatus(booking, S, status)
    BY <1>5 DEF RefundBookings, RefundLegacyWrite, RefundOrder, ApproveWrite, RejectWrite,
                CancelEventCommit, ReturnSeats, vars
  <2>2. Rows(booking')
    BY <1>2, <2>1
  <2>3. UNCHANGED orderOf /\ (order' = order \/ \E S, status : order' = WithOrderStatus(S, status))
    BY <1>5 DEF RefundBookings, RefundLegacyWrite, RefundOrder, ApproveWrite, RejectWrite,
                CancelEventCommit, payments
  <2> QED
    BY <1>1, <2>2, <2>3
<1>6. CASE UNCHANGED <<currentStock, booking, cancelled, order, orderOf>>
  BY <1>1, <1>6
<1> QED
  BY <1>3, <1>4, <1>5, <1>6, WritingSteps
-------------------------------------------------------------------------------
(* A call of requestRefund that goes looking for a booking works for an     *)
(* order that has none, and takes one of the order's category.              *)
LegacyInHand ==
  \A k \in Calls :
    /\ call[k].step \in {"refundBookings", "refundLegacy", "refundLegacyWrite"}
         => call[k].order \in DOMAIN order
    /\ call[k].step \in {"refundLegacy", "refundLegacyWrite"} => Linked(call[k].order) = {}
    /\ call[k].step = "refundLegacyWrite"
         => /\ call[k].booking \in DOMAIN booking
            /\ booking[call[k].booking].category = order[call[k].order].category

LEMMA LegacyInHandNext ==
  ASSUME CheckoutTypeOK, CallRowsExist, InFlightRowsExist, OrdersLinked, LegacyInHand,
         [CheckoutNext]_checkoutVars
  PROVE  LegacyInHand'
<1> DEFINE Good(state) ==
      /\ state.step \in {"refundBookings", "refundLegacy", "refundLegacyWrite"}
           => state.order \in DOMAIN order
      /\ state.step \in {"refundLegacy", "refundLegacyWrite"} => Linked(state.order) = {}
      /\ state.step = "refundLegacyWrite"
           => /\ state.booking \in DOMAIN booking
              /\ booking[state.booking].category = order[state.order].category
<1>1. ShapeKept
  BY ShapeNext
<1>2. \A k \in Calls : Good(call[k])
  BY DEF LegacyInHand
<1>3. ASSUME \A k \in Calls : Good(call'[k]) PROVE LegacyInHand'
  BY <1>1, <1>3 DEF LegacyInHand, ShapeKept
<1>4. ASSUME NEW k \in Calls, NEW state, GoCall(k, state), Good(state) PROVE LegacyInHand'
  BY <1>2, <1>3, <1>4 DEF GoCall, CheckoutTypeOK
<1>5. ASSUME call' = call PROVE LegacyInHand'
  BY <1>2, <1>3, <1>5
<1>6. ASSUME NEW k \in Calls, NEW state, GoCall(k, state),
             state.step \notin {"refundBookings", "refundLegacy", "refundLegacyWrite"}
      PROVE  LegacyInHand'
  BY <1>4, <1>6
<1>7. ASSUME NEW k \in Calls, NEW o \in DOMAIN order, RequestRefund(k, o) PROVE LegacyInHand'
  BY <1>7, <1>4 DEF RequestRefund
<1>8. ASSUME NEW k \in Calls, RefundBookings(k) PROVE LegacyInHand'
  BY <1>8, <1>2, <1>4 DEF RefundBookings
<1>9. ASSUME NEW k \in Calls, RefundLegacy(k) PROVE LegacyInHand'
  <2>1. CASE GoCall(k, [step |-> "refundOrder", order |-> call[k].order])
    BY <2>1, <1>6
  <2>2. ASSUME NEW b \in DOMAIN booking, booking[b].category = order[call[k].order].category,
               GoCall(k, [step |-> "refundLegacyWrite", order |-> call[k].order,
                          booking |-> b])
        PROVE  LegacyInHand'
    BY <2>2, <1>9, <1>2, <1>4 DEF RefundLegacy
  <2> QED
    BY <1>9, <2>1, <2>2 DEF RefundLegacy, InStatus
<1>10. ASSUME NEW k \in Calls, \/ GoCall(k, Idle)
                              \/ RefundLegacyWrite(k) \/ ApproveStripe(k)
                              \/ CancelEventOrders(k) \/ CancelEventPending(k)
                              \/ CancelEventCheck(k)
       PROVE  LegacyInHand'
  BY <1>10, <1>6 DEF RefundLegacyWrite, ApproveStripe, CancelEventOrders,
     CancelEventPending, CancelEventCheck, Idle
<1>11. ASSUME NEW k \in Calls, CancelEventRefund(k) PROVE LegacyInHand'
  <2>1. call[k].step = "refundAll"
    BY <1>11 DEF CancelEventRefund
  <2>2. call[k] \in [step : {"refundAll"}, todo : SUBSET Orders, refunded : SUBSET Orders]
    BY <2>1 DEF CheckoutTypeOK, CallState, Idle
  <2>3. \A o : /\ [call[k] EXCEPT !.todo = @ \ {o}, !.refunded = @ \cup {o}].step = "refundAll"
               /\ [call[k] EXCEPT !.todo = @ \ {o}].step = "refundAll"
    BY <2>2
  <2> QED
    BY <1>11, <2>3, <1>6 DEF CancelEventRefund
<1>12. ASSUME NEW k \in Calls, NEW b, NEW p, NEW w, ConfirmPaymentRead(k, b, p, w)
       PROVE  LegacyInHand'
  BY <1>12, <1>6 DEF ConfirmPaymentRead
<1>13. ASSUME NEW k \in Calls,
              \/ \E b \in DOMAIN booking : InitiatePayment(k, b) \/ FreeConfirms(k, b)
              \/ \E b \in DOMAIN booking, payment \in DOMAIN intent : PageConfirms(k, b, payment)
              \/ \E i \in DOMAIN intent : WebhookConfirms(k, i)
              \/ \E o \in DOMAIN order : ApproveRefund(k, o) \/ RejectRefund(k, o)
       PROVE  LegacyInHand'
  BY <1>13, <1>5, <1>6, <1>12 DEF InitiatePayment, FreeConfirms, PageConfirms,
     WebhookConfirms, ApproveRefund, RejectRefund
<1>14. CASE Restart
  BY <1>14, <1>3 DEF Restart, Idle
<1> QED
  BY <1>5, <1>7, <1>8, <1>9, <1>10, <1>11, <1>13, <1>14
  DEF CheckoutNext, OrdersStep, Proceed, CustomerPays, checkoutVars, CreateIntent,
      ConfirmPaymentWrite, RefundOrder, ApproveWrite, RejectWrite, CancelEventCommit, CallFails
-------------------------------------------------------------------------------
(* The bookings that stand for seats: through their order when they have    *)
(* one, and by their own status when they have none.                        *)
Standing == {b \in DOMAIN booking :
               IF b \in DOMAIN orderOf THEN orderOf[b] \in Live
               ELSE booking[b].status \in {"PENDING", "CONFIRMED"}}

SeatsStand ==
  cancelled \/ \A c \in Categories :
    \/ Orphans(c) # {}
    \/ InitialStock[c] <= currentStock[c] + Seats(booking, Standing, c)

LEMMA SeatsStandInit == CheckoutInit => SeatsStand
<1> SUFFICES ASSUME CheckoutInit, NEW c \in Categories
             PROVE  InitialStock[c] <= currentStock[c] + Seats(booking, Standing, c)
  BY DEF SeatsStand
<1>1. Standing \in SUBSET Bookings
  BY DEF CheckoutInit, Init, EmptyTable, Standing
<1> QED
  BY <1>1, SeatsType, TableAssumption DEF CheckoutInit, Init

LEMMA SeatsStandNext ==
  ASSUME CheckoutTypeOK, CallRowsExist, InFlightRowsExist, OrdersLinked, LegacyInHand,
         SeatsStand, [CheckoutNext]_checkoutVars
  PROVE  SeatsStand'
<1> DEFINE Old(c) == Seats(booking, Standing, c)
           New(c) == Seats(booking', Standing', c)
<1>1. ShapeKept /\ CheckoutTypeOK' /\ OrdersLinked'
  BY ShapeNext, CheckoutTypeStep
<1>2. /\ Standing \in SUBSET Bookings /\ Standing' \in SUBSET Bookings
      /\ Standing \subseteq DOMAIN booking
  BY <1>1 DEF Standing, CheckoutTypeOK, TypeOK, IsTable
<1>3. \A c \in Categories : /\ Old(c) \in Nat /\ New(c) \in Nat
                            /\ currentStock[c] \in Int /\ currentStock'[c] \in Int
                            /\ InitialStock[c] \in Nat
  BY <1>1, <1>2, SeatsType, TableAssumption DEF CheckoutTypeOK, TypeOK
<1>4. \A c \in Categories : Orphans(c) # {} => Orphans(c)' # {}
  BY <1>1 DEF ShapeKept, Orphans, Linked
<1>5. ASSUME cancelled => cancelled',
             \A c \in Categories : \/ Orphans(c)' # {}
                                   \/ cancelled'
                                   \/ currentStock[c] + Old(c) <= currentStock'[c] + New(c)
      PROVE  SeatsStand'
  <2> SUFFICES ASSUME ~cancelled', NEW c \in Categories, Orphans(c)' = {}
               PROVE  InitialStock[c] <= currentStock'[c] + New(c)
    BY DEF SeatsStand
  <2>1. InitialStock[c] <= currentStock[c] + Old(c)
    BY <1>4, <1>5 DEF SeatsStand
  <2>2. currentStock[c] + Old(c) <= currentStock'[c] + New(c)
    BY <1>5
  <2> HIDE DEF Old, New
  <2> QED
    BY <2>1, <2>2, <1>3
<1>6. ASSUME cancelled' = cancelled, currentStock' = currentStock, Standing \subseteq Standing'
      PROVE  SeatsStand'
  <2>1. \A c \in Categories : Old(c) <= New(c)
    BY <1>1, <1>2, <1>6, SeatsKept DEF ShapeKept
  <2> HIDE DEF Old, New
  <2>2. \A c \in Categories : currentStock[c] + Old(c) <= currentStock'[c] + New(c)
    BY <2>1, <1>3, <1>6
  <2> QED
    BY <1>5, <1>6, <2>2
<1>7. CASE UNCHANGED <<currentStock, booking, cancelled, order, orderOf>>
  BY <1>7, <1>6 DEF Standing, Live
<1>8. ASSUME NEW k \in Calls, RefundBookings(k) PROVE SeatsStand'
  <2>1. Standing \subseteq Standing'
    BY <1>8 DEF RefundBookings, payments, Standing, Live, Linked, WithStatus
  <2> QED
    BY <2>1, <1>6, <1>8 DEF RefundBookings
<1>9. ASSUME NEW k \in Calls, RefundOrder(k) \/ RejectWrite(k) PROVE SeatsStand'
  <2>1. PICK status \in {"PAID", "REFUND_REQUESTED"} :
          order' = WithOrderStatus({call[k].order}, status)
    BY <1>9 DEF RefundOrder, RejectWrite
  <2>2. Live \subseteq Live'
    BY <2>1 DEF Live, WithOrderStatus, CheckoutTypeOK, OrderRow
  <2>3. UNCHANGED <<booking, orderOf, cancelled, currentStock>>
    BY <1>9 DEF RefundOrder, RejectWrite, vars
  <2>4. Standing \subseteq Standing'
    BY <2>2, <2>3 DEF Standing
  <2> QED
    BY <2>3, <2>4, <1>6
<1>10. ASSUME NEW k \in Calls, ConfirmPaymentWrite(k) PROVE SeatsStand'
  <2> DEFINE b == call[k].booking
  <2>1. PICK o \in Orders \ DOMAIN order :
          /\ order' = WithRow(order, o, [payment |-> call[k].payment,
                                         category |-> booking[b].category,
                                         tickets |-> booking[b].quantity,
                                         status |-> "PAID"])
          /\ orderOf' = WithRow(orderOf, b, o)
    BY <1>10 DEF ConfirmPaymentWrite
  <2>2. b \in DOMAIN booking
    BY <1>10 DEF ConfirmPaymentWrite, CallRowsExist
  <2>3. /\ Live' = Live \cup {o}
        /\ DOMAIN orderOf' = DOMAIN orderOf \cup {b} /\ orderOf'[b] = o
        /\ \A x \in DOMAIN orderOf : x # b => orderOf'[x] = orderOf[x]
    BY <2>1 DEF WithRow, Live
  <2>4. /\ DOMAIN booking' = DOMAIN booking
        /\ \A x \in DOMAIN booking : x # b => booking'[x] = booking[x]
    BY <1>10 DEF ConfirmPaymentWrite, WithStatus
  <2> HIDE DEF b
  <2>5. Standing \subseteq Standing'
    BY <2>2, <2>3, <2>4 DEF Standing
  <2> QED
    BY <1>10, <2>5, <1>6 DEF ConfirmPaymentWrite
<1>11. ASSUME NEW k \in Calls, RefundLegacyWrite(k) PROVE SeatsStand'
  <2> DEFINE b == call[k].booking
             o == call[k].order
  <2>1. /\ o \in DOMAIN order /\ Linked(o) = {}
        /\ b \in DOMAIN booking /\ booking[b].category = order[o].category
    BY <1>11 DEF RefundLegacyWrite, LegacyInHand
  <2>2. /\ UNCHANGED <<currentStock, cancelled, order, orderOf>>
        /\ DOMAIN booking' = DOMAIN booking
        /\ \A x \in DOMAIN booking : x # b => booking'[x] = booking[x]
    BY <1>11 DEF RefundLegacyWrite, payments, WithStatus
  <2> HIDE DEF b, o
  <2>3. ASSUME NEW c \in Categories, c # order[o].category
        PROVE  currentStock[c] + Old(c) <= currentStock'[c] + New(c)
    <3>1. \A x \in Standing : booking[x].category = c =>
            /\ x \in Standing' /\ booking'[x].category = c
            /\ booking'[x].quantity = booking[x].quantity
      BY <2>1, <2>2, <2>3 DEF Standing, Live
    <3>2. Old(c) <= New(c)
      BY <3>1, <1>2, SeatsIncluded
    <3> HIDE DEF Old, New
    <3> QED
      BY <3>2, <2>2, <1>3
  <2>4. ASSUME NEW c \in Categories, c = order[o].category PROVE Orphans(c)' # {}
    BY <2>1, <2>2, <2>4 DEF Orphans, Linked
  <2> HIDE DEF Old, New
  <2> QED
    BY <2>2, <2>3, <2>4, <1>5
<1>12. ASSUME NEW k \in Calls, ApproveWrite(k) PROVE SeatsStand'
  <2> DEFINE o == call[k].order
             d == order[o].category
             n == order[o].tickets
  <2>1. o \in DOMAIN order /\ order[o] \in OrderRow
    BY <1>12 DEF ApproveWrite, CallRowsExist, CheckoutTypeOK
  <2>2. d \in Categories /\ n \in Quantities
    BY <2>1 DEF OrderRow
  <2>3. /\ UNCHANGED <<cancelled, orderOf>>
        /\ booking' = WithStatus(booking, Linked(o), "CANCELLED")
        /\ order' = WithOrderStatus({o}, "REFUNDED")
        /\ currentStock' = [currentStock EXCEPT ![d] = @ + n]
    BY <1>12 DEF ApproveWrite
  <2> HIDE DEF o
  <2>4. Standing \ Linked(o) \subseteq Standing'
    BY <2>3 DEF Standing, Live, Linked, WithStatus, WithOrderStatus
  <2>5. \A x \in Linked(o) : booking[x].category = d /\ booking[x].quantity = n
    BY DEF Linked, OrdersLinked
  <2> HIDE DEF d, n
  <2>6. ASSUME NEW c \in Categories, c # d
        PROVE  currentStock[c] + Old(c) <= currentStock'[c] + New(c)
    <3>1. \A x \in Standing : booking[x].category = c =>
            /\ x \in Standing' /\ booking'[x].category = c
            /\ booking'[x].quantity = booking[x].quantity
      BY <2>4, <2>5, <2>6, <1>1, <1>2 DEF ShapeKept
    <3>2. Old(c) <= New(c)
      BY <3>1, <1>2, SeatsIncluded
    <3>3. currentStock'[c] = currentStock[c]
      BY <2>3, <2>6 DEF CheckoutTypeOK, TypeOK
    <3> HIDE DEF Old, New
    <3> QED
      BY <3>2, <3>3, <1>3
  <2>7. currentStock[d] + Old(d) <= currentStock'[d] + New(d)
    <3>1. currentStock'[d] = currentStock[d] + n
      BY <2>2, <2>3 DEF CheckoutTypeOK, TypeOK
    <3>2. n \in Nat
      BY <2>2 DEF Quantities
    <3>3. CASE Linked(o) = {}
      <4>1. Old(d) <= New(d)
        BY <1>1, <1>2, <2>4, <3>3, SeatsKept DEF ShapeKept
      <4> HIDE DEF Old, New
      <4> QED
        BY <4>1, <3>1, <3>2, <2>2, <1>3
    <3>4. ASSUME NEW b \in Linked(o) PROVE currentStock[d] + Old(d) <= currentStock'[d] + New(d)
      <4>1. Linked(o) = {b}
        BY <3>4 DEF Linked, OrdersLinked
      <4>2. {b} \in SUBSET Bookings
        BY <3>4 DEF Linked, CheckoutTypeOK, TypeOK, IsTable
      <4>3. \A x \in Standing \ {b} : /\ booking'[x].category = booking[x].category
                                      /\ booking'[x].quantity = booking[x].quantity
        BY <1>1, <1>2 DEF ShapeKept
      <4>4. Old(d) <= Seats(booking, {b}, d) + New(d)
        BY <1>2, <2>4, <4>1, <4>2, <4>3, SeatsLeftOver
      <4>5. Seats(booking, {b}, d) = n
        BY <2>2, <2>5, <3>4, SeatsOfOneBooking
      <4> HIDE DEF Old, New
      <4> QED
        BY <4>4, <4>5, <3>1, <3>2, <2>2, <1>3
    <3> QED
      BY <3>3, <3>4
  <2> HIDE DEF Old, New
  <2> QED
    BY <2>3, <2>6, <2>7, <1>5
<1>13. ASSUME NEW k \in Calls, CancelEventCommit(k) PROVE SeatsStand'
  BY <1>13 DEF CancelEventCommit, SeatsStand
<1>14. CASE BookingsInside
  <2>1. UNCHANGED <<order, orderOf>>
    BY <1>14 DEF BookingsInside, payments
  <2>2. Live' = Live /\ DOMAIN orderOf \subseteq DOMAIN booking
    BY <2>1 DEF Live, CheckoutTypeOK
  <2>3. Ledger!Next \/ UNCHANGED tables
    BY <1>14, LedgerStep DEF BookingsInside, Next, CheckoutTypeOK, Ledger!vars, tables
  <2>4. CASE UNCHANGED tables
    BY <2>1, <2>4, <1>7 DEF tables
  <2>5. ASSUME NEW S \in SUBSET Bookings, NEW status, Ledger!Release(S, status),
               cancelled => cancelled'
        PROVE  SeatsStand'
    <3>1. booking' = WithStatus(booking, S, status)
      BY <2>5, SameOperators DEF Ledger!Release
    <3>2. Standing \ S \subseteq Standing' /\ \A x \in Standing \ S : booking'[x] = booking[x]
      BY <2>1, <2>2, <3>1 DEF WithStatus, Standing
    <3>3. \A c \in Categories : Old(c) <= Seats(booking, S, c) + New(c)
      BY <3>2, <1>2, SeatsLeftOver
    <3>4. \A c \in Categories : /\ currentStock'[c] = currentStock[c] + Seats(booking, S, c)
                                /\ Seats(booking, S, c) \in Nat
      BY <2>5, SameOperators, SeatsType DEF Ledger!Release
    <3> HIDE DEF Old, New
    <3>5. \A c \in Categories : currentStock[c] + Old(c) <= currentStock'[c] + New(c)
      BY <3>3, <3>4, <1>3
    <3> QED
      BY <3>5, <2>5, <1>5
  <2>6. ASSUME NEW b \in DOMAIN booking, Ledger!Overdue(b) \/ Ledger!Confirm(b)
        PROVE  SeatsStand'
    <3>1. \/ booking' = WithStatus(booking, {b}, "CONFIRMED")
          \/ booking' = [booking EXCEPT ![b].overdue = TRUE]
      BY <2>6, SameOperators DEF Ledger!Overdue, Ledger!Confirm
    <3>2. /\ DOMAIN booking' = DOMAIN booking
          /\ \A x \in DOMAIN booking : booking'[x].status \in {booking[x].status, "CONFIRMED"}
      BY <3>1 DEF WithStatus, CheckoutTypeOK, TypeOK, IsTable, BookingRow
    <3>3. Standing \subseteq Standing'
      BY <2>1, <2>2, <3>2 DEF Standing
    <3> QED
      BY <2>6, <3>3, <1>6 DEF Ledger!Overdue, Ledger!Confirm
  <2>7. ASSUME NEW b \in Bookings, NEW d \in Categories, NEW q \in Quantities,
               Ledger!Reserve(b, d, q)
        PROVE  SeatsStand'
    <3>1. b \notin DOMAIN booking /\ booking' = WithRow(booking, b, NewRow(d, q))
      BY <2>7, SameOperators DEF Ledger!Reserve
    <3>2. /\ Standing' = Standing \cup {b} /\ b \notin Standing
          /\ booking'[b].category = d /\ booking'[b].quantity = q
          /\ \A x \in Standing : booking'[x] = booking[x]
      BY <2>1, <2>2, <3>1 DEF WithRow, NewRow, Standing
    <3>3. ASSUME NEW c \in Categories
          PROVE  currentStock[c] + Old(c) <= currentStock'[c] + New(c)
      <4>1. CASE c = d
        <5>1. /\ \A x \in Standing : /\ booking'[x].category = booking[x].category
                                    /\ booking'[x].quantity = booking[x].quantity
              /\ booking'[b].category = c /\ booking'[b].quantity \in Quantities
              /\ b \in Bookings \ Standing
          BY <3>2, <4>1
        <5>2. Old(c) + booking'[b].quantity <= Seats(booking', Standing \cup {b}, c)
          BY <5>1, <1>2, SeatsAdded
        <5>3. Old(c) + q <= New(c)
          BY <5>2, <3>2
        <5>4. currentStock'[c] = currentStock[c] - q /\ q \in Int
          BY <2>7, <4>1 DEF Ledger!Reserve, CheckoutTypeOK, TypeOK, Quantities
        <5> HIDE DEF Old, New
        <5> QED
          BY <5>3, <5>4, <1>3
      <4>2. CASE c # d
        <5>1. Old(c) <= New(c)
          BY <3>2, <1>2, SeatsKept
        <5>2. currentStock'[c] = currentStock[c]
          BY <2>7, <4>2 DEF Ledger!Reserve, CheckoutTypeOK, TypeOK
        <5> HIDE DEF Old, New
        <5> QED
          BY <5>1, <5>2, <1>3
      <4> QED
        BY <4>1, <4>2
    <3> HIDE DEF Old, New
    <3> QED
      BY <2>7, <3>3, <1>5 DEF Ledger!Reserve
  <2>8. DOMAIN booking \subseteq Bookings
    BY DEF CheckoutTypeOK, TypeOK, IsTable
  <2>9. CASE Ledger!Next
    <3>1. ASSUME NEW S \in SUBSET DOMAIN booking, Ledger!CancelEvent(S) PROVE SeatsStand'
      BY <3>1, <2>5, <2>8 DEF Ledger!CancelEvent
    <3>2. ASSUME NEW b \in DOMAIN booking, NEW status,
                 Ledger!Release({b}, status), UNCHANGED cancelled
          PROVE  SeatsStand'
      <4>1. {b} \in SUBSET Bookings
        BY <2>8
      <4> QED
        BY <3>2, <4>1, <2>5
    <3> HIDE DEF Old, New
    <3> QED
      BY <2>6, <2>7, <2>9, <3>1, <3>2, SameOperators DEF Ledger!Next
  <2> QED
    BY <2>3, <2>4, <2>9
<1> HIDE DEF Old, New
<1> QED
  BY <1>7, <1>8, <1>9, <1>10, <1>11, <1>12, <1>13, <1>14, WritingSteps
-------------------------------------------------------------------------------
(* A live order's tickets are the seats of the booking that points to it. *)
LEMMA OrdersCoverBookings ==
  ASSUME CheckoutTypeOK, OrdersLinked, IsFiniteSet(DOMAIN order), NEW c \in Categories
  PROVE  /\ TicketsOf(c) \in Nat
         /\ Seats(booking, {b \in DOMAIN orderOf : orderOf[b] \in Live}, c) <= TicketsOf(c)
<1> DEFINE L == {b \in DOMAIN orderOf : orderOf[b] \in Live}
           S == SeatsOf(booking, L, c)
           T == {t \in Live \X Quantities : /\ order[t[1]].category = c
                                            /\ t[2] <= order[t[1]].tickets}
           f == [s \in S |-> <<orderOf[s[1]], s[2]>>]
<1>1. IsFiniteSet(T)
  <2>1. IsFiniteSet(Live)
    BY FS_Subset DEF Live
  <2>2. IsFiniteSet(Quantities)
    BY TableAssumption, FS_Interval DEF Quantities
  <2>3. IsFiniteSet(Live \X Quantities)
    BY <2>1, <2>2, FS_Product
  <2>4. T \in SUBSET (Live \X Quantities)
    OBVIOUS
  <2> QED
    BY <2>3, <2>4, FS_Subset
<1>2. f \in Injection(S, T)
  <2>1. \A s \in S : f[s] \in T
    BY DEF SeatsOf, OrdersLinked
  <2>2. \A s, t \in S : f[s] = f[t] => s = t
    <3> SUFFICES ASSUME NEW s \in S, NEW t \in S, f[s] = f[t] PROVE s = t
      OBVIOUS
    <3>1. orderOf[s[1]] = orderOf[t[1]] /\ s[2] = t[2]
      OBVIOUS
    <3>2. s \in L \X Quantities /\ t \in L \X Quantities
      BY DEF SeatsOf
    <3>3. s[1] = t[1]
      BY <3>1, <3>2 DEF OrdersLinked
    <3> QED
      BY <3>1, <3>2, <3>3
  <2> QED
    BY <2>1, <2>2 DEF Injection, IsInjective
<1>3. Cardinality(S) <= Cardinality(T)
  BY <1>1, <1>2, FS_Injection
<1> QED
  BY <1>1, <1>3, FS_CardinalityType DEF TicketsOf, Seats

LEMMA SeatsStandSuffices ==
  CheckoutTypeOK /\ OrdersLinked /\ IsFiniteSet(DOMAIN order) /\ SeatsStand
    => NoSeatLostInCheckout
<1> SUFFICES ASSUME CheckoutTypeOK, OrdersLinked, IsFiniteSet(DOMAIN order),
                    NEW c \in Categories,
                    InitialStock[c] <= currentStock[c] + Seats(booking, Standing, c)
             PROVE  InitialStock[c] <= currentStock[c] + Seats(booking, Unpaid, c) + TicketsOf(c)
  BY DEF SeatsStand, NoSeatLostInCheckout
<1> DEFINE L == {b \in DOMAIN orderOf : orderOf[b] \in Live}
<1>1. /\ Standing \in SUBSET Bookings /\ L \in SUBSET Bookings
      /\ Unpaid \in SUBSET Bookings /\ Standing \ L \subseteq Unpaid
  BY DEF Standing, Unpaid, InStatus, CheckoutTypeOK, TypeOK, IsTable
<1>2. Seats(booking, Standing, c) <= Seats(booking, L, c) + Seats(booking, Unpaid, c)
  BY <1>1, SeatsLeftOver
<1>3. TicketsOf(c) \in Nat /\ Seats(booking, L, c) <= TicketsOf(c)
  BY OrdersCoverBookings
<1>4. /\ Seats(booking, Standing, c) \in Nat /\ Seats(booking, L, c) \in Nat
      /\ Seats(booking, Unpaid, c) \in Nat /\ currentStock[c] \in Int
      /\ InitialStock[c] \in Nat
  BY <1>1, SeatsType, TableAssumption DEF CheckoutTypeOK, TypeOK
<1> HIDE DEF L
<1> QED
  BY <1>2, <1>3, <1>4

LEMMA OrdersFinite ==
  IsFiniteSet(DOMAIN order) /\ [CheckoutNext]_checkoutVars => IsFiniteSet(DOMAIN order)'
<1> SUFFICES ASSUME IsFiniteSet(DOMAIN order), [CheckoutNext]_checkoutVars
             PROVE  IsFiniteSet(DOMAIN order')
  OBVIOUS
<1>1. ASSUME NEW k \in Calls, ConfirmPaymentWrite(k) PROVE IsFiniteSet(DOMAIN order')
  <2>1. PICK o : DOMAIN order' = DOMAIN order \cup {o}
    BY <1>1 DEF ConfirmPaymentWrite, WithRow
  <2> QED
    BY <2>1, FS_AddElement
<1>2. ASSUME NEW k \in Calls,
             \/ RefundBookings(k) \/ RefundLegacyWrite(k) \/ RefundOrder(k)
             \/ ApproveWrite(k) \/ RejectWrite(k) \/ CancelEventCommit(k)
      PROVE  DOMAIN order' = DOMAIN order
  BY <1>2 DEF RefundBookings, RefundLegacyWrite, RefundOrder, ApproveWrite, RejectWrite,
              CancelEventCommit, payments, WithOrderStatus
<1> QED
  BY <1>1, <1>2, WritingSteps DEF BookingsInside, payments

(* Until the event is cancelled no seat gets lost over any overlap of       *)
(* payments, refunds and bookings, unless an order has lost its booking.    *)
THEOREM CheckoutLosesNoSeat == CheckoutSpec => []NoSeatLostInCheckout
<1> DEFINE SInv == /\ CheckoutTypeOK /\ CallRowsExist /\ InFlightRowsExist
                   /\ OrdersLinked /\ LegacyInHand /\ SeatsStand
                   /\ IsFiniteSet(DOMAIN order)
<1>1. CheckoutInit => SInv
  <2>1. CheckoutInit => OrdersLinked /\ LegacyInHand /\ IsFiniteSet(DOMAIN order)
    BY FS_EmptySet DEF CheckoutInit, OrdersLinked, LegacyInHand, Idle, EmptyTable
  <2>2. CheckoutInit => InFlightRowsExist
    BY InFlightInit DEF CheckoutInit
  <2> QED
    BY <2>1, <2>2, CheckoutTypeInit, CallRowsInit, SeatsStandInit
<1>2. SInv /\ [CheckoutNext]_checkoutVars => SInv'
  BY CheckoutTypeStep, CallRowsNext, InFlightKept, ShapeNext, LegacyInHandNext,
     SeatsStandNext, OrdersFinite
<1>3. SInv => NoSeatLostInCheckout
  BY SeatsStandSuffices
<1> QED
  BY <1>1, <1>2, <1>3, PTL DEF CheckoutSpec
-------------------------------------------------------------------------------
(* A booking that has left PENDING does not come back to it. *)
LEMMA NeverPendingAgain ==
  ASSUME CheckoutTypeOK, CallRowsExist, InFlightRowsExist, [CheckoutNext]_checkoutVars
  PROVE  \A b \in DOMAIN booking :
           booking[b].status # "PENDING" => b \in DOMAIN booking' /\ booking'[b].status # "PENDING"
<1> DEFINE Goal == \A b \in DOMAIN booking :
             booking[b].status # "PENDING" => b \in DOMAIN booking' /\ booking'[b].status # "PENDING"
<1>1. ASSUME NEW S, NEW status \in BookingStatus \ {"PENDING"},
             booking' = WithStatus(booking, S, status)
      PROVE  Goal
  BY <1>1 DEF WithStatus, CheckoutTypeOK, TypeOK, IsTable, BookingRow
<1>2. CASE booking' = booking
  BY <1>2
<1>3. ASSUME NEW k \in Calls,
             \/ ConfirmPaymentWrite(k) \/ RefundBookings(k) \/ RefundLegacyWrite(k)
             \/ RefundOrder(k) \/ ApproveWrite(k) \/ RejectWrite(k) \/ CancelEventCommit(k)
      PROVE  Goal
  BY <1>3, <1>1, <1>2 DEF ConfirmPaymentWrite, RefundBookings, RefundLegacyWrite, RefundOrder,
     ApproveWrite, RejectWrite, CancelEventCommit, ReturnSeats, vars, BookingStatus
<1>4. CASE BookingsInside
  <2>1. Ledger!Next \/ UNCHANGED booking
    BY <1>4, LedgerStep DEF BookingsInside, Next, CheckoutTypeOK, Ledger!vars
  <2>2. ASSUME NEW S, NEW status \in {"CANCELLED", "EXPIRED"}, Ledger!Release(S, status)
        PROVE  Goal
    BY <2>2, <1>1, SameOperators DEF Ledger!Release, BookingStatus
  <2>3. ASSUME NEW b, NEW c, NEW q, Ledger!Reserve(b, c, q) PROVE Goal
    BY <2>3, SameOperators DEF Ledger!Reserve, WithRow
  <2>4. ASSUME NEW b \in DOMAIN booking, Ledger!Overdue(b) \/ Ledger!Confirm(b) PROVE Goal
    <3>1. CASE booking' = [booking EXCEPT ![b].overdue = TRUE]
      BY <3>1 DEF CheckoutTypeOK, TypeOK, IsTable, BookingRow
    <3> QED
      BY <1>1, <2>4, <3>1, SameOperators DEF Ledger!Overdue, Ledger!Confirm, BookingStatus
  <2>5. CASE Ledger!Next
    <3>1. ASSUME NEW S, Ledger!CancelEvent(S) PROVE Goal
      BY <2>2, <3>1 DEF Ledger!CancelEvent
    <3>2. CASE \E b \in DOMAIN booking, status \in {"CANCELLED", "EXPIRED"} :
                 Ledger!Release({b}, status) /\ UNCHANGED cancelled
      BY <2>2, <3>2
    <3> QED
      BY <2>3, <2>4, <2>5, <3>1, <3>2, SameOperators DEF Ledger!Next
  <2> QED
    BY <1>2, <2>1, <2>5
<1> QED
  BY <1>2, <1>3, <1>4, WritingSteps

(* A booking that has an order is not PENDING. *)
OrderedNotPending == \A b \in DOMAIN orderOf : booking[b].status # "PENDING"

LEMMA OrderedNotPendingNext ==
  ASSUME CheckoutTypeOK, CallRowsExist, InFlightRowsExist, OrderedNotPending,
         [CheckoutNext]_checkoutVars
  PROVE  OrderedNotPending'
<1>1. \A b \in DOMAIN booking :
        booking[b].status # "PENDING" => b \in DOMAIN booking' /\ booking'[b].status # "PENDING"
  BY NeverPendingAgain
<1>2. \A b \in DOMAIN orderOf : booking'[b].status # "PENDING"
  BY <1>1 DEF OrderedNotPending, CheckoutTypeOK
<1>3. CASE orderOf' = orderOf
  BY <1>2, <1>3 DEF OrderedNotPending
<1>4. ASSUME NEW k \in Calls, ConfirmPaymentWrite(k) PROVE OrderedNotPending'
  <2> DEFINE b == call[k].booking
  <2>1. PICK o : orderOf' = WithRow(orderOf, b, o)
    BY <1>4 DEF ConfirmPaymentWrite
  <2>2. DOMAIN orderOf' = DOMAIN orderOf \cup {b}
    BY <2>1 DEF WithRow
  <2>3. booking'[b].status = "CONFIRMED"
    BY <1>4 DEF ConfirmPaymentWrite, CallRowsExist, WithStatus, CheckoutTypeOK, TypeOK,
                IsTable, BookingRow
  <2> QED
    BY <1>2, <2>2, <2>3 DEF OrderedNotPending
<1>5. ASSUME NEW k \in Calls,
             \/ RefundBookings(k) \/ RefundLegacyWrite(k) \/ RefundOrder(k)
             \/ ApproveWrite(k) \/ RejectWrite(k) \/ CancelEventCommit(k)
      PROVE  orderOf' = orderOf
  BY <1>5 DEF RefundBookings, RefundLegacyWrite, RefundOrder, ApproveWrite, RejectWrite,
     CancelEventCommit, payments
<1>6. CASE BookingsInside
  BY <1>6, <1>3 DEF BookingsInside, payments
<1> QED
  BY <1>3, <1>4, <1>5, <1>6, WritingSteps
-------------------------------------------------------------------------------
(* The steps before a write of requestRefund or rejectRefund. *)
RefundWrites == {"refundBookings", "refundLegacy", "refundLegacyWrite", "refundOrder",
                 "rejectWrite"}

(* A call that is confirming, or changing an order's refund, was doing so   *)
(* before the step, or has just found the booking PENDING, or the order not *)
(* REFUNDED.                                                                *)
LEMMA CallsGoOn ==
  ASSUME CheckoutTypeOK, [CheckoutNext]_checkoutVars, NEW l \in Calls
  PROVE  /\ call'[l].step = "confirmPayment"
              => call'[l] = call[l] \/ booking[call'[l].booking].status = "PENDING"
         /\ call'[l].step \in RefundWrites
              => \/ call[l].step \in RefundWrites /\ call[l].order = call'[l].order
                 \/ order[call'[l].order].status # "REFUNDED"
<1> DEFINE Good(k, state) ==
             /\ state.step = "confirmPayment"
                  => state = call[k] \/ booking[state.booking].status = "PENDING"
             /\ state.step \in RefundWrites
                  => \/ call[k].step \in RefundWrites /\ call[k].order = state.order
                     \/ order[state.order].status # "REFUNDED"
<1>1. Good(l, call[l])
  OBVIOUS
<1>2. ASSUME call' = call PROVE Good(l, call'[l])
  <2> HIDE DEF Good
  <2> QED
    BY <1>1, <1>2
<1>3. ASSUME NEW k \in Calls, NEW state, GoCall(k, state), Good(k, state)
      PROVE  Good(l, call'[l])
  <2>1. call'[l] = IF k = l THEN state ELSE call[l]
    BY <1>3 DEF GoCall, CheckoutTypeOK
  <2>2. CASE k = l
    BY <2>1, <2>2, <1>3
  <2>3. CASE k # l
    <3>1. call'[l] = call[l]
      BY <2>1, <2>3
    <3> HIDE DEF Good
    <3> QED
      BY <3>1, <1>1
  <2> QED
    BY <2>2, <2>3
<1>4. ASSUME NEW k \in Calls, NEW state, GoCall(k, state),
             state.step \notin RefundWrites \cup {"confirmPayment"}
      PROVE  Good(l, call'[l])
  <2>1. Good(k, state)
    BY <1>4
  <2> HIDE DEF Good
  <2> QED
    BY <2>1, <1>3, <1>4
<1>5. ASSUME NEW k \in Calls, GoCall(k, Idle) PROVE Good(l, call'[l])
  <2>1. Idle.step \notin RefundWrites \cup {"confirmPayment"}
    BY DEF Idle, RefundWrites
  <2> HIDE DEF Good
  <2> QED
    BY <2>1, <1>4, <1>5
<1>6. ASSUME NEW k \in Calls, NEW b, NEW p, NEW w, ConfirmPaymentRead(k, b, p, w)
      PROVE  Good(l, call'[l])
  <2> DEFINE state == [step |-> "confirmPayment", booking |-> b, payment |-> p, webhook |-> w]
  <2>1. GoCall(k, state) /\ booking[b].status = "PENDING"
    BY <1>6 DEF ConfirmPaymentRead, Payable
  <2>2. state.step = "confirmPayment" /\ state.booking = b
    OBVIOUS
  <2>3. "confirmPayment" \notin RefundWrites
    BY DEF RefundWrites
  <2> HIDE DEF state
  <2>4. Good(k, state)
    BY <2>1, <2>2, <2>3
  <2> HIDE DEF Good
  <2> QED
    BY <2>1, <2>4, <1>3
<1>7. ASSUME NEW k \in Calls, NEW o \in DOMAIN order, RequestRefund(k, o) \/ RejectRefund(k, o)
      PROVE  Good(l, call'[l])
  <2>1. PICK step \in RefundWrites : GoCall(k, [step |-> step, order |-> o])
    BY <1>7 DEF RequestRefund, RejectRefund, RefundWrites
  <2>2. order[o].status # "REFUNDED"
    BY <1>7 DEF RequestRefund, RejectRefund
  <2>3. step # "confirmPayment"
    BY DEF RefundWrites
  <2>4. Good(k, [step |-> step, order |-> o])
    BY <2>2, <2>3
  <2> HIDE DEF Good
  <2> QED
    BY <2>1, <2>4, <1>3
<1>8. ASSUME NEW k \in Calls, RefundBookings(k) \/ RefundLegacy(k) \/ RefundLegacyWrite(k)
      PROVE  Good(l, call'[l])
  <2> DEFINE o == call[k].order
  <2>1. call[k].step \in RefundWrites
    BY <1>8 DEF RefundBookings, RefundLegacy, RefundLegacyWrite, RefundWrites
  <2>2. ASSUME NEW step \in RefundWrites, GoCall(k, [step |-> step, order |-> o])
        PROVE  Good(l, call'[l])
    <3>1. step # "confirmPayment"
      BY DEF RefundWrites
    <3>2. Good(k, [step |-> step, order |-> o])
      BY <2>1, <3>1
    <3> HIDE DEF Good
    <3> QED
      BY <2>2, <3>2, <1>3
  <2>3. ASSUME NEW b,
               GoCall(k, [step |-> "refundLegacyWrite", order |-> o, booking |-> b])
        PROVE  Good(l, call'[l])
    <3>1. Good(k, [step |-> "refundLegacyWrite", order |-> o, booking |-> b])
      BY <2>1
    <3> HIDE DEF Good
    <3> QED
      BY <2>3, <3>1, <1>3
  <2>4. \/ \E step \in RefundWrites : GoCall(k, [step |-> step, order |-> o])
        \/ \E b : GoCall(k, [step |-> "refundLegacyWrite", order |-> o, booking |-> b])
    BY <1>8 DEF RefundBookings, RefundLegacy, RefundLegacyWrite, RefundWrites
  <2> HIDE DEF Good
  <2> QED
    BY <2>2, <2>3, <2>4
<1>13. ASSUME Restart PROVE Good(l, call'[l])
  <2>1. call'[l] = Idle /\ Idle.step \notin RefundWrites \cup {"confirmPayment"}
    BY <1>13 DEF Restart, Idle, RefundWrites
  <2> QED
    BY <2>1
<1> HIDE DEF Good
<1>9. ASSUME NEW k \in Calls, CancelEventRefund(k) PROVE Good(l, call'[l])
  <2>1. call[k].step = "refundAll"
    BY <1>9 DEF CancelEventRefund
  <2>2. call[k] \in [step : {"refundAll"}, todo : SUBSET Orders, refunded : SUBSET Orders]
    BY <2>1 DEF CheckoutTypeOK, CallState, Idle
  <2>3. \A o : /\ [call[k] EXCEPT !.todo = @ \ {o}, !.refunded = @ \cup {o}].step = "refundAll"
               /\ [call[k] EXCEPT !.todo = @ \ {o}].step = "refundAll"
    BY <2>2
  <2>4. /\ "refundAll" \notin RefundWrites \cup {"confirmPayment"}
        /\ "findPending" \notin RefundWrites \cup {"confirmPayment"}
    BY DEF RefundWrites
  <2> QED
    BY <1>9, <2>3, <2>4, <1>4 DEF CancelEventRefund
<1>10. ASSUME NEW k \in Calls,
              \/ ApproveStripe(k) \/ CancelEventOrders(k) \/ CancelEventPending(k)
              \/ CancelEventCheck(k)
              \/ \E b \in DOMAIN booking : InitiatePayment(k, b)
              \/ \E o \in DOMAIN order : ApproveRefund(k, o)
       PROVE  Good(l, call'[l])
  BY <1>10, <1>4, <1>5 DEF ApproveStripe, CancelEventOrders, CancelEventPending,
     CancelEventCheck, InitiatePayment, ApproveRefund, RefundWrites
<1>11. ASSUME NEW k \in Calls,
              \/ \E b \in DOMAIN booking : FreeConfirms(k, b)
              \/ \E b \in DOMAIN booking, payment \in DOMAIN intent : PageConfirms(k, b, payment)
              \/ \E i \in DOMAIN intent : WebhookConfirms(k, i)
       PROVE  Good(l, call'[l])
  BY <1>11, <1>2, <1>6 DEF FreeConfirms, PageConfirms, WebhookConfirms
<1>12. ASSUME NEW k \in Calls,
              \/ CreateIntent(k) \/ ConfirmPaymentWrite(k) \/ RefundOrder(k)
              \/ ApproveWrite(k) \/ RejectWrite(k) \/ CancelEventCommit(k) \/ CallFails(k)
       PROVE  Good(l, call'[l])
  BY <1>12, <1>5 DEF CreateIntent, ConfirmPaymentWrite, RefundOrder, ApproveWrite,
     RejectWrite, CancelEventCommit, CallFails
<1>14. ASSUME NEW k \in Calls, OrdersStep(k) PROVE Good(l, call'[l])
  BY <1>14, <1>7, <1>8, <1>9, <1>10, <1>11, <1>12 DEF OrdersStep, Proceed
<1>15. \/ call' = call \/ Restart \/ \E k \in Calls : OrdersStep(k)
  BY DEF CheckoutNext, CustomerPays, checkoutVars
<1>16. Good(l, call'[l])
  BY <1>2, <1>13, <1>14, <1>15
<1> QED
  BY <1>16 DEF Good
-------------------------------------------------------------------------------
(* A booking that has its order and is not being confirmed keeps it, for    *)
(* any number of handlers: only confirmations that overlap make two orders. *)
THEOREM SettledStays == CheckoutSpec => SettledForGood
<1> DEFINE Stays == \A b \in DOMAIN orderOf :
                      Settled(b) => Settled(b)' /\ orderOf'[b] = orderOf[b]
           Inv == CheckoutTypeOK /\ CallRowsExist /\ InFlightRowsExist /\ OrderedNotPending
<1>1. CheckoutInit => Inv
  <2>1. CheckoutInit => OrderedNotPending
    BY DEF CheckoutInit, OrderedNotPending, EmptyTable
  <2>2. CheckoutInit => InFlightRowsExist
    BY InFlightInit DEF CheckoutInit
  <2> QED
    BY <2>1, <2>2, CheckoutTypeInit, CallRowsInit
<1>2. Inv /\ [CheckoutNext]_checkoutVars => Inv'
  BY CheckoutTypeStep, CallRowsNext, InFlightKept, OrderedNotPendingNext
<1>3. Inv /\ [CheckoutNext]_checkoutVars => [Stays]_checkoutVars
  <2> SUFFICES ASSUME Inv, [CheckoutNext]_checkoutVars,
                      NEW b \in DOMAIN orderOf, Settled(b)
               PROVE  Settled(b)' /\ orderOf'[b] = orderOf[b]
    OBVIOUS
  <2>1. booking[b].status # "PENDING"
    BY DEF OrderedNotPending
  <2>2. \A k \in Calls : call'[k].step = "confirmPayment" => call'[k].booking # b
    BY <2>1, CallsGoOn DEF Settled
  <2>3. b \in DOMAIN orderOf' /\ orderOf'[b] = orderOf[b]
    <3>1. ASSUME NEW k \in Calls, ConfirmPaymentWrite(k)
          PROVE  b \in DOMAIN orderOf' /\ orderOf'[b] = orderOf[b]
      <4>1. call[k].booking # b
        BY <3>1 DEF ConfirmPaymentWrite, Settled
      <4> QED
        BY <3>1, <4>1 DEF ConfirmPaymentWrite, WithRow
    <3>2. ASSUME NEW k \in Calls,
                 \/ RefundBookings(k) \/ RefundLegacyWrite(k) \/ RefundOrder(k)
                 \/ ApproveWrite(k) \/ RejectWrite(k) \/ CancelEventCommit(k)
          PROVE  orderOf' = orderOf
      BY <3>2 DEF RefundBookings, RefundLegacyWrite, RefundOrder, ApproveWrite, RejectWrite,
         CancelEventCommit, payments
    <3>3. CASE BookingsInside
      BY <3>3 DEF BookingsInside, payments
    <3> QED
      BY <3>1, <3>2, <3>3, WritingSteps
  <2> QED
    BY <2>2, <2>3 DEF Settled
<1> QED
  BY <1>1, <1>2, <1>3, PTL DEF CheckoutSpec, SettledForGood

(* A refund that is granted, with no earlier request or refusal under way,  *)
(* stays granted, for any number of handlers.                               *)
THEOREM GrantedStays == CheckoutSpec => GrantedIsFinal
<1> DEFINE Stays == \A o \in DOMAIN order : Granted(o) => Granted(o)'
<1>1. CheckoutTypeOK /\ [CheckoutNext]_checkoutVars => [Stays]_checkoutVars
  <2> SUFFICES ASSUME CheckoutTypeOK, [CheckoutNext]_checkoutVars,
                      NEW o \in DOMAIN order, Granted(o)
               PROVE  Granted(o)'
    OBVIOUS
  <2>1. order[o].status = "REFUNDED"
    BY DEF Granted
  <2>2. \A k \in Calls : call[k].step \in RefundWrites => call[k].order # o
    BY DEF Granted, RefundWrites
  <2>3. \A k \in Calls : call'[k].step \in RefundWrites => call'[k].order # o
    BY <2>1, <2>2, CallsGoOn
  <2>4. order'[o].status = "REFUNDED"
    <3>1. ASSUME NEW k \in Calls, ConfirmPaymentWrite(k) PROVE order'[o].status = "REFUNDED"
      BY <3>1, <2>1 DEF ConfirmPaymentWrite, WithRow
    <3>2. ASSUME NEW k \in Calls, RefundOrder(k) \/ RejectWrite(k)
          PROVE  order'[o].status = "REFUNDED"
      <4>1. call[k].order # o
        BY <3>2, <2>2 DEF RefundOrder, RejectWrite, RefundWrites
      <4> QED
        BY <3>2, <4>1, <2>1 DEF RefundOrder, RejectWrite, WithOrderStatus
    <3>3. ASSUME NEW k \in Calls, ApproveWrite(k) \/ CancelEventCommit(k)
          PROVE  order'[o].status = "REFUNDED"
      BY <3>3, <2>1 DEF ApproveWrite, CancelEventCommit, WithOrderStatus, CheckoutTypeOK, OrderRow
    <3>4. ASSUME order' = order PROVE order'[o].status = "REFUNDED"
      BY <3>4, <2>1
    <3> QED
      BY <3>1, <3>2, <3>3, <3>4, WritingSteps
      DEF BookingsInside, payments, RefundBookings, RefundLegacyWrite
  <2> QED
    BY <2>3, <2>4 DEF Granted, RefundWrites
<1> QED
  BY <1>1, CheckoutTypeInit, CheckoutTypeStep, CallRowsInit, CallRowsNext, PTL
  DEF CheckoutSpec, GrantedIsFinal
===============================================================================
