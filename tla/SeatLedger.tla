------------------------------ MODULE SeatLedger ------------------------------
(***************************************************************************)
(* What the booking service promises, seen from the outside: every         *)
(* operation moves seats between a ticket category's stock and a booking   *)
(* in one indivisible step, and a booking is only ever made out of seats   *)
(* that are in stock.  There is no Redis lock here, no request in flight,  *)
(* no stale read and no crash.  Module Reservation implements this ledger. *)
(***************************************************************************)
EXTENDS BookingTable

VARIABLES
  currentStock,  (* ticket_categories.current_stock                        *)
  booking,       (* the bookings table                                     *)
  cancelled      (* whether events.cancelled_at is set                     *)

vars == <<currentStock, booking, cancelled>>

Init ==
  /\ currentStock = InitialStock
  /\ booking = EmptyTable
  /\ cancelled = FALSE

Reserve(b, c, q) ==
  /\ b \notin DOMAIN booking
  /\ currentStock[c] >= q
  /\ currentStock' = [currentStock EXCEPT ![c] = @ - q]
  /\ booking' = WithRow(booking, b, NewRow(c, q))
  /\ UNCHANGED cancelled

Overdue(b) ==
  /\ booking' = [booking EXCEPT ![b].overdue = TRUE]
  /\ UNCHANGED <<currentStock, cancelled>>

Confirm(b) ==
  /\ booking' = WithStatus(booking, {b}, "CONFIRMED")
  /\ UNCHANGED <<currentStock, cancelled>>

(* The seats of all of S go back together with their change of status. *)
Release(S, status) ==
  /\ currentStock' = [c \in Categories |-> currentStock[c] + Seats(booking, S, c)]
  /\ booking' = WithStatus(booking, S, status)

CancelEvent(S) ==
  /\ cancelled' = TRUE
  /\ Release(S, "CANCELLED")

Next ==
  \/ \E b \in Bookings, c \in Categories, q \in Quantities : Reserve(b, c, q)
  \/ \E b \in DOMAIN booking : Overdue(b) \/ Confirm(b)
  \/ \E b \in DOMAIN booking, status \in {"CANCELLED", "EXPIRED"} :
       Release({b}, status) /\ UNCHANGED cancelled
  \/ \E S \in SUBSET DOMAIN booking : CancelEvent(S)

Spec == Init /\ [][Next]_vars
===============================================================================
