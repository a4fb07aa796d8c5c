----------------------------- MODULE BookingTable -----------------------------
(***************************************************************************)
(* The bookings table of schema.prisma as a value: a function whose domain *)
(* is the set of ids of the rows that exist.  A booking's owner, price and *)
(* dates are left out: callers are always a row's owner (any other caller  *)
(* is refused and changes nothing) and expiresAt is kept as the fact that  *)
(* it has passed.                                                          *)
(***************************************************************************)
EXTENDS Integers, FiniteSets

CONSTANTS
  Categories,    (* ticket_categories.id                                   *)
  Bookings,      (* the bookings.id that may ever be drawn: a bound        *)
  InitialStock,  (* ticket_categories.initial_stock                        *)
  MaxQuantity    (* seats one booking may ask for, 10 in CreateBookingDto  *)

ASSUME TableAssumption ==
  /\ IsFiniteSet(Bookings)
  /\ InitialStock \in [Categories -> Nat]
  /\ MaxQuantity \in Nat \ {0}

Quantities == 1..MaxQuantity

BookingStatus == {"PENDING", "CONFIRMED", "EXPIRED", "CANCELLED"}

BookingRow == [category : Categories, quantity : Quantities,
               status : BookingStatus, overdue : BOOLEAN]

(* A table has rows of the type above, under some of the ids. *)
IsTable(table) == /\ DOMAIN table \subseteq Bookings
                  /\ table \in [DOMAIN table -> BookingRow]

EmptyTable == [b \in {} |-> {}]

(* Mutant: one seat more than was asked for. *)
NewRowOneMore(c, q) == [category |-> c, quantity |-> q + 1,
                        status |-> "PENDING", overdue |-> FALSE]

NewRow(c, q) == [category |-> c, quantity |-> q,
                 status |-> "PENDING", overdue |-> FALSE]

WithRow(table, b, row) ==
  [x \in DOMAIN table \cup {b} |-> IF x = b THEN row ELSE table[x]]

WithStatus(table, S, status) ==
  [b \in DOMAIN table |-> IF b \in S THEN [table[b] EXCEPT !.status = status]
                                     ELSE table[b]]

(* The seats of category c that the bookings of S stand for, one pair per  *)
(* seat, so that adding quantities is counting a finite set.               *)
SeatsOf(table, S, c) ==
  {s \in S \X Quantities : /\ table[s[1]].category = c
                           /\ s[2] <= table[s[1]].quantity}

Seats(table, S, c) == Cardinality(SeatsOf(table, S, c))

InStatus(table, statuses) == {b \in DOMAIN table : table[b].status \in statuses}
===============================================================================
