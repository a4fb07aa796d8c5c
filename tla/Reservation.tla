----------------------------- MODULE Reservation ------------------------------
(***************************************************************************)
(* bookings.service.ts over the Redis lock of redis.service.ts and the     *)
(* ticket_categories and bookings tables, for the categories of one event. *)
(* This is the system in which nobody pays: cancelEvent finds no order to  *)
(* refund, and a booking is confirmed by PATCH /bookings/:id/confirm.      *)
(*                                                                         *)
(* PostgreSQL runs Prisma's transactions at READ COMMITTED.  A read takes  *)
(* no row lock, so what a handler has read may be stale when it writes;    *)
(* the writes of a transaction become visible together.  A handler is      *)
(* therefore one step per read that decides, and one step for its commit.  *)
(***************************************************************************)
EXTENDS BookingTable

CONSTANTS
  Requests,       (* handler instances that may be in flight at a time     *)
  SlowCallbacks,  (* may the callback of withLock outlast the lock's TTL?  *)
  SweepScheduled, (* is expireOldBookings called?  Nothing in src calls it *)
  StockBound      (* bound: no booking is released again above this stock  *)

ASSUME ReservationAssumption ==
  /\ SlowCallbacks \in BOOLEAN
  /\ SweepScheduled \in BOOLEAN
  /\ StockBound \in Nat

VARIABLES
  locked,         (* the categories c whose key lock:booking:category:c exists *)
  currentStock,   (* ticket_categories.current_stock                           *)
  booking,        (* the bookings table                                        *)
  cancelled,      (* whether events.cancelled_at is set                        *)
  request         (* what each handler in flight will do next, and with what   *)

vars == <<locked, currentStock, booking, cancelled, request>>
tables == <<currentStock, booking, cancelled>>

Idle == [step |-> "idle"]

RequestState ==
  {Idle}
    \cup [step : {"createRead", "createWrite", "unlock"},
          category : Categories, quantity : Quantities]
    \cup [step : {"confirmWrite", "cancelWrite"}, booking : Bookings]
    \cup [step : {"expireOne", "cancelEventWrite"}, todo : SUBSET Bookings]
    \cup [step : {"cancelEventList"}]

Init ==
  /\ locked = {}
  /\ currentStock = InitialStock
  /\ booking = EmptyTable
  /\ cancelled = FALSE
  /\ request = [r \in Requests |-> Idle]

Go(r, state) == request' = [request EXCEPT ![r] = state]

(* Request r runs inside withLock(c). *)
Holds(r, c) == /\ request[r].step \in {"createRead", "createWrite", "unlock"}
               /\ request[r].category = c

(* Bound: a creation goes no further than its read once the ids are used up. *)
IdsLeft == Cardinality(Bookings \ DOMAIN booking)
             > Cardinality({r \in Requests : request[r].step = "createWrite"})
-------------------------------------------------------------------------------
(* createBooking *)

(* Mutant: SET without NX. *)
AcquireLockWithoutNX(r, c, q) ==
  /\ request[r] = Idle
  /\ locked' = locked \cup {c}
  /\ Go(r, [step |-> "createRead", category |-> c, quantity |-> q])
  /\ UNCHANGED tables

(* acquireLock: SET NX.  A request that finds the key throws at once. *)
AcquireLock(r, c, q) ==
  /\ request[r] = Idle
  /\ c \notin locked
  /\ locked' = locked \cup {c}
  /\ Go(r, [step |-> "createRead", category |-> c, quantity |-> q])
  /\ UNCHANGED tables

(* The transaction reads the category with its event, and goes on or throws. *)
CreateRead(r) ==
  LET available == /\ ~cancelled
                   /\ currentStock[request[r].category] >= request[r].quantity
                   /\ IdsLeft
  IN  /\ request[r].step = "createRead"
      /\ Go(r, [request[r] EXCEPT !.step = IF available THEN "createWrite" ELSE "unlock"])
      /\ UNCHANGED <<locked, tables>>

(* Mutant: the UPDATE has no WHERE current_stock >= quantity. *)
CreateWriteUnguarded(r) ==
  LET c == request[r].category
      q == request[r].quantity
  IN  /\ request[r].step = "createWrite"
      /\ currentStock' = [currentStock EXCEPT ![c] = @ - q]
      /\ \E b \in Bookings \ DOMAIN booking :
           booking' = WithRow(booking, b, NewRow(c, q))
      /\ Go(r, [request[r] EXCEPT !.step = "unlock"])
      /\ UNCHANGED <<locked, cancelled>>

(* The commit: UPDATE ... WHERE current_stock >= quantity decides again, on *)
(* the stock of this moment, and throws when no row matches.                *)
CreateWrite(r) ==
  LET c == request[r].category
      q == request[r].quantity
  IN  /\ request[r].step = "createWrite"
      /\ \/ /\ currentStock[c] >= q
            /\ currentStock' = [currentStock EXCEPT ![c] = @ - q]
            /\ \E b \in Bookings \ DOMAIN booking :
                 booking' = WithRow(booking, b, NewRow(c, q))
         \/ /\ currentStock[c] < q
            /\ UNCHANGED <<currentStock, booking>>
      /\ Go(r, [request[r] EXCEPT !.step = "unlock"])
      /\ UNCHANGED <<locked, cancelled>>

(* releaseLock, in the finally of withLock: DEL, whoever set the key. *)
ReleaseLock(r) ==
  /\ request[r].step = "unlock"
  /\ locked' = locked \ {request[r].category}
  /\ Go(r, Idle)
  /\ UNCHANGED tables

(* Mutant: SET without EX, the key has no TTL to elapse. *)
TtlNeverElapses(c) == c \in locked /\ UNCHANGED vars

(* The key's TTL, 10 s, elapses.  Prisma gives a transaction 2 s to start   *)
(* and 5 s to run, so that only a stalled process outlasts it.              *)
TtlElapses(c) ==
  /\ c \in locked
  /\ SlowCallbacks \/ \A r \in Requests : ~Holds(r, c)
  /\ locked' = locked \ {c}
  /\ UNCHANGED <<tables, request>>
-------------------------------------------------------------------------------
(* confirmBooking: no transaction, the update is unconditional. *)

ConfirmRead(r, b) ==
  /\ request[r] = Idle
  /\ booking[b].status = "PENDING"
  /\ ~booking[b].overdue
  /\ Go(r, [step |-> "confirmWrite", booking |-> b])
  /\ UNCHANGED <<locked, tables>>

ConfirmWrite(r) ==
  /\ request[r].step = "confirmWrite"
  /\ booking' = WithStatus(booking, {request[r].booking}, "CONFIRMED")
  /\ Go(r, Idle)
  /\ UNCHANGED <<locked, currentStock, cancelled>>
-------------------------------------------------------------------------------
(* Mutant: the bookings are released without the increments. *)
ReturnNoSeats(S, status) ==
  /\ booking' = WithStatus(booking, S, status)
  /\ UNCHANGED currentStock

(* The increments of current_stock and the new statuses of one commit. *)
ReturnSeats(S, status) ==
  /\ currentStock' = [c \in Categories |-> currentStock[c] + Seats(booking, S, c)]
  /\ booking' = WithStatus(booking, S, status)

(* cancelBooking refuses a CONFIRMED booking only: an EXPIRED or CANCELLED *)
(* one is cancelled, and its seats returned, once more.                    *)
CancelRead(r, b) ==
  /\ request[r] = Idle
  /\ booking[b].status # "CONFIRMED"
  /\ booking[b].status # "PENDING" => currentStock[booking[b].category] < StockBound
  /\ Go(r, [step |-> "cancelWrite", booking |-> b])
  /\ UNCHANGED <<locked, tables>>

(* Mutant: the increment without the new status. *)
CancelWriteStockOnly(r) ==
  /\ request[r].step = "cancelWrite"
  /\ LET b == request[r].booking
     IN  currentStock' = [currentStock EXCEPT ![booking[b].category] = @ + booking[b].quantity]
  /\ Go(r, Idle)
  /\ UNCHANGED <<locked, booking, cancelled>>

CancelWrite(r) ==
  /\ request[r].step = "cancelWrite"
  /\ ReturnSeats({request[r].booking}, "CANCELLED")
  /\ Go(r, Idle)
  /\ UNCHANGED <<locked, cancelled>>
-------------------------------------------------------------------------------
(* expireOldBookings: one snapshot, then one transaction per booking of it. *)

ExpireRead(r) ==
  LET old == {b \in InStatus(booking, {"PENDING"}) : booking[b].overdue}
  IN  /\ SweepScheduled
      /\ request[r] = Idle
      /\ old # {}
      /\ Go(r, [step |-> "expireOne", todo |-> old])
      /\ UNCHANGED <<locked, tables>>

ExpireOne(r) ==
  /\ request[r].step = "expireOne"
  /\ \E b \in request[r].todo :
       /\ ReturnSeats({b}, "EXPIRED")
       /\ Go(r, IF request[r].todo = {b} THEN Idle
                ELSE [request[r] EXCEPT !.todo = @ \ {b}])
  /\ UNCHANGED <<locked, cancelled>>
-------------------------------------------------------------------------------
(* cancelEvent of events.service.ts when the event has no order. *)

CancelEventRead(r) ==
  /\ request[r] = Idle
  /\ ~cancelled
  /\ Go(r, [step |-> "cancelEventList"])
  /\ UNCHANGED <<locked, tables>>

CancelEventList(r) ==
  /\ request[r].step = "cancelEventList"
  /\ Go(r, [step |-> "cancelEventWrite", todo |-> InStatus(booking, {"PENDING"})])
  /\ UNCHANGED <<locked, tables>>

CancelEventWrite(r) ==
  /\ request[r].step = "cancelEventWrite"
  /\ ReturnSeats(request[r].todo, "CANCELLED")
  /\ cancelled' = TRUE
  /\ Go(r, Idle)
  /\ UNCHANGED locked
-------------------------------------------------------------------------------
(* The world around the handlers *)

(* Ten minutes after its creation a booking's expiresAt passes.  Only the   *)
(* reads of PENDING bookings ever look at it.                               *)
Overdue(b) ==
  /\ booking[b].status = "PENDING"
  /\ ~booking[b].overdue
  /\ booking' = [booking EXCEPT ![b].overdue = TRUE]
  /\ UNCHANGED <<locked, currentStock, cancelled, request>>

(* A query or a commit fails: the transaction is rolled back and the        *)
(* handler throws.  createBooking still runs the finally of withLock; a DEL *)
(* that fails leaves the key to its TTL.                                    *)
QueryFails(r) ==
  /\ request[r] # Idle
  /\ Go(r, IF request[r].step \in {"createRead", "createWrite"}
           THEN [request[r] EXCEPT !.step = "unlock"] ELSE Idle)
  /\ UNCHANGED <<locked, tables>>

(* The Node process restarts: its requests are gone, Redis keeps the keys.  *)
Crash ==
  /\ \E r \in Requests : request[r] # Idle
  /\ request' = [r \in Requests |-> Idle]
  /\ UNCHANGED <<locked, tables>>
-------------------------------------------------------------------------------
BookingsStep(r) ==
  \/ \E c \in Categories, q \in Quantities : AcquireLock(r, c, q)
  \/ CreateRead(r) \/ CreateWrite(r) \/ ReleaseLock(r)
  \/ \E b \in DOMAIN booking : ConfirmRead(r, b) \/ CancelRead(r, b)
  \/ ConfirmWrite(r) \/ CancelWrite(r)
  \/ ExpireRead(r) \/ ExpireOne(r)
  \/ QueryFails(r)

CancelEventStep(r) ==
  CancelEventRead(r) \/ CancelEventList(r) \/ CancelEventWrite(r)

Next ==
  \/ \E r \in Requests : BookingsStep(r) \/ CancelEventStep(r)
  \/ \E c \in Categories : TtlElapses(c)
  \/ \E b \in DOMAIN booking : Overdue(b)
  \/ Crash

Spec == Init /\ [][Next]_vars

(* Node runs a handler that can go on, and Redis expires its keys. *)
Fairness ==
  /\ \A r \in Requests :
       WF_vars(CreateRead(r) \/ CreateWrite(r) \/ ReleaseLock(r) \/ ConfirmWrite(r)
                 \/ CancelWrite(r) \/ ExpireOne(r) \/ CancelEventList(r)
                 \/ CancelEventWrite(r))
  /\ \A c \in Categories : WF_vars(TtlElapses(c))
-------------------------------------------------------------------------------
(* Properties *)

(* Every variable has its type: the one type invariant of this module. *)
TypeOK ==
  /\ locked \subseteq Categories
  /\ currentStock \in [Categories -> Int]
  /\ IsTable(booking)
  /\ cancelled \in BOOLEAN
  /\ request \in [Requests -> RequestState]

(* The rows a request in flight is about to write exist: no handler deletes *)
(* a booking.  (A part of the inductive invariant of the refinement.)       *)
InFlightRowsExist ==
  \A r \in Requests :
    /\ request[r].step \in {"confirmWrite", "cancelWrite"}
         => request[r].booking \in DOMAIN booking
    /\ request[r].step \in {"expireOne", "cancelEventWrite"}
         => request[r].todo \subseteq DOMAIN booking

(* Who runs inside withLock has the key in Redis, unless the TTL may cut in *)
(* (a part of the inductive invariant of OneCallbackPerLock).               *)
HoldersHaveTheKey ==
  SlowCallbacks \/ \A c \in Categories, r \in Requests : Holds(r, c) => c \in locked

(* Two createBooking never run their transactions for one category at the  *)
(* same time, as long as no callback outlasts the lock's TTL: DEL ignores  *)
(* who set the key, so this rests on every path, errors included, deleting *)
(* no key but its own.                                                     *)
OneCallbackPerLock ==
  SlowCallbacks \/ \A c \in Categories, r1, r2 \in Requests :
                     Holds(r1, c) /\ Holds(r2, c) => r1 = r2

(* The stock never goes below zero, even when the lock has expired under a *)
(* slow callback and several creations decrement the stock they all read.  *)
StockNeverNegative == \A c \in Categories : currentStock[c] >= 0

Held(c) == Seats(booking, InStatus(booking, {"PENDING", "CONFIRMED"}), c)

(* No seat gets lost: whatever the interleaving of creations, cancellations, *)
(* expiry and crashes, a seat that is not in stock is held by a booking.     *)
NoSeatLost == \A c \in Categories : InitialStock[c] <= currentStock[c] + Held(c)

(* The handlers implement the ledger, in which every operation is atomic.  *)
Ledger == INSTANCE SeatLedger WITH
  currentStock <- currentStock, booking <- booking, cancelled <- cancelled
LedgerSpec == Ledger!Spec

(* A key left by a crash or a failed DEL does not close its category for  *)
(* ever: the lock comes free again.                                       *)
LockComesFree == \A c \in Categories : c \in locked ~> c \notin locked

(* Said by docs/Manuel_Utilisation.md: a booking blocks its seats, so that *)
(* the bookings of a category never stand for more seats than it has.      *)
SeatsAreBlocked == \A c \in Categories : Held(c) <= InitialStock[c]
===============================================================================
