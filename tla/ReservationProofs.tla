--------------------------- MODULE ReservationProofs ---------------------------
(***************************************************************************)
(* Proofs about Reservation, for every set of categories, finite sets of   *)
(* bookings and requests, initial stock and maximal quantity.              *)
(***************************************************************************)
EXTENDS Reservation, FiniteSetTheorems, TLAPS

(* First the operators of BookingTable. *)

(* Counting seats gives a natural number, whatever the table holds. *)
LEMMA SeatsType ==
  ASSUME NEW table, NEW S \in SUBSET Bookings, NEW c
  PROVE  /\ IsFiniteSet(SeatsOf(table, S, c))
         /\ Seats(table, S, c) \in Nat
<1>1. IsFiniteSet(S)
  BY TableAssumption, FS_Subset
<1>2. IsFiniteSet(Quantities)
  BY TableAssumption, FS_Interval DEF Quantities
<1>3. IsFiniteSet(S \X Quantities)
  BY <1>1, <1>2, FS_Product
<1>4. SeatsOf(table, S, c) \in SUBSET (S \X Quantities)
  BY DEF SeatsOf
<1>5. IsFiniteSet(SeatsOf(table, S, c))
  BY <1>3, <1>4, FS_Subset
<1> QED
  BY <1>5, FS_CardinalityType DEF Seats

(* The operators that write rows keep a table a table. *)
LEMMA WithRowIsTable ==
  ASSUME NEW table, IsTable(table), NEW b \in Bookings,
         NEW c \in Categories, NEW q \in Quantities
  PROVE  IsTable(WithRow(table, b, NewRow(c, q)))
BY DEF IsTable, WithRow, NewRow, BookingRow, BookingStatus

LEMMA WithStatusIsTable ==
  ASSUME NEW table, IsTable(table), NEW S, NEW status \in BookingStatus
  PROVE  /\ IsTable(WithStatus(table, S, status))
         /\ DOMAIN WithStatus(table, S, status) = DOMAIN table
BY DEF IsTable, WithStatus, BookingRow

(* One booking stands for as many seats of its category as its quantity. *)
LEMMA SeatsOfOneBooking ==
  ASSUME NEW table, NEW b, NEW c,
         table[b].category = c, table[b].quantity \in Quantities
  PROVE  Seats(table, {b}, c) = table[b].quantity
<1> DEFINE q == table[b].quantity
           f == [i \in 1..q |-> <<b, i>>]
<1>1. q \in Nat \ {0} /\ 1..q \subseteq Quantities
  BY TableAssumption DEF Quantities
<1>2. f \in Bijection(1..q, SeatsOf(table, {b}, c))
  <2>1. \A i \in 1..q : f[i] \in SeatsOf(table, {b}, c)
    BY <1>1 DEF SeatsOf
  <2>2. \A s \in SeatsOf(table, {b}, c) : \E i \in 1..q : f[i] = s
    BY <1>1 DEF SeatsOf, Quantities
  <2>3. \A i, j \in 1..q : f[i] = f[j] => i = j
    OBVIOUS
  <2> QED
    BY <2>1, <2>2, <2>3 DEF Bijection, Injection, Surjection, IsInjective
<1>3. IsFiniteSet(1..q) /\ Cardinality(1..q) = q
  <2>1. ASSUME NEW n \in Nat \ {0} PROVE IsFiniteSet(1..n) /\ Cardinality(1..n) = n
    BY FS_Interval
  <2> QED
    BY <1>1, <2>1
<1>4. Cardinality(SeatsOf(table, {b}, c)) = q
  <2>1. ExistsBijection(1..q, SeatsOf(table, {b}, c))
    BY <1>2 DEF ExistsBijection
  <2> QED
    BY <1>3, <2>1, FS_Bijection
<1> QED
  BY <1>4 DEF Seats

(* Taking bookings out of a set takes away at most the seats they stand for. *)
LEMMA SeatsLeftOver ==
  ASSUME NEW table, NEW new, NEW c,
         NEW S \in SUBSET Bookings, NEW T \in SUBSET Bookings,
         NEW U \in SUBSET Bookings, S \ T \subseteq U,
         \A b \in S \ T : /\ new[b].category = table[b].category
                          /\ new[b].quantity = table[b].quantity
  PROVE  Seats(table, S, c) <= Seats(table, T, c) + Seats(new, U, c)
<1> DEFINE A == SeatsOf(table, S, c)
           B == SeatsOf(table, T, c)
           C == SeatsOf(new, U, c)
<1>1. IsFiniteSet(A) /\ IsFiniteSet(B) /\ IsFiniteSet(C)
  BY SeatsType
<1>2. A \subseteq B \cup C
  BY DEF SeatsOf
<1>3. /\ IsFiniteSet(B \cup C)
      /\ Cardinality(B \cup C) = Cardinality(B) + Cardinality(C) - Cardinality(B \cap C)
  BY <1>1, FS_Union
<1>4. IsFiniteSet(B \cap C)
  BY <1>1, FS_Intersection
<1>5. /\ Cardinality(A) \in Nat /\ Cardinality(B) \in Nat /\ Cardinality(C) \in Nat
      /\ Cardinality(B \cap C) \in Nat /\ Cardinality(B \cup C) \in Nat
  BY <1>1, <1>3, <1>4, FS_CardinalityType
<1>6. Cardinality(A) <= Cardinality(B \cup C)
  BY <1>2, <1>3, FS_Subset
<1> QED
  BY <1>3, <1>5, <1>6 DEF Seats

(* No booking, no seat; and the seats of the same rows in another table. *)
LEMMA SeatsKept ==
  ASSUME NEW table, NEW new, NEW c,
         NEW S \in SUBSET Bookings, NEW U \in SUBSET Bookings, S \subseteq U,
         \A b \in S : /\ new[b].category = table[b].category
                      /\ new[b].quantity = table[b].quantity
  PROVE  Seats(table, S, c) <= Seats(new, U, c)
<1>1. SeatsOf(table, S, c) \in SUBSET SeatsOf(new, U, c)
  BY DEF SeatsOf
<1>2. IsFiniteSet(SeatsOf(new, U, c))
  BY SeatsType
<1> QED
  BY <1>1, <1>2, FS_Subset DEF Seats

(* A further booking adds the seats it stands for. *)
LEMMA SeatsAdded ==
  ASSUME NEW table, NEW new, NEW c,
         NEW S \in SUBSET Bookings, NEW b \in Bookings \ S,
         \A x \in S : /\ new[x].category = table[x].category
                      /\ new[x].quantity = table[x].quantity,
         new[b].category = c, new[b].quantity \in Quantities
  PROVE  Seats(table, S, c) + new[b].quantity <= Seats(new, S \cup {b}, c)
<1> DEFINE A == SeatsOf(new, S, c)
           B == SeatsOf(new, {b}, c)
<1>1. SeatsOf(new, S \cup {b}, c) = A \cup B /\ A \cap B = {}
  BY DEF SeatsOf
<1>2. IsFiniteSet(A) /\ IsFiniteSet(B) /\ Cardinality(A) \in Nat /\ Cardinality(B) \in Nat
  BY SeatsType DEF Seats
<1>3. Cardinality(A \cup B) = Cardinality(A) + Cardinality(B) - Cardinality(A \cap B)
  BY <1>2, FS_Union
<1>4. Cardinality(A \cap B) = 0
  BY <1>1, FS_EmptySet
<1>5. Cardinality(B) = new[b].quantity
  BY SeatsOfOneBooking DEF Seats
<1>6. Seats(table, S, c) <= Cardinality(A)
  BY SeatsKept DEF Seats
<1>7. Seats(table, S, c) \in Nat
  BY SeatsType
<1>8. Seats(new, S \cup {b}, c) = Cardinality(A) + new[b].quantity
  <2>1. Seats(new, S \cup {b}, c) = Cardinality(A \cup B)
    BY <1>1 DEF Seats
  <2>2. Cardinality(A \cup B) = Cardinality(A) + Cardinality(B)
    BY <1>2, <1>3, <1>4
  <2> QED
    BY <2>1, <2>2, <1>5
<1>9. new[b].quantity \in Int
  BY DEF Quantities
<1> HIDE DEF A, B
<1> QED
  BY <1>2, <1>6, <1>7, <1>8, <1>9

(* Seats of category c only: rows of another category may do as they like. *)
LEMMA SeatsIncluded ==
  ASSUME NEW table, NEW new, NEW c,
         NEW S \in SUBSET Bookings, NEW U \in SUBSET Bookings,
         \A b \in S : table[b].category = c =>
           b \in U /\ new[b].category = c /\ new[b].quantity = table[b].quantity
  PROVE  Seats(table, S, c) <= Seats(new, U, c)
<1>1. SeatsOf(table, S, c) \in SUBSET SeatsOf(new, U, c)
  BY DEF SeatsOf
<1>2. IsFiniteSet(SeatsOf(new, U, c))
  BY SeatsType
<1> QED
  BY <1>1, <1>2, FS_Subset DEF Seats
-------------------------------------------------------------------------------

(* What a request will do next has the type of a request state. *)
LEMMA GoType ==
  ASSUME TypeOK, NEW r \in Requests, NEW state \in RequestState, Go(r, state)
  PROVE  request' \in [Requests -> RequestState]
BY DEF TypeOK, Go

(* The one action that returns seats keeps the tables typed. *)
LEMMA ReturnSeatsType ==
  ASSUME TypeOK, NEW S \in SUBSET Bookings, NEW status \in BookingStatus,
         ReturnSeats(S, status)
  PROVE  /\ currentStock' \in [Categories -> Int]
         /\ IsTable(booking')
         /\ DOMAIN booking' = DOMAIN booking
<1>1. \A c \in Categories : currentStock[c] + Seats(booking, S, c) \in Int
  BY SeatsType DEF TypeOK
<1>2. currentStock' \in [Categories -> Int]
  BY <1>1 DEF ReturnSeats
<1>3. IsTable(booking') /\ DOMAIN booking' = DOMAIN booking
  BY WithStatusIsTable DEF ReturnSeats, TypeOK
<1> QED
  BY <1>2, <1>3

LEMMA TypeInit == Init => TypeOK
<1> SUFFICES ASSUME Init PROVE TypeOK
  OBVIOUS
<1>1. currentStock \in [Categories -> Int]
  BY TableAssumption DEF Init
<1>2. IsTable(booking)
  BY DEF Init, EmptyTable, IsTable
<1>3. request \in [Requests -> RequestState]
  BY DEF Init, RequestState
<1> QED
  BY <1>1, <1>2, <1>3 DEF Init, TypeOK

LEMMA TypeNext == TypeOK /\ [Next]_vars => TypeOK'
<1> SUFFICES ASSUME TypeOK, [Next]_vars PROVE TypeOK'
  OBVIOUS
<1> USE DEF TypeOK
<1>1. ASSUME NEW r \in Requests, NEW c \in Categories, NEW q \in Quantities,
             AcquireLock(r, c, q)
      PROVE  TypeOK'
  BY <1>1, GoType DEF AcquireLock, RequestState, tables
<1>2. ASSUME NEW r \in Requests, CreateRead(r) PROVE TypeOK'
  <2>1. \A step \in {"createWrite", "unlock"} : [request[r] EXCEPT !.step = step] \in RequestState
    BY <1>2 DEF CreateRead, RequestState, Idle
  <2> QED
    BY <1>2, <2>1, GoType DEF CreateRead, tables
<1>3. ASSUME NEW r \in Requests, CreateWrite(r) PROVE TypeOK'
  <2>1. /\ request[r].category \in Categories /\ request[r].quantity \in Quantities
        /\ [request[r] EXCEPT !.step = "unlock"] \in RequestState
    BY <1>3 DEF CreateWrite, RequestState, Idle
  <2>2. request' \in [Requests -> RequestState]
    BY <1>3, <2>1, GoType DEF CreateWrite
  <2>3. request[r].quantity \in Int
    BY <2>1 DEF Quantities
  <2>4. currentStock' \in [Categories -> Int]
    BY <1>3, <2>1, <2>3 DEF CreateWrite
  <2>5. IsTable(booking')
    BY <1>3, <2>1, WithRowIsTable DEF CreateWrite
  <2> QED
    BY <1>3, <2>2, <2>4, <2>5 DEF CreateWrite
<1>4. ASSUME NEW r \in Requests, ReleaseLock(r) PROVE TypeOK'
  BY <1>4, GoType DEF ReleaseLock, RequestState, tables
<1>5. ASSUME NEW r \in Requests, NEW b \in DOMAIN booking,
             ConfirmRead(r, b) \/ CancelRead(r, b)
      PROVE  TypeOK'
  BY <1>5, GoType DEF ConfirmRead, CancelRead, RequestState, tables, IsTable
<1>6. ASSUME NEW r \in Requests, ConfirmWrite(r) PROVE TypeOK'
  BY <1>6, GoType, WithStatusIsTable DEF ConfirmWrite, RequestState, BookingStatus
<1>7. ASSUME NEW r \in Requests, CancelWrite(r) PROVE TypeOK'
  <2>1. request[r].booking \in Bookings
    BY <1>7 DEF CancelWrite, RequestState, Idle
  <2>2. currentStock' \in [Categories -> Int] /\ IsTable(booking')
    BY <1>7, <2>1, ReturnSeatsType DEF CancelWrite, BookingStatus
  <2>3. request' \in [Requests -> RequestState]
    BY <1>7, GoType DEF CancelWrite, RequestState
  <2> QED
    BY <1>7, <2>2, <2>3 DEF CancelWrite
<1>8. ASSUME NEW r \in Requests, ExpireRead(r) PROVE TypeOK'
  <2> DEFINE old == {b \in InStatus(booking, {"PENDING"}) : booking[b].overdue}
  <2>1. old \in SUBSET Bookings
    BY DEF InStatus, IsTable
  <2>2. [step |-> "expireOne", todo |-> old] \in RequestState
    BY <2>1 DEF RequestState
  <2> QED
    BY <1>8, <2>2, GoType DEF ExpireRead, tables
<1>9. ASSUME NEW r \in Requests, ExpireOne(r) PROVE TypeOK'
  <2>1. request[r].todo \in SUBSET Bookings
    BY <1>9 DEF ExpireOne, RequestState, Idle
  <2>2. PICK b \in request[r].todo :
          /\ ReturnSeats({b}, "EXPIRED")
          /\ Go(r, IF request[r].todo = {b} THEN Idle
                   ELSE [request[r] EXCEPT !.todo = @ \ {b}])
    BY <1>9 DEF ExpireOne
  <2>3. [request[r] EXCEPT !.todo = @ \ {b}] \in RequestState
    BY <1>9, <2>1 DEF ExpireOne, RequestState, Idle
  <2>4. request' \in [Requests -> RequestState]
    BY <2>2, <2>3, GoType DEF RequestState
  <2>5. currentStock' \in [Categories -> Int] /\ IsTable(booking')
    BY <2>1, <2>2, ReturnSeatsType DEF BookingStatus
  <2> QED
    BY <1>9, <2>4, <2>5 DEF ExpireOne
<1>10. ASSUME NEW r \in Requests, CancelEventRead(r) PROVE TypeOK'
  BY <1>10, GoType DEF CancelEventRead, RequestState, tables
<1>11. ASSUME NEW r \in Requests, CancelEventList(r) PROVE TypeOK'
  <2>1. InStatus(booking, {"PENDING"}) \in SUBSET Bookings
    BY DEF InStatus, IsTable
  <2> QED
    BY <1>11, <2>1, GoType DEF CancelEventList, RequestState, tables
<1>12. ASSUME NEW r \in Requests, CancelEventWrite(r) PROVE TypeOK'
  <2>1. request[r].todo \in SUBSET Bookings
    BY <1>12 DEF CancelEventWrite, RequestState, Idle
  <2>2. currentStock' \in [Categories -> Int] /\ IsTable(booking')
    BY <1>12, <2>1, ReturnSeatsType DEF CancelEventWrite, BookingStatus
  <2>3. request' \in [Requests -> RequestState]
    BY <1>12, GoType DEF CancelEventWrite, RequestState
  <2> QED
    BY <1>12, <2>2, <2>3 DEF CancelEventWrite
<1>13. ASSUME NEW r \in Requests, QueryFails(r) PROVE TypeOK'
  <2>1. request[r].step \in {"createRead", "createWrite"}
           => [request[r] EXCEPT !.step = "unlock"] \in RequestState
    BY DEF RequestState, Idle
  <2>2. Idle \in RequestState
    BY DEF RequestState
  <2> QED
    BY <1>13, <2>1, <2>2, GoType DEF QueryFails, tables
<1>14. ASSUME NEW c \in Categories, TtlElapses(c) PROVE TypeOK'
  BY <1>14 DEF TtlElapses, tables
<1>15. ASSUME NEW b \in DOMAIN booking, Overdue(b) PROVE TypeOK'
  <2>1. IsTable(booking')
    BY <1>15 DEF Overdue, IsTable, BookingRow
  <2> QED
    BY <1>15, <2>1 DEF Overdue
<1>16. CASE Crash
  BY <1>16 DEF Crash, RequestState, tables
<1>17. CASE UNCHANGED vars
  BY <1>17 DEF vars
<1> QED
  BY <1>1, <1>2, <1>3, <1>4, <1>5, <1>6, <1>7, <1>8, <1>9, <1>10, <1>11, <1>12,
     <1>13, <1>14, <1>15, <1>16, <1>17 DEF Next, BookingsStep, CancelEventStep

(* Every variable keeps its type, in particular the tables whatever the     *)
(* handlers in flight write.                                                *)
THEOREM TypeCorrect == Spec => []TypeOK
BY TypeInit, TypeNext, PTL DEF Spec
-------------------------------------------------------------------------------
(* Rows are never deleted, and a row's id stays its id. *)
LEMMA RowsStay == TypeOK /\ [Next]_vars => DOMAIN booking \subseteq DOMAIN booking'
BY DEF Next, BookingsStep, CancelEventStep, AcquireLock, CreateRead, CreateWrite,
       ReleaseLock, ConfirmRead, ConfirmWrite, CancelRead, CancelWrite, ExpireRead,
       ExpireOne, CancelEventRead, CancelEventList, CancelEventWrite, QueryFails,
       TtlElapses, Overdue, Crash, ReturnSeats, WithStatus, WithRow, tables, vars

(* A request that does not change keeps rows that exist. *)
LEMMA InFlightNext == TypeOK /\ InFlightRowsExist /\ [Next]_vars => InFlightRowsExist'
<1> SUFFICES ASSUME TypeOK, InFlightRowsExist, [Next]_vars PROVE InFlightRowsExist'
  OBVIOUS
<1> DEFINE Good(state) ==
       /\ state.step \in {"confirmWrite", "cancelWrite"} => state.booking \in DOMAIN booking
       /\ state.step \in {"expireOne", "cancelEventWrite"} => state.todo \subseteq DOMAIN booking
<1>1. DOMAIN booking \subseteq DOMAIN booking'
  BY RowsStay
<1>2. ASSUME NEW r \in Requests, NEW state, Go(r, state), Good(state)
      PROVE  InFlightRowsExist'
  BY <1>1, <1>2 DEF Go, InFlightRowsExist, TypeOK
<1>3. ASSUME request' = request PROVE InFlightRowsExist'
  BY <1>1, <1>3 DEF InFlightRowsExist
<1>4. ASSUME NEW r \in Requests, BookingsStep(r) PROVE InFlightRowsExist'
  <2>1. Good(Idle)
    BY DEF Idle
  <2>2. ASSUME request[r].step \in {"createRead", "createWrite"},
               NEW step \in {"createWrite", "unlock"}
        PROVE  Good([request[r] EXCEPT !.step = step])
    BY <2>2 DEF TypeOK, RequestState, Idle
  <2>3. CASE \E c \in Categories, q \in Quantities : AcquireLock(r, c, q)
    BY <2>3, <1>2 DEF AcquireLock
  <2>4. CASE CreateRead(r)
    BY <2>4, <2>2, <1>2 DEF CreateRead
  <2>5. CASE CreateWrite(r)
    BY <2>5, <2>2, <1>2 DEF CreateWrite
  <2>6. CASE ReleaseLock(r) \/ ConfirmWrite(r) \/ CancelWrite(r)
    BY <2>6, <2>1, <1>2 DEF ReleaseLock, ConfirmWrite, CancelWrite
  <2>7. CASE \E b \in DOMAIN booking : ConfirmRead(r, b) \/ CancelRead(r, b)
    BY <2>7, <1>2 DEF ConfirmRead, CancelRead
  <2>8. CASE ExpireRead(r)
    BY <2>8, <1>2 DEF ExpireRead, InStatus
  <2>9. CASE ExpireOne(r)
    <3>1. PICK b \in request[r].todo :
            Go(r, IF request[r].todo = {b} THEN Idle
                  ELSE [request[r] EXCEPT !.todo = @ \ {b}])
      BY <2>9 DEF ExpireOne
    <3>2. Good([request[r] EXCEPT !.todo = @ \ {b}])
      BY <2>9 DEF ExpireOne, InFlightRowsExist, TypeOK, RequestState, Idle
    <3> QED
      BY <3>1, <3>2, <2>1, <1>2
  <2>10. CASE QueryFails(r)
    BY <2>10, <2>1, <2>2, <1>2 DEF QueryFails
  <2> QED
    BY <1>4, <2>3, <2>4, <2>5, <2>6, <2>7, <2>8, <2>9, <2>10 DEF BookingsStep
<1>5. ASSUME NEW r \in Requests, CancelEventStep(r) PROVE InFlightRowsExist'
  BY <1>5, <1>2 DEF CancelEventStep, CancelEventRead, CancelEventList,
                    CancelEventWrite, InStatus, Idle
<1>6. CASE Crash
  BY <1>6 DEF Crash, InFlightRowsExist, Idle
<1> QED
  BY <1>3, <1>4, <1>5, <1>6 DEF Next, TtlElapses, Overdue, vars

LEMMA InFlightInit == Init => InFlightRowsExist
BY DEF Init, InFlightRowsExist, Idle
-------------------------------------------------------------------------------
(* The ledger instantiates the operators of BookingTable once more. *)
LEMMA SameOperators ==
  /\ Ledger!Quantities = Quantities
  /\ Ledger!EmptyTable = EmptyTable
  /\ \A c, q : Ledger!NewRow(c, q) = NewRow(c, q)
  /\ \A table, b, row : Ledger!WithRow(table, b, row) = WithRow(table, b, row)
  /\ \A table, S, status : Ledger!WithStatus(table, S, status) = WithStatus(table, S, status)
  /\ \A table, S, c : Ledger!Seats(table, S, c) = Seats(table, S, c)
<1>1. Ledger!Quantities = Quantities /\ Ledger!EmptyTable = EmptyTable
  BY DEF Ledger!Quantities, Quantities, Ledger!EmptyTable, EmptyTable
<1>2. \A c, q : Ledger!NewRow(c, q) = NewRow(c, q)
  BY DEF Ledger!NewRow, NewRow
<1>3. \A table, b, row : Ledger!WithRow(table, b, row) = WithRow(table, b, row)
  BY DEF Ledger!WithRow, WithRow
<1>4. \A table, S, status : Ledger!WithStatus(table, S, status) = WithStatus(table, S, status)
  BY DEF Ledger!WithStatus, WithStatus
<1>5. \A table, S, c : Ledger!SeatsOf(table, S, c) = SeatsOf(table, S, c)
  BY <1>1 DEF Ledger!SeatsOf, SeatsOf
<1>6. \A table, S, c : Ledger!Seats(table, S, c) = Seats(table, S, c)
  <2> SUFFICES ASSUME NEW table, NEW S, NEW c
               PROVE  Ledger!Seats(table, S, c) = Seats(table, S, c)
    OBVIOUS
  <2>1. Ledger!SeatsOf(table, S, c) = SeatsOf(table, S, c)
    BY <1>5
  <2> QED
    BY <2>1 DEF Ledger!Seats, Seats, Ledger!Cardinality, Cardinality,
                Ledger!IsFiniteSet, IsFiniteSet
<1> QED
  BY <1>1, <1>2, <1>3, <1>4, <1>6

(* Every step of a handler is one step of the ledger, or none. *)
LEMMA LedgerStep ==
  TypeOK /\ InFlightRowsExist /\ [Next]_vars => [Ledger!Next]_(Ledger!vars)
<1> SUFFICES ASSUME TypeOK, InFlightRowsExist, [Next]_vars
             PROVE  Ledger!Next \/ UNCHANGED tables
  BY DEF Ledger!vars, tables
<1>1. ASSUME NEW r \in Requests, CreateWrite(r) PROVE Ledger!Next \/ UNCHANGED tables
  <2>1. request[r].category \in Categories /\ request[r].quantity \in Quantities
    BY <1>1 DEF CreateWrite, TypeOK, RequestState, Idle
  <2>2. CASE currentStock[request[r].category] < request[r].quantity
    <3>1. ~(currentStock[request[r].category] >= request[r].quantity)
      BY <2>1, <2>2 DEF TypeOK, Quantities
    <3> QED
      BY <1>1, <3>1 DEF CreateWrite, tables
  <2>3. CASE currentStock[request[r].category] >= request[r].quantity
    <3>1. ~(currentStock[request[r].category] < request[r].quantity)
      BY <2>1, <2>3 DEF TypeOK, Quantities
    <3>2. PICK b \in Bookings \ DOMAIN booking :
            booking' = WithRow(booking, b, NewRow(request[r].category, request[r].quantity))
      BY <1>1, <3>1 DEF CreateWrite
    <3>3. Ledger!Reserve(b, request[r].category, request[r].quantity)
      BY <1>1, <2>3, <3>1, <3>2, SameOperators DEF CreateWrite, Ledger!Reserve
    <3> QED
      BY <2>1, <3>3, SameOperators DEF Ledger!Next
  <2> QED
    BY <2>1, <2>2, <2>3 DEF TypeOK, Quantities
<1>2. ASSUME NEW r \in Requests, ConfirmWrite(r) PROVE Ledger!Next
  <2>1. request[r].booking \in DOMAIN booking
    BY <1>2 DEF ConfirmWrite, InFlightRowsExist
  <2>2. Ledger!Confirm(request[r].booking)
    BY <1>2, SameOperators DEF ConfirmWrite, Ledger!Confirm
  <2> QED
    BY <2>1, <2>2 DEF Ledger!Next
<1>3. ASSUME NEW S, NEW status, ReturnSeats(S, status) PROVE Ledger!Release(S, status)
  BY <1>3, SameOperators DEF ReturnSeats, Ledger!Release
<1>4. ASSUME NEW r \in Requests, CancelWrite(r) PROVE Ledger!Next
  <2>1. request[r].booking \in DOMAIN booking
    BY <1>4 DEF CancelWrite, InFlightRowsExist
  <2>2. Ledger!Release({request[r].booking}, "CANCELLED") /\ UNCHANGED cancelled
    BY <1>3, <1>4 DEF CancelWrite
  <2> QED
    BY <2>1, <2>2 DEF Ledger!Next
<1>5. ASSUME NEW r \in Requests, ExpireOne(r) PROVE Ledger!Next
  <2>1. PICK b \in request[r].todo : ReturnSeats({b}, "EXPIRED")
    BY <1>5 DEF ExpireOne
  <2>2. b \in DOMAIN booking
    BY <1>5 DEF ExpireOne, InFlightRowsExist
  <2>3. Ledger!Release({b}, "EXPIRED") /\ UNCHANGED cancelled
    BY <1>3, <1>5, <2>1 DEF ExpireOne
  <2> QED
    BY <2>2, <2>3 DEF Ledger!Next
<1>6. ASSUME NEW r \in Requests, CancelEventWrite(r) PROVE Ledger!Next
  <2>1. request[r].todo \in SUBSET DOMAIN booking
    BY <1>6 DEF CancelEventWrite, InFlightRowsExist
  <2>2. Ledger!CancelEvent(request[r].todo)
    BY <1>3, <1>6 DEF CancelEventWrite, Ledger!CancelEvent
  <2> QED
    BY <2>1, <2>2 DEF Ledger!Next
<1>7. ASSUME NEW b \in DOMAIN booking, Overdue(b) PROVE Ledger!Next
  BY <1>7 DEF Overdue, Ledger!Overdue, Ledger!Next
<1> QED
  BY <1>1, <1>2, <1>4, <1>5, <1>6, <1>7
  DEF Next, BookingsStep, CancelEventStep, AcquireLock, CreateRead, ReleaseLock,
      ConfirmRead, CancelRead, ExpireRead, CancelEventRead, CancelEventList,
      QueryFails, TtlElapses, Crash, vars, tables

(* The booking handlers, with their lock, their stale reads, failed queries *)
(* and crashes, implement the ledger of atomic operations.                  *)
THEOREM ImplementsLedger == Spec => LedgerSpec
<1>1. Init => Ledger!Init
  BY SameOperators DEF Init, Ledger!Init
<1>2. Spec => [](TypeOK /\ InFlightRowsExist)
  BY TypeInit, TypeNext, InFlightInit, InFlightNext, PTL DEF Spec
<1> QED
  BY <1>1, <1>2, LedgerStep, PTL DEF Spec, LedgerSpec, Ledger!Spec
-------------------------------------------------------------------------------
(* What the ledger's steps do to the stock carries over to the handlers. *)
LEMMA StockNext ==
  TypeOK /\ InFlightRowsExist /\ StockNeverNegative /\ [Next]_vars => StockNeverNegative'
<1> SUFFICES ASSUME TypeOK, StockNeverNegative, Ledger!Next \/ UNCHANGED tables
             PROVE  StockNeverNegative'
  BY LedgerStep DEF Ledger!vars, tables
<1>1. CASE UNCHANGED tables
  BY <1>1 DEF tables, StockNeverNegative
<1>2. ASSUME NEW b \in Bookings, NEW c \in Categories, NEW q \in Quantities,
             Ledger!Reserve(b, c, q)
      PROVE  StockNeverNegative'
  BY <1>2 DEF Ledger!Reserve, StockNeverNegative, TypeOK, Quantities
<1>3. ASSUME NEW S \in SUBSET Bookings, NEW status, Ledger!Release(S, status)
      PROVE  StockNeverNegative'
  <2>1. \A c \in Categories : Seats(booking, S, c) \in Nat
    BY SeatsType
  <2>2. \A c \in Categories : currentStock'[c] = currentStock[c] + Seats(booking, S, c)
    BY <1>3, SameOperators DEF Ledger!Release
  <2> QED
    BY <2>1, <2>2 DEF StockNeverNegative, TypeOK
<1>4. ASSUME NEW b \in DOMAIN booking, Ledger!Overdue(b) \/ Ledger!Confirm(b)
      PROVE  StockNeverNegative'
  BY <1>4 DEF Ledger!Overdue, Ledger!Confirm, StockNeverNegative
<1>5. DOMAIN booking \subseteq Bookings
  BY DEF TypeOK, IsTable
<1> QED
  BY <1>1, <1>2, <1>3, <1>4, <1>5, SameOperators DEF Ledger!Next, Ledger!CancelEvent

(* The stock never goes below zero, for any number of concurrent requests  *)
(* and even when the lock expires under a slow callback.                   *)
THEOREM NeverNegative == Spec => []StockNeverNegative
<1>1. Init => StockNeverNegative
  BY TableAssumption DEF Init, StockNeverNegative
<1> QED
  BY <1>1, TypeInit, TypeNext, InFlightInit, InFlightNext, StockNext, PTL DEF Spec

(* The seats that a category's bookings hold are counted by a natural number. *)
LEMMA HeldType == TypeOK => \A c \in Categories : Held(c) \in Nat
<1> SUFFICES ASSUME TypeOK, NEW c \in Categories PROVE Held(c) \in Nat
  OBVIOUS
<1>1. InStatus(booking, {"PENDING", "CONFIRMED"}) \in SUBSET Bookings
  BY DEF InStatus, TypeOK, IsTable
<1> QED
  BY <1>1, SeatsType DEF Held

LEMMA SeatLossNext ==
  TypeOK /\ InFlightRowsExist /\ NoSeatLost /\ [Next]_vars => NoSeatLost'
<1> SUFFICES ASSUME TypeOK, TypeOK', NoSeatLost, Ledger!Next \/ UNCHANGED tables
             PROVE  NoSeatLost'
  BY LedgerStep, TypeNext DEF Ledger!vars, tables
<1> DEFINE holding == InStatus(booking, {"PENDING", "CONFIRMED"})
           holdingNew == InStatus(booking', {"PENDING", "CONFIRMED"})
<1>1. /\ holding \in SUBSET Bookings /\ holdingNew \in SUBSET Bookings
      /\ \A c \in Categories : /\ Held(c) = Seats(booking, holding, c)
                               /\ Held(c)' = Seats(booking', holdingNew, c)
  BY DEF InStatus, TypeOK, IsTable, Held
<1>2. \A c \in Categories : /\ Held(c) \in Nat /\ Held(c)' \in Nat
                            /\ currentStock[c] \in Int /\ currentStock'[c] \in Int
                            /\ InitialStock[c] \in Nat
                            /\ InitialStock[c] <= currentStock[c] + Held(c)
  BY <1>1, SeatsType, TableAssumption DEF TypeOK, NoSeatLost
<1>3. CASE UNCHANGED tables
  BY <1>3 DEF tables, NoSeatLost, Held
<1>4. ASSUME NEW b \in Bookings, NEW d \in Categories, NEW q \in Quantities,
             Ledger!Reserve(b, d, q), NEW c \in Categories
      PROVE  InitialStock[c] <= currentStock'[c] + Held(c)'
  <2>1. b \notin DOMAIN booking /\ booking' = WithRow(booking, b, NewRow(d, q))
    BY <1>4, SameOperators DEF Ledger!Reserve
  <2>2. /\ holdingNew = holding \cup {b} /\ b \notin holding
        /\ booking'[b].category = d /\ booking'[b].quantity = q
        /\ \A x \in holding : booking'[x] = booking[x]
    BY <2>1 DEF WithRow, NewRow, InStatus
  <2>3. CASE c = d
    <3>1. Held(c) + q <= Held(c)'
      <4>1. \A x \in holding : /\ booking'[x].category = booking[x].category
                              /\ booking'[x].quantity = booking[x].quantity
        BY <2>2
      <4>2. booking'[b].category = c /\ booking'[b].quantity \in Quantities
        BY <2>2, <2>3
      <4>3. holding \in SUBSET Bookings /\ b \in Bookings \ holding
        BY <2>2, <1>1
      <4> HIDE DEF holding, holdingNew
      <4>4. Seats(booking, holding, c) + booking'[b].quantity
              <= Seats(booking', holding \cup {b}, c)
        BY <4>1, <4>2, <4>3, SeatsAdded
      <4> QED
        BY <4>4, <2>2, <1>1
    <3>2. currentStock'[c] = currentStock[c] - q
      BY <1>4, <2>3 DEF Ledger!Reserve, TypeOK
    <3> QED
      BY <3>1, <3>2, <1>2 DEF Quantities
  <2>4. CASE c # d
    <3>1. Held(c) <= Held(c)'
      BY <2>2, <1>1, SeatsKept
    <3>2. currentStock'[c] = currentStock[c]
      BY <1>4, <2>4 DEF Ledger!Reserve, TypeOK
    <3> QED
      BY <3>1, <3>2, <1>2
  <2> QED
    BY <2>3, <2>4
<1>5. ASSUME NEW S \in SUBSET Bookings, NEW status, Ledger!Release(S, status),
             NEW c \in Categories
      PROVE  InitialStock[c] <= currentStock'[c] + Held(c)'
  <2>1. booking' = WithStatus(booking, S, status)
    BY <1>5, SameOperators DEF Ledger!Release
  <2>2. holding \ S \subseteq holdingNew /\ \A b \in holding \ S : booking'[b] = booking[b]
    BY <2>1 DEF WithStatus, InStatus
  <2>3. Held(c) <= Seats(booking, S, c) + Held(c)'
    BY <2>2, <1>1, SeatsLeftOver
  <2>4. currentStock'[c] = currentStock[c] + Seats(booking, S, c)
    BY <1>5, SameOperators DEF Ledger!Release
  <2>5. Seats(booking, S, c) \in Nat
    BY SeatsType
  <2> QED
    BY <2>3, <2>4, <2>5, <1>2
<1>6. ASSUME NEW b \in DOMAIN booking, Ledger!Overdue(b) \/ Ledger!Confirm(b),
             NEW c \in Categories
      PROVE  InitialStock[c] <= currentStock'[c] + Held(c)'
  <2>1. \/ booking' = WithStatus(booking, {b}, "CONFIRMED")
        \/ booking' = [booking EXCEPT ![b].overdue = TRUE]
    BY <1>6, SameOperators DEF Ledger!Overdue, Ledger!Confirm
  <2>2. /\ DOMAIN booking' = DOMAIN booking
        /\ \A x \in DOMAIN booking : /\ booking'[x].category = booking[x].category
                                     /\ booking'[x].quantity = booking[x].quantity
                                     /\ booking'[x].status \in {booking[x].status, "CONFIRMED"}
    BY <2>1 DEF WithStatus, TypeOK, IsTable, BookingRow
  <2>3. /\ holding \subseteq holdingNew
        /\ \A x \in holding : /\ booking'[x].category = booking[x].category
                              /\ booking'[x].quantity = booking[x].quantity
    BY <2>2 DEF InStatus
  <2>4. Held(c) <= Held(c)'
    BY <2>3, <1>1, SeatsKept
  <2>5. currentStock' = currentStock
    BY <1>6 DEF Ledger!Overdue, Ledger!Confirm
  <2> QED
    BY <2>4, <2>5, <1>2
<1>7. DOMAIN booking \subseteq Bookings
  BY DEF TypeOK, IsTable
<1>8. CASE Ledger!Next
  BY <1>4, <1>5, <1>6, <1>7, <1>8, SameOperators
  DEF Ledger!Next, Ledger!CancelEvent, NoSeatLost
<1> QED
  BY <1>3, <1>8

(* No interleaving of creations, cancellations, expiries and crashes makes *)
(* a seat disappear: what is not in stock is held by a booking.            *)
THEOREM SeatsNeverLost == Spec => []NoSeatLost
<1>1. Init => NoSeatLost
  <2> SUFFICES ASSUME Init, NEW c \in Categories
               PROVE  InitialStock[c] <= currentStock[c] + Held(c)
    BY DEF NoSeatLost
  <2>1. Held(c) \in Nat
    BY TypeInit, HeldType
  <2> QED
    BY <2>1, TableAssumption DEF Init
<1> QED
  BY <1>1, TypeInit, TypeNext, InFlightInit, InFlightNext, SeatLossNext, PTL DEF Spec
-------------------------------------------------------------------------------
(* Only acquireLock makes a request a holder, only ReleaseLock and the TTL  *)
(* delete a key.                                                            *)
LEMMA LockNext ==
  TypeOK /\ HoldersHaveTheKey /\ OneCallbackPerLock /\ [Next]_vars
    => HoldersHaveTheKey' /\ OneCallbackPerLock'
<1> SUFFICES ASSUME TypeOK, ~SlowCallbacks, [Next]_vars,
                    \A c \in Categories, r \in Requests : Holds(r, c) => c \in locked,
                    \A c \in Categories, r1, r2 \in Requests :
                      Holds(r1, c) /\ Holds(r2, c) => r1 = r2
             PROVE  /\ \A c \in Categories, r \in Requests : Holds(r, c)' => c \in locked'
                    /\ \A c \in Categories, r1, r2 \in Requests :
                         Holds(r1, c)' /\ Holds(r2, c)' => r1 = r2
  BY DEF HoldersHaveTheKey, OneCallbackPerLock
<1> DEFINE Goal == /\ \A c \in Categories, r \in Requests : Holds(r, c)' => c \in locked'
                   /\ \A c \in Categories, r1, r2 \in Requests :
                        Holds(r1, c)' /\ Holds(r2, c)' => r1 = r2
           Callback == {"createRead", "createWrite", "unlock"}
<1>1. ASSUME locked' = locked,
             \A c \in Categories, r \in Requests : Holds(r, c)' => Holds(r, c)
      PROVE  Goal
  BY <1>1
<1>2. ASSUME NEW r \in Requests, NEW state, Go(r, state), locked' = locked,
             state.step \in Callback => /\ request[r].step \in Callback
                                       /\ state.category = request[r].category
      PROVE  Goal
  <2>1. \A c \in Categories, x \in Requests : Holds(x, c)' => Holds(x, c)
    BY <1>2 DEF Go, Holds, TypeOK
  <2> QED
    BY <1>1, <1>2, <2>1
<1>3. ASSUME NEW r \in Requests, NEW c \in Categories, NEW q \in Quantities,
             AcquireLock(r, c, q)
      PROVE  Goal
  <2>1. /\ locked' = locked \cup {c} /\ Holds(r, c)'
        /\ \A x \in Requests, d \in Categories : x # r => (Holds(x, d)' <=> Holds(x, d))
        /\ \A d \in Categories : Holds(r, d)' => d = c
    BY <1>3 DEF AcquireLock, Go, Holds, TypeOK
  <2>2. \A x \in Requests : ~Holds(x, c)
    BY <1>3 DEF AcquireLock
  <2> QED
    BY <2>1, <2>2
<1>4. ASSUME NEW r \in Requests, ReleaseLock(r) PROVE Goal
  <2>1. PICK c \in Categories : Holds(r, c) /\ locked' = locked \ {c}
    BY <1>4 DEF ReleaseLock, Holds, TypeOK, RequestState, Idle
  <2>2. /\ \A x \in Requests, d \in Categories : x # r => (Holds(x, d)' <=> Holds(x, d))
        /\ \A d \in Categories : ~Holds(r, d)'
    BY <1>4 DEF ReleaseLock, Go, Holds, TypeOK, Idle
  <2> QED
    BY <2>1, <2>2
<1>5. ASSUME NEW c \in Categories, TtlElapses(c) PROVE Goal
  BY <1>5 DEF TtlElapses, Holds
<1>6. CASE Crash
  BY <1>6, <1>1 DEF Crash, Holds, Idle
<1>7. ASSUME NEW r \in Requests,
             \/ CreateRead(r) \/ CreateWrite(r) \/ ConfirmWrite(r) \/ CancelWrite(r)
             \/ ExpireRead(r) \/ CancelEventStep(r) \/ QueryFails(r)
             \/ \E b \in DOMAIN booking : ConfirmRead(r, b) \/ CancelRead(r, b)
      PROVE  Goal
  <2>1. ASSUME request[r].step \in {"createRead", "createWrite"},
               NEW step \in {"createWrite", "unlock"}
        PROVE  [request[r] EXCEPT !.step = step].category = request[r].category
    BY <2>1 DEF TypeOK, RequestState, Idle
  <2>2. CASE CreateRead(r)
    BY <2>1, <2>2, <1>2 DEF CreateRead
  <2>3. CASE CreateWrite(r)
    BY <2>1, <2>3, <1>2 DEF CreateWrite
  <2>4. CASE ConfirmWrite(r) \/ CancelWrite(r) \/ ExpireRead(r) \/ CancelEventStep(r)
    BY <2>4, <1>2 DEF ConfirmWrite, CancelWrite, ExpireRead, CancelEventStep,
                      CancelEventRead, CancelEventList, CancelEventWrite, Idle
  <2>5. CASE QueryFails(r)
    BY <2>1, <2>5, <1>2 DEF QueryFails, Idle
  <2>6. CASE \E b \in DOMAIN booking : ConfirmRead(r, b) \/ CancelRead(r, b)
    BY <2>6, <1>2 DEF ConfirmRead, CancelRead
  <2> QED
    BY <1>7, <2>2, <2>3, <2>4, <2>5, <2>6
<1>8. ASSUME NEW r \in Requests, ExpireOne(r) PROVE Goal
  <2>1. PICK b \in request[r].todo :
          Go(r, IF request[r].todo = {b} THEN Idle
                ELSE [request[r] EXCEPT !.todo = @ \ {b}])
    BY <1>8 DEF ExpireOne
  <2>2. [request[r] EXCEPT !.todo = @ \ {b}].step = "expireOne"
    BY <1>8 DEF ExpireOne, TypeOK, RequestState, Idle
  <2> QED
    BY <1>8, <2>1, <2>2, <1>2 DEF ExpireOne, Idle
<1>9. ASSUME UNCHANGED <<locked, request>> PROVE Goal
  BY <1>1, <1>9 DEF Holds
<1> QED
  BY <1>3, <1>4, <1>5, <1>6, <1>7, <1>8, <1>9
  DEF Next, BookingsStep, Overdue, vars

(* No two creations for one category are inside withLock at the same time, *)
(* on any path through errors, failed DELs and crashes, as long as no      *)
(* callback outlasts the TTL.                                              *)
THEOREM LockExcludes == Spec => []OneCallbackPerLock
<1>1. Init => HoldersHaveTheKey /\ OneCallbackPerLock
  BY DEF Init, HoldersHaveTheKey, OneCallbackPerLock, Holds, Idle
<1> QED
  BY <1>1, TypeInit, TypeNext, LockNext, PTL DEF Spec
===============================================================================
