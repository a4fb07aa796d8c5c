------------------------------ MODULE SalesProofs ------------------------------
(***************************************************************************)
(* Proofs about EventEdit, for every finite set of sales and every stock   *)
(* that may be entered, and about PromoCheckout, for every finite set of   *)
(* bookings, price, set of discounts and limit of uses.                    *)
(***************************************************************************)
EXTENDS EventEdit, PromoCheckout, FiniteSetTheorems, TLAPS

(* The sales whose seats are taken of a category. *)
HoldsSeat == {"PENDING", "PAID", "REFUND_REQUESTED"}

(* What the handlers of an event have in hand, and where the rows of sales  *)
(* are; only a community event promises places, in its one category.        *)
EditShape ==
  /\ \A s \in Sales : sale[s].rows => sale[s].at \in DOMAIN category /\ sale[s].status # "none"
  /\ removed => \A s \in Sales : ~sale[s].rows
  /\ community => DOMAIN category = 1..1
  /\ ~community => promised = 0
  /\ \/ editing = Idle
     \/ /\ editing.step \in {"taken", "write"}
        /\ editing.entry \in Entries
        /\ editing.step = "write" =>
             \A i \in DOMAIN editing.taken : editing.taken[i] \in Nat
  /\ \/ refunding = Idle
     \/ /\ refunding.step \in {"approve", "reject"}
        /\ refunding.sale \in Sales
        /\ sale[refunding.sale].status = "REFUND_REQUESTED"

(* The places that are still to be answered for. *)
Kept == IF slips = {} THEN promised ELSE 0

(* What an edit has read as taken covers what was promised. *)
TakenCoversPromised ==
  community /\ ~removed /\ slips = {} /\ editing.step = "write"
    => DOMAIN editing.taken = 1..1 /\ editing.taken[1] >= promised

EditInv == EditTypeOK /\ EditShape /\ SeatsBacked

LEMMA LiveFinite == \A i : IsFiniteSet(Selling(i)) /\ Cardinality(Selling(i)) \in Nat
<1> TAKE i
<1>1. Selling(i) \in SUBSET Sales
  BY DEF Selling
<1> QED
  BY <1>1, EditAssumption, FS_Subset, FS_CardinalityType

(* The entries of an organizer are one or two stocks. *)
LEMMA EntryType ==
  ASSUME NEW e \in Entries
  PROVE  /\ DOMAIN e \in {1..1, 1..2}
         /\ \A i \in DOMAIN e : e[i] \in Stocks
         /\ community => DOMAIN e = 1..1
<1>1. PICK n \in (IF community THEN {1} ELSE 1..2) : e \in [1..n -> Stocks]
  BY DEF Entries
<1>2. n \in {1, 2}
  BY <1>1
<1> QED
  BY <1>1, <1>2

(* A category that has just been entered. *)
LEMMA NewCategoryType ==
  ASSUME NEW n \in Nat, NEW taken \in Nat
  PROVE  /\ NewCategory(n, taken).initial = n
         /\ NewCategory(n, taken).current \in 0..n
         /\ taken <= n => NewCategory(n, taken).current = n - taken
BY DEF NewCategory

LEMMA CategoryType ==
  ASSUME EditTypeOK, NEW i \in DOMAIN category
  PROVE  /\ i \in 1..2 /\ i \in Nat
         /\ category[i].initial \in Nat
         /\ category[i].current \in Nat
         /\ category[i].current <= category[i].initial
         /\ promised \in Nat /\ Kept \in Nat /\ Kept <= promised
<1>1. category[i].initial \in Nat
  BY EditAssumption DEF EditTypeOK
<1>2. category[i].current \in 0..category[i].initial
  BY DEF EditTypeOK
<1>3. i \in 1..2 /\ promised \in Nat /\ Kept \in Nat /\ Kept <= promised
  BY DEF EditTypeOK, Kept
<1> QED
  BY <1>1, <1>2, <1>3

(* A sale that has its rows has its seat counted, and its category has room *)
(* for its return.                                                          *)
LEMMA RoomToReturn ==
  ASSUME EditInv, NEW s \in Sales, Lives(s, HoldsSeat)
  PROVE  /\ ~removed
         /\ sale[s].at \in DOMAIN category
         /\ category[sale[s].at].current + 1 \in 0..category[sale[s].at].initial
<1> DEFINE i == sale[s].at
<1>1. ~removed /\ i \in DOMAIN category
  BY DEF EditInv, EditShape, Lives
<1>2. Cardinality(Selling(i)) \in Nat \ {0}
  BY LiveFinite, FS_EmptySet DEF Selling, HoldsSeat
<1>3. category[i].current + Cardinality(Selling(i)) + Kept <= category[i].initial
  BY <1>1 DEF EditInv, SeatsBacked, Kept
<1>4. category[i].current \in Nat /\ category[i].initial \in Nat /\ Kept \in Nat
  BY <1>1, CategoryType DEF EditInv
<1> HIDE DEF i
<1> QED
  BY <1>1, <1>2, <1>3, <1>4 DEF i

LEMMA EditInitInv == EditInit => EditInv /\ TakenCoversPromised
<1> SUFFICES ASSUME EditInit PROVE EditInv /\ TakenCoversPromised
  OBVIOUS
<1>1. PICK e \in Entries : category = [i \in DOMAIN e |-> NewCategory(e[i], 0)]
  BY DEF EditInit
<1>2. /\ DOMAIN category \in {1..1, 1..2}
      /\ community => DOMAIN category = 1..1
      /\ \A i \in DOMAIN category : /\ category[i].initial \in Stocks
                                    /\ category[i].current = category[i].initial
                                    /\ category[i].initial \in Nat
  <2>1. \A i \in DOMAIN e : e[i] \in Nat /\ NewCategory(e[i], 0) = [initial |-> e[i], current |-> e[i]]
    <3> TAKE i \in DOMAIN e
    <3>1. e[i] \in Nat \ {0}
      BY EntryType, EditAssumption
    <3> QED
      BY <3>1 DEF NewCategory
  <2> QED
    BY <1>1, <2>1, EntryType
<1>3. EditTypeOK
  <2>1. sale \in [Sales -> [status : {"none", "PENDING", "PAID", "REFUND_REQUESTED", "REFUNDED"},
                           at : 1..2, rows : BOOLEAN]]
    BY DEF EditInit, NotSold
  <2>3. \A i \in DOMAIN category : category[i].current \in 0..category[i].initial
    BY <1>2
  <2> QED
    BY <1>2, <2>1, <2>3 DEF EditInit, EditTypeOK, Idle
<1>4. EditShape
  BY <1>2 DEF EditInit, EditShape, NotSold, Idle
<1>5. SeatsBacked
  <2>1. \A i : Selling(i) = {}
    BY DEF EditInit, Selling, Lives, NotSold
  <2>2. \A i : Cardinality(Selling(i)) = 0
    BY <2>1, FS_EmptySet
  <2>3. promised = 0
    BY DEF EditInit
  <2> QED
    BY <1>2, <2>2, <2>3 DEF SeatsBacked
<1>6. TakenCoversPromised
  BY DEF EditInit, TakenCoversPromised, Idle
<1> QED
  BY <1>3, <1>4, <1>5, <1>6 DEF EditInv

(* The type of the categories after an edit. *)
LEMMA WrittenCategories ==
  ASSUME EditInv, TakenCoversPromised, WriteCategories
  PROVE  /\ DOMAIN category' \in {1..1, 1..2}
         /\ community => DOMAIN category' = 1..1
         /\ \A i \in DOMAIN category' :
              /\ category'[i].initial \in Stocks
              /\ category'[i].initial \in Nat
              /\ category'[i].current \in 0..category'[i].initial
              /\ category'[i].current + (IF slips' = {} THEN promised ELSE 0) <= category'[i].initial
<1> DEFINE taken(i) == IF i \in DOMAIN editing.taken THEN editing.taken[i] ELSE 0
<1>1. /\ category' = [i \in DOMAIN editing.entry |-> NewCategory(editing.entry[i], taken(i))]
      /\ slips' = IF \E i \in DOMAIN category' : category'[i].initial < taken(i)
                  THEN slips \cup {"clipped"} ELSE slips
      /\ ~removed /\ editing.step = "write"
  BY DEF WriteCategories
<1>2. editing.entry \in Entries /\ \A i \in DOMAIN editing.entry : taken(i) \in Nat
  BY DEF EditInv, EditShape, WriteCategories, Idle
<1>3. \A i \in DOMAIN editing.entry : editing.entry[i] \in Stocks /\ editing.entry[i] \in Nat
  BY <1>2, EntryType, EditAssumption
<1>4. promised \in Nat
  BY DEF EditInv, EditTypeOK
<1>5. slips = {} => \A i \in DOMAIN editing.entry : taken(i) >= promised
  <2> SUFFICES ASSUME slips = {}, NEW i \in DOMAIN editing.entry PROVE taken(i) >= promised
    OBVIOUS
  <2>1. CASE community
    <3>1. i = 1
      <4>1. PICK e \in Entries : e = editing.entry
        BY <1>2
      <4>2. DOMAIN e = 1..1
        BY <2>1, EntryType
      <4> QED
        BY <4>1, <4>2
    <3>2. DOMAIN editing.taken = 1..1 /\ editing.taken[1] >= promised
      BY <1>1, <2>1 DEF TakenCoversPromised
    <3> QED
      BY <3>1, <3>2
  <2>2. CASE ~community
    <3>1. promised = 0
      BY <2>2 DEF EditInv, EditShape
    <3> QED
      BY <1>2, <3>1
  <2> QED
    BY <2>1, <2>2
<1> HIDE DEF taken
<1>6. /\ DOMAIN category' = DOMAIN editing.entry
      /\ DOMAIN category' \in {1..1, 1..2}
      /\ community => DOMAIN category' = 1..1
  BY <1>1, <1>2, EntryType
<1>7. ASSUME NEW i \in DOMAIN category'
      PROVE  /\ category'[i].initial \in Stocks
             /\ category'[i].initial \in Nat
             /\ category'[i].current \in 0..category'[i].initial
             /\ category'[i].current + (IF slips' = {} THEN promised ELSE 0) <= category'[i].initial
  <2>1. /\ category'[i].initial \in Stocks
        /\ category'[i].initial \in Nat
        /\ category'[i].current \in 0..category'[i].initial
        /\ taken(i) <= category'[i].initial => category'[i].current = category'[i].initial - taken(i)
    BY <1>1, <1>2, <1>3, <1>6, NewCategoryType
  <2>2. slips' = {} => slips = {} /\ ~(category'[i].initial < taken(i))
    BY <1>1
  <2>3. taken(i) \in Nat /\ (slips = {} => taken(i) >= promised)
    BY <1>2, <1>5, <1>6
  <2>4. CASE slips' = {}
    BY <1>4, <2>1, <2>2, <2>3, <2>4
  <2>5. CASE slips' # {}
    BY <2>1, <2>5
  <2> QED
    BY <2>1, <2>4, <2>5
<1> QED
  BY <1>6, <1>7

(* What an edit reads is a number for each category. *)
LEMMA ReadTakenType ==
  ASSUME EditInv, ReadTaken
  PROVE  /\ DOMAIN editing'.taken = DOMAIN category
         /\ \A i \in DOMAIN category : editing'.taken[i] \in Nat
         /\ community => editing'.taken[1] = category[1].initial - category[1].current
<1>1. PICK p \in Orderings :
        editing' = [step |-> "write", entry |-> editing.entry,
                    taken |-> [i \in DOMAIN category |->
                                 category[p[i]].initial - category[p[i]].current]]
  BY DEF ReadTaken
<1>2. \A i \in DOMAIN category : p[i] \in DOMAIN category
  BY <1>1 DEF Orderings
<1>3. \A i \in DOMAIN category : category[i].initial - category[i].current \in Nat
  <2> TAKE i \in DOMAIN category
  <2>1. category[i].initial \in Nat /\ category[i].current \in 0..category[i].initial
    BY EditAssumption DEF EditInv, EditTypeOK
  <2> QED
    BY <2>1
<1>4. community => DOMAIN category = 1..1
  BY DEF EditInv, EditShape
<1>5. DOMAIN category = 1..1 => 1 \in DOMAIN category /\ p[1] = 1
  BY <1>2
<1> QED
  BY <1>1, <1>2, <1>3, <1>4, <1>5

(* The seats of a sale that is none of category i are not counted there. *)
LEMMA CountsOthers ==
  ASSUME EditTypeOK, NEW s \in Sales, NEW row,
         sale' = [sale EXCEPT ![s] = row]
  PROVE  /\ \A t \in Sales : sale'[t] = IF t = s THEN row ELSE sale[t]
         /\ \A i : ~(row.rows /\ row.status \in HoldsSeat /\ row.at = i)
                     => Selling(i)' = Selling(i) \ {s}
         /\ \A i : (row.rows /\ row.status \in HoldsSeat /\ row.at = i)
                     => Selling(i)' = Selling(i) \cup {s}
<1>1. \A t \in Sales : sale'[t] = IF t = s THEN row ELSE sale[t]
  BY DEF EditTypeOK
<1> QED
  BY <1>1 DEF Selling, HoldsSeat, Lives

(* One seat is taken or returned: the category explains it. *)
LEMMA SeatMoves ==
  ASSUME EditInv, NEW i \in DOMAIN category, NEW n \in Int, Stock(i, n),
         category[i].current + n \in 0..category[i].initial
  PROVE  /\ DOMAIN category' = DOMAIN category
         /\ \A j \in DOMAIN category :
              /\ category'[j].initial = category[j].initial
              /\ category'[j].current = IF j = i THEN category[j].current + n ELSE category[j].current
              /\ category'[j].current \in 0..category'[j].initial
<1>1. \A j \in DOMAIN category : /\ category[j].initial \in Nat
                                 /\ category[j].current \in 0..category[j].initial
  BY EditAssumption DEF EditInv, EditTypeOK
<1>2. category' = [category EXCEPT ![i] = [category[i] EXCEPT !.current = category[i].current + n]]
  BY DEF Stock
<1> QED
  BY <1>1, <1>2

(* Steps that sell, pay, ask or refund change one sale and at most one seat. *)
LEMMA OneSaleMoves ==
  ASSUME EditInv, NEW s \in Sales, NEW row, sale' = [sale EXCEPT ![s] = row],
         row \in [status : {"none", "PENDING", "PAID", "REFUND_REQUESTED", "REFUNDED"},
                  at : 1..2, rows : BOOLEAN],
         UNCHANGED <<community, promised, removed, editing, slips>>,
         DOMAIN category' = DOMAIN category,
         \A j \in DOMAIN category : /\ category'[j].initial = category[j].initial
                                    /\ category'[j].current \in 0..category'[j].initial,
         refunding'.step \in {"idle", "approve", "reject"},
         ~removed => \A j \in DOMAIN category :
           category'[j].current - category[j].current = Cardinality(Selling(j)) - Cardinality(Selling(j)')
  PROVE  EditTypeOK' /\ SeatsBacked'
<1>1. EditTypeOK'
  BY DEF EditInv, EditTypeOK
<1>2. ASSUME ~removed, NEW j \in DOMAIN category
      PROVE  category'[j].current + Cardinality(Selling(j)') + Kept <= category'[j].initial
  <2>1. category[j].current + Cardinality(Selling(j)) + Kept <= category[j].initial
    BY <1>2 DEF EditInv, SeatsBacked, Kept
  <2>2. /\ category[j].initial \in Nat /\ category[j].current \in Nat
        /\ category'[j].current \in Nat /\ Kept \in Nat
    BY CategoryType DEF EditInv
  <2>3. Cardinality(Selling(j)) \in Nat
    BY LiveFinite
  <2>4. Cardinality(Selling(j)') \in Nat
    <3>1. Selling(j)' \in SUBSET Sales
      BY DEF Selling
    <3> QED
      BY <3>1, EditAssumption, FS_Subset, FS_CardinalityType
  <2> QED
    BY <1>2, <2>1, <2>2, <2>3, <2>4
<1> QED
  BY <1>1, <1>2 DEF SeatsBacked, Kept

LEMMA BookNext ==
  ASSUME EditInv, NEW s \in Sales, NEW i \in DOMAIN category, Book(s, i)
  PROVE  EditInv'
<1> DEFINE row == [status |-> "PENDING", at |-> i, rows |-> TRUE]
<1>1. /\ EditTypeOK /\ i \in 1..2 /\ category[i].initial \in Nat
      /\ category[i].current + (-1) \in 0..category[i].initial /\ Stock(i, -1)
  BY CategoryType DEF EditInv, Book
<1>2. /\ DOMAIN category' = DOMAIN category
      /\ \A j \in DOMAIN category :
           /\ category'[j].initial = category[j].initial
           /\ category'[j].current = IF j = i THEN category[j].current + (-1) ELSE category[j].current
           /\ category'[j].current \in 0..category'[j].initial
  BY <1>1, SeatMoves
<1>3. /\ \A t \in Sales : sale'[t] = IF t = s THEN row ELSE sale[t]
      /\ \A j : j # i => Selling(j)' = Selling(j) \ {s}
      /\ Selling(i)' = Selling(i) \cup {s}
  <2>1. /\ row.rows /\ row.status \in HoldsSeat /\ row.at = i /\ sale' = [sale EXCEPT ![s] = row]
    BY DEF Book, HoldsSeat
  <2> HIDE DEF row
  <2> QED
    BY <1>1, <2>1, CountsOthers
<1>4. \A j : s \notin Selling(j)
  BY DEF Selling, Lives, Book, HoldsSeat
<1>5. \A j \in DOMAIN category :
        category'[j].current - category[j].current = Cardinality(Selling(j)) - Cardinality(Selling(j)')
  <2>1. \A j : j # i => Selling(j)' = Selling(j)
    BY <1>3, <1>4
  <2>2. Cardinality(Selling(i)') = Cardinality(Selling(i)) + 1
    BY <1>3, <1>4, LiveFinite, FS_AddElement
  <2>3. \A j \in DOMAIN category : category[j].current \in Nat
    BY CategoryType DEF EditInv
  <2> QED
    BY <1>2, <2>1, <2>2, <2>3, LiveFinite
<1>6. EditTypeOK' /\ SeatsBacked'
  <2>1. /\ sale' = [sale EXCEPT ![s] = row]
        /\ row \in [status : {"none", "PENDING", "PAID", "REFUND_REQUESTED", "REFUNDED"},
                   at : 1..2, rows : BOOLEAN]
        /\ UNCHANGED <<community, promised, removed, editing, slips>>
        /\ refunding'.step \in {"idle", "approve", "reject"}
    BY <1>1 DEF Book, EditTypeOK
  <2> HIDE DEF row
  <2> QED
    BY <1>2, <1>5, <2>1, OneSaleMoves
<1>7. EditShape'
  BY <1>2, <1>3 DEF EditInv, EditShape, Book, Entries
<1> QED
  BY <1>6, <1>7 DEF EditInv

LEMMA SaleRow ==
  ASSUME EditTypeOK, NEW s \in Sales,
         NEW status \in {"none", "PENDING", "PAID", "REFUND_REQUESTED", "REFUNDED"}
  PROVE  /\ [sale[s] EXCEPT !.status = status] \in
              [status : {"none", "PENDING", "PAID", "REFUND_REQUESTED", "REFUNDED"},
               at : 1..2, rows : BOOLEAN]
         /\ [sale[s] EXCEPT !.status = status].status = status
         /\ [sale[s] EXCEPT !.status = status].at = sale[s].at
         /\ [sale[s] EXCEPT !.status = status].rows = sale[s].rows
         /\ Becomes(s, status) => sale' = [sale EXCEPT ![s] = [sale[s] EXCEPT !.status = status]]
<1>1. sale[s] \in [status : {"none", "PENDING", "PAID", "REFUND_REQUESTED", "REFUNDED"},
                   at : 1..2, rows : BOOLEAN]
  BY DEF EditTypeOK
<1> QED
  BY <1>1 DEF Becomes

(* A sale that is paid, asked to be refunded or refused it keeps its seat. *)
LEMMA StatusMoves ==
  ASSUME EditInv, NEW s \in Sales, NEW status \in HoldsSeat,
         sale[s].status \in HoldsSeat, Becomes(s, status),
         UNCHANGED <<category, community, promised, removed, editing, slips>>,
         refunding'.step \in {"idle", "approve", "reject"}
  PROVE  EditTypeOK' /\ SeatsBacked' /\ sale'[s].status = status
<1> DEFINE row == [sale[s] EXCEPT !.status = status]
<1>1. /\ row \in [status : {"none", "PENDING", "PAID", "REFUND_REQUESTED", "REFUNDED"},
                  at : 1..2, rows : BOOLEAN]
      /\ row.status = status /\ row.at = sale[s].at /\ row.rows = sale[s].rows
      /\ sale' = [sale EXCEPT ![s] = row]
  <2>1. EditTypeOK /\ status \in {"none", "PENDING", "PAID", "REFUND_REQUESTED", "REFUNDED"}
    BY DEF EditInv, HoldsSeat
  <2> QED
    BY <2>1, SaleRow
<1> HIDE DEF row
<1>2. \A t \in Sales : sale'[t] = IF t = s THEN row ELSE sale[t]
  BY <1>1, CountsOthers DEF EditInv
<1>3. \A i : Selling(i)' = Selling(i)
  BY <1>1, <1>2 DEF Selling, HoldsSeat, Lives
<1>4. \A j \in DOMAIN category :
        /\ category'[j].current \in 0..category'[j].initial
        /\ category'[j].current - category[j].current = 0
  BY CategoryType DEF EditInv
<1>5. \A j : Cardinality(Selling(j)) - Cardinality(Selling(j)') = 0
  BY <1>3, LiveFinite
<1>6. EditTypeOK' /\ SeatsBacked'
  BY <1>1, <1>4, <1>5, OneSaleMoves
<1> QED
  BY <1>1, <1>2, <1>6

(* A sale that is given up, or refunded while its row is there, returns it. *)
LEMMA ReturnMoves ==
  ASSUME EditInv, NEW s \in Sales, Lives(s, HoldsSeat), Stock(sale[s].at, 1),
         NEW row \in [status : {"none", "PENDING", "PAID", "REFUND_REQUESTED", "REFUNDED"},
                      at : 1..2, rows : BOOLEAN],
         row.status \notin HoldsSeat, sale' = [sale EXCEPT ![s] = row],
         UNCHANGED <<community, promised, removed, editing, slips>>,
         refunding'.step \in {"idle", "approve", "reject"}
  PROVE  EditTypeOK' /\ SeatsBacked' /\ DOMAIN category' = DOMAIN category
<1>3. PICK i : i = sale[s].at
  OBVIOUS
<1>1. i \in DOMAIN category /\ category[i].current + 1 \in 0..category[i].initial
  BY <1>3, RoomToReturn
<1>2. Stock(i, 1)
  BY <1>3
<1>4. /\ DOMAIN category' = DOMAIN category
      /\ \A j \in DOMAIN category :
           /\ category'[j].initial = category[j].initial
           /\ category'[j].current = IF j = i THEN category[j].current + 1 ELSE category[j].current
           /\ category'[j].current \in 0..category'[j].initial
  BY <1>1, <1>2, SeatMoves
<1>5. \A j : Selling(j)' = Selling(j) \ {s}
  BY CountsOthers DEF EditInv
<1>6. \A j : s \in Selling(j) <=> j = i
  BY <1>3 DEF Selling, HoldsSeat, Lives
<1>7. \A j \in DOMAIN category :
        category'[j].current - category[j].current = Cardinality(Selling(j)) - Cardinality(Selling(j)')
  <2>1. \A j : j # i => Selling(j)' = Selling(j)
    BY <1>5, <1>6
  <2>2. Cardinality(Selling(i)') = Cardinality(Selling(i)) - 1
    BY <1>5, <1>6, LiveFinite, FS_RemoveElement
  <2>3. \A j \in DOMAIN category : category[j].current \in Nat
    BY CategoryType DEF EditInv
  <2> QED
    BY <1>4, <2>1, <2>2, <2>3, LiveFinite
<1>8. EditTypeOK' /\ SeatsBacked'
  BY <1>4, <1>7, OneSaleMoves
<1> QED
  BY <1>4, <1>8

LEMMA UnbookNext ==
  ASSUME EditInv, NEW s \in Sales, Unbook(s)
  PROVE  EditInv'
<1>1. /\ Lives(s, HoldsSeat) /\ Stock(sale[s].at, 1) /\ sale' = [sale EXCEPT ![s] = NotSold]
      /\ NotSold \in [status : {"none", "PENDING", "PAID", "REFUND_REQUESTED", "REFUNDED"},
                      at : 1..2, rows : BOOLEAN]
      /\ NotSold.status \notin HoldsSeat
      /\ UNCHANGED <<community, promised, removed, editing, slips>>
      /\ refunding' = refunding /\ sale[s].status = "PENDING"
      /\ refunding'.step \in {"idle", "approve", "reject"}
  BY DEF Unbook, Lives, HoldsSeat, NotSold, EditInv, EditTypeOK
<1>2. EditTypeOK' /\ SeatsBacked' /\ DOMAIN category' = DOMAIN category
  BY <1>1, ReturnMoves
<1>3. \A t \in Sales : sale'[t] = IF t = s THEN NotSold ELSE sale[t]
  BY <1>1 DEF EditInv, EditTypeOK
<1>4. EditShape'
  BY <1>1, <1>2, <1>3 DEF EditInv, EditShape, NotSold, Entries
<1> QED
  BY <1>2, <1>4 DEF EditInv

(* Paying, asking for a refund, answering, and refusing it. *)
LEMMA PayAskAnswerNext ==
  ASSUME EditInv, NEW s \in Sales,
         \/ PaySale(s) \/ AskRefund(s)
         \/ \E answer \in {"approve", "reject"} : AnswerRefund(s, answer)
  PROVE  EditInv'
<1>1. ASSUME NEW status \in {"PAID", "REFUND_REQUESTED"}, Becomes(s, status),
             sale[s].status \in {"PENDING", "PAID"},
             UNCHANGED <<category, community, promised, removed, editing, refunding, slips>>
      PROVE  EditInv'
  <2>1. EditTypeOK' /\ SeatsBacked' /\ sale'[s].status = status
    BY <1>1, StatusMoves DEF HoldsSeat, EditInv, EditTypeOK
  <2>2. /\ sale'[s].rows = sale[s].rows /\ sale'[s].at = sale[s].at
        /\ \A t \in Sales \ {s} : sale'[t] = sale[t]
    BY <1>1 DEF Becomes, EditInv, EditTypeOK
  <2>3. EditShape'
    BY <1>1, <2>1, <2>2 DEF EditInv, EditShape, NotSold, Entries
  <2> QED
    BY <2>1, <2>3 DEF EditInv
<1>2. CASE PaySale(s) \/ AskRefund(s)
  BY <1>1, <1>2 DEF PaySale, AskRefund, Lives
<1>3. ASSUME NEW answer \in {"approve", "reject"}, AnswerRefund(s, answer) PROVE EditInv'
  <2>1. EditTypeOK'
    BY <1>3 DEF AnswerRefund, saleTables, EditInv, EditTypeOK
  <2>2. SeatsBacked'
    BY <1>3 DEF AnswerRefund, saleTables, EditInv, SeatsBacked, Selling, Lives
  <2>3. EditShape'
    BY <1>3 DEF AnswerRefund, saleTables, EditInv, EditShape, Entries, Lives
  <2> QED
    BY <2>1, <2>2, <2>3 DEF EditInv
<1> QED
  BY <1>2, <1>3

LEMMA ApproveNext ==
  ASSUME EditInv, Approve
  PROVE  EditInv'
<1> DEFINE s == refunding.sale
           row == [sale[s] EXCEPT !.status = "REFUNDED"]
<1>1. /\ s \in Sales /\ sale[s].status = "REFUND_REQUESTED" /\ refunding' = Idle
      /\ UNCHANGED <<community, promised, removed, editing, slips>>
  BY DEF Approve, EditInv, EditShape, Idle
<1>2. CASE sale[s].rows
  <2>1. PICK t \in Sales : t = s
    BY <1>1
  <2>2. PICK new : new = row
    OBVIOUS
  <2>3. Stock(sale[t].at, 1) /\ Becomes(t, "REFUNDED") /\ Lives(t, HoldsSeat)
    BY <1>1, <1>2, <2>1 DEF Approve, Lives, HoldsSeat
  <2>4. /\ new \in [status : {"none", "PENDING", "PAID", "REFUND_REQUESTED", "REFUNDED"},
                    at : 1..2, rows : BOOLEAN]
        /\ new.status = "REFUNDED" /\ new.at = sale[t].at /\ new.rows = sale[t].rows
        /\ sale' = [sale EXCEPT ![t] = new]
    BY <2>1, <2>2, <2>3, SaleRow DEF EditInv
  <2>5. new.status \notin HoldsSeat /\ refunding'.step \in {"idle", "approve", "reject"}
    BY <1>1, <2>4 DEF HoldsSeat, Idle
  <2>6. EditTypeOK' /\ SeatsBacked' /\ DOMAIN category' = DOMAIN category
    BY <1>1, <2>3, <2>4, <2>5, ReturnMoves
  <2>7. \A u \in Sales : sale'[u] = IF u = t THEN new ELSE sale[u]
    BY <2>4 DEF EditInv, EditTypeOK
  <2>8. ~removed /\ sale[t].at \in DOMAIN category
    BY <2>3, RoomToReturn
  <2>9. EditShape'
    BY <1>1, <2>4, <2>6, <2>7, <2>8 DEF EditInv, EditShape, Entries, Idle
  <2> QED
    BY <2>6, <2>9 DEF EditInv
<1>3. CASE ~sale[s].rows
  <2>1. category' = category /\ sale' = sale
    BY <1>3 DEF Approve
  <2>2. EditTypeOK'
    BY <1>1, <2>1 DEF EditInv, EditTypeOK, Idle
  <2>3. SeatsBacked' /\ EditShape'
    BY <1>1, <2>1 DEF EditInv, SeatsBacked, Selling, Lives, EditShape, Entries
  <2> QED
    BY <2>2, <2>3 DEF EditInv
<1> QED
  BY <1>1, <1>2, <1>3 DEF EditInv, EditTypeOK

LEMMA RejectNext ==
  ASSUME EditInv, Reject
  PROVE  EditInv'
<1>1. PICK s \in Sales : s = refunding.sale
  BY DEF Reject, EditInv, EditShape, Idle
<1>2. /\ sale[s].status = "REFUND_REQUESTED" /\ Becomes(s, "PAID") /\ refunding' = Idle
      /\ UNCHANGED <<category, community, promised, removed, editing, slips>>
  BY <1>1 DEF Reject, EditInv, EditShape, Idle
<1>3. EditTypeOK' /\ SeatsBacked' /\ sale'[s].status = "PAID"
  BY <1>2, StatusMoves DEF HoldsSeat, Idle
<1>4. /\ sale'[s].rows = sale[s].rows /\ sale'[s].at = sale[s].at
      /\ \A t \in Sales \ {s} : sale'[t] = sale[t]
  BY <1>2 DEF Becomes, EditInv, EditTypeOK
<1>5. EditShape'
  BY <1>2, <1>3, <1>4 DEF EditInv, EditShape, NotSold, Entries
<1> QED
  BY <1>3, <1>5 DEF EditInv

LEMMA PromiseNext ==
  ASSUME EditInv, Promise
  PROVE  EditInv'
<1>1. /\ ~removed /\ community /\ DOMAIN category = 1..1 /\ 1 \in DOMAIN category
      /\ category[1].current > 0 /\ Stock(1, -1) /\ promised' = promised + 1
      /\ UNCHANGED <<sale, community, removed, editing, refunding>>
  BY DEF Promise, EditInv, EditShape
<1>2. category[1].current + (-1) \in 0..category[1].initial
  BY <1>1, CategoryType DEF EditInv
<1>3. /\ DOMAIN category' = DOMAIN category
      /\ category'[1].initial = category[1].initial
      /\ category'[1].current = category[1].current + (-1)
      /\ category'[1].current \in 0..category'[1].initial
  BY <1>1, <1>2, SeatMoves
<1>4. EditTypeOK'
  <2>1. promised' \in Nat
    BY <1>1 DEF EditInv, EditTypeOK
  <2>2. slips' \subseteq {"rushed", "clipped"}
    BY DEF Promise, EditInv, EditTypeOK
  <2>3. \A i \in DOMAIN category' : /\ category'[i].initial \in Stocks
                                    /\ category'[i].current \in 0..category'[i].initial
    BY <1>1, <1>3 DEF EditInv, EditTypeOK
  <2> QED
    BY <1>1, <1>3, <2>1, <2>2, <2>3 DEF EditInv, EditTypeOK
<1>5. SeatsBacked'
  <2>1. \A i : Selling(i)' = Selling(i)
    BY <1>1 DEF Selling, Lives
  <2>2. category[1].current + Cardinality(Selling(1)) + Kept <= category[1].initial
    BY <1>1 DEF EditInv, SeatsBacked, Kept
  <2>3. PICK seats : seats = Cardinality(Selling(1))
    OBVIOUS
  <2>4. /\ category[1].initial \in Nat /\ category[1].current \in Nat
        /\ Kept \in Nat /\ promised \in Nat /\ seats \in Nat
    BY <1>1, <2>3, CategoryType, LiveFinite DEF EditInv
  <2>5. (IF slips' = {} THEN promised' ELSE 0) <= Kept + 1
    <3>1. slips' = {} => slips = {}
      BY DEF Promise
    <3> QED
      BY <1>1, <2>4, <3>1 DEF Kept
  <2>6. category'[1].current + seats + (IF slips' = {} THEN promised' ELSE 0) <= category'[1].initial
    <3>1. PICK kept : kept = (IF slips' = {} THEN promised' ELSE 0)
      OBVIOUS
    <3>2. kept \in Nat
      BY <1>1, <2>4, <3>1
    <3> QED
      BY <1>3, <2>2, <2>3, <2>4, <2>5, <3>1, <3>2
  <2>7. \A i \in DOMAIN category' : i = 1
    BY <1>1, <1>3
  <2> QED
    BY <2>1, <2>3, <2>6, <2>7 DEF SeatsBacked
<1>6. EditShape'
  BY <1>1, <1>3 DEF EditInv, EditShape, Entries
<1> QED
  BY <1>4, <1>5, <1>6 DEF EditInv

(* The queries of an edit that only read. *)
LEMMA ReadsNext ==
  ASSUME EditInv, (\E e \in Entries : CountPaidTickets(e)) \/ ReadTaken
  PROVE  EditInv'
<1>1. UNCHANGED <<category, sale, community, promised, removed, refunding, slips>>
  BY DEF CountPaidTickets, ReadTaken, saleTables
<1>2. SeatsBacked'
  BY <1>1 DEF EditInv, SeatsBacked, Selling, Lives
<1>3. CASE \E e \in Entries : CountPaidTickets(e)
  <2>1. PICK e \in Entries : editing' = [step |-> "taken", entry |-> e]
    BY <1>3 DEF CountPaidTickets
  <2>2. EditTypeOK' /\ EditShape'
    BY <1>1, <2>1 DEF EditInv, EditTypeOK, EditShape, Entries
  <2> QED
    BY <1>2, <2>2 DEF EditInv
<1>4. CASE ReadTaken
  <2>1. /\ DOMAIN editing'.taken = DOMAIN category
        /\ \A i \in DOMAIN category : editing'.taken[i] \in Nat
    BY <1>4, ReadTakenType
  <2>2. editing.entry \in Entries
    BY <1>4 DEF ReadTaken, EditInv, EditShape, Idle
  <2>3. editing'.step = "write" /\ editing'.entry = editing.entry
    BY <1>4 DEF ReadTaken
  <2>4. EditTypeOK'
    BY <1>1, <2>3 DEF EditInv, EditTypeOK
  <2>5. EditShape'
    BY <1>1, <2>1, <2>2, <2>3 DEF EditInv, EditShape, Entries
  <2> QED
    BY <1>2, <2>4, <2>5 DEF EditInv
<1> QED
  BY <1>3, <1>4

(* An edit, or a removal, deletes the rows of all sales. *)
LEMMA RowsDeleted ==
  ASSUME EditInv, sale' = [s \in Sales |-> WithoutRows(s)]
  PROVE  /\ sale' \in [Sales -> [status : {"none", "PENDING", "PAID", "REFUND_REQUESTED", "REFUNDED"},
                                 at : 1..2, rows : BOOLEAN]]
         /\ \A s \in Sales : /\ ~sale'[s].rows
                             /\ sale[s].status = "REFUND_REQUESTED" => sale'[s].status = sale[s].status
<1>1. \A s \in Sales : sale[s] \in [status : {"none", "PENDING", "PAID", "REFUND_REQUESTED", "REFUNDED"},
                                    at : 1..2, rows : BOOLEAN]
  BY DEF EditInv, EditTypeOK
<1> SUFFICES ASSUME NEW s \in Sales
             PROVE  /\ sale'[s] \in [status : {"none", "PENDING", "PAID", "REFUND_REQUESTED", "REFUNDED"},
                                     at : 1..2, rows : BOOLEAN]
                    /\ ~sale'[s].rows
                    /\ sale[s].status = "REFUND_REQUESTED" => sale'[s].status = sale[s].status
  BY <1>1
<1>2. CASE sale[s].status = "PENDING"
  <2>1. sale'[s] = NotSold
    BY <1>2 DEF WithoutRows
  <2>2. /\ NotSold \in [status : {"none", "PENDING", "PAID", "REFUND_REQUESTED", "REFUNDED"},
                        at : 1..2, rows : BOOLEAN]
        /\ NotSold.status = "none" /\ NotSold.rows = FALSE
    BY DEF NotSold
  <2> QED
    BY <1>2, <2>1, <2>2
<1>3. CASE sale[s].status # "PENDING"
  <2>1. sale'[s] = [sale[s] EXCEPT !.rows = FALSE, !.at = 1]
    BY <1>3 DEF WithoutRows
  <2>2. sale'[s] = [status |-> sale[s].status, at |-> 1, rows |-> FALSE]
    BY <1>1, <2>1
  <2>3. /\ sale'[s] \in [status : {"none", "PENDING", "PAID", "REFUND_REQUESTED", "REFUNDED"},
                        at : 1..2, rows : BOOLEAN]
        /\ sale'[s].status = sale[s].status /\ ~sale'[s].rows
    <3>1. PICK status \in {"none", "PENDING", "PAID", "REFUND_REQUESTED", "REFUNDED"} : status = sale[s].status
      BY <1>1
    <3>2. PICK row : row = [status |-> status, at |-> 1, rows |-> FALSE]
      OBVIOUS
    <3>3. /\ row \in [status : {"none", "PENDING", "PAID", "REFUND_REQUESTED", "REFUNDED"},
                      at : 1..2, rows : BOOLEAN]
          /\ row.status = status /\ ~row.rows
      BY <3>2
    <3>4. sale'[s] = row
      BY <2>2, <3>1, <3>2
    <3> QED
      BY <3>1, <3>3, <3>4
  <2> QED
    BY <2>3
<1> QED
  BY <1>2, <1>3

LEMMA WriteNext ==
  ASSUME EditInv, TakenCoversPromised, WriteCategories
  PROVE  EditInv'
<1>1. /\ sale' = [s \in Sales |-> WithoutRows(s)] /\ editing' = Idle /\ ~removed
      /\ UNCHANGED <<community, promised, removed, refunding>>
      /\ slips' \subseteq {"rushed", "clipped"}
  BY DEF WriteCategories, EditInv, EditTypeOK
<1>2. /\ sale' \in [Sales -> [status : {"none", "PENDING", "PAID", "REFUND_REQUESTED", "REFUNDED"},
                              at : 1..2, rows : BOOLEAN]]
      /\ \A s \in Sales : /\ ~sale'[s].rows
                          /\ sale[s].status = "REFUND_REQUESTED" => sale'[s].status = sale[s].status
  BY <1>1, RowsDeleted
<1>3. /\ DOMAIN category' \in {1..1, 1..2}
      /\ community => DOMAIN category' = 1..1
      /\ \A i \in DOMAIN category' :
           /\ category'[i].initial \in Stocks
           /\ category'[i].initial \in Nat
           /\ category'[i].current \in 0..category'[i].initial
           /\ category'[i].current + (IF slips' = {} THEN promised ELSE 0) <= category'[i].initial
  BY WrittenCategories
<1>4. EditTypeOK'
  BY <1>1, <1>2, <1>3 DEF EditInv, EditTypeOK, Idle
<1>5. SeatsBacked'
  <2>1. ASSUME NEW i \in DOMAIN category'
        PROVE  category'[i].current + Cardinality(Selling(i)') + (IF slips' = {} THEN promised' ELSE 0)
                 <= category'[i].initial
    <3>1. Selling(i)' = {}
      BY <1>2 DEF Selling, Lives
    <3>2. Cardinality(Selling(i)') = 0
      BY <3>1, FS_EmptySet
    <3>3. category'[i].current \in Nat /\ promised' = promised
      BY <1>1, <1>3
    <3> QED
      BY <1>3, <3>2, <3>3
  <2> QED
    BY <2>1 DEF SeatsBacked
<1>6. EditShape'
  <2>1. \/ refunding' = Idle
        \/ /\ refunding'.step \in {"approve", "reject"}
           /\ refunding'.sale \in Sales
           /\ sale'[refunding'.sale].status = "REFUND_REQUESTED"
    BY <1>1, <1>2 DEF EditInv, EditShape
  <2> QED
    BY <1>1, <1>2, <1>3, <2>1 DEF EditInv, EditShape
<1> QED
  BY <1>4, <1>5, <1>6 DEF EditInv

LEMMA RemoveNext ==
  ASSUME EditInv, RemoveEvent
  PROVE  EditInv'
<1>1. /\ sale' = [s \in Sales |-> WithoutRows(s)] /\ removed' = TRUE
      /\ UNCHANGED <<category, community, promised, editing, refunding, slips>>
  BY DEF RemoveEvent, EditInv, EditTypeOK
<1>2. /\ sale' \in [Sales -> [status : {"none", "PENDING", "PAID", "REFUND_REQUESTED", "REFUNDED"},
                              at : 1..2, rows : BOOLEAN]]
      /\ \A s \in Sales : /\ ~sale'[s].rows
                          /\ sale[s].status = "REFUND_REQUESTED" => sale'[s].status = sale[s].status
  BY <1>1, RowsDeleted
<1>3. EditTypeOK'
  BY <1>1, <1>2 DEF EditInv, EditTypeOK
<1>4. SeatsBacked'
  BY <1>1 DEF SeatsBacked
<1>5. EditShape'
  BY <1>1, <1>2 DEF EditInv, EditShape, Entries
<1> QED
  BY <1>3, <1>4, <1>5 DEF EditInv

LEMMA EditInvNext == EditInv /\ TakenCoversPromised /\ [EditNext]_editVars => EditInv'
<1> SUFFICES ASSUME EditInv, TakenCoversPromised, [EditNext]_editVars PROVE EditInv'
  OBVIOUS
<1>1. CASE UNCHANGED editVars
  <2>1. UNCHANGED <<category, sale, community, promised, removed, editing, refunding, slips>>
    BY <1>1 DEF editVars, saleTables
  <2>2. EditTypeOK'
    BY <2>1 DEF EditInv, EditTypeOK
  <2>3. SeatsBacked' /\ EditShape'
    BY <2>1 DEF EditInv, SeatsBacked, Selling, EditShape, Lives, Entries
  <2> QED
    BY <2>2, <2>3 DEF EditInv
<1>2. ASSUME NEW s \in Sales,
             \/ \E i \in DOMAIN category : Book(s, i)
             \/ Unbook(s) \/ PaySale(s) \/ AskRefund(s)
             \/ \E answer \in {"approve", "reject"} : AnswerRefund(s, answer)
      PROVE  EditInv'
  BY <1>2, BookNext, UnbookNext, PayAskAnswerNext
<1>3. CASE Approve \/ Reject \/ Promise \/ WriteCategories \/ RemoveEvent
  BY <1>3, ApproveNext, RejectNext, PromiseNext, WriteNext, RemoveNext
<1>4. CASE (\E e \in Entries : CountPaidTickets(e)) \/ ReadTaken
  BY <1>4, ReadsNext
<1> QED
  BY <1>1, <1>2, <1>3, <1>4 DEF EditNext

(* What an edit reads covers the promises, and none is made before it       *)
(* writes without being told apart.                                         *)
LEMMA TakenNext ==
  ASSUME EditInv, TakenCoversPromised, [EditNext]_editVars
  PROVE  TakenCoversPromised'
<1>1. ASSUME editing'.step # "write" PROVE TakenCoversPromised'
  BY <1>1 DEF TakenCoversPromised
<1>2. ASSUME UNCHANGED <<community, promised, removed, editing, slips>> PROVE TakenCoversPromised'
  BY <1>2 DEF TakenCoversPromised
<1>3. CASE Promise
  <2>1. editing' = editing /\ (editing # Idle => slips' # {})
    BY <1>3 DEF Promise
  <2> QED
    BY <2>1 DEF TakenCoversPromised, Idle
<1>4. CASE ReadTaken
  <2>1. UNCHANGED <<category, community, promised, removed, slips>>
    BY <1>4 DEF ReadTaken, saleTables
  <2>2. /\ DOMAIN editing'.taken = DOMAIN category
        /\ community => editing'.taken[1] = category[1].initial - category[1].current
    BY <1>4, ReadTakenType
  <2>3. ASSUME community, ~removed, slips = {}
        PROVE  DOMAIN editing'.taken = 1..1 /\ editing'.taken[1] >= promised
    <3>1. DOMAIN category = 1..1 /\ 1 \in DOMAIN category
      BY <2>3 DEF EditInv, EditShape
    <3>2. category[1].current + Cardinality(Selling(1)) + promised <= category[1].initial
      BY <2>3, <3>1 DEF EditInv, SeatsBacked
    <3>3. PICK seats \in Nat : seats = Cardinality(Selling(1))
      BY LiveFinite
    <3>4. category[1].initial \in Nat /\ category[1].current \in Nat /\ promised \in Nat
      BY <3>1, CategoryType DEF EditInv
    <3>5. category[1].initial - category[1].current >= promised
      BY <3>2, <3>3, <3>4
    <3> QED
      BY <2>2, <2>3, <3>1, <3>5
  <2> QED
    BY <2>1, <2>3 DEF TakenCoversPromised
<1>5. CASE (\E e \in Entries : CountPaidTickets(e)) \/ WriteCategories
  BY <1>1, <1>5 DEF CountPaidTickets, WriteCategories, Idle
<1>6. CASE RemoveEvent
  BY <1>6 DEF RemoveEvent, TakenCoversPromised
<1> QED
  BY <1>2, <1>3, <1>4, <1>5, <1>6
  DEF EditNext, editVars, saleTables, Book, Unbook, PaySale, AskRefund, AnswerRefund, Approve, Reject

(* Every variable of an event that is edited has its type. *)
THEOREM EditTypeCorrect == EditSpec => []EditTypeOK
<1>1. EditInv => EditTypeOK
  BY DEF EditInv
<1> QED
  BY <1>1, EditInitInv, EditInvNext, TakenNext, PTL DEF EditSpec

(* No seat and no accepted place of an event that is edited is sold twice,  *)
(* for any number of sales, edits and answers to refunds.                   *)
THEOREM EditsBackSeats == EditSpec => []SeatsBacked
<1>1. EditInv => SeatsBacked
  BY DEF EditInv
<1> QED
  BY <1>1, EditInitInv, EditInvNext, TakenNext, PTL DEF EditSpec
-------------------------------------------------------------------------------
(* PromoCheckout: what the confirmations in flight have in hand.            *)

Using == {x \in TillsAt({"order", "count"}) : till[x[1]][x[2]].promo}

TillState == {Idle} \cup [step : {"confirm", "count"}, promo : BOOLEAN]
                    \cup [step : {"order"}, promo : BOOLEAN, total : 0..Price]

(* Stripe's two confirmations come after the charge, the free one is of a   *)
(* page that waits for it, and none writes its order twice.                 *)
TillsInHand ==
  /\ \A b \in Baskets : charge[b] = 0 => till[b]["return"] = Idle /\ till[b]["webhook"] = Idle
  /\ \A b \in Baskets : till[b]["free"] # Idle => page[b].at = "free"
  /\ \A b \in Baskets, t \in Tills : till[b][t].step = "count" => till[b][t].promo
  /\ \A b \in Baskets, t \in Tills :
       till[b][t].step = "order" => \A o \in bought[b] : o.by # t

(* Until two overlap, at most one confirmation has the code in hand, and it *)
(* has found a use left.                                                    *)
UseInHand ==
  ~unsold.overlap => /\ \A x, y \in Using : x = y
                     /\ Using # {} => promo.uses < MaxUses

PageState == [at : {"opening", "shown", "applying", "free", "away"},
              intent : 0..Price, promo : BOOLEAN]

(* Nor are more uses counted than there are. *)
CountWithinLimit == ~unsold.overlap => promo.uses <= MaxUses

PromoInv == /\ PromoTypeOK /\ TillsInHand /\ UseInHand /\ UsesAreOrders
            /\ IsFiniteSet(OrdersWithPromo) /\ CountWithinLimit

(* What a booking costs is at most its price. *)
LEMMA TotalType ==
  ASSUME promo.discount \in Discounts, NEW w \in BOOLEAN
  PROVE  Total(w) \in 0..Price
<1>1. Price \in Nat
  BY PromoAssumption
<1>2. CASE ~w
  BY <1>1, <1>2 DEF Total
<1>3. CASE w
  <2>1. PICK v : v = promo.discount.value
    OBVIOUS
  <2>2. CASE promo.discount.type = "PERCENTAGE"
    <3>1. v \in 1..100
      BY <2>1, <2>2, PromoAssumption
    <3>2. PICK x : x = Price * (100 - v)
      OBVIOUS
    <3>3. x \in Nat /\ x <= 99 * Price
      <4>1. PICK y : y = Price * v
        OBVIOUS
      <4>2. x = 100 * Price - y
        BY <1>1, <3>1, <3>2, <4>1
      <4>3. y \in Nat /\ Price <= y /\ y <= 100 * Price
        BY <1>1, <3>1, <4>1
      <4> QED
        BY <1>1, <4>2, <4>3
    <3>4. Rounded(x, 100) \in 0..Price
      BY <1>1, <3>3 DEF Rounded
    <3> QED
      BY <1>3, <2>1, <2>2, <3>2, <3>4 DEF Total, FinalAmount
  <2>3. CASE promo.discount.type # "PERCENTAGE"
    <3>1. v \in Nat
      BY <2>1, <2>3, PromoAssumption
    <3> QED
      BY <1>1, <1>3, <2>1, <2>3, <3>1 DEF Total, FinalAmount
  <2> QED
    BY <2>2, <2>3
<1> QED
  BY <1>2, <1>3

LEMMA TillsFinite ==
  \A steps : /\ IsFiniteSet(TillsAt(steps))
             /\ Cardinality(TillsAt(steps)) \in Nat
<1> TAKE steps
<1>1. IsFiniteSet(Tills)
  <2>1. IsFiniteSet({}) /\ Tills = (({} \cup {"free"}) \cup {"return"}) \cup {"webhook"}
    BY FS_EmptySet DEF Tills
  <2>2. IsFiniteSet({} \cup {"free"})
    BY <2>1, FS_AddElement
  <2>3. IsFiniteSet(({} \cup {"free"}) \cup {"return"})
    BY <2>2, FS_AddElement
  <2> QED
    BY <2>1, <2>3, FS_AddElement
<1>2. IsFiniteSet(Baskets \X Tills)
  BY <1>1, PromoAssumption, FS_Product
<1>3. TillsAt(steps) \in SUBSET (Baskets \X Tills)
  BY DEF TillsAt
<1> QED
  BY <1>2, <1>3, FS_Subset, FS_CardinalityType

LEMMA PromoInitInv == PromoInit => PromoInv
<1> SUFFICES ASSUME PromoInit PROVE PromoInv
  OBVIOUS
<1>1. PromoTypeOK
  <2>1. promo \in [discount : Discounts, active : BOOLEAN, uses : Nat]
    <3>1. PICK d \in Discounts : promo = [discount |-> d, active |-> TRUE, uses |-> 0]
      BY DEF PromoInit
    <3> QED
      BY <3>1
  <2>2. page \in [Baskets -> [at : {"opening", "shown", "applying", "free", "away"},
                             intent : 0..Price, promo : BOOLEAN]]
    BY PromoAssumption DEF PromoInit
  <2>3. charge \in [Baskets -> 0..Price] /\ unsold \in [lost : Nat, overlap : BOOLEAN]
    BY PromoAssumption DEF PromoInit
  <2>4. bought \in [Baskets -> SUBSET [by : Tills, total : 0..Price, promo : BOOLEAN]]
    BY DEF PromoInit
  <2>5. till \in [Baskets -> [Tills -> TillState]]
    BY DEF PromoInit, TillState
  <2> QED
    BY <2>1, <2>2, <2>3, <2>4, <2>5 DEF PromoTypeOK, TillState
<1>2. TillsInHand
  BY DEF PromoInit, TillsInHand, Idle, Tills
<1>3. \A x \in Baskets \X Tills : till[x[1]][x[2]].step = "idle"
  BY DEF PromoInit, Idle
<1>4. TillsAt({"order", "count"}) = {} /\ TillsAt({"count"}) = {} /\ Using = {}
  BY <1>3 DEF TillsAt, Using
<1>5. OrdersWithPromo = {}
  BY DEF PromoInit, OrdersWithPromo
<1>6. promo.uses = 0 /\ unsold.lost = 0 /\ MaxUses \in Nat \ {0}
  BY PromoAssumption DEF PromoInit
<1>7. UseInHand /\ CountWithinLimit
  BY <1>4, <1>6 DEF UseInHand, CountWithinLimit
<1>8. UsesAreOrders /\ IsFiniteSet(OrdersWithPromo)
  <2>1. Cardinality(TillsAt({"count"})) = 0 /\ Cardinality(OrdersWithPromo) = 0
    BY <1>4, <1>5, FS_EmptySet
  <2> QED
    BY <1>5, <1>6, <2>1, FS_EmptySet DEF UsesAreOrders
<1> QED
  BY <1>1, <1>2, <1>7, <1>8 DEF PromoInv

LEMMA PromoTypeSays ==
  PromoTypeOK <=>
    /\ promo \in [discount : Discounts, active : BOOLEAN, uses : Nat]
    /\ page \in [Baskets -> PageState]
    /\ charge \in [Baskets -> 0..Price]
    /\ bought \in [Baskets -> SUBSET [by : Tills, total : 0..Price, promo : BOOLEAN]]
    /\ till \in [Baskets -> [Tills -> TillState]]
    /\ unsold \in [lost : Nat, overlap : BOOLEAN]
BY Zenon DEF PromoTypeOK, PageState, TillState

LEMMA AtTillSays ==
  ASSUME till \in [Baskets -> [Tills -> TillState]], NEW b \in Baskets, NEW t \in Tills,
         NEW state \in TillState, AtTill(b, t, state)
  PROVE  /\ till' \in [Baskets -> [Tills -> TillState]]
         /\ \A c \in Baskets, u \in Tills :
              till'[c][u] = IF c = b /\ u = t THEN state ELSE till[c][u]
BY DEF AtTill

LEMMA PageSays ==
  ASSUME page \in [Baskets -> PageState], NEW b \in Baskets,
         NEW state \in PageState, Page(b, state)
  PROVE  /\ page' \in [Baskets -> PageState]
         /\ \A c \in Baskets : page'[c] = IF c = b THEN state ELSE page[c]
BY DEF Page

(* Steps that put no code in hand, count none and write no order.           *)
LEMMA UsesKept ==
  ASSUME PromoInv,
         \A c \in Baskets, u \in Tills :
           \/ till'[c][u] = till[c][u]
           \/ /\ till[c][u].step \notin {"order", "count"}
              /\ till'[c][u].step \notin {"order", "count"},
         UNCHANGED <<bought, unsold>>, promo'.uses = promo.uses
  PROVE  UseInHand' /\ UsesAreOrders' /\ IsFiniteSet(OrdersWithPromo)' /\ CountWithinLimit'
<1>1. TillsAt({"count"})' = TillsAt({"count"})
  BY DEF TillsAt
<1>2. Using' = Using
  BY DEF Using, TillsAt
<1>3. OrdersWithPromo' = OrdersWithPromo
  BY DEF OrdersWithPromo
<1>4. UseInHand' /\ CountWithinLimit'
  BY <1>2 DEF PromoInv, UseInHand, CountWithinLimit
<1>5. UsesAreOrders'
  <2>1. promo.uses + Cardinality(TillsAt({"count"})) + unsold.lost = Cardinality(OrdersWithPromo)
    BY DEF PromoInv, UsesAreOrders
  <2>2. promo'.uses + Cardinality(TillsAt({"count"})') + unsold'.lost = Cardinality(OrdersWithPromo')
    BY <1>1, <1>3, <2>1
  <2> QED
    BY <2>2 DEF UsesAreOrders
<1> QED
  BY <1>3, <1>4, <1>5 DEF PromoInv

(* What the page does: open, apply and remove the code, and pay.            *)
LEMMA PageNext ==
  ASSUME PromoInv, NEW b \in Baskets,
         OpenCheckout(b) \/ ApplyPromo(b) \/ ReinitiatePayment(b) \/ RemovePromo(b) \/ PayIntent(b)
  PROVE  PromoInv'
<1>1. /\ promo \in [discount : Discounts, active : BOOLEAN, uses : Nat]
      /\ page \in [Baskets -> PageState]
      /\ charge \in [Baskets -> 0..Price]
      /\ bought \in [Baskets -> SUBSET [by : Tills, total : 0..Price, promo : BOOLEAN]]
      /\ till \in [Baskets -> [Tills -> TillState]]
      /\ unsold \in [lost : Nat, overlap : BOOLEAN]
  BY PromoTypeSays DEF PromoInv
<1>2. UNCHANGED <<promo, bought, unsold>>
  BY DEF OpenCheckout, ApplyPromo, ReinitiatePayment, RemovePromo, PayIntent
<1>3. page[b] \in PageState /\ page[b].intent \in 0..Price /\ page[b].promo \in BOOLEAN
  BY <1>1 DEF PageState
<1>4. page[b].at # "free" => till[b]["free"] = Idle
  BY DEF PromoInv, TillsInHand
<1>5. ASSUME charge' = charge, page[b].at # "free", UNCHANGED till,
             NEW state \in PageState, Page(b, state)
      PROVE  PromoInv'
  <2>1. page' \in [Baskets -> PageState] /\ \A c \in Baskets : page'[c] = IF c = b THEN state ELSE page[c]
    BY <1>1, <1>5, PageSays
  <2>2. PromoTypeOK'
    BY <1>1, <1>2, <1>5, <2>1 DEF PromoTypeOK, PageState, TillState
  <2>3. TillsInHand'
    BY <1>2, <1>4, <1>5, <2>1 DEF PromoInv, TillsInHand
  <2> QED
    BY <1>2, <1>5, <2>2, <2>3, UsesKept DEF PromoInv
<1>6. ASSUME charge' = charge, page[b].at # "free", NEW w \in BOOLEAN, InitiateAt(b, w)
      PROVE  PromoInv'
  <2>1. Total(w) \in 0..Price
    BY <1>1, TotalType
  <2>2. CASE Total(w) < 50
    <3>1. PICK state : state = [at |-> "free", intent |-> page[b].intent, promo |-> w]
      OBVIOUS
    <3>2. PICK new : new = [step |-> "confirm", promo |-> w]
      OBVIOUS
    <3>3. state \in PageState /\ state.at = "free" /\ new \in TillState /\ new.step = "confirm"
      BY <1>3, <3>1, <3>2 DEF PageState, TillState
    <3>4. Page(b, state) /\ AtTill(b, "free", new) /\ "free" \in Tills
      BY <1>6, <2>2, <3>1, <3>2 DEF InitiateAt, Tills
    <3>5. page' \in [Baskets -> PageState] /\ \A c \in Baskets : page'[c] = IF c = b THEN state ELSE page[c]
      BY <1>1, <3>3, <3>4, PageSays
    <3>6. /\ till' \in [Baskets -> [Tills -> TillState]]
          /\ \A c \in Baskets, u \in Tills :
               till'[c][u] = IF c = b /\ u = "free" THEN new ELSE till[c][u]
      BY <1>1, <3>3, <3>4, AtTillSays
    <3>7. PromoTypeOK'
      BY <1>1, <1>2, <1>6, <3>5, <3>6 DEF PromoTypeOK, PageState, TillState
    <3>8. TillsInHand'
      BY <1>2, <1>4, <1>6, <3>3, <3>5, <3>6 DEF PromoInv, TillsInHand, Tills
    <3>9. \A c \in Baskets, u \in Tills :
           \/ till'[c][u] = till[c][u]
           \/ /\ till[c][u].step \notin {"order", "count"}
              /\ till'[c][u].step \notin {"order", "count"}
      BY <1>4, <1>6, <3>3, <3>6 DEF Idle
    <3> QED
      BY <1>2, <3>7, <3>8, <3>9, UsesKept DEF PromoInv
  <2>3. CASE ~(Total(w) < 50)
    <3>1. PICK state : state = [at |-> "shown", intent |-> Total(w), promo |-> w]
      OBVIOUS
    <3>2. state \in PageState
      BY <2>1, <3>1 DEF PageState
    <3>3. Page(b, state) /\ UNCHANGED till
      BY <1>6, <2>3, <3>1 DEF InitiateAt
    <3> QED
      BY <1>5, <1>6, <3>2, <3>3
  <2> QED
    BY <2>2, <2>3
<1>7. CASE OpenCheckout(b)
  BY <1>6, <1>7 DEF OpenCheckout
<1>8. CASE ApplyPromo(b)
  <2>1. [page[b] EXCEPT !.at = "applying", !.promo = TRUE] \in PageState
    BY <1>1 DEF PageState
  <2> QED
    BY <1>5, <1>8, <2>1 DEF ApplyPromo
<1>9. CASE ReinitiatePayment(b)
  <2>1. [page[b] EXCEPT !.at = "shown"] \in PageState
    BY <1>1 DEF PageState
  <2> QED
    BY <1>5, <1>6, <1>9, <2>1 DEF ReinitiatePayment
<1>10. CASE RemovePromo(b)
  <2>1. [page[b] EXCEPT !.promo = FALSE] \in PageState
    BY <1>1 DEF PageState
  <2> QED
    BY <1>5, <1>6, <1>10, <2>1 DEF RemovePromo
<1>11. CASE PayIntent(b)
  <2>1. PICK state : state = [page[b] EXCEPT !.at = "away"]
    OBVIOUS
  <2>2. state \in PageState /\ Page(b, state) /\ page[b].at # "free"
    BY <1>1, <1>11, <2>1 DEF PageState, PayIntent
  <2>3. page' \in [Baskets -> PageState] /\ \A c \in Baskets : page'[c] = IF c = b THEN state ELSE page[c]
    BY <1>1, <2>2, PageSays
  <2>4. PICK new : new = [step |-> "confirm", promo |-> FALSE]
    OBVIOUS
  <2>5. new \in TillState /\ new.step = "confirm"
    BY <2>4 DEF TillState
  <2>6. till' = [till EXCEPT ![b] = [t \in Tills |-> IF t = "free" THEN till[b][t] ELSE new]]
    BY <1>11, <2>4 DEF PayIntent
  <2>7. /\ till' \in [Baskets -> [Tills -> TillState]]
        /\ \A c \in Baskets, u \in Tills :
             till'[c][u] = IF c = b /\ u # "free" THEN new ELSE till[c][u]
    BY <1>1, <2>5, <2>6
  <2>8. /\ charge' \in [Baskets -> 0..Price]
        /\ charge[b] = 0 /\ charge'[b] # 0
        /\ \A c \in Baskets : c # b => charge'[c] = charge[c]
    BY <1>1, <1>3, <1>11, PromoAssumption DEF PayIntent
  <2>9. till[b]["return"] = Idle /\ till[b]["webhook"] = Idle /\ till[b]["free"] = Idle
    BY <1>4, <2>2, <2>8 DEF PromoInv, TillsInHand
  <2>10. PromoTypeOK'
    BY <1>1, <1>2, <2>3, <2>7, <2>8 DEF PromoTypeOK, PageState, TillState
  <2>11. TillsInHand'
    <3>1. {"free", "return", "webhook"} = Tills /\ till'[b]["free"] = Idle
      BY <2>7, <2>9 DEF Tills
    <3>2. \A c \in Baskets : charge'[c] = 0 => till'[c]["return"] = Idle /\ till'[c]["webhook"] = Idle
      BY <2>7, <2>8, <3>1 DEF PromoInv, TillsInHand
    <3>3. \A c \in Baskets : till'[c]["free"] # Idle => page'[c].at = "free"
      BY <2>3, <2>7, <3>1 DEF PromoInv, TillsInHand
    <3>4. \A c \in Baskets, u \in Tills :
            /\ till'[c][u].step = "count" => till'[c][u].promo
            /\ till'[c][u].step = "order" => \A o \in bought[c] : o.by # u
      BY <2>5, <2>7 DEF PromoInv, TillsInHand
    <3> QED
      BY <1>2, <3>2, <3>3, <3>4 DEF TillsInHand
  <2>12. \A c \in Baskets, u \in Tills :
           \/ till'[c][u] = till[c][u]
           \/ /\ till[c][u].step \notin {"order", "count"}
              /\ till'[c][u].step \notin {"order", "count"}
    BY <2>5, <2>7, <2>9 DEF Tills, Idle
  <2> QED
    BY <1>2, <2>10, <2>11, <2>12, UsesKept DEF PromoInv
<1> QED
  BY <1>7, <1>8, <1>9, <1>10, <1>11

(* A confirmation finds the booking unpaid and a use of the code left, or   *)
(* is refused; two that hold the code at once are noted as an overlap.      *)
LEMMA ConfirmNext ==
  ASSUME PromoInv, NEW b \in Baskets, NEW t \in Tills, ConfirmBasket(b, t)
  PROVE  PromoInv'
<1>1. /\ page \in [Baskets -> PageState]
      /\ till \in [Baskets -> [Tills -> TillState]]
      /\ promo \in [discount : Discounts, active : BOOLEAN, uses : Nat]
      /\ unsold \in [lost : Nat, overlap : BOOLEAN]
  BY PromoTypeSays DEF PromoInv
<1>2. UNCHANGED <<promo, charge, bought>> /\ till[b][t].step = "confirm"
  BY DEF ConfirmBasket
<1>3. PICK refused \in BOOLEAN :
        refused = (bought[b] # {} \/ (till[b][t].promo /\ ~ValidPromo))
  OBVIOUS
<1>4. PICK w \in BOOLEAN : w = till[b][t].promo
  <2>1. till[b][t] \in TillState
    BY <1>1
  <2> QED
    BY <1>2, <2>1 DEF TillState, Idle
<1>5. PICK new : new = IF refused THEN Idle ELSE [step |-> "order", promo |-> w, total |-> Total(w)]
  OBVIOUS
<1>6. /\ AtTill(b, t, new)
      /\ unsold' = IF refused \/ ~w \/ Using = {} THEN unsold ELSE [unsold EXCEPT !.overlap = TRUE]
      /\ PagesAfter(IF refused /\ t = "free" THEN {b} ELSE {})
  BY <1>3, <1>4, <1>5 DEF ConfirmBasket, Using
<1>7. /\ new \in TillState
      /\ refused => new = Idle
      /\ ~refused => new.step = "order" /\ new.promo = w
  <2>1. Total(w) \in 0..Price
    BY <1>1, TotalType
  <2> QED
    BY <1>5, <2>1 DEF TillState
<1>8. /\ till' \in [Baskets -> [Tills -> TillState]]
      /\ \A c \in Baskets, u \in Tills :
           till'[c][u] = IF c = b /\ u = t THEN new ELSE till[c][u]
  BY <1>1, <1>6, <1>7, AtTillSays
<1>9. /\ page' \in [Baskets -> PageState]
      /\ \A c \in Baskets : page'[c] = page[c] \/ (c = b /\ refused /\ t = "free")
  <2>1. \A c \in Baskets : [page[c] EXCEPT !.at = IF page[c].intent > 0 THEN "shown" ELSE "opening"] \in PageState
    BY <1>1 DEF PageState
  <2> QED
    BY <1>1, <1>6, <2>1 DEF PagesAfter
<1>10. unsold' \in [lost : Nat, overlap : BOOLEAN] /\ unsold'.lost = unsold.lost
       /\ (~unsold'.overlap => ~unsold.overlap /\ (refused \/ ~w \/ Using = {}))
  <2>1. PICK over : over = [unsold EXCEPT !.overlap = TRUE]
    OBVIOUS
  <2>2. over \in [lost : Nat, overlap : BOOLEAN] /\ over.lost = unsold.lost /\ over.overlap
    BY <1>1, <2>1
  <2>3. CASE refused \/ ~w \/ Using = {}
    BY <1>1, <1>6, <2>3
  <2>4. CASE ~(refused \/ ~w \/ Using = {})
    <3>1. unsold' = over
      BY <1>6, <2>1, <2>4
    <3> QED
      BY <2>2, <3>1
  <2> QED
    BY <2>3, <2>4
<1>11. PromoTypeOK'
  BY <1>2, <1>8, <1>9, <1>10, PromoTypeSays DEF PromoInv, PromoTypeOK, PageState, TillState
<1>12. TillsInHand'
  <2>1. \A c \in Baskets : charge'[c] = 0 => till'[c]["return"] = Idle /\ till'[c]["webhook"] = Idle
    BY <1>2, <1>8 DEF PromoInv, TillsInHand, Tills, Idle
  <2>2. \A c \in Baskets : till'[c]["free"] # Idle => page'[c].at = "free"
    BY <1>2, <1>7, <1>8, <1>9 DEF PromoInv, TillsInHand, Tills, Idle
  <2>3. \A c \in Baskets, u \in Tills : till'[c][u].step = "count" => till'[c][u].promo
    BY <1>7, <1>8 DEF PromoInv, TillsInHand, Idle
  <2>4. \A c \in Baskets, u \in Tills :
          till'[c][u].step = "order" => \A o \in bought[c] : o.by # u
    <3>1. ASSUME till'[b][t].step = "order" PROVE bought[b] = {}
      <4>1. till'[b][t] = new /\ Idle.step # "order"
        BY <1>8 DEF Idle
      <4>2. ~refused
        BY <1>7, <3>1, <4>1
      <4> QED
        BY <1>3, <4>2
    <3>2. \A c \in Baskets, u \in Tills : (c = b /\ u = t) \/ till'[c][u] = till[c][u]
      BY <1>8
    <3> QED
      BY <3>1, <3>2 DEF PromoInv, TillsInHand
  <2> QED
    BY <1>2, <2>1, <2>2, <2>3, <2>4 DEF TillsInHand
<1>13. TillsAt({"count"})' = TillsAt({"count"})
  BY <1>2, <1>7, <1>8 DEF TillsAt, Idle
<1>14. /\ Using' = Using \/ (Using' = Using \cup {<<b, t>>} /\ ~refused /\ w)
  BY <1>2, <1>7, <1>8 DEF Using, TillsAt, Idle
<1>15. UseInHand' /\ CountWithinLimit'
  <2> SUFFICES ASSUME ~unsold'.overlap
               PROVE  /\ \A x, y \in Using' : x = y
                      /\ Using' # {} => promo.uses < MaxUses
                      /\ promo.uses <= MaxUses
    BY <1>2 DEF UseInHand, CountWithinLimit
  <2>1. /\ \A x, y \in Using : x = y
        /\ Using # {} => promo.uses < MaxUses
        /\ promo.uses <= MaxUses
    BY <1>10 DEF PromoInv, UseInHand, CountWithinLimit
  <2>2. CASE Using' = Using
    BY <2>1, <2>2
  <2>3. CASE Using' = Using \cup {<<b, t>>} /\ ~refused /\ w
    <3>1. Using = {}
      BY <1>10, <2>3
    <3>2. promo.uses < MaxUses
      BY <1>3, <1>4, <2>3 DEF ValidPromo
    <3> QED
      BY <2>1, <2>3, <3>1, <3>2
  <2> QED
    BY <1>14, <2>2, <2>3
<1>16. OrdersWithPromo' = OrdersWithPromo
  BY <1>2 DEF OrdersWithPromo
<1>17. UsesAreOrders'
  <2>1. promo.uses + Cardinality(TillsAt({"count"})) + unsold.lost = Cardinality(OrdersWithPromo)
    BY DEF PromoInv, UsesAreOrders
  <2>2. promo'.uses + Cardinality(TillsAt({"count"})') + unsold'.lost = Cardinality(OrdersWithPromo')
    BY <1>2, <1>10, <1>13, <1>16, <2>1
  <2> QED
    BY <2>2 DEF UsesAreOrders
<1> QED
  BY <1>11, <1>12, <1>15, <1>16, <1>17 DEF PromoInv

(* The order is written: with the code, its use is now to be counted.       *)
LEMMA WriteOrderNext ==
  ASSUME PromoInv, NEW b \in Baskets, NEW t \in Tills, WriteOrder(b, t)
  PROVE  PromoInv'
<1>1. /\ page \in [Baskets -> PageState] /\ charge \in [Baskets -> 0..Price]
      /\ till \in [Baskets -> [Tills -> TillState]]
      /\ promo \in [discount : Discounts, active : BOOLEAN, uses : Nat]
      /\ unsold \in [lost : Nat, overlap : BOOLEAN]
      /\ bought \in [Baskets -> SUBSET [by : Tills, total : 0..Price, promo : BOOLEAN]]
  BY PromoTypeSays DEF PromoInv
<1>2. UNCHANGED <<promo, page, charge, unsold>> /\ till[b][t].step = "order"
  BY DEF WriteOrder
<1>3. /\ till[b][t].promo \in BOOLEAN /\ till[b][t].total \in 0..Price
      /\ till[b][t] # Idle
  <2>1. till[b][t] \in TillState
    BY <1>1
  <2> QED
    BY <1>2, <2>1 DEF TillState, Idle
<1>4. PICK w \in BOOLEAN : w = till[b][t].promo
  BY <1>3
<1>5. PICK o : o = [by |-> t, total |-> till[b][t].total, promo |-> w]
  OBVIOUS
<1>6. PICK new : new = IF w THEN [step |-> "count", promo |-> TRUE] ELSE Idle
  OBVIOUS
<1>7. /\ o \in [by : Tills, total : 0..Price, promo : BOOLEAN] /\ o.by = t /\ o.promo = w
      /\ new \in TillState /\ new.step # "order"
      /\ w => new.step = "count" /\ new.promo
      /\ ~w => new = Idle /\ new.step = "idle"
  BY <1>3, <1>5, <1>6 DEF TillState, Idle
<1>8. bought' = [bought EXCEPT ![b] = bought[b] \cup {o}] /\ AtTill(b, t, new)
  BY <1>4, <1>5, <1>6 DEF WriteOrder
<1>9. /\ bought' \in [Baskets -> SUBSET [by : Tills, total : 0..Price, promo : BOOLEAN]]
      /\ \A c \in Baskets : bought'[c] = IF c = b THEN bought[b] \cup {o} ELSE bought[c]
  BY <1>1, <1>7, <1>8
<1>10. /\ till' \in [Baskets -> [Tills -> TillState]]
       /\ \A c \in Baskets, u \in Tills :
            till'[c][u] = IF c = b /\ u = t THEN new ELSE till[c][u]
  BY <1>1, <1>7, <1>8, AtTillSays
<1>11. PromoTypeOK'
  BY <1>1, <1>2, <1>9, <1>10 DEF PromoTypeOK, PageState, TillState
<1>12. TillsInHand'
  <2>1. \A c \in Baskets : charge[c] = 0 => till'[c]["return"] = Idle /\ till'[c]["webhook"] = Idle
    BY <1>3, <1>10 DEF PromoInv, TillsInHand, Tills
  <2>2. \A c \in Baskets : till'[c]["free"] # Idle => page[c].at = "free"
    BY <1>3, <1>10 DEF PromoInv, TillsInHand, Tills
  <2>3. \A c \in Baskets, u \in Tills : till'[c][u].step = "count" => till'[c][u].promo
    BY <1>7, <1>10 DEF PromoInv, TillsInHand
  <2>4. ASSUME NEW c \in Baskets, NEW u \in Tills, till'[c][u].step = "order", NEW p \in bought'[c]
        PROVE  p.by # u
    <3>1. till[c][u].step = "order" /\ ~(c = b /\ u = t)
      BY <1>7, <1>10, <2>4
    <3>2. p \in bought[c] \/ (c = b /\ p = o)
      BY <1>9, <2>4
    <3> QED
      BY <1>7, <3>1, <3>2 DEF PromoInv, TillsInHand
  <2> QED
    BY <1>2, <2>1, <2>2, <2>3, <2>4 DEF TillsInHand
<1>13. Using' = Using
  BY <1>2, <1>4, <1>7, <1>10 DEF Using, TillsAt
<1>14. UseInHand' /\ CountWithinLimit'
  BY <1>2, <1>13 DEF PromoInv, UseInHand, CountWithinLimit
<1>15. \A x : x \in OrdersWithPromo <=> \E c \in Baskets : \E p \in bought[c] : p.promo /\ x = <<c, p>>
  BY DEF OrdersWithPromo
<1>16. \A x : x \in OrdersWithPromo' <=> \E c \in Baskets : \E p \in bought'[c] : p.promo /\ x = <<c, p>>
  BY DEF OrdersWithPromo
<1>17. CASE ~w
  <2>1. TillsAt({"count"})' = TillsAt({"count"})
    BY <1>2, <1>7, <1>10, <1>17 DEF TillsAt
  <2>2. OrdersWithPromo' = OrdersWithPromo
    <3>1. \A c \in Baskets : \A p : p.promo => (p \in bought'[c] <=> p \in bought[c])
      BY <1>7, <1>9, <1>17
    <3> QED
      BY <1>15, <1>16, <3>1
  <2>3. promo.uses + Cardinality(TillsAt({"count"})) + unsold.lost = Cardinality(OrdersWithPromo)
    BY DEF PromoInv, UsesAreOrders
  <2>4. promo'.uses + Cardinality(TillsAt({"count"})') + unsold'.lost = Cardinality(OrdersWithPromo')
    BY <1>2, <2>1, <2>2, <2>3
  <2>5. UsesAreOrders'
    BY <2>4 DEF UsesAreOrders
  <2> QED
    BY <1>11, <1>12, <1>14, <2>2, <2>5 DEF PromoInv
<1>18. CASE w
  <2>1. TillsAt({"count"})' = TillsAt({"count"}) \cup {<<b, t>>} /\ <<b, t>> \notin TillsAt({"count"})
    BY <1>2, <1>7, <1>10, <1>18 DEF TillsAt
  <2>2. o \notin bought[b]
    BY <1>2, <1>7 DEF PromoInv, TillsInHand
  <2>3. OrdersWithPromo' = OrdersWithPromo \cup {<<b, o>>}
    <3>1. ASSUME NEW x \in OrdersWithPromo' PROVE x \in OrdersWithPromo \cup {<<b, o>>}
      BY <1>9, <1>15, <1>16, <3>1
    <3>2. ASSUME NEW x \in OrdersWithPromo PROVE x \in OrdersWithPromo'
      BY <1>9, <1>15, <1>16, <3>2
    <3>3. <<b, o>> \in OrdersWithPromo'
      BY <1>7, <1>9, <1>16, <1>18
    <3> QED
      BY <3>1, <3>2, <3>3
  <2>4. <<b, o>> \notin OrdersWithPromo
    BY <1>15, <2>2
  <2>5. IsFiniteSet(OrdersWithPromo') /\ Cardinality(OrdersWithPromo') = Cardinality(OrdersWithPromo) + 1
    BY <2>3, <2>4, FS_AddElement DEF PromoInv
  <2>6. Cardinality(TillsAt({"count"})') = Cardinality(TillsAt({"count"})) + 1
    BY <2>1, TillsFinite, FS_AddElement
  <2>7. promo.uses + Cardinality(TillsAt({"count"})) + unsold.lost = Cardinality(OrdersWithPromo)
    BY DEF PromoInv, UsesAreOrders
  <2>8. promo.uses \in Nat /\ unsold.lost \in Nat /\ Cardinality(TillsAt({"count"})) \in Nat
    BY <1>1, TillsFinite
  <2>9. promo'.uses + Cardinality(TillsAt({"count"})') + unsold'.lost = Cardinality(OrdersWithPromo')
    BY <1>2, <2>5, <2>6, <2>7, <2>8
  <2>10. UsesAreOrders'
    BY <2>9 DEF UsesAreOrders
  <2> QED
    BY <1>11, <1>12, <1>14, <2>5, <2>10 DEF PromoInv
<1> QED
  BY <1>17, <1>18

(* The use is counted, or the failure to count it is logged.                *)
LEMMA CountNext ==
  ASSUME PromoInv, NEW b \in Baskets, NEW t \in Tills, ApplyPromoCode(b, t)
  PROVE  PromoInv'
<1>1. /\ page \in [Baskets -> PageState] /\ charge \in [Baskets -> 0..Price]
      /\ till \in [Baskets -> [Tills -> TillState]]
      /\ promo \in [discount : Discounts, active : BOOLEAN, uses : Nat]
      /\ unsold \in [lost : Nat, overlap : BOOLEAN]
      /\ bought \in [Baskets -> SUBSET [by : Tills, total : 0..Price, promo : BOOLEAN]]
  BY PromoTypeSays DEF PromoInv
<1>2. UNCHANGED <<page, charge, bought>> /\ till[b][t].step = "count" /\ till[b][t].promo
  BY DEF ApplyPromoCode, PromoInv, TillsInHand
<1>3. /\ till' \in [Baskets -> [Tills -> TillState]]
      /\ \A c \in Baskets, u \in Tills :
           till'[c][u] = IF c = b /\ u = t THEN Idle ELSE till[c][u]
  BY <1>1, AtTillSays DEF ApplyPromoCode, TillState
<1>4. /\ promo' \in [discount : Discounts, active : BOOLEAN, uses : Nat]
      /\ unsold' \in [lost : Nat, overlap : BOOLEAN]
      /\ unsold'.overlap = unsold.overlap
      /\ \/ promo'.uses = promo.uses + 1 /\ unsold'.lost = unsold.lost
         \/ promo'.uses = promo.uses /\ unsold'.lost = unsold.lost + 1
  BY <1>1 DEF ApplyPromoCode
<1>5. PromoTypeOK'
  BY <1>1, <1>2, <1>3, <1>4 DEF PromoTypeOK, PageState, TillState
<1>6. TillsInHand'
  BY <1>2, <1>3 DEF PromoInv, TillsInHand, Tills, Idle
<1>7. /\ TillsAt({"count"})' = TillsAt({"count"}) \ {<<b, t>>}
      /\ <<b, t>> \in TillsAt({"count"})
  BY <1>2, <1>3 DEF TillsAt, Idle
<1>8. Using' = Using \ {<<b, t>>} /\ <<b, t>> \in Using
  BY <1>2, <1>3 DEF Using, TillsAt, Idle
<1>9. UseInHand' /\ CountWithinLimit'
  <2>1. CASE unsold.overlap
    BY <1>4, <2>1 DEF UseInHand, CountWithinLimit
  <2>2. CASE ~unsold.overlap
    <3>1. (\A x, y \in Using : x = y) /\ promo.uses < MaxUses
      BY <1>8, <2>2 DEF PromoInv, UseInHand
    <3>2. Using' = {}
      BY <1>8, <3>1
    <3>3. promo'.uses <= MaxUses
      BY <1>1, <1>4, <3>1, PromoAssumption
    <3> QED
      BY <3>2, <3>3 DEF UseInHand, CountWithinLimit
  <2> QED
    BY <2>1, <2>2
<1>10. OrdersWithPromo' = OrdersWithPromo
  BY <1>2 DEF OrdersWithPromo
<1>11. UsesAreOrders'
  <2>1. promo.uses + Cardinality(TillsAt({"count"})) + unsold.lost = Cardinality(OrdersWithPromo)
    BY DEF PromoInv, UsesAreOrders
  <2>2. Cardinality(TillsAt({"count"})') = Cardinality(TillsAt({"count"})) - 1
    BY <1>7, TillsFinite, FS_RemoveElement
  <2>3. promo.uses \in Nat /\ unsold.lost \in Nat /\ Cardinality(TillsAt({"count"})) \in Nat
    BY <1>1, TillsFinite
  <2>4. promo'.uses + Cardinality(TillsAt({"count"})') + unsold'.lost = Cardinality(OrdersWithPromo')
    BY <1>4, <1>10, <2>1, <2>2, <2>3
  <2> QED
    BY <2>4 DEF UsesAreOrders
<1> QED
  BY <1>5, <1>6, <1>9, <1>10, <1>11 DEF PromoInv

LEMMA DeleteCodeNext ==
  ASSUME PromoInv, DeletePromoCode
  PROVE  PromoInv'
<1>1. promo \in [discount : Discounts, active : BOOLEAN, uses : Nat]
  BY PromoTypeSays DEF PromoInv
<1>2. /\ promo' \in [discount : Discounts, active : BOOLEAN, uses : Nat]
      /\ promo'.uses = promo.uses /\ UNCHANGED <<page, charge, bought, till, unsold>>
  BY <1>1 DEF DeletePromoCode
<1>3. PromoTypeOK'
  BY <1>2 DEF PromoInv, PromoTypeOK
<1>4. TillsInHand'
  BY <1>2 DEF PromoInv, TillsInHand
<1> QED
  BY <1>2, <1>3, <1>4, UsesKept DEF PromoInv

(* A restart loses the uses that were still to be counted, and notes them.  *)
LEMMA TillsRestartNext ==
  ASSUME PromoInv, TillsRestart
  PROVE  PromoInv'
<1>1. /\ page \in [Baskets -> PageState] /\ charge \in [Baskets -> 0..Price]
      /\ till \in [Baskets -> [Tills -> TillState]]
      /\ promo \in [discount : Discounts, active : BOOLEAN, uses : Nat]
      /\ unsold \in [lost : Nat, overlap : BOOLEAN]
      /\ bought \in [Baskets -> SUBSET [by : Tills, total : 0..Price, promo : BOOLEAN]]
  BY PromoTypeSays DEF PromoInv
<1>2. UNCHANGED <<promo, charge, bought>>
  BY DEF TillsRestart
<1>3. PICK new : new = [step |-> "confirm", promo |-> FALSE]
  OBVIOUS
<1>4. new \in TillState /\ new.step = "confirm" /\ Idle \in TillState
  BY <1>3 DEF TillState
<1>5. till' = [b \in Baskets |-> [t \in Tills |->
                 IF t = "webhook" /\ till[b][t] # Idle THEN new ELSE Idle]]
  BY <1>3 DEF TillsRestart
<1>6. /\ till' \in [Baskets -> [Tills -> TillState]]
      /\ \A c \in Baskets, u \in Tills :
           \/ till'[c][u] = Idle
           \/ till'[c][u] = new /\ u = "webhook" /\ till[c][u] # Idle
  BY <1>4, <1>5
<1>7. /\ page' \in [Baskets -> PageState]
  <2>1. \A c \in Baskets : [page[c] EXCEPT !.at = IF page[c].intent > 0 THEN "shown" ELSE "opening"] \in PageState
    BY <1>1 DEF PageState
  <2> QED
    BY <1>1, <2>1 DEF TillsRestart, PagesAfter
<1>8. PICK n \in Nat : n = Cardinality(TillsAt({"count"}))
  BY TillsFinite
<1>9. /\ unsold' \in [lost : Nat, overlap : BOOLEAN]
      /\ unsold'.overlap = unsold.overlap /\ unsold'.lost = unsold.lost + n
  <2>1. unsold' = [unsold EXCEPT !.lost = unsold.lost + n]
    BY <1>8 DEF TillsRestart
  <2>2. unsold.lost + n \in Nat
    BY <1>1
  <2> QED
    BY <1>1, <2>1, <2>2
<1>10. PromoTypeOK'
  BY <1>1, <1>2, <1>6, <1>7, <1>9 DEF PromoTypeOK, PageState, TillState
<1>11. TillsInHand'
  <2>1. \A c \in Baskets : charge[c] = 0 => till'[c]["return"] = Idle /\ till'[c]["webhook"] = Idle
    BY <1>6 DEF PromoInv, TillsInHand, Tills
  <2>2. \A c \in Baskets : till'[c]["free"] = Idle
    BY <1>6 DEF Tills
  <2>3. \A c \in Baskets, u \in Tills : till'[c][u].step \notin {"count", "order"}
    BY <1>4, <1>6 DEF Idle
  <2> QED
    BY <1>2, <2>1, <2>2, <2>3 DEF TillsInHand
<1>12. TillsAt({"count"})' = {} /\ Using' = {}
  <2>1. \A c \in Baskets, u \in Tills : till'[c][u].step \notin {"count", "order"}
    BY <1>4, <1>6 DEF Idle
  <2> QED
    BY <2>1 DEF Using, TillsAt
<1>13. UseInHand' /\ CountWithinLimit'
  BY <1>2, <1>9, <1>12 DEF PromoInv, UseInHand, CountWithinLimit
<1>14. OrdersWithPromo' = OrdersWithPromo
  BY <1>2 DEF OrdersWithPromo
<1>15. UsesAreOrders'
  <2>1. promo.uses + Cardinality(TillsAt({"count"})) + unsold.lost = Cardinality(OrdersWithPromo)
    BY DEF PromoInv, UsesAreOrders
  <2>2. Cardinality(TillsAt({"count"})') = 0
    BY <1>12, FS_EmptySet
  <2>3. promo.uses \in Nat /\ unsold.lost \in Nat
    BY <1>1
  <2>4. promo'.uses + Cardinality(TillsAt({"count"})') + unsold'.lost = Cardinality(OrdersWithPromo')
    BY <1>2, <1>8, <1>9, <1>14, <2>1, <2>2, <2>3
  <2> QED
    BY <2>4 DEF UsesAreOrders
<1> QED
  BY <1>10, <1>11, <1>13, <1>14, <1>15 DEF PromoInv

LEMMA PromoInvNext == PromoInv /\ [PromoNext]_promoVars => PromoInv'
<1> SUFFICES ASSUME PromoInv, [PromoNext]_promoVars PROVE PromoInv'
  OBVIOUS
<1>1. CASE UNCHANGED promoVars
  <2>1. UNCHANGED <<promo, page, charge, bought, till, unsold>>
    BY <1>1 DEF promoVars
  <2>2. PromoTypeOK'
    BY <2>1 DEF PromoInv, PromoTypeOK
  <2>3. TillsInHand'
    BY <2>1 DEF PromoInv, TillsInHand
  <2> QED
    BY <2>1, <2>2, <2>3, UsesKept DEF PromoInv
<1> QED
  BY <1>1, PageNext, ConfirmNext, WriteOrderNext, CountNext, DeleteCodeNext, TillsRestartNext
  DEF PromoNext

(* Every variable of a checkout with a promo code has its type: no total is *)
(* above the price, and none below nothing.                                 *)
THEOREM PromoTypeCorrect == PromoSpec => []PromoTypeOK
<1>1. PromoInv => PromoTypeOK
  BY DEF PromoInv
<1> QED
  BY <1>1, PromoInitInv, PromoInvNext, PTL DEF PromoSpec

(* The uses of a code are the orders that were made with it, over repeated  *)
(* and overlapping confirmations, failures to count and restarts.           *)
THEOREM CountedUsesAreOrders == PromoSpec => []UsesAreOrders
<1>1. PromoInv => UsesAreOrders
  BY DEF PromoInv
<1> QED
  BY <1>1, PromoInitInv, PromoInvNext, PTL DEF PromoSpec

(* With nothing in hand that overlaps, the orders made with the code are    *)
(* counted, lost, or the one that is about to be counted.                   *)
LEMMA LimitKept == PromoInv => WithinMaxUses
<1> SUFFICES ASSUME PromoInv, ~unsold.overlap
             PROVE  Cardinality(OrdersWithPromo) <= MaxUses + unsold.lost
  BY DEF WithinMaxUses
<1>1. promo.uses \in Nat /\ unsold.lost \in Nat /\ MaxUses \in Nat
  BY PromoTypeSays, PromoAssumption DEF PromoInv
<1>2. promo.uses + Cardinality(TillsAt({"count"})) + unsold.lost = Cardinality(OrdersWithPromo)
  BY DEF PromoInv, UsesAreOrders
<1>3. TillsAt({"count"}) \subseteq Using
  BY DEF Using, TillsAt, PromoInv, TillsInHand
<1>4. CASE TillsAt({"count"}) = {}
  <2>1. Cardinality(TillsAt({"count"})) = 0
    BY <1>4, FS_EmptySet
  <2>2. promo.uses <= MaxUses
    BY DEF PromoInv, CountWithinLimit
  <2> QED
    BY <1>1, <1>2, <2>1, <2>2
<1>5. CASE TillsAt({"count"}) # {}
  <2>1. PICK x : x \in TillsAt({"count"})
    BY <1>5
  <2>2. TillsAt({"count"}) = {x} /\ promo.uses < MaxUses
    BY <1>3, <2>1 DEF PromoInv, UseInHand
  <2>3. Cardinality(TillsAt({"count"})) = 1
    BY <2>2, FS_Singleton
  <2> QED
    BY <1>1, <1>2, <2>2, <2>3
<1> QED
  BY <1>4, <1>5

(* Unless two confirmations with the code overlap, no more orders are made  *)
(* with it than its limit says and its failed counts: the one order that is *)
(* not counted yet has found a use left, and no other has.                  *)
THEOREM CodeStaysWithinLimit == PromoSpec => []WithinMaxUses
<1> QED
  BY LimitKept, PromoInitInv, PromoInvNext, PTL DEF PromoSpec
===============================================================================
