------------------------------- MODULE EventEdit -------------------------------
(***************************************************************************)
(* Editing an event that sells: update and remove of events.service.ts,    *)
(* which delete its categories and with them, by the foreign keys of the   *)
(* schema, their bookings and tickets, while seats are booked, paid,       *)
(* refunded and, on a community event, promised to participants.  A sale   *)
(* is one seat: its booking, later its order with one ticket.  Bookings    *)
(* and payments are atomic here, as they are the subject of Reservation    *)
(* and Checkout.                                                           *)
(***************************************************************************)
EXTENDS Rows

CONSTANTS
  Sales,       (* what is sold                                             *)
  Stocks       (* initial_stock that the organizer may enter               *)

ASSUME EditAssumption == IsFiniteSet(Sales) /\ Stocks \subseteq Nat \ {0}

VARIABLES
  category,    (* ticket_categories, in the order the organizer entered    *)
  sale,        (* each sale: status of booking and order, category, rows   *)
  community,   (* the event is a community event, with a single category   *)
  promised,    (* accepted participants of a community event               *)
  removed,     (* the event was deleted                                    *)
  editing,     (* update in flight                                         *)
  refunding,   (* approveRefund or rejectRefund in flight                  *)
  slips        (* an acceptance has ever committed during an edit; an edit *)
               (* has ever entered fewer seats than were taken             *)

saleTables == <<category, sale, community, promised, removed>>
editVars == <<saleTables, editing, refunding, slips>>

(* What may be entered: a category or two, one for a community event. *)
Entries == UNION {[1..n -> Stocks] : n \in IF community THEN {1} ELSE 1..2}

NewCategory(initial, taken) ==
  [initial |-> initial, current |-> IF initial > taken THEN initial - taken ELSE 0]

NotSold == [status |-> "none", at |-> 1, rows |-> FALSE]

EditInit ==
  /\ community \in BOOLEAN
  /\ \E e \in Entries : category = [i \in DOMAIN e |-> NewCategory(e[i], 0)]
  /\ sale = [s \in Sales |-> NotSold]
  /\ promised = 0
  /\ removed = FALSE
  /\ editing = Idle /\ refunding = Idle
  /\ slips = {}

(* A sale whose ticket, or booking, is still there; one whose rows are gone *)
(* is in no category, which is told by its being in the first.              *)
Lives(s, statuses) == sale[s].rows /\ sale[s].status \in statuses

(* The rows are deleted: an order stays, a booking leaves nothing. *)
WithoutRows(s) == IF sale[s].status = "PENDING" THEN NotSold
                  ELSE [sale[s] EXCEPT !.rows = FALSE, !.at = 1]

Stock(i, n) == category' = [category EXCEPT ![i].current = @ + n]
Becomes(s, status) == sale' = [sale EXCEPT ![s].status = status]
-------------------------------------------------------------------------------
(* What is sold meanwhile *)

(* createBooking, which takes a category of a community event as well. *)
Book(s, i) ==
  /\ ~removed
  /\ sale[s].status = "none"
  /\ category[i].current > 0
  /\ Stock(i, -1)
  /\ sale' = [sale EXCEPT ![s] = [status |-> "PENDING", at |-> i, rows |-> TRUE]]
  /\ UNCHANGED <<community, promised, removed, editing, refunding, slips>>

(* cancelBooking: as if it had never been, and another may book. *)
Unbook(s) ==
  /\ Lives(s, {"PENDING"})
  /\ Stock(sale[s].at, 1)
  /\ sale' = [sale EXCEPT ![s] = NotSold]
  /\ UNCHANGED <<community, promised, removed, editing, refunding, slips>>

(* confirmPayment: a booking that is gone is not found. *)
PaySale(s) ==
  /\ Lives(s, {"PENDING"})
  /\ Becomes(s, "PAID")
  /\ UNCHANGED <<category, community, promised, removed, editing, refunding, slips>>

(* requestRefund needs the order alone. *)
AskRefund(s) ==
  /\ sale[s].status = "PAID"
  /\ Becomes(s, "REFUND_REQUESTED")
  /\ UNCHANGED <<category, community, promised, removed, editing, refunding, slips>>

(* approveRefund and rejectRefund find the event by the order's tickets. *)
AnswerRefund(s, answer) ==
  /\ refunding = Idle
  /\ Lives(s, {"REFUND_REQUESTED"})
  /\ refunding' = [step |-> answer, sale |-> s]
  /\ UNCHANGED <<saleTables, editing, slips>>

(* The money is back by now; a category that is gone makes the commit fail. *)
Approve ==
  LET s == refunding.sale
  IN  /\ refunding.step = "approve"
      /\ IF sale[s].rows
         THEN Stock(sale[s].at, 1) /\ Becomes(s, "REFUNDED")
         ELSE UNCHANGED <<category, sale>>
      /\ refunding' = Idle
      /\ UNCHANGED <<community, promised, removed, editing, slips>>

Reject ==
  /\ refunding.step = "reject"
  /\ Becomes(refunding.sale, "PAID")
  /\ refunding' = Idle
  /\ UNCHANGED <<category, community, promised, removed, editing, slips>>

(* respond of participation-requests.service.ts, on a community event; as a *)
(* bound, there are as many who ask as there are sales.                      *)
Promise ==
  /\ ~removed /\ community
  /\ promised < Cardinality(Sales)
  /\ category[1].current > 0
  /\ Stock(1, -1)
  /\ promised' = promised + 1
  /\ slips' = IF editing # Idle THEN slips \cup {"rushed"} ELSE slips
  /\ UNCHANGED <<sale, community, removed, editing, refunding>>
-------------------------------------------------------------------------------
(* update with ticket_categories: the count of paid tickets, what is taken  *)
(* of each category, the new categories; READ COMMITTED in one transaction  *)

(* With paid tickets the categories stay as they are. *)
CountPaidTickets(e) ==
  /\ editing = Idle /\ ~removed
  /\ {s \in Sales : Lives(s, {"PAID"})} = {}
  /\ editing' = [step |-> "taken", entry |-> e]
  /\ UNCHANGED <<saleTables, refunding, slips>>

(* orderBy createdAt: the categories were created at once, so that any order *)
(* of theirs is theirs.                                                      *)
Orderings == LET places == DOMAIN category
             IN  {p \in [places -> places] : \A i \in places : \E j \in places : p[j] = i}

ReadTaken ==
  /\ editing.step = "taken"
  /\ \E p \in Orderings :
       editing' = [step |-> "write", entry |-> editing.entry,
                   taken |-> [i \in DOMAIN category |->
                                category[p[i]].initial - category[p[i]].current]]
  /\ UNCHANGED <<saleTables, refunding, slips>>

(* Mutant: the new categories have all their seats. *)
WriteFull ==
  /\ editing.step = "write" /\ ~removed
  /\ category' = [i \in DOMAIN editing.entry |-> NewCategory(editing.entry[i], 0)]
  /\ sale' = [s \in Sales |-> WithoutRows(s)]
  /\ editing' = Idle
  /\ UNCHANGED <<community, promised, removed, refunding, slips>>

(* By index, and with no less than none: categories that are more than      *)
(* before have all their seats.                                             *)
WriteCategories ==
  LET taken(i) == IF i \in DOMAIN editing.taken THEN editing.taken[i] ELSE 0
      fresh == [i \in DOMAIN editing.entry |-> NewCategory(editing.entry[i], taken(i))]
  IN  /\ editing.step = "write" /\ ~removed
      /\ category' = fresh
      /\ sale' = [s \in Sales |-> WithoutRows(s)]
      /\ slips' = IF \E i \in DOMAIN fresh : fresh[i].initial < taken(i)
                  THEN slips \cup {"clipped"} ELSE slips
      /\ editing' = Idle
      /\ UNCHANGED <<community, promised, removed, refunding>>

(* remove: whatever was sold. *)
RemoveEvent ==
  /\ ~removed
  /\ removed' = TRUE
  /\ sale' = [s \in Sales |-> WithoutRows(s)]
  /\ UNCHANGED <<category, community, promised, editing, refunding, slips>>
-------------------------------------------------------------------------------
EditNext ==
  \/ \E s \in Sales : \/ \E i \in DOMAIN category : Book(s, i)
                      \/ Unbook(s) \/ PaySale(s) \/ AskRefund(s)
                      \/ \E answer \in {"approve", "reject"} : AnswerRefund(s, answer)
  \/ Approve \/ Reject \/ Promise
  \/ \E e \in Entries : CountPaidTickets(e)
  \/ ReadTaken \/ WriteCategories \/ RemoveEvent

EditSpec == EditInit /\ [][EditNext]_editVars
-------------------------------------------------------------------------------
(* Properties *)

(* Every variable has its type: the one type invariant of this module. *)
EditTypeOK ==
  /\ DOMAIN category \in {1..1, 1..2}
  /\ \A i \in DOMAIN category : /\ category[i].initial \in Stocks
                               /\ category[i].current \in 0..category[i].initial
  /\ sale \in [Sales -> [status : {"none", "PENDING", "PAID", "REFUND_REQUESTED", "REFUNDED"},
                         at : 1..2, rows : BOOLEAN]]
  /\ community \in BOOLEAN /\ removed \in BOOLEAN
  /\ promised \in Nat
  /\ editing.step \in {"idle", "taken", "write"}
  /\ refunding.step \in {"idle", "approve", "reject"}
  /\ slips \subseteq {"rushed", "clipped"}

(* The sales that hold a seat of a category. *)
Selling(i) ==
  {s \in Sales : Lives(s, {"PENDING", "PAID", "REFUND_REQUESTED"}) /\ sale[s].at = i}

(* No edit sells a seat twice: what is on sale of a category, its bookings  *)
(* and tickets, and the places of accepted participants are within what was *)
(* entered; the places as long as none was accepted during an edit, and no  *)
(* edit has entered fewer than were taken, what is beyond being forgotten.  *)
SeatsBacked ==
  \A i \in DOMAIN category : ~removed =>
    category[i].current + Cardinality(Selling(i)) + (IF slips = {} THEN promised ELSE 0)
      <= category[i].initial
===============================================================================
