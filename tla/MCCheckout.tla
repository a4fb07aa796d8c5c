------------------------------ MODULE MCCheckout ------------------------------
(* Small instances of Checkout for TLC. *)
EXTENDS Checkout, TLC

CONSTANT StockOfEach

SameStock == [c \in Categories |-> StockOfEach]

(* Ids of rows, intents and handlers are interchangeable. *)
Symmetry == Permutations(Bookings) \cup Permutations(Requests)
              \cup Permutations(Orders) \cup Permutations(Intents)
              \cup Permutations(Calls)
===============================================================================
