---------------------------- MODULE MCReservation -----------------------------
(* Small instances of Reservation for TLC. *)
EXTENDS Reservation, TLC

CONSTANT StockOfEach

SameStock == [c \in Categories |-> StockOfEach]

(* Ids of bookings and requests are interchangeable: no action orders them. *)
Symmetry == Permutations(Bookings) \cup Permutations(Requests)
===============================================================================
