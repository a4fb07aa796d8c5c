------------------------------ MODULE MCMessaging ------------------------------
(* A small instance of Messaging for TLC. *)
EXTENDS Messaging, TLC

(* Conversations and handlers are interchangeable. *)
MessagingSymmetry == Permutations(Conversations) \cup Permutations(Talks)
===============================================================================
