------------------------------ MODULE MCServices ------------------------------
(* A small instance of Services for TLC, with the discounts of MCPromoCheckout. *)
EXTENDS Services, MCPromoCheckout
===============================================================================
