--------------------------- MODULE MCPromoCheckout ---------------------------
(* Small instances of PromoCheckout for TLC. *)
EXTENDS PromoCheckout

(* Half price; free of charge; and a price above the least that Stripe takes. *)
SomeDiscounts == {[type |-> "PERCENTAGE", value |-> 50],
                  [type |-> "FIXED", value |-> 150],
                  [type |-> "FIXED", value |-> 25]}
===============================================================================
