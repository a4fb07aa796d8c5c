----------------------------- MODULE PromoCheckout -----------------------------
(***************************************************************************)
(* Checking out with a promo code: CheckoutPage.tsx and PaymentReturnPage.tsx *)
(* over promo-codes.service.ts, initiatePayment and confirmPayment.  Every *)
(* booking is of the same price, none lapses, and each is paid at most     *)
(* once: those hazards are the subject of Checkout.  Amounts are in cents. *)
(***************************************************************************)
EXTENDS Rows

CONSTANTS
  Baskets,     (* the bookings that are being paid, each on a page         *)
  Price,       (* price of a booking                                       *)
  Discounts,   (* [type, value] of the codes that an organizer may create  *)
  MaxUses      (* max_uses of the code                                     *)

ASSUME PromoAssumption ==
  /\ IsFiniteSet(Baskets)
  /\ Price \in Nat
  /\ \A d \in Discounts : \/ d.type = "PERCENTAGE" /\ d.value \in 1..100
                          \/ d.type = "FIXED" /\ d.value \in Nat \ {0}
  /\ MaxUses \in Nat \ {0}

VARIABLES
  promo,   (* the row of promo_codes: discount, isActive and currentUses   *)
  page,    (* each page: amount of its payment intent, 0 for none; code    *)
  charge,  (* what Stripe has charged for each booking, 0 for nothing      *)
  bought,  (* the orders of each booking: who made it, and total_amount    *)
  till,    (* what each confirmPayment in flight will do next              *)
  unsold   (* what went astray: uses lost in a restart, tills that overlap *)

promoVars == <<promo, page, charge, bought, till, unsold>>

(* Who confirms a payment: initiatePayment itself when nothing is left to   *)
(* pay, the page that Stripe returns to, the webhook.                       *)
Tills == {"free", "return", "webhook"}

(* calculateDiscount: prices have whole cents, a percentage of one may not. *)
Rounded(n, d) == (2 * n + d) \div (2 * d)

(* Mutant: a code may be worth more than what is bought. *)
FinalAmountBelow(amount) ==
  IF promo.discount.type = "PERCENTAGE"
  THEN Rounded(amount * (100 - promo.discount.value), 100)
  ELSE amount - promo.discount.value

FinalAmount(amount) ==
  IF promo.discount.type = "PERCENTAGE"
  THEN Rounded(amount * (100 - promo.discount.value), 100)
  ELSE IF amount > promo.discount.value THEN amount - promo.discount.value ELSE 0

(* Mutant: the last use is given away twice. *)
ValidPromoOneMore == promo.active /\ promo.uses <= MaxUses

(* validatePromoCode, validatePromoCodeById *)
ValidPromo == promo.active /\ promo.uses < MaxUses

(* What a booking costs, with the code or without. *)
Total(withPromo) == IF withPromo THEN FinalAmount(Price) ELSE Price

PromoInit ==
  /\ promo \in [discount : Discounts, active : {TRUE}, uses : {0}]
  /\ page = [b \in Baskets |-> [at |-> "opening", intent |-> 0, promo |-> FALSE]]
  /\ charge = [b \in Baskets |-> 0]
  /\ bought = [b \in Baskets |-> {}]
  /\ till = [b \in Baskets |-> [t \in Tills |-> Idle]]
  /\ unsold = [lost |-> 0, overlap |-> FALSE]

Page(b, state) == page' = [page EXCEPT ![b] = state]
AtTill(b, t, state) == till' = [till EXCEPT ![b][t] = state]

(* The confirmations that stand before one of these queries. *)
TillsAt(steps) == {x \in Baskets \X Tills : till[x[1]][x[2]].step \in steps}
-------------------------------------------------------------------------------
(* CheckoutPage *)

(* initiatePayment, for the page as it will be: an intent, or a free order. *)
InitiateAt(b, withPromo) ==
  IF Total(withPromo) < 50
  THEN /\ Page(b, [at |-> "free", intent |-> page[b].intent, promo |-> withPromo])
       /\ AtTill(b, "free", [step |-> "confirm", promo |-> withPromo])
  ELSE /\ Page(b, [at |-> "shown", intent |-> Total(withPromo), promo |-> withPromo])
       /\ UNCHANGED till

OpenCheckout(b) ==
  /\ page[b].at = "opening"
  /\ bought[b] = {}
  /\ InitiateAt(b, FALSE)
  /\ UNCHANGED <<promo, charge, bought, unsold>>

(* handleApplyPromo: the code is looked up first, ... *)
ApplyPromo(b) ==
  /\ page[b].at = "shown" /\ ~page[b].promo
  /\ ValidPromo
  /\ Page(b, [page[b] EXCEPT !.at = "applying", !.promo = TRUE])
  /\ UNCHANGED <<promo, charge, bought, till, unsold>>

(* ... then the payment is initiated anew; when that fails, the page keeps   *)
(* the code it shows and the intent it has.                                  *)
ReinitiatePayment(b) ==
  /\ page[b].at = "applying"
  /\ \/ ValidPromo /\ bought[b] = {} /\ InitiateAt(b, TRUE)
     \/ Page(b, [page[b] EXCEPT !.at = "shown"]) /\ UNCHANGED till
  /\ UNCHANGED <<promo, charge, bought, unsold>>

(* handleRemovePromo: likewise, the other way round. *)
RemovePromo(b) ==
  /\ page[b].at = "shown" /\ page[b].promo
  /\ \/ bought[b] = {} /\ InitiateAt(b, FALSE)
     \/ Page(b, [page[b] EXCEPT !.promo = FALSE]) /\ UNCHANGED till
  /\ UNCHANGED <<promo, charge, bought, unsold>>

(* The payment form is shown all the while.  Stripe redirects always, so     *)
(* that handlePaymentSuccess, which knows the code, is never called.         *)
PayIntent(b) ==
  /\ page[b].at \in {"shown", "applying"}
  /\ page[b].intent > 0
  /\ charge[b] = 0
  /\ charge' = [charge EXCEPT ![b] = page[b].intent]
  /\ Page(b, [page[b] EXCEPT !.at = "away"])
  /\ till' = [till EXCEPT ![b] = [t \in Tills |-> IF t = "free" THEN @[t]
                                                  ELSE [step |-> "confirm", promo |-> FALSE]]]
  /\ UNCHANGED <<promo, bought, unsold>>
-------------------------------------------------------------------------------
(* confirmPayment: the booking and the code are read, the order is written, *)
(* and the use of the code is counted in a commit of its own               *)

(* A page whose free order has failed goes on with the intent it has. *)
PagesAfter(failed) ==
  page' = [b \in Baskets |-> IF b \in failed
                             THEN [page[b] EXCEPT !.at = IF page[b].intent > 0 THEN "shown" ELSE "opening"]
                             ELSE page[b]]

(* A booking that has its order, or a code not valid any more, is refused. *)
ConfirmBasket(b, t) ==
  LET counts == {x \in TillsAt({"order", "count"}) : till[x[1]][x[2]].promo}
      refused == bought[b] # {} \/ (till[b][t].promo /\ ~ValidPromo)
  IN  /\ till[b][t].step = "confirm"
      /\ AtTill(b, t, IF refused THEN Idle
                      ELSE [step |-> "order", promo |-> till[b][t].promo, total |-> Total(till[b][t].promo)])
      /\ unsold' = IF refused \/ ~till[b][t].promo \/ counts = {} THEN unsold
                   ELSE [unsold EXCEPT !.overlap = TRUE]
      /\ PagesAfter(IF refused /\ t = "free" THEN {b} ELSE {})
      /\ UNCHANGED <<promo, charge, bought>>

(* Mutant: the code is counted with the order, and once more after it. *)
WriteOrderCounting(b, t) ==
  /\ till[b][t].step = "order"
  /\ bought' = [bought EXCEPT ![b] = @ \cup {[by |-> t, total |-> till[b][t].total, promo |-> till[b][t].promo]}]
  /\ promo' = IF till[b][t].promo THEN [promo EXCEPT !.uses = @ + 1] ELSE promo
  /\ AtTill(b, t, IF till[b][t].promo THEN [step |-> "count", promo |-> TRUE] ELSE Idle)
  /\ UNCHANGED <<page, charge, unsold>>

WriteOrder(b, t) ==
  /\ till[b][t].step = "order"
  /\ bought' = [bought EXCEPT ![b] = @ \cup {[by |-> t, total |-> till[b][t].total, promo |-> till[b][t].promo]}]
  /\ AtTill(b, t, IF till[b][t].promo THEN [step |-> "count", promo |-> TRUE] ELSE Idle)
  /\ UNCHANGED <<promo, page, charge, unsold>>

(* applyPromoCode: an increment without a condition; its failure is logged. *)
ApplyPromoCode(b, t) ==
  /\ till[b][t].step = "count"
  /\ \/ promo' = [promo EXCEPT !.uses = @ + 1] /\ UNCHANGED unsold
     \/ unsold' = [unsold EXCEPT !.lost = @ + 1] /\ UNCHANGED promo
  /\ AtTill(b, t, Idle)
  /\ UNCHANGED <<page, charge, bought>>
-------------------------------------------------------------------------------
(* deletePromoCode *)
DeletePromoCode ==
  /\ promo.active
  /\ promo' = [promo EXCEPT !.active = FALSE]
  /\ UNCHANGED <<page, charge, bought, till, unsold>>

(* The process restarts: what was in flight is gone, except that Stripe     *)
(* repeats a webhook that was not answered.                                 *)
TillsRestart ==
  LET counting == TillsAt({"count"})
  IN  /\ \E b \in Baskets, t \in Tills : till[b][t] # Idle
      /\ till' = [b \in Baskets |-> [t \in Tills |->
                    IF t = "webhook" /\ till[b][t] # Idle THEN [step |-> "confirm", promo |-> FALSE] ELSE Idle]]
      /\ unsold' = [unsold EXCEPT !.lost = @ + Cardinality(counting)]
      /\ PagesAfter({b \in Baskets : till[b]["free"] # Idle})
      /\ UNCHANGED <<promo, charge, bought>>

PromoNext ==
  \/ \E b \in Baskets : \/ OpenCheckout(b) \/ ApplyPromo(b) \/ ReinitiatePayment(b)
                        \/ RemovePromo(b) \/ PayIntent(b)
  \/ \E b \in Baskets, t \in Tills : ConfirmBasket(b, t) \/ WriteOrder(b, t) \/ ApplyPromoCode(b, t)
  \/ DeletePromoCode
  \/ TillsRestart

PromoSpec == PromoInit /\ [][PromoNext]_promoVars
-------------------------------------------------------------------------------
(* Properties *)

(* Every variable has its type: the one type invariant of this module. *)
PromoTypeOK ==
  /\ promo \in [discount : Discounts, active : BOOLEAN, uses : Nat]
  /\ page \in [Baskets -> [at : {"opening", "shown", "applying", "free", "away"},
                           intent : 0..Price, promo : BOOLEAN]]
  /\ charge \in [Baskets -> 0..Price]
  /\ bought \in [Baskets -> SUBSET [by : Tills, total : 0..Price, promo : BOOLEAN]]
  /\ till \in [Baskets -> [Tills -> {Idle} \cup [step : {"confirm", "count"}, promo : BOOLEAN]
                                      \cup [step : {"order"}, promo : BOOLEAN, total : 0..Price]]]
  /\ unsold \in [lost : Nat, overlap : BOOLEAN]

(* The orders that the code was applied to. *)
OrdersWithPromo ==
  {x \in Baskets \X UNION {bought[b] : b \in Baskets} : x[2] \in bought[x[1]] /\ x[2].promo}

(* The uses counted, those still to be counted and those whose count was    *)
(* lost are the orders that the code was applied to: no order is counted    *)
(* twice, though repeated and overlapping confirmations meet.               *)
UsesAreOrders ==
  promo.uses + Cardinality(TillsAt({"count"})) + unsold.lost = Cardinality(OrdersWithPromo)

(* Until two confirmations with the code overlap, no more orders are made   *)
(* with it than its limit allows, but for those whose count has failed: the *)
(* limit is tested before the order is written and counted after it.  What  *)
(* is charged without the code being confirmed is not among these orders.   *)
WithinMaxUses == ~unsold.overlap => Cardinality(OrdersWithPromo) <= MaxUses + unsold.lost

(* What a customer was charged is the total of his order: stated by the     *)
(* test orders.service.spec.ts:275, by which confirmation applies the code. *)
TotalIsCharge ==
  \A b \in Baskets : \A o \in bought[b] : charge[b] > 0 => o.total = charge[b]
===============================================================================
