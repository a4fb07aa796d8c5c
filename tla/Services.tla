------------------------------- MODULE Services -------------------------------
(***************************************************************************)
(* The services of an event that share no state with one another: its      *)
(* staff and its gate, the editing of the event, checkouts with a promo    *)
(* code, the followers of the organizer, the reminders, and the accounts   *)
(* of all.  A behaviour has one of them in full; service says which.  The  *)
(* staff is in behaviours with the gate, and in others without.            *)
(***************************************************************************)
EXTENDS TicketGate, EventEdit, PromoCheckout, Follows, Reminders, Accounts

CONSTANT GateDesks  (* the desks of behaviours with the gate: a bound      *)

ASSUME ServicesAssumption == GateDesks \subseteq Desks

VARIABLE service

servicesVars == <<gateVars, editVars, promoVars, followsVars, remindersVars, accountsVars, service>>

(* A service that is not the one of the behaviour is in one state. *)
ServicesInit ==
  /\ service \in {"staff", "gate", "edit", "promo", "follows", "reminders", "accounts"}
  /\ GateInit /\ EditInit /\ PromoInit /\ FollowsInit
  /\ RemindersInit /\ AccountsInit
  /\ service # "edit" => community /\ \A n \in Stocks : category[1].initial <= n
  /\ service # "promo" => promo.discount = CHOOSE d \in Discounts : TRUE
  /\ service # "follows" => follows = NoRows
  /\ service # "reminders" => eventDay = Week

ServicesNext ==
  \/ /\ service = "staff" /\ StaffNext
     /\ UNCHANGED <<doorVars, editVars, promoVars, followsVars, remindersVars, accountsVars, service>>
  \/ /\ service = "gate" /\ GateNext
     /\ \A k \in Desks \ GateDesks : desk'[k] = Idle
     /\ UNCHANGED <<editVars, promoVars, followsVars, remindersVars, accountsVars, service>>
  \/ /\ service = "edit" /\ EditNext
     /\ UNCHANGED <<gateVars, promoVars, followsVars, remindersVars, accountsVars, service>>
  \/ /\ service = "promo" /\ PromoNext
     /\ UNCHANGED <<gateVars, editVars, followsVars, remindersVars, accountsVars, service>>
  \/ /\ service = "follows" /\ FollowsNext
     /\ UNCHANGED <<gateVars, editVars, promoVars, remindersVars, accountsVars, service>>
  \/ /\ service = "reminders" /\ RemindersNext
     /\ UNCHANGED <<gateVars, editVars, promoVars, followsVars, accountsVars, service>>
  \/ /\ service = "accounts" /\ AccountsNext
     /\ UNCHANGED <<gateVars, editVars, promoVars, followsVars, remindersVars, service>>

(* StaffFairness, where the staff is. *)
ServicesFairness ==
  /\ WF_staffVars(service \in {"staff", "gate"} /\ CleanupJob)
  /\ SF_staffVars(service \in {"staff", "gate"} /\ CleanupDelete)

ServicesSpec == ServicesInit /\ [][ServicesNext]_servicesVars /\ ServicesFairness
-------------------------------------------------------------------------------
(* Every variable has its type: the one type invariant of this module. *)
ServicesTypeOK ==
  /\ GateTypeOK /\ EditTypeOK /\ PromoTypeOK
  /\ FollowsTypeOK /\ RemindersTypeOK /\ AccountsTypeOK
===============================================================================
