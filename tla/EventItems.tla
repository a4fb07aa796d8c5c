------------------------------ MODULE EventItems ------------------------------
(***************************************************************************)
(* Who brings what to the community event: event-items.service.ts.  Every  *)
(* handler reads the access (the one of Polls), gets or creates the event's *)
(* list, or reads the item, writes, and broadcasts the list as it then is. *)
(* Names, quantities and notes are left out: updateItem writes only those. *)
(***************************************************************************)
EXTENDS Polls

CONSTANTS
  Items,   (* the event_items.id that may be drawn: a bound                *)
  Nobody   (* claimed_by_id is null                                        *)

ASSUME ItemsAssumption == Nobody \notin People \cup {Organizer}

VARIABLES
  itemList,  (* the event has its row of event_item_lists: unique by event *)
  item,      (* event_items: who added it, and who has claimed it          *)
  drawn,     (* the ids drawn so far                                       *)
  boardFresh (* is the list what the event's room was sent last?           *)

itemVars == <<itemList, item, drawn, boardFresh>>

ItemRow == [addedBy : Everyone, claimedBy : Everyone \cup {Nobody}]

ItemSteps == {"list", "listCreate", "add", "itemCreate", "update", "updateWrite",
              "delete", "deleteWrite", "claim", "claimWrite", "itemsFetch", "itemsSend"}

ItemHand ==
  [step : {"list"}, user : Everyone]
    \cup [step : {"listCreate"}, user : Everyone, adding : BOOLEAN]
    \cup [step : {"add", "itemCreate"}, user : Everyone]
    \cup [step : {"update", "updateWrite", "delete", "deleteWrite", "claim"},
          user : Everyone, item : Items]
    \cup [step : {"claimWrite"}, item : Items, claimedBy : Everyone \cup {Nobody}]
    \cup [step : {"itemsFetch"}]
    \cup [step : {"itemsSend"}, fresh : BOOLEAN]

ItemsInit == itemList = FALSE /\ item = NoRows /\ drawn = {} /\ boardFresh = TRUE

ItemAccess(h, u) ==
  /\ \/ \E step \in {"list", "add"} :
          Access(h, u, "claims", ItemSteps, [step |-> step, user |-> u])
     \/ \E step \in {"update", "delete", "claim"}, x \in DOMAIN item :
          Access(h, u, "claims", ItemSteps, [step |-> step, user |-> u, item |-> x])
  /\ UNCHANGED itemVars

(* A write leaves the room, and what others have fetched to send, behind.  *)
OvertakesItems(h) ==
  /\ boardFresh' = FALSE
  /\ hand' = [g \in Hands |-> IF g = h THEN [step |-> "itemsFetch"]
                ELSE IF hand[g].step = "itemsSend" THEN [hand[g] EXCEPT !.fresh = FALSE]
                ELSE hand[g]]
-------------------------------------------------------------------------------
(* getOrCreateList, by getList or addItem. *)
GetList(h) ==
  LET adding == hand[h].step = "add"
  IN  /\ hand[h].step \in {"list", "add"}
      /\ InHand(h, IF ~itemList
                   THEN [step |-> "listCreate", user |-> hand[h].user, adding |-> adding]
                   ELSE IF adding THEN [step |-> "itemCreate", user |-> hand[h].user]
                   ELSE Idle)
      /\ UNCHANGED <<eventTables, mishaps, itemVars>>

(* A list that another handler has made meanwhile makes this one fail. *)
ListCreate(h) ==
  /\ hand[h].step = "listCreate"
  /\ itemList' = TRUE
  /\ InHand(h, IF ~itemList /\ hand[h].adding
               THEN [step |-> "itemCreate", user |-> hand[h].user] ELSE Idle)
  /\ UNCHANGED <<eventTables, mishaps, item, drawn, boardFresh>>

ItemCreate(h) ==
  /\ hand[h].step = "itemCreate"
  /\ \E x \in Items \ drawn :
       /\ item' = Put(item, x, [addedBy |-> hand[h].user, claimedBy |-> Nobody])
       /\ drawn' = drawn \cup {x}
  /\ OvertakesItems(h)
  /\ UNCHANGED <<eventTables, mishaps, itemList>>

(* Bound: the ids are used up. *)
ItemNotCreated(h) ==
  /\ hand[h].step = "itemCreate"
  /\ Items = drawn
  /\ InHand(h, Idle)
  /\ UNCHANGED <<eventTables, mishaps, itemVars>>

(* updateItem and deleteItem: the adder's or the organizer's, and nobody    *)
(* but the organizer updates what somebody else has claimed.                *)
ItemRead(h) ==
  LET u == hand[h].user
      x == hand[h].item
      mine == u = Organizer \/ item[x].addedBy = u
      free == u = Organizer \/ item[x].claimedBy \in {u, Nobody}
      next == IF hand[h].step = "update" THEN "updateWrite" ELSE "deleteWrite"
  IN  /\ hand[h].step \in {"update", "delete"}
      /\ IF x \in DOMAIN item /\ mine /\ (free \/ hand[h].step = "delete")
         THEN NextOf(h, next) ELSE InHand(h, Idle)
      /\ UNCHANGED <<eventTables, mishaps, itemVars>>

(* An item that is gone makes the write fail. *)
ItemWrite(h) ==
  LET x == hand[h].item
  IN  /\ hand[h].step \in {"updateWrite", "deleteWrite"}
      /\ IF x \in DOMAIN item
         THEN /\ item' = IF hand[h].step = "deleteWrite" THEN Drop(item, {x}) ELSE item
              /\ OvertakesItems(h)
         ELSE InHand(h, Idle) /\ UNCHANGED <<item, boardFresh>>
      /\ UNCHANGED <<eventTables, mishaps, itemList, drawn>>

(* Mutant: an item that somebody has claimed can be claimed again. *)
ClaimWhatever(h) ==
  LET u == hand[h].user
      x == hand[h].item
  IN  /\ hand[h].step = "claim"
      /\ IF x \in DOMAIN item
         THEN InHand(h, [step |-> "claimWrite", item |-> x,
                         claimedBy |-> IF item[x].claimedBy = u THEN Nobody ELSE u])
         ELSE InHand(h, Idle)
      /\ UNCHANGED <<eventTables, mishaps, itemVars>>

(* claimItem gives back what its caller has claimed, and claims what nobody *)
(* has.                                                                     *)
ClaimRead(h) ==
  LET u == hand[h].user
      x == hand[h].item
  IN  /\ hand[h].step = "claim"
      /\ IF x \in DOMAIN item /\ item[x].claimedBy \in {u, Nobody}
         THEN InHand(h, [step |-> "claimWrite", item |-> x,
                         claimedBy |-> IF item[x].claimedBy = u THEN Nobody ELSE u])
         ELSE InHand(h, Idle)
      /\ UNCHANGED <<eventTables, mishaps, itemVars>>

ClaimWrite(h) ==
  LET x == hand[h].item
  IN  /\ hand[h].step = "claimWrite"
      /\ IF x \in DOMAIN item
         THEN /\ item' = [item EXCEPT ![x].claimedBy = hand[h].claimedBy]
              /\ OvertakesItems(h)
         ELSE InHand(h, Idle) /\ UNCHANGED <<item, boardFresh>>
      /\ UNCHANGED <<eventTables, mishaps, itemList, drawn>>

(* Mutant: the list is fetched, and only answered. *)
FetchForCallerOnly(h) ==
  /\ hand[h].step = "itemsFetch"
  /\ InHand(h, Idle)
  /\ UNCHANGED <<eventTables, mishaps, itemVars>>

FetchItems(h) ==
  /\ hand[h].step = "itemsFetch"
  /\ InHand(h, [step |-> "itemsSend", fresh |-> TRUE])
  /\ UNCHANGED <<eventTables, mishaps, itemVars>>

SendItems(h) ==
  /\ hand[h].step = "itemsSend"
  /\ boardFresh' = hand[h].fresh
  /\ InHand(h, Idle)
  /\ UNCHANGED <<eventTables, mishaps, itemList, item, drawn>>

ItemsStep(h) ==
  \/ \E u \in Everyone : ItemAccess(h, u)
  \/ GetList(h) \/ ListCreate(h) \/ ItemCreate(h) \/ ItemNotCreated(h)
  \/ ItemRead(h) \/ ItemWrite(h) \/ ClaimRead(h) \/ ClaimWrite(h)
  \/ FetchItems(h) \/ SendItems(h)
-------------------------------------------------------------------------------
(* Properties *)

(* Every variable has its type: the one type invariant of this module. *)
ItemsTypeOK ==
  /\ itemList \in BOOLEAN
  /\ DOMAIN item \subseteq drawn /\ item \in [DOMAIN item -> ItemRow]
  /\ drawn \subseteq Items
  /\ boardFresh \in BOOLEAN

(* Nobody takes over what somebody else brings: a claim is only given back, *)
(* unless two handlers of the list overlapped.                              *)
ClaimsAreKept ==
  [][\A x \in DOMAIN item :
       /\ x \in DOMAIN item' /\ "claims" \notin mishaps
       /\ item[x].claimedBy # Nobody
       => item'[x].claimedBy \in {item[x].claimedBy, Nobody}]_<<item, mishaps>>

(* When all is quiet the room has the list as it is, unless two handlers of *)
(* it overlapped, or one failed after its write and before its broadcast.   *)
BoardIsCurrent ==
  /\ \A h \in Hands : hand[h].step \notin ItemSteps
  /\ mishaps \cap {"claims", "unsent"} = {}
  => boardFresh
===============================================================================
