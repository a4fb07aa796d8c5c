---------------------------------- MODULE Search ----------------------------------
(***************************************************************************)
(* The catalogue's search, useEventSearch.ts: each change of the filters   *)
(* or of the position sends a request, and so does the window's focus; the *)
(* answers, which may overtake one another, replace what is shown.  The    *)
(* filters are one value out of Filters, and whether only events with      *)
(* places left are wanted.                                                 *)
(***************************************************************************)
EXTENDS Integers, FiniteSets

CONSTANTS
  Filters,    (* the values of the filters but availableOnly              *)
  Positions,  (* where the user may be                                    *)
  Nowhere,    (* no position is known                                     *)
  Queries     (* requests under way at a time: a bound                    *)

ASSUME SearchAssumption == Nowhere \notin Positions

VARIABLES
  filter,     (* the filters of the URL                                   *)
  position,   (* userPosition, or Nowhere                                 *)
  dirty,      (* the effect has not run since the last change             *)
  focused,    (* the filters and the position that the focus handler saw  *)
  query,      (* the requests under way                                   *)
  results,    (* what the events shown were searched with, or none        *)
  loading,    (* whether the page says that it is loading                 *)
  overtaken   (* the answer shown is not that of the latest request       *)

searchVars == <<filter, position, dirty, focused, query, results, loading, overtaken>>

Filter == [value : Filters, availableOnly : BOOLEAN]

Where == Positions \cup {Nowhere}

NoQuery == [step |-> "none"]

Asked(f, where) == [filter |-> f, position |-> where]

None == [filter |-> Nowhere, position |-> Nowhere]

SearchInit ==
  /\ filter \in [value : Filters, availableOnly : {FALSE}]
  /\ position = Nowhere
  /\ dirty = TRUE
  /\ focused = None
  /\ query = [q \in Queries |-> NoQuery]
  /\ results = None
  /\ loading = TRUE
  /\ overtaken = FALSE

(* A request is sent: whatever was asked before it is older. *)
Fetch(where) ==
  /\ \E q \in Queries :
       /\ query[q] = NoQuery
       /\ query' = [r \in Queries |->
                      IF r = q THEN [step |-> "sent", for |-> Asked(filter, where), latest |-> TRUE]
                      ELSE IF query[r] = NoQuery THEN NoQuery
                      ELSE [query[r] EXCEPT !.latest = FALSE]]
  /\ loading' = TRUE
-------------------------------------------------------------------------------
(* Mutant: the effect does not depend on availableOnly.                      *)
UpdateFilterQuietly(value, available) ==
  /\ filter' = [value |-> value, availableOnly |-> available]
  /\ filter' # filter
  /\ value # filter.value /\ available => filter.availableOnly
  /\ dirty' = (dirty \/ value # filter.value)
  /\ UNCHANGED <<position, focused, query, results, loading, overtaken>>

(* updateFilter: a filter is changed, which resets availableOnly, or         *)
(* availableOnly is; the order and the radius that the position sets, and    *)
(* that clearUserPosition deletes, leave availableOnly as it is.             *)
UpdateFilter(value, available) ==
  /\ filter' = [value |-> value, availableOnly |-> available]
  /\ filter' # filter
  /\ value # filter.value /\ available => filter.availableOnly
  /\ dirty' = TRUE
  /\ UNCHANGED <<position, focused, query, results, loading, overtaken>>

(* getCurrentPosition answers, or clearUserPosition; the order and the       *)
(* radius that they set too are an UpdateFilter.                             *)
SetUserPosition(where) ==
  /\ where # position
  /\ position' = where
  /\ dirty' = TRUE
  /\ UNCHANGED <<filter, focused, query, results, loading, overtaken>>

(* The effects of a rendering: fetchEvents, and the focus handler, which is  *)
(* made again when the filters are others.                                   *)
RunEffects ==
  /\ dirty
  /\ Fetch(position)
  /\ dirty' = FALSE
  /\ focused' = IF focused.filter = filter THEN focused ELSE Asked(filter, position)
  /\ UNCHANGED <<filter, position, results, overtaken>>

(* The window's focus searches again, for the position its handler has seen. *)
Focus ==
  /\ ~dirty
  /\ Fetch(focused.position)
  /\ UNCHANGED <<filter, position, dirty, focused, results, overtaken>>

(* searchEvents answers or fails, which shows no events; the answer is shown *)
(* whatever was asked since, and any answer ends the loading.                *)
SearchAnswer(q) ==
  /\ query[q].step = "sent"
  /\ results' \in {query[q].for, None}
  /\ overtaken' = ~query[q].latest
  /\ query' = [query EXCEPT ![q] = NoQuery]
  /\ loading' = FALSE
  /\ UNCHANGED <<filter, position, dirty, focused>>
-------------------------------------------------------------------------------
SearchNext ==
  \/ \E value \in Filters, available \in BOOLEAN : UpdateFilter(value, available)
  \/ \E where \in Where : SetUserPosition(where)
  \/ RunEffects \/ Focus
  \/ \E q \in Queries : SearchAnswer(q)

SearchSpec == SearchInit /\ [][SearchNext]_searchVars
-------------------------------------------------------------------------------
(* Properties *)

(* Every variable has its type. *)
SearchTypeOK ==
  /\ filter \in Filter
  /\ position \in Where
  /\ dirty \in BOOLEAN /\ loading \in BOOLEAN /\ overtaken \in BOOLEAN
  /\ focused.filter = Nowhere \/ focused.filter \in Filter
  /\ focused.position \in Where
  /\ \A q \in Queries : query[q].step \in {"none", "sent"}
  /\ results = None \/ (results.filter \in Filter /\ results.position \in Where)

(* When nothing is under way, the events shown are those of the filters and  *)
(* of the position that the page shows, or none after an error; unless an    *)
(* answer has overtaken the latest one, or the focus handler asked for the   *)
(* position that it has seen.                                                *)
ResultsAreCurrent ==
  ~dirty /\ ~overtaken /\ (\A q \in Queries : query[q] = NoQuery) =>
    \/ results = None
    \/ /\ results.filter = filter
       /\ results.position \in {position, focused.position}
===============================================================================
