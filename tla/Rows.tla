--------------------------------- MODULE Rows ---------------------------------
(***************************************************************************)
(* What the services share: a table is a function whose domain is the set  *)
(* of ids of its rows, and a handler that is in flight is a record whose   *)
(* step says which query it makes next.                                    *)
(***************************************************************************)
EXTENDS Integers, FiniteSets

NoRows == [id \in {} |-> {}]

(* create, or an update of the whole row. *)
Put(table, id, row) ==
  [x \in DOMAIN table \cup {id} |-> IF x = id THEN row ELSE table[x]]

(* deleteMany: ids that are not there are not missed. *)
Drop(table, ids) == [x \in DOMAIN table \ ids |-> table[x]]

(* A handler that is not in flight. *)
Idle == [step |-> "idle"]
===============================================================================
