---------------------------- MODULE StockLedger -----------------------------
(***************************************************************************)
(* What the streaming path promises about stock levels: the level a        *)
(* product shows was announced by an event about its part, and that event  *)
(* was recorded before.  An event may reach any of the products of its     *)
(* part, any number of times, in any order.                                *)
(***************************************************************************)
CONSTANTS Event, Part, Product, Covers(_, _), Nothing

VARIABLES recorded, stock

vars == <<recorded, stock>>

(* recorded: the part an event is about, once it is recorded *)
Init == /\ recorded = [e \in Event |-> Nothing]
        /\ stock = [p \in Product |-> Nothing]

Record(e, part) == /\ recorded[e] = Nothing
                   /\ recorded' = [recorded EXCEPT ![e] = part]
                   /\ UNCHANGED stock

Apply(e, reached) ==
  /\ recorded[e] # Nothing
  /\ \A p \in reached : Covers(recorded[e], p)
  /\ stock' = [p \in Product |-> IF p \in reached THEN e ELSE stock[p]]
  /\ UNCHANGED recorded

Next == \E e \in Event : \/ \E part \in Part : Record(e, part)
                         \/ \E reached \in SUBSET Product : Apply(e, reached)

Spec == Init /\ [][Next]_vars
=============================================================================
