----------------------------- MODULE Catalogue ------------------------------
(***************************************************************************)
(* What the ingest pipeline promises about the three stores it writes, as  *)
(* a reader of the catalogue sees them: PostgreSQL's products and          *)
(* product_images, and the objects of the R2 bucket.  Nothing is said of   *)
(* queues, workers, retries or crashes.                                    *)
(*                                                                         *)
(* A product that is catalogued stays catalogued, an object that is stored *)
(* stays stored, and a picture is linked only once both ends exist, so a   *)
(* reader never follows a link to a missing object or a missing product.   *)
(***************************************************************************)
CONSTANTS Product, Blob

VARIABLES catalogued, stored, linked

vars == <<catalogued, stored, linked>>

Init == catalogued = {} /\ stored = {} /\ linked = {}

Upsert(p) == /\ catalogued' = catalogued \cup {p}
             /\ UNCHANGED <<stored, linked>>

Store(b) == /\ stored' = stored \cup {b}
            /\ UNCHANGED <<catalogued, linked>>

Link(p, b) == /\ p \in catalogued
              /\ b \in stored
              /\ linked' = linked \cup {<<p, b>>}
              /\ UNCHANGED <<catalogued, stored>>

Next == \/ \E p \in Product : Upsert(p)
        \/ \E b \in Blob : Store(b)
        \/ \E p \in Product, b \in Blob : Link(p, b)

Spec == Init /\ [][Next]_vars
=============================================================================
