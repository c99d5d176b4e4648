-------------------------------- MODULE Values --------------------------------
(***************************************************************************)
(* The null of both languages and what is put in its place.                *)
(***************************************************************************)
CONSTANT None

(* `v ?? default', COALESCE(v, default), `v if v is not None else default'. *)
OrElse(v, default) == IF v = None THEN default ELSE v
=============================================================================
