-------------------------- MODULE MCFallbackChain ---------------------------
(* Two tiers with one call a day each, the second accepting fewer callouts. *)
EXTENDS FallbackChain, TLC

MCLimit       == [t \in Tiers |-> 1]
MCMinCallouts == <<3, 0>>
=============================================================================
