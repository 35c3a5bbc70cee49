---------------------------- MODULE MCAdaptiveWalk ----------------------------
(* Instances of AdaptiveWalk: an arena of seven pages of two addresses, tiles of
   up to three pages, so that tiles are odd, the last one is cut at the top, and
   budgets both suffice and run out. *)
EXTENDS AdaptiveWalk
=============================================================================
