-------------------------- MODULE MCLocationViews --------------------------
(***************************************************************************)
(* LocationViews for TLC: the slots of requests are interchangeable.       *)
(***************************************************************************)
EXTENDS LocationViews, TLC

Symmetry == Permutations(Requests)
=============================================================================
