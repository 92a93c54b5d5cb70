-------------------------- MODULE MCSubscriptions --------------------------
(***************************************************************************)
(* Subscriptions for TLC: the slots of requests are interchangeable.       *)
(***************************************************************************)
EXTENDS Subscriptions, TLC

Symmetry == Permutations(Requests)
=============================================================================
