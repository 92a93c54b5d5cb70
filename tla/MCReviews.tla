----------------------------- MODULE MCReviews -----------------------------
(***************************************************************************)
(* Reviews for TLC: the slots of requests, and the values of fields, are   *)
(* interchangeable model values in the runs that check no liveness         *)
(* property; users are not, one of them may have staff rights.             *)
(***************************************************************************)
EXTENDS Reviews, TLC

Symmetry == Permutations(Requests) \union Permutations(Contents)
=============================================================================
