---------------------------- MODULE MCListCache ----------------------------
(***************************************************************************)
(* ListCache for TLC: requests are model values, interchangeable in the    *)
(* runs that look for a state that violates an invariant.                  *)
(***************************************************************************)
EXTENDS ListCache, TLC

Symmetry == Permutations(Readers) \union Permutations(Writers)
=============================================================================
