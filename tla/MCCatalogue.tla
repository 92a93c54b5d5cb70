---------------------------- MODULE MCCatalogue ----------------------------
(***************************************************************************)
(* Catalogue for TLC: two of three names share a slug; the slots of        *)
(* requests are interchangeable.                                           *)
(***************************************************************************)
EXTENDS Catalogue, TLC

CONSTANTS n1, n2, n3

MCSlugOf == n1 :> "s1" @@ n2 :> "s1" @@ n3 :> "s3"
Symmetry == Permutations(Requests)
=============================================================================
