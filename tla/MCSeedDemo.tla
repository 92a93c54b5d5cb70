----------------------------- MODULE MCSeedDemo -----------------------------
(***************************************************************************)
(* SeedDemo for TLC: two demo locations of one user in one category, which *)
(* shares its slug with another that an administrator may add; the runs of *)
(* the command are interchangeable.                                        *)
(***************************************************************************)
EXTENDS SeedDemo, TLC

MCSlugOf == "Parks" :> "parks" @@ "PARKS" :> "parks"
MCAuthorOf == [t \in LOCATIONS |-> "olena"]
MCCategoryOf == "garden" :> "Parks" @@ "gallery" :> "Parks"
Symmetry == Permutations(Commands)
=============================================================================
