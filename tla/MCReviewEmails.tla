--------------------------- MODULE MCReviewEmails ---------------------------
(***************************************************************************)
(* ReviewEmails for TLC: the location is u1's, u2 writes its reviews, u3   *)
(* may subscribe, as may the other two.                                    *)
(***************************************************************************)
EXTENDS ReviewEmails

CONSTANTS u1, u2, u3

MCReviewer == [r \in Reviews |-> u2]
=============================================================================
