---------------------------- MODULE MCAccounts ----------------------------
(***************************************************************************)
(* Accounts for TLC: "a" and "A" fold to one string; the slots of requests *)
(* are interchangeable.                                                    *)
(***************************************************************************)
EXTENDS Accounts, TLC

CONSTANTS a, A, b, x, X

MCFold(s) == CASE s = A -> a [] s = X -> x [] OTHER -> s
NameTwin == [name |-> A, email |-> b]
EmailTwin == [name |-> b, email |-> X]
MCForms == {[name |-> a, email |-> x], NameTwin, EmailTwin}
MCOneForm == {[name |-> a, email |-> x]}
Symmetry == Permutations(Requests)
=============================================================================
