--------------------------- MODULE MCOperatorAuth ---------------------------
(* Two requests, two browsers, two accounts; one verification at a time.    *)
EXTENDS OperatorAuth, TLC
Symmetry == Permutations(Request) \cup Permutations(Browser) \cup Permutations(User) \cup Permutations(Password)
=============================================================================
