------------------------------- MODULE MCLogin -------------------------------
(***************************************************************************)
(* Small instances of Login for TLC.                                       *)
(***************************************************************************)
EXTENDS Login, TLC

Symmetry == Permutations(Attempt) \cup Permutations(Account) \cup Permutations(Ip)
=============================================================================
