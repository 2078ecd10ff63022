----------------------------- MODULE MCFrontDoor -----------------------------
(***************************************************************************)
(* Small instances of FrontDoor for TLC.                                   *)
(***************************************************************************)
EXTENDS FrontDoor, TLC

Symmetry == Permutations(Attempt) \cup Permutations(Account) \cup Permutations(Ip)
=============================================================================
