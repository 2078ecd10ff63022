------------------------------- MODULE MCOAuth -------------------------------
(***************************************************************************)
(* Small instances of OAuth for TLC.                                       *)
(***************************************************************************)
EXTENDS OAuth, TLC

Symmetry == Permutations(Callback) \cup Permutations(State)
            \cup Permutations(Account) \cup Permutations(Provider)
=============================================================================
