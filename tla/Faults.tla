------------------------------- MODULE Faults -------------------------------
(***************************************************************************)
(* A budget of things that go wrong outside the program: a database or     *)
(* provider call that fails, a request that is dropped half-way (the       *)
(* client hung up, the process died).  MaxFaults bounds them in a TLC run; *)
(* the theorems hold for every bound.                                      *)
(***************************************************************************)
EXTENDS Naturals

CONSTANT MaxFaults
ASSUME MaxFaultsAssumption == MaxFaults \in Nat

VARIABLE faults

FaultsInit == faults = 0
Fails == faults < MaxFaults /\ faults' = faults + 1
Works == UNCHANGED faults
=============================================================================
