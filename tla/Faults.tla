-------------------------------- MODULE Faults --------------------------------
(***************************************************************************)
(* What may go wrong outside the program: crashes, failed calls of the     *)
(* database, lost writes.  Every such event counts, up to MaxFaults, so    *)
(* that a property may speak of runs without faults.                       *)
(***************************************************************************)
EXTENDS Integers, FiniteSets

CONSTANT MaxFaults

ASSUME MaxFaultsAssumption == MaxFaults \in Nat

VARIABLE faults

Fault == faults < MaxFaults /\ faults' = faults + 1
=============================================================================
