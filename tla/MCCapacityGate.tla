--------------------------- MODULE MCCapacityGate ---------------------------
(* Small instances of CapacityGate for TLC; callbacks are interchangeable. *)
EXTENDS CapacityGate, TLC

Interchangeable == Permutations(Writers)
=============================================================================
