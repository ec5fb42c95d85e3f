------------------------------- MODULE MCWeakRefs -------------------------------
(* Instances of WeakRefs for TLC. *)
EXTENDS WeakRefs, TLC

Interchangeable == Permutations(Objects \ Finals)
===============================================================================
