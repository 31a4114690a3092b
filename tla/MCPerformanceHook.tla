------------------------- MODULE MCPerformanceHook -------------------------
(* Values of the constants of PerformanceHook for TLC.                     *)
EXTENDS PerformanceHook, TLC

Symmetry == Permutations(Vms) \cup Permutations(Files)
=============================================================================
