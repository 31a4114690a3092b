---------------------------- MODULE MCGpuHandoff ----------------------------
(* Values of the constants of GpuHandoff for TLC.                          *)
EXTENDS GpuHandoff, TLC

Symmetry == Permutations(Vms)
=============================================================================
