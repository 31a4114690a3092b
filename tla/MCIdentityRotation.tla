------------------------- MODULE MCIdentityRotation -------------------------
(* Values of the constants of IdentityRotation for TLC.                    *)
EXTENDS IdentityRotation, TLC

Symmetry == Permutations(Procs) \cup Permutations(Uuids) \cup Permutations(Tpms)
=============================================================================
