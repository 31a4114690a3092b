--------------------------- MODULE MCHugepagePool ---------------------------
(* Values of the constants of HugepagePool for TLC.                        *)
EXTENDS HugepagePool, TLC

CONSTANTS v1, v2, v3

\* One VM asks for more than the others, so that sums of two differ.
SizeOfThree == v1 :> 1 @@ v2 :> 1 @@ v3 :> 2
SizeOfTwo == v1 :> 1 @@ v2 :> 2
=============================================================================
