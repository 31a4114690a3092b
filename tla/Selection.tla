------------------------------- MODULE Selection -------------------------------
(***************************************************************************)
(* What hardware.py and xmlgen.py do with a list comprehension: the        *)
(* elements of a sequence that pass a test, in their order.                *)
(***************************************************************************)
EXTENDS Integers, Sequences, FiniteSets, FiniteSetsExt

\* The position of i among the numbers I, counted from one.
Rank(i, I) == Cardinality({j \in I : j <= i})

\* [x for x in seq if x in S]
Only(seq, S) ==
  LET kept == {i \in DOMAIN seq : seq[i] \in S}
  IN [n \in 1 .. Cardinality(kept) |-> seq[CHOOSE i \in kept : Rank(i, kept) = n]]
=============================================================================
