----------------------------- MODULE MCPairing -----------------------------
(* Constants of the model-checking runs of Pairing. *)
EXTENDS Pairing, TLC

CONSTANTS c1, c2

One      == {c1}
Two      == {c1, c2}
Symmetry == Permutations(Two)
=============================================================================
