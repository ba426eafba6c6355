----------------------------- MODULE MCKeyStore -----------------------------
(* Constants of the model-checking runs of KeyStore. *)
EXTENDS KeyStore, TLC

CONSTANTS c1, c2, x, y

One      == {c1}
Two      == {c1, c2}
MCNames  == {x, y}
Symmetry == Permutations(Two) \cup Permutations(MCNames)
NameSymmetry == Permutations(MCNames)
=============================================================================
