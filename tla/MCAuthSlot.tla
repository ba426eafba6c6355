----------------------------- MODULE MCAuthSlot -----------------------------
(* Constants of the model-checking runs of AuthSlot. *)
EXTENDS AuthSlot, TLC

CONSTANTS c1, c2

MCClients  == {c1, c2}
MCSymmetry == Permutations(MCClients)
=============================================================================
