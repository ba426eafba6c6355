---------------------------- MODULE MCGateWorker ----------------------------
(* Constants of the model-checking runs of GateWorker. *)
EXTENDS GateWorker, TLC

CONSTANTS c1, c2

MCClients  == {c1, c2}
MCSymmetry == Permutations(MCClients)
=============================================================================
