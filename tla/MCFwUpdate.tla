---------------------------- MODULE MCFwUpdate ----------------------------
(* Constants of the model-checking runs of FwUpdate. *)
EXTENDS FwUpdate

CONSTANTS u1, u2

One == {u1}
Two == {u1, u2}
=============================================================================
