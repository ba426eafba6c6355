---------------------------- MODULE MCEnrollment ----------------------------
(* Constants of the model-checking runs of Enrollment. *)
EXTENDS Enrollment

CONSTANTS g, t, k

Desktop        == {g}
DesktopAndTool == {g, k}
Terminal       == {t}
OneKind        == [c \in {g, t, k} |-> CASE c = g -> "gui" [] c = t -> "tui" [] OTHER -> "cli"]
KindsOf(some)  == [c \in some |-> OneKind[c]]
MCKind         == KindsOf(Clients)
=============================================================================
