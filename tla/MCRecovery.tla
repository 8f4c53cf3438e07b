----------------------------- MODULE MCRecovery -----------------------------
(* Recovery on small instances; the configurations give the bounds.        *)
EXTENDS Recovery
=============================================================================
