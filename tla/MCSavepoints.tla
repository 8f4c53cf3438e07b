----------------------------- MODULE MCSavepoints -----------------------------
(* Model-checking instance of Savepoints.                                  *)
EXTENDS Savepoints
=============================================================================
