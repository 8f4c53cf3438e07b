---------------------------- MODULE MCWalSegments ----------------------------
(* Model-checking instance of WalSegments.                                 *)
EXTENDS WalSegments
=============================================================================
