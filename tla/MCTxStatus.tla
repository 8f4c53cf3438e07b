----------------------------- MODULE MCTxStatus -----------------------------
(* The transaction status table for TLC.  Clients are interchangeable.     *)
EXTENDS TxStatus, TLC

ClientSymmetry == Permutations(Clients)
=============================================================================
