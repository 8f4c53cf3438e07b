---------------------------- MODULE MCBufferPool ----------------------------
(* The buffer pool on small instances.                                     *)
EXTENDS BufferPool, TLC

CONSTANTS c1, c2, c3, cp

Symmetry == Permutations(Clients)
=============================================================================
