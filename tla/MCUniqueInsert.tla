--------------------------- MODULE MCUniqueInsert ---------------------------
(* Sessions and keys are interchangeable.                                  *)
EXTENDS UniqueInsert, TLC

Interchangeable == Permutations(Txns) \cup Permutations(Keys)
=============================================================================
