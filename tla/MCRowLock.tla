----------------------------- MODULE MCRowLock -----------------------------
EXTENDS RowLock, TLC

TxnSymmetry == Permutations(Txns)
TxnRowSymmetry == Permutations(Txns) \cup Permutations(Rows)
=============================================================================
