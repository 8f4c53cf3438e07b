----------------------------- MODULE MCPageHeap -----------------------------
(***************************************************************************)
(* PageHeap for TLC: transactions are model values.                        *)
(***************************************************************************)
EXTENDS PageHeap, TLC

CONSTANTS t0, t1, t2, t3, t4

\* Transactions of one isolation level are interchangeable.
Symmetry == Permutations(Txs \ (ReadCommitted \cup {Loader})) \cup Permutations(ReadCommitted)

=============================================================================
