------------------------------ MODULE MCBTree ------------------------------
(* The index with leaves of two entries and internal pages of two          *)
(* separators.                                                             *)
EXTENDS BTree

CONSTANTS w1, w2, r1

\* Logical key and row of an entry; a full root over three leaves to start with.
MCInserts == {Physical(1, 2), Physical(3, 1), Physical(6, 1), Physical(7, 1)}
MCDeletes == {Physical(3, 1)}
MCPreload == <<Physical(1, 1), Physical(3, 1), Physical(5, 2), Physical(6, 2),
               Physical(2, 1), Physical(4, 1)>>
MCQueries == {<<"lookup", 2, 3>>, <<"point", 3, 4>>, <<"keys", 1, 6>>, <<"rowids", 1, 7>>,
              <<"count", 1, 0>>, <<"reverse", 2, 0>>, <<"reverse", 0, 5>>, <<"dump", 0, 0>>}
=============================================================================
