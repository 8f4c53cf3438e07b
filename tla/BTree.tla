------------------------------- MODULE BTree -------------------------------
(***************************************************************************)
(* The B-link index under concurrent use: writers insert and delete-mark   *)
(* entries and split pages, readers look keys up, scan in both directions  *)
(* and dump the whole index.                                               *)
(*                                                                         *)
(* A descent latches one page at a time, so the tree may change between    *)
(* any two of its pages.  Changing a leaf takes its write latch; a split   *)
(* takes structure_lock first and keeps the latches of both halves until   *)
(* the separator is in place above.  A latch that is taken and given back  *)
(* within one step is not a variable.                                      *)
(***************************************************************************)
EXTENDS IndexPages

CONSTANTS
    Writers,
    Readers,
    Inserts,    \* the entries writers may insert, as physical keys
    Deletes,    \* the entries writers may delete
    Queries,    \* the calls readers may make: <<what, first logical key, end>>
    Preload,    \* entries inserted, in this order, before the writers start
    MaxPages,   \* bound: pages of the index
    MaxCalls,   \* bound: calls of each writer and reader
    MaxBatch,   \* rows a cursor returns at a time
    Unique,     \* is this a unique index?
    Hazards     \* circumstances in which calls have to answer exactly, too

\* "fresh": a cursor without latches meets a page that is not laid out yet;
\* "batch": the leaf a cursor stopped at has changed when it goes on;
\* "left": a reverse cursor starts before the last leaf of its range, or reads
\* a leaf that is not the left neighbour of the one before;
\* "above", "below": the separator between the halves of an internal page is
\* above or below the one between the leaves there;
\* "again": an entry is inserted again after its deletion;
\* "dump": an index dump descends while a split is under way.
ASSUME BTreeHazards == Hazards \subseteq
    {"fresh", "batch", "left", "above", "below", "again", "dump"}

VARIABLES
    tree,
    structure, \* who holds structure_lock, or NoOne
    latches,   \* the pages whose write latch the splitting writer holds
    held,      \* the pages whose read latch an index dump holds
    op,        \* the call each writer and reader is in, or was in last
    calls,     \* calls made so far
    hist       \* the entries inserts and deletes have asked and answered for,
               \* and the circumstances the tree has met

vars == <<tree, structure, latches, held, op, calls, hist>>

Actors == Writers \cup Readers
NoOne == "no one"
EndOfLeaf == 99  \* a slot beyond every leaf: usize::MAX

\* A call is about the keys from low up to high, NoKey for no bound.  What it
\* must and must not return is fixed when it starts.
Call(what, pc, low, high) ==
    [what |-> what, pc |-> pc, low |-> low, high |-> high,
     key |-> IF what = "reverse" THEN high ELSE low, page |-> tree.root, path |-> <<>>,
     split |-> NoSplit, half |-> Fresh, out |-> <<>>, got |-> 0, mark |-> <<>>,
     slot |-> IF what = "reverse" THEN EndOfLeaf ELSE 0,
     from |-> NoPage, answer |-> "", met |-> {},
     must |-> hist.inserted \ hist.deleting, mustNot |-> hist.deleted]
Idle == [Call("none", "done", NoKey, NoKey) EXCEPT !.must = {}, !.mustNot = {}]

Init ==
    /\ hist = [asked |-> ToSet(Preload), inserted |-> ToSet(Preload),
               deleting |-> {}, deleted |-> {}, met |-> {}]
    /\ tree = FoldLeft(LAMBDA t, key : InsertEntry(t, Entry(key)),
                       EmptyTree(1..MaxPages), Preload)
    /\ structure = NoOne
    /\ latches = {} /\ held = {}
    /\ op = [a \in Actors |-> Idle]
    /\ calls = [a \in Actors |-> 0]

Page(a) == tree.pages[op[a].page]
Keys(cells) == [i \in DOMAIN cells |-> cells[i].key]
At(a, what, pc) == op[a].what = what /\ op[a].pc = pc
\* Mutant: readers take no latch.
MayReadUnlatched(p) == TRUE
\* The read latch, and the write latch, of a page can be taken.
MayRead(p) == p \notin latches
MayWrite(p) == p \notin latches \cup held
Done(a, answer) == [op EXCEPT ![a].pc = "done", ![a].answer = answer]

-----------------------------------------------------------------------------
\* Calls.  The root is read from the meta page, without a latch.
Start(a, what, pc, low, high) ==
    /\ op[a].pc = "done" /\ calls[a] < MaxCalls
    /\ calls' = [calls EXCEPT ![a] = @ + 1]
    /\ op' = [op EXCEPT ![a] = Call(what, pc, low, high)]
    /\ UNCHANGED <<tree, structure, latches, held>>

CallInsert(w) == \E key \in Inserts :
    /\ key \notin hist.asked \/ key \in hist.deleted
    /\ Start(w, "insert", "descend", key, NoKey)
    /\ hist' = [hist EXCEPT !.asked = @ \cup {key},
                            !.met = @ \cup IF key \in hist.deleted THEN {"again"} ELSE {}]

CallDelete(w) == \E key \in Deletes :
    /\ key \in hist.inserted \ hist.deleting
    /\ Start(w, "delete", "descend", key, NoKey)
    /\ hist' = [hist EXCEPT !.deleting = @ \cup {key}]

\* A descent to the right end, or to the first leaf, has no key to follow.
CallQuery(r) == \E q \in Queries :
    /\ Start(r, q[1], IF q[1] = "dump" THEN "down"
                      ELSE IF q[1] = "reverse" /\ q[3] = NoKey THEN "rightmost" ELSE "descend",
             LogicalKey(q[2]), LogicalKey(q[3]))
    /\ hist' = [hist EXCEPT !.met = @ \cup
                   IF q[1] = "dump" /\ structure # NoOne THEN {"dump"} ELSE {}]

-----------------------------------------------------------------------------
\* One page of find_leaf_path; a page entered is on the path whether it was
\* reached from above or over a right link.
Descend(a) ==
    LET next == NextPage(Page(a), op[a].key)
    IN  /\ op[a].pc \in {"descend", "redescend"}
        /\ MayRead(op[a].page)
        /\ op' = [op EXCEPT
             ![a].path = IF op[a].pc = "redescend" THEN Append(@, op[a].page) ELSE @,
             ![a].pc = IF next \notin {NoPage, op[a].page} THEN @
                       ELSE IF @ = "redescend" THEN "split" ELSE "leaf",
             ![a].page = IF next = NoPage THEN @ ELSE next]
        /\ UNCHANGED <<tree, structure, latches, held, calls, hist>>

\* find_rightmost_leaf takes the last child and never a right link.
DescendRightmost(r) ==
    LET cells == Page(r).cells
    IN  /\ op[r].pc = "rightmost" /\ MayRead(op[r].page)
        /\ op' = IF Page(r).kind = "leaf"
                 THEN [op EXCEPT ![r].pc = "leaf"]
                 ELSE [op EXCEPT ![r].page = IF cells = <<>> THEN Page(r).left
                                             ELSE Last(cells).child]
        /\ UNCHANGED <<tree, structure, latches, held, calls, hist>>

\* The insert has been done.
Inserted(w) == hist' = [hist EXCEPT !.inserted = @ \cup {op[w].key},
                                    !.deleting = @ \ {op[w].key}, !.deleted = @ \ {op[w].key}]

\* Mutant: the leaf that the descent has found is taken for the right one.
NeverMoved(w) == FALSE
\* The defensive check: a split may have taken the key away since the descent.
MovedAway(w) == PastHighKey(Page(w), op[w].key)

\* insert_tx_inner with the write latch of the leaf: start over if a split took
\* the key away, refuse, ask for a split, or insert in front of an equal entry.
InsertLeaf(w) ==
    LET p == op[w].page
        cells == Page(w).cells
        key == op[w].key
        behind == Cardinality({i \in DOMAIN cells : cells[i].key < key})
    IN  /\ At(w, "insert", "leaf") /\ MayWrite(p)
        /\ IF MovedAway(w)
           THEN /\ op' = [op EXCEPT ![w].pc = "descend", ![w].page = tree.root]
                /\ UNCHANGED <<tree, hist>>
           ELSE IF Unique /\ \E i \in DOMAIN cells : cells[i].key = key
           THEN op' = Done(w, "conflict") /\ UNCHANGED <<tree, hist>>
           ELSE IF Len(cells) + 1 > LeafCap
           THEN op' = [op EXCEPT ![w].pc = "lock"] /\ UNCHANGED <<tree, hist>>
           ELSE /\ tree' = [tree EXCEPT !.pages[p].cells = InsertAt(@, behind + 1, Entry(key))]
                /\ op' = Done(w, "ok")
                /\ Inserted(w)
        /\ UNCHANGED <<structure, latches, held, calls>>

\* Mutant: splits do not wait for each other.
StructureIgnored == TRUE
StructureFree == structure = NoOne

\* lock_structure, then the descent again from the root.
LockStructure(w) ==
    /\ At(w, "insert", "lock") /\ StructureFree
    /\ structure' = w
    /\ op' = [op EXCEPT ![w].pc = "redescend", ![w].page = tree.root]
    /\ hist' = [hist EXCEPT !.met = @ \cup
                   IF \E r \in Readers : At(r, "dump", "down") THEN {"dump"} ELSE {}]
    /\ UNCHANGED <<tree, latches, held, calls>>

\* split_leaf_and_insert writes the left half first; only then is the page it
\* links to laid out.
SplitLeft(w) ==
    LET s == SplitLeaf(tree, op[w].path, Entry(op[w].key))
        q == s.split.right
    IN  /\ At(w, "insert", "split") /\ MayWrite(op[w].page)
        /\ tree' = [s.tree EXCEPT !.pages[q] = Fresh]
        /\ latches' = {op[w].page, q}
        /\ op' = [op EXCEPT ![w].pc = "right", ![w].split = s.split, ![w].half = s.tree.pages[q]]
        /\ UNCHANGED <<structure, held, calls, hist>>

SplitRight(w) ==
    /\ At(w, "insert", "right")
    /\ tree' = [tree EXCEPT !.pages[op[w].split.right] = op[w].half]
    /\ op' = [op EXCEPT ![w].pc = "up", ![w].half = Fresh]
    /\ UNCHANGED <<structure, latches, held, calls, hist>>

\* Mutant: the latches of the halves are kept.
LeakLatches(w, answer) ==
    /\ latches' = latches /\ structure' = NoOne
    /\ op' = [Done(w, answer) EXCEPT ![w].split = NoSplit, ![w].path = <<>>]

\* At the end of a split all latches and structure_lock are given back.
Release(w, answer) ==
    /\ latches' = {} /\ structure' = NoOne
    /\ op' = [Done(w, answer) EXCEPT ![w].split = NoSplit, ![w].path = <<>>]

\* propagate_split, one ancestor at a time.
PropagateSplit(w) ==
    LET s == op[w].split
        up == SplitParent(tree, s)
        sep == Head(up.tree.pages[up.split.right].cells).key
        met == IF up.split.sep > sep THEN {"above"} ELSE IF up.split.sep < sep THEN {"below"} ELSE {}
    IN  /\ At(w, "insert", "up")
        /\ s.anc # <<>> => MayWrite(Parent(s))
        /\ IF s.anc = <<>>
           THEN tree' = NewRoot(tree, s) /\ Release(w, "ok") /\ Inserted(w)
           ELSE IF tree.pages[Parent(s)].kind # "node"
           THEN Release(w, "corrupt") /\ UNCHANGED <<tree, hist>>
           ELSE IF ParentFits(tree, s)
           THEN tree' = AddToParent(tree, s) /\ Release(w, "ok") /\ Inserted(w)
           ELSE /\ tree' = up.tree
                /\ op' = [op EXCEPT ![w].split = up.split]
                /\ hist' = [hist EXCEPT !.met = @ \cup met]
                /\ UNCHANGED <<structure, latches>>
        /\ UNCHANGED <<held, calls>>

\* delete_mark_tx_inner: follow right links to the entry and mark it.
DeleteLeaf(w) ==
    LET p == op[w].page
        cells == Page(w).cells
        key == op[w].key
        match == {i \in DOMAIN cells : cells[i].key = key}
        first == CHOOSE i \in match : \A j \in match : i <= j
        sameKey == \E i \in DOMAIN cells : Logical(cells[i].key) = Logical(key)
        goesOn == PastHighKey(Page(w), key) \/ (match = {} /\ sameKey /\ Page(w).right # NoPage)
    IN  /\ At(w, "delete", "leaf") /\ MayWrite(p)
        /\ IF goesOn
           THEN op' = [op EXCEPT ![w].page = Page(w).right] /\ UNCHANGED <<tree, hist>>
           ELSE /\ op' = Done(w, "ok")
                /\ hist' = [hist EXCEPT !.deleted = @ \cup {key}]
                /\ tree' = IF match = {} THEN tree
                           ELSE [tree EXCEPT !.pages[p].cells[first].dead = TRUE]
        /\ UNCHANGED <<structure, latches, held, calls>>

-----------------------------------------------------------------------------
Live(cells) == SelectSeq(cells, LAMBDA c : ~c.dead)

\* A reader goes on with page next, or is done when there is none.
GoOn(r, out, next) ==
    [op EXCEPT ![r].out = out, ![r].page = IF next = NoPage THEN @ ELSE next,
               ![r].pc = IF next = NoPage THEN "done" ELSE @,
               ![r].answer = IF next = NoPage THEN "ok" ELSE @]

\* A key is beyond the end of the range, or in the range.
Beyond(c, key) == c.high # NoKey /\ key >= c.high
InRange(c, key) == key >= c.low /\ ~Beyond(c, key)
RowsOf(c, cells) == Keys(SelectSeq(Live(cells), LAMBDA x : InRange(c, x.key)))

\* point_lookup_filter at one leaf: stop when its first entry is beyond the key.
LookupLeaf(r) ==
    LET cells == Page(r).cells
        stop == cells # <<>> /\ Beyond(op[r], Head(cells).key)
    IN  /\ At(r, "lookup", "leaf") /\ MayRead(op[r].page)
        /\ op' = GoOn(r, op[r].out \o RowsOf(op[r], cells), IF stop THEN NoPage ELSE Page(r).right)
        /\ UNCHANGED <<tree, structure, latches, held, calls, hist>>

\* next_batch and next_batch_with_keys copy a leaf and its right link without
\* taking its latch, and stop when its last entry is beyond the end.
LoadLeaf(r) ==
    LET cells == Page(r).cells
        stop == cells # <<>> /\ Beyond(op[r], Last(cells).key)
    IN  /\ At(r, "keys", "leaf")
        /\ op' = IF Page(r).kind = "fresh"
                 THEN [Done(r, "corrupt") EXCEPT ![r].met = @ \cup {"fresh"}]
                 ELSE GoOn(r, op[r].out \o RowsOf(op[r], cells),
                           IF stop THEN NoPage ELSE Page(r).right)
        /\ UNCHANGED <<tree, structure, latches, held, calls, hist>>

\* A cursor goes on at the slot where it stopped, whatever is there now.
Stale(r) == IF op[r].mark \in {<<>>, Keys(Page(r).cells)} THEN {} ELSE {"batch"}
Room(r) == (IF op[r].what = "count" THEN EndOfLeaf ELSE MaxBatch) - op[r].got
\* The rows of the slots that go into this batch, by rising or falling slot.
Batch(r, slots, rising) ==
    LET cells == Page(r).cells
        before(i, j) == IF rising THEN i < j ELSE i > j
        rows == {i \in slots : ~cells[i].dead /\ InRange(op[r], cells[i].key)}
    IN  SetToSortSeq({i \in rows : Cardinality({j \in rows : before(j, i)}) < Room(r)}, before)

\* next_rowid_batch_forward, count_remaining and the point cursor at one leaf.
NextRowids(r) ==
    LET cells == Page(r).cells
        slots == {i \in DOMAIN cells : i > op[r].slot}
        seq == Batch(r, slots, TRUE)
        out == op[r].out \o [n \in DOMAIN seq |-> cells[seq[n]].key]
        stop == \E i \in IF op[r].what = "point" THEN DOMAIN cells \cap {1} ELSE slots :
                   Beyond(op[r], cells[i].key)
    IN  /\ op[r].what \in {"rowids", "count", "point"} /\ op[r].pc = "leaf"
        /\ MayRead(op[r].page)
        /\ op' = IF Len(seq) = Room(r)
                 THEN [op EXCEPT ![r].out = out, ![r].slot = Last(seq), ![r].pc = "paused",
                                 ![r].mark = Keys(cells), ![r].met = @ \cup Stale(r)]
                 ELSE [GoOn(r, out, IF stop THEN NoPage ELSE Page(r).right) EXCEPT
                          ![r].slot = 0, ![r].got = @ + Len(seq),
                          ![r].mark = <<>>, ![r].met = @ \cup Stale(r)]
        /\ UNCHANGED <<tree, structure, latches, held, calls, hist>>

\* next_rowid_batch_reverse at one leaf; a drained leaf leads to its left link.
PreviousRowids(r) ==
    LET cells == Page(r).cells
        c == op[r]
        slots == {i \in DOMAIN cells : i <= c.slot}
        seq == Batch(r, slots, FALSE)
        out == c.out \o [n \in DOMAIN seq |-> cells[seq[n]].key]
        full == Len(seq) = Room(r)
        stop == ~full /\ \E i \in slots : cells[i].key < c.low
        left == IF stop THEN NoPage ELSE Page(r).left
        inPlace == IF c.from = NoPage
                   THEN Page(r).high = NoKey \/ (c.high # NoKey /\ c.high <= Page(r).high)
                   ELSE Page(r).right = c.from
        met == Stale(r) \cup IF inPlace THEN {} ELSE {"left"}
    IN  /\ At(r, "reverse", "leaf") /\ MayRead(c.page)
        /\ op' = IF full /\ Last(seq) > 1
                 THEN [op EXCEPT ![r].out = out, ![r].slot = Last(seq) - 1, ![r].pc = "paused",
                                 ![r].mark = Keys(cells), ![r].met = @ \cup met]
                 ELSE [GoOn(r, out, left) EXCEPT
                          ![r].slot = EndOfLeaf, ![r].got = @ + Len(seq), ![r].mark = <<>>,
                          ![r].from = c.page, ![r].met = @ \cup met,
                          ![r].pc = IF full /\ left # NoPage THEN "paused" ELSE @]
        /\ UNCHANGED <<tree, structure, latches, held, calls, hist>>

\* The caller asks for the next batch, or has enough and drops the cursor.
NextBatch(r) ==
    /\ op[r].pc = "paused"
    /\ op' = [op EXCEPT ![r].pc = "leaf", ![r].got = 0]
    /\ UNCHANGED <<tree, structure, latches, held, calls, hist>>

DropCursor(r) ==
    /\ op[r].pc = "paused"
    /\ op' = [Done(r, "dropped") EXCEPT ![r].mark = <<>>]
    /\ UNCHANGED <<tree, structure, latches, held, calls, hist>>

\* leftmost_leaf keeps the latch of every page above while it takes the next
\* one; then iter_all_entries walks the leaves.
DumpDown(r) ==
    /\ At(r, "dump", "down") /\ MayRead(op[r].page)
    /\ IF Page(r).kind = "node"
       THEN held' = held \cup {op[r].page} /\ op' = [op EXCEPT ![r].page = Page(r).left]
       ELSE held' = {} /\ op' = [op EXCEPT ![r].pc = "leaf"]
    /\ UNCHANGED <<tree, structure, latches, calls, hist>>

DumpLeaf(r) ==
    /\ At(r, "dump", "leaf") /\ MayRead(op[r].page)
    /\ op' = GoOn(r, op[r].out \o Keys(Live(Page(r).cells)), Page(r).right)
    /\ UNCHANGED <<tree, structure, latches, held, calls, hist>>

-----------------------------------------------------------------------------
WriterStep(w) ==
    \/ Descend(w) \/ InsertLeaf(w) \/ LockStructure(w) \/ SplitLeft(w) \/ SplitRight(w)
    \/ PropagateSplit(w) \/ DeleteLeaf(w)

ReaderStep(r) ==
    \/ Descend(r) \/ DescendRightmost(r) \/ LookupLeaf(r) \/ LoadLeaf(r) \/ NextRowids(r)
    \/ PreviousRowids(r) \/ NextBatch(r) \/ DropCursor(r) \/ DumpDown(r) \/ DumpLeaf(r)

Next ==
    \/ \E w \in Writers : CallInsert(w) \/ CallDelete(w) \/ WriterStep(w)
    \/ \E r \in Readers : CallQuery(r) \/ ReaderStep(r)

\* A call waits for a latch or for structure_lock.
Waits(a) ==
    \/ op[a].pc = "lock" /\ structure # NoOne
    \/ op[a].pc = "up" /\ op[a].split.anc # <<>> /\ Parent(op[a].split) \in held
    \/ op[a].pc \notin {"lock", "right", "up", "paused"} /\ op[a].what # "keys" /\ op[a].page \in latches
    \/ At(a, "keys", "descend") /\ op[a].page \in latches

Step == (\E w \in Writers : WriterStep(w)) \/ (\E r \in Readers : ReaderStep(r))

\* Weak fairness of Step, with its enabling condition written out: the system
\* stops only where every call has returned or waits.  As calls are bounded,
\* nobody is overtaken for ever.
Fairness == []<><<Step>>_vars \/ []<>(\A a \in Actors : op[a].pc = "done" \/ Waits(a))

Spec == Init /\ [][Next]_vars /\ Fairness

-----------------------------------------------------------------------------
\* The pages are laid out within the capacity of their kind and linked to pages
\* the pool has given out, and only writers hold structure_lock.
TypeOK ==
    /\ tree.root \in 1..MaxPages /\ tree.next \in 2..(MaxPages + 1)
    /\ \A p \in 1..MaxPages :
         /\ tree.pages[p].kind \in {"leaf", "node", "fresh"}
         /\ Len(tree.pages[p].cells) <= IF tree.pages[p].kind = "leaf" THEN LeafCap ELSE NodeCap
         /\ tree.pages[p].right \in 0..(tree.next - 1)
    /\ structure \in Writers \cup {NoOne}
    /\ latches \subseteq 1..MaxPages /\ held \subseteq 1..MaxPages

\* The tree with the half that a split has not written yet.
Settled ==
    [tree EXCEPT !.pages = [p \in DOMAIN @ |->
        IF \E w \in Writers : At(w, "insert", "right") /\ op[w].split.right = p
        THEN op[CHOOSE w \in Writers : At(w, "insert", "right")].half ELSE @[p]]]

\* At every moment, in the middle of splits too, a descent from the root that
\* follows right links ends in the leaf that holds the entry it looks for, and
\* the leaves from left to right hold the inserted entries in order, no live
\* one twice (insert.rs, split.rs).
EntriesReachable ==
    LET t == Settled
        cells == ChainCells(t)
    IN  /\ hist.met \cap {"below"} \subseteq Hazards =>
             \A key \in hist.inserted :
               key \in ToSet(Keys(t.pages[FindLeaf(t, key)].cells))
        /\ \A i, j \in DOMAIN cells : i < j =>
             \/ cells[i].key < cells[j].key
             \/ cells[i].key = cells[j].key /\ (cells[i].dead \/ cells[j].dead)
        /\ hist.inserted \subseteq ToSet(Keys(cells)) /\ ToSet(Keys(cells)) \subseteq hist.asked

\* The order of the rows a call returns, and the rows it has to return.
InOrder(c, x, y) == IF c.what = "reverse" THEN x > y ELSE x < y
Expected(c) == {key \in c.must \ hist.deleting : InRange(c, key)}

\* A reader that has finished returned each entry at most once and in order,
\* every entry of its range that was in the index from the start of the call
\* to its end, and none that was deleted before, never inserted or out of
\* range, whatever was split or changed meanwhile; a cursor dropped early
\* misses nothing before its last row (lookup.rs, cursor.rs, cursor/raw,
\* scan.rs).
ReadsExact ==
    \A r \in Readers : LET c == op[r] IN
      (c.pc = "done" /\ c.what # "none"
         /\ c.met \cup (hist.met \cap {"below", "again"}) \subseteq Hazards) =>
        /\ c.answer # "corrupt"
        /\ \A i, j \in DOMAIN c.out : i < j => InOrder(c, c.out[i], c.out[j])
        /\ ToSet(c.out) \subseteq {key \in hist.asked \ c.mustNot : InRange(c, key)}
        /\ \A key \in Expected(c) :
             key \in ToSet(c.out) \/ (c.answer = "dropped" /\ InOrder(c, Last(c.out), key))

\* Inserts succeed: no new entry is refused, and a split finds the internal
\* pages above it.  With no split under way the separators are complete, so
\* that a descent for any entry comes from above only and its path holds the
\* ancestors of the leaf (insert.rs, propagate_split).
SplitsFindParents ==
    hist.met \ {"dump"} \subseteq Hazards =>
      /\ \A w \in Writers : op[w].answer \notin {"corrupt", "conflict"}
      /\ structure = NoOne =>
           \A key \in hist.inserted :
             \A p \in ToSet(FindLeafPath(tree.pages, tree.root, key)) :
               ~PastHighKey(tree.pages[p], key)

\* Every call returns: as calls are bounded, there is always a later moment at
\* which none is under way.  No retry goes on for ever and no two threads wait
\* for each other's latches.
CallsReturn == []<>("dump" \in hist.met \ Hazards \/ \A a \in Actors : op[a].pc = "done")
=============================================================================
