----------------------------- MODULE IndexPages -----------------------------
(***************************************************************************)
(* The pages of a B-link index as data: what a descent does at a page, how *)
(* a full leaf is divided and how its separator goes up the tree.          *)
(*                                                                         *)
(* Keys are numbers.  The physical key of row r under logical key k is     *)
(* k * Width + r, the bytes of the logical key alone are k * Width, so     *)
(* numbers compare as the byte strings do.  Cells of one kind have one     *)
(* length, so that the capacity of a page is a number of cells.            *)
(***************************************************************************)
EXTENDS Naturals, Sequences, SequencesExt, FiniteSets

CONSTANTS
    Width,    \* rows are 1..(Width - 1)
    LeafCap,  \* entries a leaf page has room for
    NodeCap   \* separators an internal page has room for

\* A page holds an entry or a separator to begin with.
ASSUME PageAssumption == Width > 1 /\ LeafCap > 1 /\ NodeCap > 1

NoPage == 0
NoKey == 0  \* the empty high key

Physical(k, r) == k * Width + r
LogicalKey(k) == k * Width
Logical(key) == key \div Width

Leaf(left, right, high, cells) ==
    [kind |-> "leaf", left |-> left, right |-> right, high |-> high, cells |-> cells]
Node(left, right, high, cells) ==
    [kind |-> "node", left |-> left, right |-> right, high |-> high, cells |-> cells]
\* A page the pool has allocated and nobody has laid out yet.
Fresh == [kind |-> "fresh", left |-> NoPage, right |-> NoPage, high |-> NoKey, cells |-> <<>>]

Entry(key) == [key |-> key, dead |-> FALSE]
Separator(key, child) == [key |-> key, child |-> child]

\* A cell goes behind the cells with keys up to its own.
InsertSorted(cells, cell) ==
    InsertAt(cells, 1 + Cardinality({i \in DOMAIN cells : cells[i].key <= cell.key}), cell)

\* An index is its pages, its root and the next page the pool gives out.
EmptyTree(ids) ==
    [pages |-> [p \in ids |-> IF p = 1 THEN Leaf(NoPage, NoPage, NoKey, <<>>) ELSE Fresh],
     root |-> 1, next |-> 2]

-----------------------------------------------------------------------------
\* Where a descent for key goes from a page: to the right sibling when the key
\* is not below the high key, nowhere from a leaf, else to the child of the
\* last separator that is not above the key.
PastHighKey(pg, key) == pg.high # NoKey /\ key >= pg.high

NextPage(pg, key) ==
    LET below == {i \in DOMAIN pg.cells : pg.cells[i].key <= key}
    IN  IF PastHighKey(pg, key) THEN pg.right
        ELSE IF pg.kind = "leaf" THEN NoPage
        ELSE IF below = {} THEN pg.left
        ELSE pg.cells[CHOOSE i \in below : \A j \in below : j <= i].child

RECURSIVE FindLeafPath(_, _, _)
FindLeafPath(pages, p, key) ==
    LET n == NextPage(pages[p], key)
    IN  IF n \in {NoPage, p} THEN <<p>> ELSE <<p>> \o FindLeafPath(pages, n, key)

FindLeaf(tree, key) == Last(FindLeafPath(tree.pages, tree.root, key))

-----------------------------------------------------------------------------
\* The number of entries that stay on the left: the boundary between two
\* logical keys nearest to the middle, the upper one of two equally near, or
\* the middle when all entries have one logical key.
Boundaries(cells) ==
    {c \in 1..(Len(cells) - 1) : Logical(cells[c].key) # Logical(cells[c + 1].key)}

SplitPoint(cells) ==
    LET n == Len(cells)
        mid == n \div 2
        Far(c) == IF c >= mid THEN 2 * (c - mid) ELSE 2 * (mid - c) + 1
    IN  IF n <= 1 THEN n
        ELSE IF Boundaries(cells) = {} THEN mid
        ELSE CHOOSE c \in Boundaries(cells) : \A d \in Boundaries(cells) : Far(c) <= Far(d)

LeftCells(cells) == SubSeq(cells, 1, SplitPoint(cells))
RightCells(cells) == SubSeq(cells, SplitPoint(cells) + 1, Len(cells))

\* The key that divides the halves: the first logical key on the right, or the
\* first physical one when the halves share their logical key.
LeftHigh(cells) ==
    LET l == LeftCells(cells)
        r == RightCells(cells)
    IN  IF r = <<>> THEN NoKey
        ELSE IF l # <<>> /\ Logical(Last(l).key) = Logical(Head(r).key) THEN Head(r).key
        ELSE LogicalKey(Logical(Head(r).key))

\* The least key below a page, as a separator for an internal page.
RECURSIVE MinKey(_, _)
MinKey(pages, p) ==
    LET cells == pages[p].cells
    IN  IF pages[p].kind = "node" THEN MinKey(pages, pages[p].left)
        ELSE IF cells = <<>> THEN NoKey
        ELSE IF Logical(Head(cells).key) = Logical(Last(cells).key) THEN Head(cells).key
        ELSE LogicalKey(Logical(Head(cells).key))

\* One level of propagate_split.  A split is what is left to do: the ancestors
\* above, the two halves and the separator between them.
Split(anc, left, right, sep) == [anc |-> anc, left |-> left, right |-> right, sep |-> sep]
NoSplit == Split(<<>>, NoPage, NoPage, NoKey)

NewRoot(tree, s) ==
    [pages |-> [tree.pages EXCEPT ![tree.next] =
                    Node(s.left, NoPage, NoKey, <<Separator(s.sep, s.right)>>)],
     root |-> tree.next, next |-> tree.next + 1]

Parent(s) == Last(s.anc)
ParentCells(tree, s) == InsertSorted(tree.pages[Parent(s)].cells, Separator(s.sep, s.right))
\* Mutant: the new separator is left out of the count.
ParentFitsBefore(tree, s) == Len(tree.pages[Parent(s)].cells) <= NodeCap
ParentFits(tree, s) == Len(ParentCells(tree, s)) <= NodeCap

AddToParent(tree, s) == [tree EXCEPT !.pages[Parent(s)].cells = ParentCells(tree, s)]

\* The upper half of a full internal page moves to a new one; its first child
\* becomes the leftmost child there and keeps its separator too.
SplitParent(tree, s) ==
    LET p == Parent(s)
        pg == tree.pages[p]
        cells == ParentCells(tree, s)
        half == Len(cells) \div 2
        upper == SubSeq(cells, half + 1, Len(cells))
        first == Head(upper).child
        sep == MinKey(tree.pages, first)
    IN  [tree |-> [tree EXCEPT
                      !.pages[p] = Node(pg.left, tree.next, sep, SubSeq(cells, 1, half)),
                      !.pages[tree.next] = Node(first, pg.right, pg.high, upper),
                      !.next = @ + 1],
         split |-> Split(Front(s.anc), p, tree.next, sep)]

RECURSIVE Propagate(_, _)
Propagate(tree, s) ==
    IF s.anc = <<>> THEN NewRoot(tree, s)
    ELSE IF ParentFits(tree, s) THEN AddToParent(tree, s)
    ELSE Propagate(SplitParent(tree, s).tree, SplitParent(tree, s).split)

\* A leaf and its new right sibling.  The old right sibling keeps its left link.
SplitLeaf(tree, path, entry) ==
    LET p == Last(path)
        pg == tree.pages[p]
        cells == InsertSorted(pg.cells, entry)
        q == tree.next
    IN  [tree |-> [tree EXCEPT
                      !.pages[p] = Leaf(pg.left, q, LeftHigh(cells), LeftCells(cells)),
                      !.pages[q] = Leaf(p, pg.right, pg.high, RightCells(cells)),
                      !.next = @ + 1],
         split |-> Split(Front(path), p, q, LeftHigh(cells))]

\* A whole insert with nobody else at work.
InsertEntry(tree, entry) ==
    LET path == FindLeafPath(tree.pages, tree.root, entry.key)
        p == Last(path)
        cells == InsertSorted(tree.pages[p].cells, entry)
        s == SplitLeaf(tree, path, entry)
    IN  IF Len(cells) <= LeafCap THEN [tree EXCEPT !.pages[p].cells = cells]
        ELSE Propagate(s.tree, s.split)

-----------------------------------------------------------------------------
\* The leaves from p to the right, and their entries in order.
RECURSIVE Chain(_, _)
Chain(pages, p) == IF p = NoPage THEN <<>> ELSE <<p>> \o Chain(pages, pages[p].right)

RECURSIVE LeftmostLeaf(_, _)
LeftmostLeaf(pages, p) == IF pages[p].kind = "node" THEN LeftmostLeaf(pages, pages[p].left) ELSE p

ChainCells(tree) ==
    LET leaves == Chain(tree.pages, LeftmostLeaf(tree.pages, tree.root))
    IN  FlattenSeq([i \in DOMAIN leaves |-> tree.pages[leaves[i]].cells])
=============================================================================
