------------------------------ MODULE PageHeap ------------------------------
(***************************************************************************)
(* The page-backed heap: row versions in slotted pages, older versions in  *)
(* undo chains, a directory of the newest version of each row, and the     *)
(* vacuum that prunes chains and gives emptied pages back for reuse.       *)
(*                                                                         *)
(* Transactions read, insert, update and delete rows of one relation; the  *)
(* steps are the stretches the code runs under one lock (directory shard,  *)
(* append lane, page frame).  Begin and commit are one step each, as       *)
(* TxStatus shows they may be; row locks and unique-key locks are owners   *)
(* without queues (RowLock and UniqueKeyLock have the queues).             *)
(* A version's payload is the transaction that wrote it.  Undo records are *)
(* never changed nor reused, so the pointer to one stands for the sequence *)
(* of the versions before it, oldest first.                                *)
(***************************************************************************)
EXTENDS Integers, Sequences

CONSTANTS
    Txs,
    ReadCommitted, \* the transactions that take a new snapshot per statement
    Loader,        \* a transaction that has committed before the start ...
    OldRows,       \* ... having inserted the rows 1..OldRows
    Rows,
    NoTx,
    MaxPages,      \* bound: heap pages allocated
    PageCells,     \* cells that fit a page
    MaxOps,        \* bound: operations of all transactions
    MaxVacuums,    \* bound: vacuum passes
    Hazards        \* which of the circumstances below histories may contain

\* "window": a page is reclaimed while a version on it waits for its directory
\* entry; "stale": a page is reused while somebody holds a pointer into it
\* that was read from the directory; "reinsert": a row id is inserted again
\* while a snapshot, or a rollback, still needs the versions before it;
\* "rolledback": a write meets a rolled back version of a row that somebody
\* committed after the writer's snapshot.
ASSUME HazardsAssumption == Hazards \subseteq {"window", "stale", "reinsert", "rolledback"}

ASSUME PageHeapAssumption ==
    /\ Loader \in Txs /\ NoTx \notin Txs
    /\ MaxPages \in Nat \ {0} /\ PageCells \in Nat \ {0}
    /\ MaxOps \in Nat /\ MaxVacuums \in Nat
    /\ Rows \subseteq Nat \ {0} /\ OldRows \in 0..PageCells /\ 1..OldRows \subseteq Rows

VARIABLES
    dir,      \* row -> pointer to its newest version
    pages,    \* the heap pages
    lane,     \* the page the append lane is filling, or 0
    reusable, \* stack of pages to reuse
    tx,       \* the status table: state, commit CSN, snapshot
    csn,      \* published_csn
    wrote,    \* what each transaction did to each row, and on which base
    lock,     \* row lock owners
    key,      \* unique key lock owners
    pc,       \* the operation each transaction is in
    ops,      \* operations begun
    vac       \* the vacuum

heap == <<dir, pages, lane, reusable>>
vars == <<dir, pages, lane, reusable, tx, csn, wrote, lock, key, pc, ops, vac>>

Pages == 1..MaxPages
Null == [page |-> 0, slot |-> 0, gen |-> 0]
NoRow == 0 \* rows are positive
NoVersion == [row |-> NoRow, begin |-> NoTx, end |-> NoTx, deleted |-> TRUE, undo |-> <<>>]
Idle == [at |-> "idle", kind |-> "get", row |-> NoRow, ptr |-> Null, ver |-> NoVersion]
Asleep == [at |-> "idle", horizon |-> 0, left |-> {}, row |-> NoRow, ptr |-> Null]
Untouched == [done |-> FALSE, deleted |-> FALSE, base |-> 0]

Inserted(r, t) == [row |-> r, begin |-> t, end |-> NoTx, deleted |-> FALSE, undo |-> <<>>]

\* The old rows lie in the cells of page 1.
Init ==
    LET old(r) == r <= OldRows
        cells(p) == [i \in 1..(IF p = 1 THEN OldRows ELSE 0) |-> Inserted(i, Loader)]
    IN  /\ dir = [r \in Rows |-> IF old(r) THEN [page |-> 1, slot |-> r, gen |-> 1] ELSE Null]
        /\ pages = [p \in Pages |-> [gen |-> IF p = 1 /\ OldRows > 0 THEN 1 ELSE 0,
                                      free |-> FALSE, cells |-> cells(p)]]
        /\ lane = IF OldRows = 0 THEN 0 ELSE 1
        /\ reusable = <<>>
        /\ csn = 1
        /\ tx = [t \in Txs |-> [state |-> IF t = Loader THEN "committed" ELSE "none",
                                 csn |-> IF t = Loader THEN 1 ELSE 0, snap |-> 0]]
        /\ wrote = [t \in Txs |-> [r \in Rows |-> [Untouched EXCEPT !.done = t = Loader /\ old(r)]]]
        /\ lock = [r \in Rows |-> NoTx] /\ key = [r \in Rows |-> NoTx]
        /\ pc = [t \in Txs |-> Idle]
        /\ ops = 0
        /\ vac = [run |-> 0, job |-> Asleep]

Active == {t \in Txs : tx[t].state = "active"}

\* The committed transactions that wrote row r.
Writers(r) == {t \in Txs : wrote[t][r].done /\ tx[t].state = "committed"}

-----------------------------------------------------------------------------
\* Visibility.

IsTxVisible(u, snap, owner) ==
    u = owner \/ (tx[u].state = "committed" /\ tx[u].csn <= snap)

\* visibility_concurrent is not Invisible; a visible tombstone is Deleted.
Shows(v, snap, owner) ==
    /\ IsTxVisible(v.begin, snap, owner)
    /\ v.end = NoTx \/ ~IsTxVisible(v.end, snap, owner)

\* The version in the i-th undo record of the chain of v.
Restored(v, i) ==
    [row |-> v.row, begin |-> v.undo[i].begin, end |-> v.undo[i].end,
     deleted |-> v.undo[i].deleted, undo |-> SubSeq(v.undo, 1, i - 1)]

\* get_from_undo: the newest version of the chain that shows, or NoVersion.
FromUndo(v, snap, owner) ==
    LET shown == {i \in 1..Len(v.undo) : Shows(v.undo[i], snap, owner)}
        newest == {i \in shown : \A j \in shown : j <= i}
    IN  IF newest = {} THEN NoVersion ELSE Restored(v, CHOOSE i \in newest : TRUE)

VisibleVersion(v, snap, owner) ==
    IF Shows(v, snap, owner) THEN v ELSE FromUndo(v, snap, owner)

\* Mutants of the next definition: a newer committed version is updated from
\* the undo chain; a rolled back version refuses the write.
WriteBaseAnyway(v, snap, t) == VisibleVersion(v, snap, t)
WriteBaseHeadOnly(v, snap, t) == IF Shows(v, snap, t) THEN v ELSE NoVersion

\* visible_current_tuple_for_write: the version to build on.  A tombstone
\* (NotVisible) and NoVersion (NotVisible, SerializationFailure) refuse.
WriteBase(v, snap, t) ==
    IF Shows(v, snap, t) THEN v
    ELSE IF tx[v.begin].state = "aborted" THEN FromUndo(v, snap, t)
    ELSE NoVersion

Readable(ptr) == pages[ptr.page].gen = ptr.gen
Cell(ptr) == pages[ptr.page].cells[ptr.slot]

-----------------------------------------------------------------------------
\* Transactions.

Begin(t) ==
    /\ tx[t].state = "none"
    /\ tx' = [tx EXCEPT ![t].state = "active", ![t].snap = csn]
    /\ UNCHANGED <<heap, csn, wrote, lock, key, pc, ops, vac>>

Released(owners, t) == [r \in Rows |-> IF owners[r] = t THEN NoTx ELSE owners[r]]

Commit(t) ==
    /\ t \in Active /\ pc[t].at = "idle"
    /\ csn' = csn + 1
    /\ tx' = [tx EXCEPT ![t].state = "committed", ![t].csn = csn + 1]
    /\ lock' = Released(lock, t) /\ key' = Released(key, t)
    /\ UNCHANGED <<heap, wrote, pc, ops, vac>>

\* Nothing is undone: the versions stay and are never visible.
Rollback(t) ==
    /\ t \in Active /\ pc[t].at = "idle"
    /\ tx' = [tx EXCEPT ![t].state = "aborted"]
    /\ lock' = Released(lock, t) /\ key' = Released(key, t)
    /\ UNCHANGED <<heap, csn, wrote, pc, ops, vac>>

\* A statement begins: refresh_read_committed.
Statement(t) ==
    /\ t \in Active /\ pc[t].at = "idle"
    /\ ops < MaxOps
    /\ ops' = ops + 1
    /\ tx' = IF t \in ReadCommitted THEN [tx EXCEPT ![t].snap = csn] ELSE tx

-----------------------------------------------------------------------------
\* Reading and writing rows.

\* head_for_relation; update and delete have locked the row before it.
LookupHead(t, r, kind) ==
    /\ Statement(t)
    /\ IF kind = "get" THEN UNCHANGED lock
       ELSE lock[r] \in {NoTx, t} /\ lock' = [lock EXCEPT ![r] = t]
    /\ pc' = [pc EXCEPT ![t] =
                 [Idle EXCEPT !.kind = kind, !.row = r, !.ptr = dir[r],
                              !.at = IF dir[r] # Null THEN "tuple"
                                     ELSE IF kind = "get" THEN "result" ELSE "refused"]]
    /\ UNCHANGED <<heap, csn, wrote, key, vac>>

\* The row's newest version is rolled back, and lies on a version committed
\* after the snapshot of t.
Covered(t) ==
    /\ Readable(pc[t].ptr) /\ tx[Cell(pc[t].ptr).begin].state = "aborted"
    /\ \E u \in Writers(pc[t].row) : tx[u].csn > tx[t].snap

\* read_tuple, and what get, update and delete make of it.  The undo chain is
\* immutable, so walking it is part of the step.
ReadTuple(t) ==
    LET v == Cell(pc[t].ptr)
        base == WriteBase(v, tx[t].snap, t)
    IN  /\ pc[t].at = "tuple"
        /\ "rolledback" \in Hazards \/ pc[t].kind = "get" \/ ~Covered(t)
        /\ pc' = [pc EXCEPT ![t] =
                IF ~Readable(pc[t].ptr) THEN [@ EXCEPT !.at = "corrupt"]
                ELSE IF pc[t].kind = "get"
                THEN [@ EXCEPT !.at = "result", !.ver = VisibleVersion(v, tx[t].snap, t)]
                ELSE IF base.deleted THEN [@ EXCEPT !.at = "refused"]
                ELSE [@ EXCEPT !.at = "append", !.ver = base]]
        /\ UNCHANGED <<heap, tx, csn, wrote, lock, key, ops, vac>>

\* The call returns, with a result or an error.
Return(t) ==
    /\ pc[t].at \in {"result", "refused", "corrupt"}
    /\ pc' = [pc EXCEPT ![t] = Idle]
    /\ UNCHANGED <<heap, tx, csn, wrote, lock, key, ops, vac>>

Reclaiming(p) == vac.job.at \in {"clear", "push"} /\ vac.job.ptr.page = p
LaneHasRoom == IF lane = 0 THEN FALSE ELSE Len(pages[lane].cells) < PageCells
Fresh == {p \in Pages : pages[p].gen = 0}

\* take_reusable_page, else the next page of the file.
NextPage ==
    IF reusable # <<>> THEN {reusable[Len(reusable)]} ELSE {p \in Fresh : \A q \in Fresh : p <= q}

\* append_cell: the lane's page, else a reused one, else a new one.
AppendCell(t, v) ==
    \/ /\ LaneHasRoom
       /\ "window" \in Hazards \/ ~Reclaiming(lane)
       /\ pages' = [pages EXCEPT ![lane].cells = Append(@, v)]
       /\ pc' = [pc EXCEPT ![t].at = "head", ![t].row = v.row,
                           ![t].ptr = [page |-> lane, gen |-> pages[lane].gen,
                                       slot |-> Len(pages[lane].cells) + 1]]
       /\ UNCHANGED <<lane, reusable>>
    \/ /\ ~LaneHasRoom
       /\ \E p \in NextPage :
              /\ "stale" \in Hazards \/ \A u \in Txs : pc[u].at = "tuple" => pc[u].ptr.page # p
              /\ pages' = [pages EXCEPT ![p] = [gen |-> @.gen + 1, free |-> FALSE, cells |-> <<v>>]]
              /\ lane' = p
              /\ reusable' = IF reusable # <<>> THEN SubSeq(reusable, 1, Len(reusable) - 1) ELSE reusable
              /\ pc' = [pc EXCEPT ![t].at = "head", ![t].row = v.row,
                                  ![t].ptr = [page |-> p, gen |-> pages[p].gen + 1, slot |-> 1]]

\* wrote: the write of t to r, built on the state as of CSN base.
Note(t, r, deleted, base) ==
    wrote' = [wrote EXCEPT ![t][r] = [done |-> TRUE, deleted |-> deleted,
                                      base |-> IF @.done THEN @.base ELSE base]]

\* append_update_version, append_delete_version: the new version, and the
\* before-image at the end of the undo chain.
Successor(t) ==
    LET v == pc[t].ver
    IN  [row |-> pc[t].row, begin |-> t, end |-> NoTx, deleted |-> pc[t].kind = "delete",
         undo |-> Append(v.undo, [begin |-> v.begin, end |-> t, deleted |-> v.deleted])]

AppendVersion(t) ==
    /\ pc[t].at = "append"
    /\ AppendCell(t, Successor(t))
    /\ Note(t, pc[t].row, pc[t].kind = "delete", tx[t].snap)
    /\ UNCHANGED <<dir, tx, csn, lock, key, ops, vac>>

\* Is there a row r for a snapshot of t?
Present(t, r, snap) ==
    dir[r] # Null /\ ~VisibleVersion(Cell(dir[r]), snap, t).deleted

\* Somebody's snapshot, or the rollback of t's own delete, needs the chain an
\* insert into r cuts off.
Buried(t, r) ==
    /\ dir[r] # Null
    /\ \/ Cell(dir[r]).begin = t
       \/ \E u \in Active \ {t} : Present(u, r, tx[u].snap)

\* INSERT: the unique key lock, the probe with a fresh snapshot, and, if it
\* finds no row, insert_recovered_at, which starts a version chain anew.
Insert(t, r) ==
    /\ Statement(t)
    /\ key[r] \in {NoTx, t}
    /\ key' = [key EXCEPT ![r] = t]
    /\ \/ /\ Present(t, r, csn)
          /\ UNCHANGED <<pages, lane, reusable, pc, wrote>>
       \/ /\ ~Present(t, r, csn)
          /\ "reinsert" \in Hazards \/ ~Buried(t, r)
          /\ AppendCell(t, Inserted(r, t))
          /\ Note(t, r, FALSE, csn)
    /\ UNCHANGED <<dir, csn, lock, vac>>

\* set_relation_head: the version becomes the row's newest.
SetHead(t) ==
    /\ pc[t].at = "head"
    /\ dir' = [dir EXCEPT ![pc[t].row] = pc[t].ptr]
    /\ pc' = [pc EXCEPT ![t] = Idle]
    /\ UNCHANGED <<pages, lane, reusable, tx, csn, wrote, lock, key, ops, vac>>

-----------------------------------------------------------------------------
\* The vacuum: one pass over the rows of the directory.

Job(fields) == vac' = [vac EXCEPT !.job = fields]
NextRow == [vac.job EXCEPT !.at = "rows", !.row = NoRow, !.ptr = Null]

\* oldest_active_snapshot_csn, then all_relation_entries.
VacuumStart ==
    LET snapshots == {csn} \cup {tx[t].snap : t \in Active}
    IN  /\ vac.job.at = "idle" /\ vac.run < MaxVacuums
        /\ \E oldest \in snapshots :
              /\ \A s \in snapshots : oldest <= s
              /\ vac' = [run |-> vac.run + 1,
                         job |-> [Asleep EXCEPT !.at = "rows", !.horizon = oldest,
                                      !.left = {<<r, dir[r]>> : r \in {q \in Rows : dir[q] # Null}}]]
        /\ UNCHANGED <<heap, tx, csn, wrote, lock, key, pc, ops>>

\* Mutant: any committed successor lets a version go.
EndedAny(t, horizon) == tx[t].state = "committed"

Ended(t, horizon) == tx[t].state = "committed" /\ tx[t].csn < horizon

\* removable_undo_chain_len is not zero.
ChainRemovable(chain, horizon) ==
    chain # <<>> /\ \A i \in 1..Len(chain) : chain[i].end # NoTx /\ Ended(chain[i].end, horizon)

\* vacuum_row up to its decision.
VacuumRow(e) ==
    LET r == e[1]
        ptr == dir[r]
        v == Cell(ptr)
    IN  /\ vac.job.at = "rows"
        /\ LET job == [vac.job EXCEPT !.left = @ \ {e}]
           IN  IF ptr # e[2] \/ tx[v.begin].state # "committed" THEN Job(job)
               ELSE IF v.deleted
               THEN Job(IF Ended(v.begin, job.horizon)
                        THEN [job EXCEPT !.at = "remove", !.row = r, !.ptr = ptr] ELSE job)
               ELSE Job(IF ChainRemovable(v.undo, job.horizon)
                        THEN [job EXCEPT !.at = "prune", !.row = r, !.ptr = ptr] ELSE job)
        /\ UNCHANGED <<heap, tx, csn, wrote, lock, key, pc, ops>>

\* remove_relation_head_if.
VacuumRemove ==
    LET r == vac.job.row
        same == dir[r] = vac.job.ptr
    IN  /\ vac.job.at = "remove"
        /\ dir' = IF same THEN [dir EXCEPT ![r] = Null] ELSE dir
        /\ Job(IF same THEN [vac.job EXCEPT !.at = "check"] ELSE NextRow)
        /\ UNCHANGED <<pages, lane, reusable, tx, csn, wrote, lock, key, pc, ops>>

\* The head is looked at again; ...
VacuumPrune ==
    /\ vac.job.at = "prune"
    /\ Job(IF dir[vac.job.row] = vac.job.ptr THEN [vac.job EXCEPT !.at = "cut"] ELSE NextRow)
    /\ UNCHANGED <<heap, tx, csn, wrote, lock, key, pc, ops>>

\* ... then overwrite_tuple cuts the chain.
VacuumCut ==
    LET ptr == vac.job.ptr
    IN  /\ vac.job.at = "cut"
        /\ pages' = [pages EXCEPT ![ptr.page].cells[ptr.slot].undo = <<>>]
        /\ Job([vac.job EXCEPT !.at = "check"])
        /\ UNCHANGED <<dir, lane, reusable, tx, csn, wrote, lock, key, pc, ops>>

\* Mutant: the head of the vacuumed row does not count.
PageHasNoOtherHeads(p) == \A r \in Rows \ {vac.job.row} : dir[r].page # p

PageHasNoHeads(p) == \A r \in Rows : dir[r].page # p

VacuumCheck ==
    LET p == vac.job.ptr.page
    IN  /\ vac.job.at = "check"
        /\ "window" \in Hazards \/ \A t \in Txs : pc[t].at = "head" => pc[t].ptr.page # p
        /\ Job(IF PageHasNoHeads(p) THEN [vac.job EXCEPT !.at = "clear"] ELSE NextRow)
        /\ UNCHANGED <<heap, tx, csn, wrote, lock, key, pc, ops>>

\* Mutant: the append lane goes on filling the page.
VacuumClearKeepsLane ==
    /\ vac.job.at = "clear"
    /\ Job([vac.job EXCEPT !.at = "push"])
    /\ UNCHANGED <<heap, tx, csn, wrote, lock, key, pc, ops>>

\* mark_page_reusable: clear_current_page_reference under the lane lock, ...
VacuumClear ==
    /\ vac.job.at = "clear"
    /\ lane' = IF lane = vac.job.ptr.page THEN 0 ELSE lane
    /\ Job([vac.job EXCEPT !.at = "push"])
    /\ UNCHANGED <<dir, pages, reusable, tx, csn, wrote, lock, key, pc, ops>>

\* ... then the page state and push_reusable_page.
VacuumPush ==
    LET p == vac.job.ptr.page
    IN  /\ vac.job.at = "push"
        /\ pages' = [pages EXCEPT ![p].free = TRUE]
        /\ reusable' = IF \E i \in 1..Len(reusable) : reusable[i] = p THEN reusable ELSE Append(reusable, p)
        /\ Job(NextRow)
        /\ UNCHANGED <<dir, lane, tx, csn, wrote, lock, key, pc, ops>>

VacuumDone ==
    /\ vac.job.at = "rows" /\ vac.job.left = {}
    /\ Job(Asleep)
    /\ UNCHANGED <<heap, tx, csn, wrote, lock, key, pc, ops>>

Next ==
    \/ \E t \in Txs : Begin(t) \/ Commit(t) \/ Rollback(t) \/ ReadTuple(t) \/ Return(t)
                      \/ AppendVersion(t) \/ SetHead(t)
    \/ \E t \in Txs, r \in Rows : Insert(t, r) \/ \E kind \in {"get", "update", "delete"} :
                                                      LookupHead(t, r, kind)
    \/ VacuumStart \/ VacuumRemove \/ VacuumPrune \/ VacuumCut \/ VacuumCheck \/ VacuumClear \/ VacuumPush
    \/ VacuumDone
    \/ \E e \in vac.job.left : VacuumRow(e)

Spec == Init /\ [][Next]_vars

-----------------------------------------------------------------------------
\* Properties.

\* The transaction whose version of r a snapshot of t has to find: its own,
\* or that of the last commit the snapshot includes; NoTx for no row.
Expected(t, r) ==
    LET older == {u \in Writers(r) : tx[u].csn <= tx[t].snap}
        last == CHOOSE u \in older : \A w \in older : tx[w].csn <= tx[u].csn
        who == IF wrote[t][r].done THEN t ELSE last
    IN  IF ~wrote[t][r].done /\ older = {} THEN NoTx
        ELSE IF wrote[who][r].deleted THEN NoTx ELSE who

\* Types, and the places of the parts: the reuse stack holds free pages, once
\* each, and nothing fills a free page.
TypeOK ==
    /\ \A r \in Rows : dir[r].page \in Pages \cup {0} /\ lock[r] \in Active \cup {NoTx}
                       /\ key[r] \in Active \cup {NoTx}
    /\ \A p \in Pages : Len(pages[p].cells) <= PageCells
    /\ {p \in Pages : pages[p].free} = {reusable[i] : i \in 1..Len(reusable)}
    /\ \A i, j \in 1..Len(reusable) : reusable[i] = reusable[j] => i = j
    /\ lane # 0 => ~pages[lane].free

\* Snapshot isolation: get returns the row as of the transaction's snapshot
\* with its own writes on top, whatever was committed, rolled back, pruned or
\* moved since, and never reports a corrupt page.
ReadsSnapshot ==
    \A t \in Txs :
        /\ pc[t].at # "corrupt"
        /\ (pc[t].at = "result") => LET v == pc[t].ver
                                    IN  Expected(t, pc[t].row) = IF v.deleted THEN NoTx ELSE v.begin

\* Every entry of the directory leads to a version of its row, on a page that
\* is not up for reuse.
HeadsAreReadable ==
    \A r \in Rows : dir[r] # Null =>
        /\ Readable(dir[r])
        /\ ~pages[dir[r].page].free
        /\ Cell(dir[r]).row = r

\* First updater wins: between the state a committed write was built on and
\* its commit nobody else committed a write of the row.
NoLostUpdate ==
    \A r \in Rows : \A t, u \in Writers(r) :
        t # u => tx[u].csn <= wrote[t][r].base \/ tx[u].csn > tx[t].csn

\* A write is refused only for a reason: the row is not there for the
\* transaction, or somebody committed a newer version after its snapshot.
RefusalHasCause ==
    \A t \in Txs : pc[t].at = "refused" =>
        \/ Expected(t, pc[t].row) = NoTx
        \/ \E u \in Writers(pc[t].row) : tx[u].csn > tx[t].snap

=============================================================================
