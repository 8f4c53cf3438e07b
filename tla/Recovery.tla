------------------------------ MODULE Recovery ------------------------------
(***************************************************************************)
(* The heap, the write-ahead log and the checkpoint of one engine, through *)
(* any number of crashes: what a client can read after Engine::open.       *)
(*                                                                         *)
(* One append lane and one relation.  An LSN is a position of the log, and *)
(* the payload of a version is the LSN of the record that wrote it, so     *)
(* every write has a payload of its own.  Payload 0 is a tombstone.        *)
(* Commits are Strict: a commit record is durable before it is published.  *)
(* Vacuum, index pages and the catalog are not part of this module.        *)
(***************************************************************************)
EXTENDS Integers, Sequences, FiniteSets, FiniteSetsExt, SequencesExt

CONSTANTS
    Rows,               \* row ids
    MaxTx,              \* bound: transaction ids
    MaxRecords,         \* bound: records ever in the log
    MaxRestarts,        \* bound: crashes followed by Engine::open
    MaxCheckpoints,     \* bound: checkpoints started
    PageCells,          \* cells that fit a heap page
    Hazards             \* which of the circumstances below histories may contain

\* "skip": a checkpoint finishes although it passed over a page, or ran
\* between a commit's fsync and its publication; "scatter": a checkpoint
\* finishes with versions of a row on two heap pages; "reuse": a crash leaves
\* traces of an unfinished transaction whose id is going to be given out
\* again; "dangle": a crash in mid-checkpoint leaves a heap page in the page
\* file whose undo record is not.
ASSUME HazardsAssumption == Hazards \subseteq {"skip", "scatter", "reuse", "dangle"}

VARIABLES
    wal,       \* the records appended
    durable,   \* how many of them are fsynced
    base,      \* how many were in segments that are pruned
    heap,      \* pages, append lane, undo records and row directory in memory
    disk,      \* the heap pages of the page file
    undoDisk,  \* how many undo records are in the page file
    status,    \* transaction states
    nextTx,
    lock,      \* the transaction holding each row, or 0
    control,   \* the newest control file with its transaction status file
    ck,        \* the checkpoint under way
    restarts,  \* crashes so far
    ckpts,     \* checkpoints started so far
    expected   \* the payload a durable commit last gave each row

vars == <<wal, durable, base, heap, disk, undoDisk, status, nextTx, lock,
          control, ck, restarts, ckpts, expected>>

TxIds == 1..MaxTx
Nowhere == <<0, 0>>
NoVersion == [row |-> 0, tx |-> 0, val |-> 0, undo |-> 0, end |-> 0]
\* What a read through an undo pointer into a page that never reached the
\* disk gives: an error.
Lost == [NoVersion EXCEPT !.val = -1]
EmptyPage == [cells |-> <<>>, lsn |-> 0, dirty |-> FALSE]
Idle == [phase |-> "idle", lsn |-> 0, todo |-> {}, skipped |-> FALSE,
         done |-> {}, next |-> 0]

Committed == {t \in TxIds : status[t] = "committed"}

-----------------------------------------------------------------------------
\* Versions.

\* Whether a version exists for a reader to whom the transactions C are
\* visible.
Sees(C, v) == v.tx \in C /\ v.end \notin C

\* The version the undo chain that starts at record i gives that reader.
FromUndo(undo, C, i) ==
    LET walk[k \in 0..Len(undo)] ==
            CASE k = 0 -> NoVersion
              [] k # 0 /\ (undo[k] = Lost \/ Sees(C, undo[k])) -> undo[k]
              [] OTHER -> walk[undo[k].undo]
    IN  walk[i]

HeadTuple(h, r) == h.pages[h.heads[r][1]].cells[h.heads[r][2]]

\* get_for_relation: the head version, or the first visible before image.
VisibleVersion(h, C, r) ==
    CASE h.failed -> Lost
      [] ~h.failed /\ h.heads[r] = Nowhere -> NoVersion
      [] OTHER -> IF Sees(C, HeadTuple(h, r)) THEN HeadTuple(h, r)
                  ELSE FromUndo(h.undo, C, HeadTuple(h, r).undo)

\* append_tuple and set_head: the version goes behind the last one of the
\* lane's page, or to a new page, and becomes the head of its row.
AppendTuple(h, v, lsn) ==
    LET fits == h.lane # 0 /\ Len(h.pages[h.lane].cells) < PageCells
        p == IF fits THEN h.lane ELSE Len(h.pages) + 1
        old == IF fits THEN h.pages[p].cells ELSE <<>>
        page == [cells |-> Append(old, v), lsn |-> lsn, dirty |-> TRUE]
    IN  [h EXCEPT !.pages = IF fits THEN [@ EXCEPT ![p] = page] ELSE Append(@, page),
                  !.lane = p,
                  !.heads[v.row] = <<p, Len(page.cells)>>]

InsertVersion(h, t, r, val, lsn) ==
    AppendTuple(h, [row |-> r, tx |-> t, val |-> val, undo |-> 0, end |-> 0], lsn)

\* append_update_version and append_delete_version: the before image, closed
\* by t, goes to the undo lane; the old heap cell stays as it is.
ReplaceVersion(h, current, t, r, val, lsn) ==
    LET undo == Append(h.undo, [current EXCEPT !.end = t])
    IN  AppendTuple([h EXCEPT !.undo = undo],
                    [row |-> r, tx |-> t, val |-> val, undo |-> Len(undo), end |-> 0], lsn)

-----------------------------------------------------------------------------
\* Transactions.

Init ==
    /\ wal = <<>> /\ durable = 0 /\ base = 0
    /\ heap = [pages |-> <<>>, lane |-> 0, undo |-> <<>>,
               heads |-> [r \in Rows |-> Nowhere], failed |-> FALSE]
    /\ disk = <<>> /\ undoDisk = 0
    /\ status = [t \in TxIds |-> "none"]
    /\ nextTx = 1
    /\ lock = [r \in Rows |-> 0]
    /\ control = [lsn |-> 0, done |-> {}, next |-> 1, valid |-> FALSE]
    /\ ck = Idle
    /\ restarts = 0 /\ ckpts = 0
    /\ expected = [r \in Rows |-> 0]

Begin ==
    /\ nextTx \in TxIds
    /\ status' = [status EXCEPT ![nextTx] = "active"]
    /\ nextTx' = nextTx + 1
    /\ UNCHANGED <<wal, durable, base, heap, disk, undoDisk, lock, control, ck, restarts, ckpts, expected>>

\* One heap mutation of t on row r: the record is appended under the page
\* latch, so the page's LSN is the record's end.
Mutate(t, r, kind, h) ==
    /\ wal' = Append(wal, [kind |-> kind, tx |-> t, row |-> r,
                           val |-> IF kind = "delete" THEN 0 ELSE Len(wal) + 1])
    /\ heap' = h
    /\ lock' = [lock EXCEPT ![r] = t]
    /\ UNCHANGED <<durable, base, disk, undoDisk, status, nextTx, control, ck, restarts, ckpts, expected>>

MayWrite(t, r) ==
    /\ status[t] = "active"
    /\ lock[r] \in {0, t}
    /\ ~heap.failed
    /\ Len(wal) < MaxRecords

\* The row is new, or every visible version of it is deleted (the SQL layer
\* checks that under its unique-key lock, which `lock` stands for here).
Insert(t, r) ==
    /\ MayWrite(t, r)
    /\ lock[r] = 0
    /\ VisibleVersion(heap, Committed, r).val = 0
    /\ Mutate(t, r, "insert", InsertVersion(heap, t, r, Len(wal) + 1, Len(wal) + 1))

Update(t, r) ==
    LET current == VisibleVersion(heap, Committed \cup {t}, r)
    IN  /\ MayWrite(t, r)
        /\ current.val > 0
        /\ Mutate(t, r, "update", ReplaceVersion(heap, current, t, r, Len(wal) + 1, Len(wal) + 1))

Delete(t, r) ==
    LET current == VisibleVersion(heap, Committed \cup {t}, r)
    IN  /\ MayWrite(t, r)
        /\ current.val > 0
        /\ Mutate(t, r, "delete", ReplaceVersion(heap, current, t, r, 0, Len(wal) + 1))

\* The commit record is appended and fsynced: from here on it must survive.
CommitDurably(t) ==
    /\ status[t] = "active"
    /\ Len(wal) < MaxRecords
    /\ wal' = Append(wal, [kind |-> "commit", tx |-> t, row |-> 0, val |-> 0])
    /\ durable' = Len(wal')
    /\ status' = [status EXCEPT ![t] = "committing"]
    /\ expected' = [r \in Rows |-> IF lock[r] = t THEN HeadTuple(heap, r).val ELSE expected[r]]
    /\ UNCHANGED <<base, heap, disk, undoDisk, nextTx, lock, control, ck, restarts, ckpts>>

ReleaseLocks(t) == lock' = [r \in Rows |-> IF lock[r] = t THEN 0 ELSE lock[r]]

FinishCommit(t) ==
    /\ status[t] = "committing"
    /\ status' = [status EXCEPT ![t] = "committed"]
    /\ ReleaseLocks(t)
    /\ UNCHANGED <<wal, durable, base, heap, disk, undoDisk, nextTx, control, ck, restarts, ckpts, expected>>

Rollback(t) ==
    /\ status[t] = "active"
    /\ status' = [status EXCEPT ![t] = "aborted"]
    /\ ReleaseLocks(t)
    /\ UNCHANGED <<wal, durable, base, heap, disk, undoDisk, nextTx, control, ck, restarts, ckpts, expected>>

-----------------------------------------------------------------------------
\* The fuzzy checkpoint.

\* wal.flush_all gives the checkpoint LSN; then the dirty pages are listed
\* (0 stands for the undo page).
CkptBegin ==
    /\ ck.phase = "idle"
    /\ ckpts < MaxCheckpoints /\ ckpts' = ckpts + 1
    /\ ~heap.failed
    /\ durable' = Len(wal)
    /\ ck' = [Idle EXCEPT !.phase = "flush", !.lsn = Len(wal),
                          !.todo = {p \in DOMAIN heap.pages : heap.pages[p].dirty}
                                   \cup (IF undoDisk < Len(heap.undo) THEN {0} ELSE {})]
    /\ UNCHANGED <<wal, base, heap, disk, undoDisk, status, nextTx, lock, control, restarts, expected>>

WritePage(d, p, page) ==
    [i \in 1..Max({p, Len(d)}) |->
        IF i = p THEN page ELSE IF i <= Len(d) THEN d[i] ELSE EmptyPage]

\* Mutant: a page is written whatever its LSN.
FlushableAlways(page) == page.lsn <= Len(wal)

\* Whether the log behind the page is durable enough to write it.
Flushable(page) == page.lsn <= ck.lsn

\* flush_frame_checked: a page that was changed again, past the checkpoint
\* LSN, is passed over.
FlushPage(p) ==
    /\ ck.phase = "flush"
    /\ p \in ck.todo \ {0}
    /\ LET page == [heap.pages[p] EXCEPT !.dirty = FALSE]
       IN  IF Flushable(page)
           THEN /\ disk' = WritePage(disk, p, page)
                /\ heap' = [heap EXCEPT !.pages[p] = page]
                /\ ck' = [ck EXCEPT !.todo = @ \ {p}]
           ELSE /\ ck' = [ck EXCEPT !.todo = @ \ {p}, !.skipped = TRUE]
                /\ UNCHANGED <<disk, heap>>
    /\ UNCHANGED <<wal, durable, base, undoDisk, status, nextTx, lock, control, restarts, ckpts, expected>>

\* Undo pages carry no LSN of their own and are always written.
FlushUndo ==
    /\ ck.phase = "flush"
    /\ 0 \in ck.todo
    /\ undoDisk' = Len(heap.undo)
    /\ ck' = [ck EXCEPT !.todo = @ \ {0}]
    /\ UNCHANGED <<wal, durable, base, heap, disk, status, nextTx, lock, control, restarts, ckpts, expected>>

\* A commit record the checkpoint LSN covers, of a transaction that is not
\* yet published.
CommitInWindow ==
    \E i \in 1..ck.lsn : wal[i].kind = "commit" /\ status[wal[i].tx] = "committing"

WriteTxStatus ==
    /\ ck.phase = "flush" /\ ck.todo = {}
    /\ "skip" \in Hazards \/ ~CommitInWindow
    /\ ck' = [ck EXCEPT !.phase = "control", !.done = Committed, !.next = nextTx]
    /\ UNCHANGED <<wal, durable, base, heap, disk, undoDisk, status, nextTx, lock, control, restarts, ckpts, expected>>

PagesOf(d, r) == {p \in DOMAIN d : \E s \in DOMAIN d[p].cells : d[p].cells[s].row = r}

\* Mutant: segments are pruned up to the end of the log.
WriteControlPruneEnd ==
    /\ ck.phase = "control"
    /\ control' = [lsn |-> ck.lsn, done |-> ck.done, next |-> ck.next, valid |-> TRUE]
    /\ base' \in {base, Len(wal)}
    /\ ck' = Idle
    /\ UNCHANGED <<wal, durable, heap, disk, undoDisk, status, nextTx, lock, restarts, ckpts, expected>>

\* write_next, then the segments below the new checkpoint LSN are pruned;
\* all of them end below it, or none does.
WriteControl ==
    /\ ck.phase = "control"
    /\ "skip" \in Hazards \/ ~ck.skipped
    /\ "scatter" \in Hazards \/ \A r \in Rows : Cardinality(PagesOf(disk, r)) <= 1
    /\ control' = [lsn |-> ck.lsn, done |-> ck.done, next |-> ck.next, valid |-> TRUE]
    /\ base' \in {base, ck.lsn}
    /\ ck' = Idle
    /\ UNCHANGED <<wal, durable, heap, disk, undoDisk, status, nextTx, lock, restarts, ckpts, expected>>

-----------------------------------------------------------------------------
\* Crash and recovery.

\* current_tuple_recovered: the head, or else the first cell of the row in
\* page and slot order.
CurrentRecovered(h, pages, r) ==
    LET p == Min(PagesOf(pages, r))
        s == Min({k \in DOMAIN pages[p].cells : pages[p].cells[k].row = r})
    IN  IF h.heads[r] # Nowhere THEN HeadTuple(h, r) ELSE pages[p].cells[s]

\* One record of the redo pass; C are the transactions with a commit record.
Redo(h, rec, C, pages) ==
    CASE h.failed \/ rec.kind = "commit" \/ rec.tx \notin C -> h
      [] ~h.failed /\ rec.kind = "insert" /\ rec.tx \in C ->
            InsertVersion(h, rec.tx, rec.row, rec.val, 0)
      [] OTHER ->
            IF h.heads[rec.row] = Nowhere /\ PagesOf(pages, rec.row) = {}
            THEN [h EXCEPT !.failed = TRUE]
            ELSE ReplaceVersion(h, CurrentRecovered(h, pages, rec.row),
                                rec.tx, rec.row, rec.val, 0)

\* Mutant: the slots of a page are read in ascending order.
LoadDirectoryAscending(h, pages) ==
    LET lowest(r) == Min(PagesOf(pages, r))
        slot(r) == Min({k \in DOMAIN pages[lowest(r)].cells : pages[lowest(r)].cells[k].row = r})
    IN  [h EXCEPT !.heads = [r \in Rows |->
            IF h.heads[r] # Nowhere \/ PagesOf(pages, r) = {} THEN h.heads[r]
            ELSE <<lowest(r), slot(r)>>]]

\* load_row_directory_from_pages: a row the redo pass did not touch is found
\* in the lowest page and the highest slot that has it.
LoadDirectory(h, pages) ==
    LET lowest(r) == Min(PagesOf(pages, r))
        slot(r) == Max({k \in DOMAIN pages[lowest(r)].cells : pages[lowest(r)].cells[k].row = r})
    IN  [h EXCEPT !.heads = [r \in Rows |->
            IF h.heads[r] # Nowhere \/ PagesOf(pages, r) = {} THEN h.heads[r]
            ELSE <<lowest(r), slot(r)>>]]

\* The counter after recovery: past the checkpoint's and past every commit.
NextTxAfter(C) == Max({control.next} \cup {t + 1 : t \in C})

\* No record to be replayed and no page holds the id of an unfinished
\* transaction that is going to be given out again.
NoReusedId(log, next) ==
    /\ \A i \in control.lsn + 1..Len(log) : log[i].tx < next
    /\ \A p \in DOMAIN disk : \A s \in DOMAIN disk[p].cells : disk[p].cells[s].tx < next

\* Every undo record a page of the page file points at is there as well.
NoDanglingUndo ==
    \A p \in DOMAIN disk : \A s \in DOMAIN disk[p].cells : disk[p].cells[s].undo <= undoDisk

\* The log is cut anywhere behind its fsynced part; memory is lost.
Reopen(n) ==
    LET log == SubSeq(wal, 1, n)
        redone == {log[i].tx : i \in {k \in base + 1..n : log[k].kind = "commit"}}
        C == control.done \cup redone
        opened == [pages |-> disk, lane |-> 0,
                   undo |-> [i \in DOMAIN heap.undo |->
                                IF i <= undoDisk THEN heap.undo[i] ELSE Lost],
                   heads |-> [r \in Rows |-> Nowhere], failed |-> FALSE]
        replayed == FoldLeft(LAMBDA h, rec : Redo(h, rec, redone, disk), opened,
                             SubSeq(log, control.lsn + 1, n))
    IN  /\ restarts < MaxRestarts
        /\ "reuse" \in Hazards \/ NoReusedId(log, NextTxAfter(C))
        /\ "dangle" \in Hazards \/ NoDanglingUndo
        /\ wal' = log /\ durable' = n
        /\ heap' = IF control.valid /\ ~replayed.failed THEN LoadDirectory(replayed, disk)
                   ELSE replayed
        /\ nextTx' = NextTxAfter(C)
        /\ status' = [t \in TxIds |-> CASE t \in C -> "committed"
                                        [] t \notin C /\ t < NextTxAfter(C) -> "aborted"
                                        [] OTHER -> "none"]
        /\ lock' = [r \in Rows |-> 0]
        /\ ck' = Idle
        /\ restarts' = restarts + 1
        /\ UNCHANGED <<base, disk, undoDisk, control, ckpts, expected>>

TxStep == \E t \in TxIds : \/ CommitDurably(t) \/ FinishCommit(t) \/ Rollback(t)
                           \/ \E r \in Rows : Insert(t, r) \/ Update(t, r) \/ Delete(t, r)

Next ==
    \/ Begin
    \/ TxStep
    \/ CkptBegin
    \/ \E p \in DOMAIN heap.pages : FlushPage(p)
    \/ FlushUndo
    \/ WriteTxStatus
    \/ WriteControl
    \/ \E n \in durable..Len(wal) : Reopen(n)

Spec == Init /\ [][Next]_vars

-----------------------------------------------------------------------------
\* Properties.

Version == [row : Rows \cup {0}, tx : 0..MaxTx, val : -1..MaxRecords,
            undo : Nat, end : 0..MaxTx]

\* Every variable has its type; heads point at cells of their own row.
TypeOK ==
    /\ \A i \in DOMAIN wal : wal[i] \in [kind : {"insert", "update", "delete", "commit"},
                                         tx : TxIds, row : Rows \cup {0}, val : 0..MaxRecords]
    /\ base <= control.lsn /\ control.lsn <= durable /\ durable <= Len(wal)
    /\ undoDisk <= Len(heap.undo)
    /\ \A p \in DOMAIN heap.pages :
        \A s \in DOMAIN heap.pages[p].cells : heap.pages[p].cells[s] \in Version
    /\ \A r \in Rows : heap.heads[r] # Nowhere => HeadTuple(heap, r).row = r
    /\ status \in [TxIds -> {"none", "active", "committing", "committed", "aborted"}]
    /\ nextTx \in 1..MaxTx + 1
    /\ lock \in [Rows -> 0..MaxTx]
    /\ ck.phase \in {"idle", "flush", "control"}
    /\ expected \in [Rows -> 0..MaxRecords]

\* A fresh reader gets, for every row, exactly what the last durable commit
\* on it wrote, before and after any crash and Engine::open: no committed
\* write is lost and no unfinished or rolled back one comes back.
ReadsCommitted ==
    (\A t \in TxIds : status[t] # "committing") =>
        \A r \in Rows : VisibleVersion(heap, Committed, r).val = expected[r]

\* Write-ahead rule of flush_frame_checked: no page of the page file is ahead
\* of the fsynced log, so a crash can cut only records no page has seen.
WalBeforeData == \A p \in DOMAIN disk : disk[p].lsn <= durable

=============================================================================
