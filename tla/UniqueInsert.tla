---------------------------- MODULE UniqueInsert ----------------------------
(***************************************************************************)
(* SQL sessions that insert under a unique index: the unique-key lock of   *)
(* UniqueKeyLock, the commit order of CsnFrontier and the entries of the   *)
(* index together.  A session runs one transaction.  Before each insert it *)
(* locks the key, takes the latest snapshot and looks the key up with it;  *)
(* the guard is kept until the transaction has ended.                      *)
(*                                                                         *)
(* Reserving a CSN and publishing it are one step each.  TxStatus has the  *)
(* windows inside them, and what it shows of snapshots (SnapshotStable)    *)
(* makes them invisible to a probe.                                        *)
(***************************************************************************)
EXTENDS UniqueKeyLock, CsnFrontier

CONSTANT Hazards   \* circumstances in which keys have to stay unique, too

\* "gap": a session probes while the commit of an entry for its key, whose
\* guard is gone, waits behind an earlier CSN and is not published yet;
\* "crossed": a session that has a guard waits for another key.
ASSUME UniqueInsertHazards == Hazards \subseteq {"gap", "crossed"}

VARIABLES
  state, snap, csn,        \* per session: its transaction, snapshot and CSN
  nextCsn, publishedCsn,   \* as in TxStatus
  resolved,                \* CsnFrontier.completed and skipped
  entries,                 \* index entries in the order of their insertion, with
                           \* the transactions that made and delete-marked them
  stage, latest,           \* per session: step of the insert, its snapshot
  met                      \* the circumstances that have occurred

statusVars == <<state, snap, csn, nextCsn, publishedCsn, resolved>>
indexVars == <<entries, latest, met>>
allVars == <<vars, statusVars, indexVars, stage>>

InitAll ==
  /\ Init
  /\ state = [t \in Txns |-> "none"]
  /\ snap = [t \in Txns |-> 0]
  /\ csn = [t \in Txns |-> 0]
  /\ nextCsn = 1 /\ publishedCsn = 0 /\ resolved = {}
  /\ entries = <<>> /\ met = {}
  /\ stage = [t \in Txns |-> "ready"]
  /\ latest = [t \in Txns |-> 0]

\* is_tx_visible() for another transaction, and for the reader's own.
IsTxVisible(x, snapshot) == x # NoTx /\ state[x] = "committed" /\ csn[x] <= snapshot
Sees(t, x, snapshot) == x = t \/ IsTxVisible(x, snapshot)

\* entry_visible().
EntryVisible(t, e, snapshot) == Sees(t, e.tx, snapshot) /\ ~Sees(t, e.del, snapshot)

InTx(t) == state[t] = "open" /\ phase[t] = "running"
Stage(t, from, to) == stage[t] = from /\ stage' = [stage EXCEPT ![t] = to]

-----------------------------------------------------------------------------
\* probe_unique_for_conflict(): lock_unique_key first.
LockKey(t) ==
  /\ InTx(t)
  /\ \/ /\ \E k \in Keys : LockFree(t, k) \/ LockAgain(t, k)
        /\ Stage(t, "ready", "locked")
        /\ UNCHANGED met
     \/ /\ stage[t] = "ready"
        /\ \E k \in Keys : Enqueue(t, k)
        /\ met' = met \cup IF guards[t] = <<>> THEN {} ELSE {"crossed"}
        /\ UNCHANGED stage
  /\ UNCHANGED <<statusVars, entries, latest>>

Wake(t) ==
  /\ \/ WakeTake(t) /\ Stage(t, "ready", "locked")
     \/ WakeBusy(t) /\ UNCHANGED stage
  /\ UNCHANGED <<statusVars, indexVars>>

\* The key of the insert under way, and its entries.
LockedKey(t) == guards[t][Len(guards[t])]
SameKey(t) == {i \in DOMAIN entries : entries[i].key = LockedKey(t)}

\* The probe is about to miss a commit whose guard has been dropped.
Unpublished(t) ==
  \E i \in SameKey(t) :
    state[entries[i].tx] = "committed" /\ ~IsTxVisible(entries[i].tx, publishedCsn)

\* Mutant: the probe uses the snapshot of the transaction.
TakeOwnSnapshot(t) ==
  /\ Stage(t, "locked", "probing")
  /\ latest' = [latest EXCEPT ![t] = snap[t]]
  /\ met' = met \cup IF Unpublished(t) THEN {"gap"} ELSE {}
  /\ UNCHANGED <<vars, statusVars, entries>>

\* ... then tx_status().snapshot() ...
TakeLatest(t) ==
  /\ Stage(t, "locked", "probing")
  /\ latest' = [latest EXCEPT ![t] = publishedCsn]
  /\ met' = met \cup IF Unpublished(t) THEN {"gap"} ELSE {}
  /\ UNCHANGED <<vars, statusVars, entries>>

\* ... then point_lookup_visible().  A hit fails the statement, or ends it
\* without an insert (OR IGNORE).
Lookup(t) ==
  LET hit == \E i \in SameKey(t) : EntryVisible(t, entries[i], latest[t])
  IN  /\ stage[t] = "probing"
      /\ \E to \in IF hit THEN {"failed", "ready"} ELSE {"clear"} : Stage(t, "probing", to)
      /\ latest' = [latest EXCEPT ![t] = 0]
      /\ UNCHANGED <<vars, statusVars, entries, met>>

\* maintain_indexes_on_insert().
InsertEntry(t) ==
  /\ Stage(t, "clear", "ready")
  /\ entries' = Append(entries, [key |-> LockedKey(t), tx |-> t, del |-> NoTx])
  /\ UNCHANGED <<vars, statusVars, latest, met>>

\* DELETE of a row the transaction sees and can lock: no other transaction is
\* deleting it and none has since.  delete_mark_tx_visible().
DeleteEntry(t) == \E i \in DOMAIN entries :
  /\ InTx(t) /\ stage[t] = "ready" /\ EntryVisible(t, entries[i], snap[t])
  /\ entries[i].del # NoTx => state[entries[i].del] = "aborted"
  /\ entries' = [entries EXCEPT ![i].del = t]
  /\ UNCHANGED <<vars, statusVars, stage, latest, met>>

\* begin_txn().
BeginTx(t) ==
  /\ state[t] = "none"
  /\ state' = [state EXCEPT ![t] = "open"]
  /\ snap' = [snap EXCEPT ![t] = publishedCsn]
  /\ UNCHANGED <<vars, indexVars, stage, csn, nextCsn, publishedCsn, resolved>>

\* commit(), reserve_commit_csn(): not after a failed statement.
ReserveCsn(t) ==
  /\ InTx(t) /\ stage[t] = "ready"
  /\ state' = [state EXCEPT ![t] = "reserved"]
  /\ csn' = [csn EXCEPT ![t] = nextCsn]
  /\ nextCsn' = nextCsn + 1
  /\ UNCHANGED <<vars, indexVars, stage, snap, publishedCsn, resolved>>

\* publish_commit(), or cancel_reserved_csn() and abort() when the commit
\* barrier has failed: the frontier passes every resolved CSN it reaches.
ResolveCsn(t, outcome) ==
  LET done == resolved \cup {csn[t]}
  IN  /\ state[t] = "reserved"
      /\ state' = [state EXCEPT ![t] = outcome]
      /\ publishedCsn' = AdvancePublished(publishedCsn, done)
      /\ resolved' = done \ Consumed(publishedCsn, done)
      /\ snap' = [snap EXCEPT ![t] = 0]
      /\ UNCHANGED <<vars, indexVars, stage, csn, nextCsn>>

\* rollback(), by choice or after a failed statement.
Rollback(t) ==
  /\ InTx(t) /\ stage[t] \in {"ready", "failed"}
  /\ state' = [state EXCEPT ![t] = "aborted"]
  /\ snap' = [snap EXCEPT ![t] = 0]
  /\ UNCHANGED <<vars, indexVars, stage, csn, nextCsn, publishedCsn, resolved>>

\* kernel_unique_guards.clear() after commit() or rollback() has returned.
ClearGuards(t) ==
  /\ \/ state[t] \in {"committed", "aborted"} /\ EndTx(t)
     \/ DropGuard(t) \/ Close(t)
  /\ UNCHANGED <<statusVars, indexVars, stage>>

Session(t) ==
  \/ LockKey(t) \/ Wake(t) \/ TakeLatest(t) \/ Lookup(t) \/ InsertEntry(t)
  \/ DeleteEntry(t) \/ BeginTx(t) \/ ReserveCsn(t) \/ ResolveCsn(t, "committed")
  \/ ResolveCsn(t, "aborted") \/ Rollback(t) \/ ClearGuards(t)

NextAll == \E t \in Txns : Session(t)

SpecAll == InitAll /\ [][NextAll]_allVars

-----------------------------------------------------------------------------
LiveAt(e, s) ==
  IsTxVisible(e.tx, s) /\ ~IsTxVisible(e.del, s)

\* In no snapshot do two committed rows have the same unique key, whichever
\* commits, rollbacks and deletions the probes have met.
KeysAreUnique ==
  "gap" \in met \ Hazards \/
    \A s \in 0..nextCsn, i, j \in DOMAIN entries :
      /\ entries[i].key = entries[j].key
      /\ LiveAt(entries[i], s) /\ LiveAt(entries[j], s)
      => i = j

Waits(t) == phase[t] = "closed" \/ (phase[t] = "parked" /\ t \notin notified)

\* The sessions come to a halt only when all have ended: as long as one is
\* parked in UniqueKeyLockTable::lock, some session can go on.  Since a session
\* makes finitely many steps, every waiter is served in the end.
NobodyStranded ==
  "crossed" \in met \ Hazards \/
    ((\A t \in Txns : Waits(t)) => \A t \in Txns : phase[t] = "closed")
=============================================================================
