------------------------------ MODULE TxStatus ------------------------------
(***************************************************************************)
(* The engine's concurrent transaction status table: transaction states,   *)
(* the registry of active snapshots, and the three counters next_tx,       *)
(* next_csn and published_csn with the frontier sets behind them.          *)
(*                                                                         *)
(* Each client thread runs one transaction at a time.  A step is one       *)
(* critical section or one atomic read-modify-write of the code, so every  *)
(* window between two of them is a window of the model.                    *)
(***************************************************************************)
EXTENDS CsnFrontier, FiniteSets

CONSTANTS Clients,   \* threads that run transactions
          MaxTx      \* bound on the number of transactions begun

ASSUME MaxTxAssumption == MaxTx \in Nat

VARIABLES states,         \* TxStatusInner.shards: TxId -> TxState
          active,         \* TxStatusInner.active_snapshots: TxId -> Csn
          nextTx,         \* TxStatusInner.next_tx
          nextCsn,        \* TxStatusInner.next_csn
          publishedCsn,   \* TxStatusInner.published_csn
          pending,        \* CsnFrontier.pending
          completed,      \* CsnFrontier.completed
          skipped,        \* CsnFrontier.skipped
          pc, tx, snap, csn,   \* per client: position, TxId, visible_csn, CSN
          horizon         \* the highest horizon a vacuum has worked with

table    == <<states, active, nextTx>>
frontier == <<publishedCsn, pending, completed, skipped>>
locals   == <<tx, snap, csn>>
vars     == <<table, nextCsn, frontier, pc, locals, horizon>>

TxIds == 1..MaxTx
NoSnapshot == -1            \* no entry in active_snapshots

Missing      == [kind |-> "Missing", csn |-> 0]     \* no entry in its shard
InProgress   == [kind |-> "InProgress", csn |-> 0]
Aborted      == [kind |-> "Aborted", csn |-> 0]
Committed(c) == [kind |-> "Committed", csn |-> c]

TxStates == [kind : {"Missing", "InProgress", "Aborted", "Committed"}, csn : Nat]

\* state(): a transaction without an entry counts as aborted.
StateOf(t) == IF states[t] = Missing THEN Aborted ELSE states[t]

\* is_tx_visible(), for a reader that is not the owner.
IsTxVisible(t, visibleCsn) ==
  /\ StateOf(t).kind = "Committed"
  /\ StateOf(t).csn <= visibleCsn

Registered == {t \in TxIds : active[t] # NoSnapshot}

\* oldest_active_snapshot_csn(): the smallest registered snapshot, else the
\* published frontier.
OldestActiveSnapshotCsn ==
  IF Registered = {} THEN publishedCsn
  ELSE CHOOSE s \in {active[t] : t \in Registered} :
         \A t \in Registered : s <= active[t]

-----------------------------------------------------------------------------
Init ==
  /\ states = [t \in TxIds |-> Missing]
  /\ active = [t \in TxIds |-> NoSnapshot]
  /\ nextTx = 1
  /\ nextCsn = 1
  /\ publishedCsn = 0
  /\ pending = {}
  /\ completed = {}
  /\ skipped = {}
  /\ pc = [c \in Clients |-> "idle"]
  /\ tx = [c \in Clients |-> 0]
  /\ snap = [c \in Clients |-> 0]
  /\ csn = [c \in Clients |-> 0]
  /\ horizon = 0

Goto(c, from, to) == pc[c] = from /\ pc' = [pc EXCEPT ![c] = to]

\* begin(): next_tx.fetch_add and set_state.  Nobody else knows the new TxId
\* between the two, so they are one step.
Begin(c) ==
  /\ Goto(c, "idle", "begun")
  /\ nextTx <= MaxTx
  /\ tx' = [tx EXCEPT ![c] = nextTx]
  /\ nextTx' = nextTx + 1
  /\ states' = [states EXCEPT ![nextTx] = InProgress]
  /\ UNCHANGED <<active, nextCsn, frontier, snap, csn, horizon>>

\* begin_txn(): the snapshot is loaded first ...
TakeSnapshot(c) ==
  /\ Goto(c, "begun", "snapped")
  /\ snap' = [snap EXCEPT ![c] = publishedCsn]
  /\ UNCHANGED <<table, nextCsn, frontier, tx, csn, horizon>>

\* ... and registered afterwards, under the active_snapshots mutex.
RegisterSnapshot(c) ==
  /\ Goto(c, "snapped", "open")
  /\ active' = [active EXCEPT ![tx[c]] = snap[c]]
  /\ UNCHANGED <<states, nextTx, nextCsn, frontier, locals, horizon>>

\* refresh_read_committed(): a newer snapshot is loaded; replace_snapshot
\* overwrites the registered one in a second step.
Refresh(c) ==
  /\ Goto(c, "open", "snapped")
  /\ snap[c] # publishedCsn
  /\ snap' = [snap EXCEPT ![c] = publishedCsn]
  /\ UNCHANGED <<table, nextCsn, frontier, tx, csn, horizon>>

\* reserve_commit_csn(): next_csn.fetch_add ...
FetchCsn(c) ==
  /\ Goto(c, "open", "fetched")
  /\ csn' = [csn EXCEPT ![c] = nextCsn]
  /\ nextCsn' = nextCsn + 1
  /\ UNCHANGED <<table, frontier, tx, snap, horizon>>

\* ... then frontier.pending.insert under the frontier mutex.
InsertPending(c) ==
  /\ Goto(c, "fetched", "reserved")
  /\ pending' = pending \cup {csn[c]}
  /\ UNCHANGED <<table, nextCsn, publishedCsn, completed, skipped, locals, horizon>>

\* publish_commit(), first critical section: set_state(Committed).
SetCommitted(c) ==
  /\ Goto(c, "reserved", "stamped")
  /\ states' = [states EXCEPT ![tx[c]] = Committed(csn[c])]
  /\ UNCHANGED <<active, nextTx, nextCsn, frontier, locals, horizon>>

\* complete_csn() and skip_csn() up to the set the CSN goes to: both take the
\* CSN out of pending and run advance_published_csn over the two sets.
Resolve(c, newCompleted, newSkipped) ==
  LET done == newCompleted \cup newSkipped
      gone == Consumed(publishedCsn, done)
  IN  /\ pending' = pending \ {csn[c]}
      /\ publishedCsn' = AdvancePublished(publishedCsn, done)
      /\ completed' = newCompleted \ gone
      /\ skipped' = newSkipped \ gone

\* publish_commit(), second critical section: complete_csn().
CompleteCsn(c) ==
  /\ Goto(c, "stamped", "closing")
  /\ Resolve(c, completed \cup {csn[c]}, skipped)
  /\ UNCHANGED <<table, nextCsn, locals, horizon>>

\* Mutant: a failed commit leaves its CSN pending instead of skipping it.
CancelLeavesCsn(c) ==
  /\ Goto(c, "reserved", "aborting")
  /\ UNCHANGED <<table, nextCsn, frontier, locals, horizon>>

\* The commit barrier failed: cancel_reserved_csn().
CancelCsn(c) ==
  /\ Goto(c, "reserved", "aborting")
  /\ Resolve(c, completed, skipped \cup {csn[c]})
  /\ UNCHANGED <<table, nextCsn, locals, horizon>>

\* rollback(), a dropped Txn, or a commit record that was not appended: the
\* transaction aborts without having reserved a CSN.
GiveUp(c) ==
  /\ Goto(c, "open", "aborting")
  /\ UNCHANGED <<table, nextCsn, frontier, locals, horizon>>

\* abort(), first critical section: set_state(Aborted).
SetAborted(c) ==
  /\ Goto(c, "aborting", "closing")
  /\ states' = [states EXCEPT ![tx[c]] = Aborted]
  /\ UNCHANGED <<active, nextTx, nextCsn, frontier, locals, horizon>>

\* unregister_active(), the end of publish_commit, abort and Txn::close.
Unregister(c) ==
  /\ Goto(c, "closing", "idle")
  /\ active' = [active EXCEPT ![tx[c]] = NoSnapshot]
  /\ UNCHANGED <<states, nextTx, nextCsn, frontier, locals, horizon>>

\* A vacuum pass asks for the horizon and reclaims below it.
Vacuum ==
  /\ horizon < OldestActiveSnapshotCsn
  /\ horizon' = OldestActiveSnapshotCsn
  /\ UNCHANGED <<table, nextCsn, frontier, pc, locals>>

ClientStep(c) ==
  \/ Begin(c) \/ TakeSnapshot(c) \/ RegisterSnapshot(c) \/ Refresh(c)
  \/ FetchCsn(c) \/ InsertPending(c) \/ SetCommitted(c) \/ CompleteCsn(c)
  \/ CancelCsn(c) \/ GiveUp(c) \/ SetAborted(c) \/ Unregister(c)

Next == Vacuum \/ \E c \in Clients : ClientStep(c)

Spec == Init /\ [][Next]_vars

\* Once a thread has reserved a CSN or begun to abort, commit() and rollback()
\* run to their end without waiting for another client.
Finish(c) ==
  \/ InsertPending(c) \/ SetCommitted(c) \/ CompleteCsn(c) \/ CancelCsn(c)
  \/ SetAborted(c) \/ Unregister(c)

LiveSpec == Spec /\ \A c \in Clients : WF_vars(Finish(c))

-----------------------------------------------------------------------------
Positions == {"idle", "begun", "snapped", "open", "fetched", "reserved",
              "stamped", "closing", "aborting"}

\* The variables range over the values the Rust types of
\* ConcurrentTxStatus allow; next_tx and next_csn start at 1.
TypeOK ==
  /\ states \in [TxIds -> TxStates]
  /\ active \in [TxIds -> Nat \cup {NoSnapshot}]
  /\ nextTx \in 1..(MaxTx + 1)
  /\ nextCsn \in Nat \ {0}
  /\ publishedCsn \in Nat
  /\ pending \in SUBSET Nat
  /\ completed \in SUBSET Nat
  /\ skipped \in SUBSET Nat
  /\ pc \in [Clients -> Positions]
  /\ tx \in [Clients -> 0..MaxTx]
  /\ snap \in [Clients -> Nat]
  /\ csn \in [Clients -> Nat]
  /\ horizon \in Nat

\* The CSNs handed out by reserve_commit_csn that neither complete_csn nor
\* skip_csn has seen.
Holding == {c \in Clients : pc[c] \in {"fetched", "reserved", "stamped"}}
Unresolved == {csn[c] : c \in Holding}

\* published_csn is exactly the end of the resolved prefix: no CSN at or
\* below it is still between reserve_commit_csn and complete_csn/skip_csn,
\* and the next one is such a CSN unless every reserved CSN is published.
FrontierExact ==
  /\ publishedCsn < nextCsn
  /\ \A k \in Unresolved : publishedCsn < k
  /\ publishedCsn + 1 \in Unresolved \cup {nextCsn}

VisibleAt(visibleCsn) == {t \in TxIds : IsTxVisible(t, visibleCsn)}

\* What a snapshot sees never changes: for every visible_csn that snapshot()
\* can already have returned, is_tx_visible gives the same answers after any
\* step, whichever commits, cancellations and aborts are under way.
SnapshotStable ==
  [][\A s \in 0..publishedCsn : VisibleAt(s)' = VisibleAt(s)]_vars

\* A reserved CSN never holds the frontier back for good: published_csn
\* reaches every CSN that reserve_commit_csn has handed out, cancelled ones
\* included.
CsnEventuallyPublished ==
  \A k \in 1..MaxTx : nextCsn > k ~> publishedCsn >= k

\* When commit() has returned Committed(csn) to a client, the next snapshot()
\* includes the commit.
OwnCommitVisible ==
  \A c \in Clients :
    /\ pc[c] = "idle"
    /\ tx[c] \in TxIds
    /\ states[tx[c]].kind = "Committed"
    => states[tx[c]].csn <= publishedCsn

\* No vacuum has worked with a horizon that lets it reclaim a version which a
\* snapshot in use still needs, one ended by a commit after the snapshot.
VacuumKeepsSnapshots ==
  \A c \in Clients : \A t \in TxIds :
    /\ pc[c] \in {"snapped", "open", "fetched", "reserved", "stamped"}
    /\ states[t].kind = "Committed"
    /\ states[t].csn > snap[c]
    => states[t].csn >= horizon
=============================================================================
