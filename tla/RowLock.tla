------------------------------- MODULE RowLock -------------------------------
(***************************************************************************)
(* RowLockManager and the part of the Engine that takes and returns row    *)
(* locks.  Each transaction is run by one thread; every step is one        *)
(* critical section of a shard mutex.  A row without an entry in its shard *)
(* is a row with no owner and no waiters.                                  *)
(***************************************************************************)
EXTENDS FifoWaiters

CONSTANTS Txns,           \* transactions, one thread each
          Rows,           \* row keys
          NoTx, NoRow,
          SpuriousWakes   \* whether a condition variable may wake by itself

ASSUME RowLockAssumption ==
  /\ Dead \notin Txns /\ NoTx \notin Txns /\ NoRow \notin Rows
  /\ SpuriousWakes \in BOOLEAN

VARIABLES owner,      \* RowLockState.owner, per row
          waiters,    \* RowLockState.waiters, per row
          notified,   \* parked threads that notify_one has woken
          phase,      \* what the transaction's thread is doing
          want,       \* the row a parked thread waits for
          rowLocks    \* Txn.row_locks

vars == <<owner, waiters, notified, phase, want, rowLocks>>

Init ==
  /\ owner = [r \in Rows |-> NoTx]
  /\ waiters = [r \in Rows |-> <<>>]
  /\ notified = {}
  /\ phase = [t \in Txns |-> "running"]
  /\ want = [t \in Txns |-> NoRow]
  /\ rowLocks = [t \in Txns |-> <<>>]

Holds(t, r) == \E i \in DOMAIN rowLocks[t] : rowLocks[t][i] = r

\* lock_row() when the row is free: lock()'s fast path, push_row_lock.
LockFree(t, r) ==
  /\ phase[t] = "running"
  /\ ~ Holds(t, r)
  /\ owner[r] = NoTx
  /\ owner' = [owner EXCEPT ![r] = t]
  /\ rowLocks' = [rowLocks EXCEPT ![t] = Append(@, r)]
  /\ UNCHANGED <<waiters, notified, phase, want>>

\* lock_row() when another transaction owns the row: push_back and park.
Enqueue(t, r) ==
  /\ phase[t] = "running"
  /\ ~ Holds(t, r)
  /\ owner[r] \notin {NoTx, t}
  /\ waiters' = [waiters EXCEPT ![r] = Append(@, t)]
  /\ phase' = [phase EXCEPT ![t] = "parked"]
  /\ want' = [want EXCEPT ![t] = r]
  /\ UNCHANGED <<owner, notified, rowLocks>>

Woken(t) == phase[t] = "parked" /\ (t \in notified \/ SpuriousWakes)

\* Mutant: the woken waiter does not look at the owner again.
WakeTakeUnchecked(t) ==
  /\ Woken(t)
  /\ waiters' = [waiters EXCEPT ![want[t]] = TakeSlot(@, t)]
  /\ owner' = [owner EXCEPT ![want[t]] = t]
  /\ rowLocks' = [rowLocks EXCEPT ![t] = Append(@, want[t])]
  /\ notified' = notified \ {t}
  /\ phase' = [phase EXCEPT ![t] = "running"]
  /\ want' = [want EXCEPT ![t] = NoRow]

\* Mutant: a row obtained after a wait is not entered in row_locks.
WakeTakeUnlisted(t) ==
  /\ Woken(t)
  /\ owner[want[t]] = NoTx
  /\ waiters' = [waiters EXCEPT ![want[t]] = TakeSlot(@, t)]
  /\ owner' = [owner EXCEPT ![want[t]] = t]
  /\ notified' = notified \ {t}
  /\ phase' = [phase EXCEPT ![t] = "running"]
  /\ want' = [want EXCEPT ![t] = NoRow]
  /\ UNCHANGED rowLocks

\* A woken waiter finds the row free and takes it.
WakeTake(t) ==
  /\ Woken(t)
  /\ owner[want[t]] = NoTx
  /\ waiters' = [waiters EXCEPT ![want[t]] = TakeSlot(@, t)]
  /\ owner' = [owner EXCEPT ![want[t]] = t]
  /\ rowLocks' = [rowLocks EXCEPT ![t] = Append(@, want[t])]
  /\ notified' = notified \ {t}
  /\ phase' = [phase EXCEPT ![t] = "running"]
  /\ want' = [want EXCEPT ![t] = NoRow]

\* A woken waiter finds the row taken again and parks again.
WakeBusy(t) ==
  /\ Woken(t)
  /\ t \in notified
  /\ owner[want[t]] # NoTx
  /\ notified' = notified \ {t}
  /\ UNCHANGED <<owner, waiters, phase, want, rowLocks>>

\* Mutant: a waiter that gives up does not pass on the wake-up it may have got.
TimeoutNoHandoff(t) ==
  /\ phase[t] = "parked"
  /\ waiters' = [waiters EXCEPT ![want[t]] = Dequeue(@, t)]
  /\ notified' = notified \ {t}
  /\ phase' = [phase EXCEPT ![t] = "running"]
  /\ want' = [want EXCEPT ![t] = NoRow]
  /\ UNCHANGED <<owner, rowLocks>>

\* The deadline passes, possibly after a notify_one that comes too late to be
\* seen: dequeue_waiter and LockTimeout.  The transaction stays open.
Timeout(t) ==
  LET r == want[t]
      q == Dequeue(waiters[r], t)
  IN  /\ phase[t] = "parked"
      /\ waiters' = [waiters EXCEPT ![r] = q]
      /\ notified' = (notified \ {t})
                     \cup IF owner[r] = NoTx THEN NotifyFront(q) ELSE {}
      /\ phase' = [phase EXCEPT ![t] = "running"]
      /\ want' = [want EXCEPT ![t] = NoRow]
      /\ UNCHANGED <<owner, rowLocks>>

\* commit() or rollback() reaches release_locks().
EndTx(t) ==
  /\ phase[t] = "running"
  /\ phase' = [phase EXCEPT ![t] = "releasing"]
  /\ UNCHANGED <<owner, waiters, notified, want, rowLocks>>

\* One round of release_locks(): unlock() of the next row.
Unlock(t) ==
  /\ phase[t] = "releasing"
  /\ rowLocks[t] # <<>>
  /\ LET r == Head(rowLocks[t])
     IN  /\ owner' = [owner EXCEPT ![r] = IF @ = t THEN NoTx ELSE @]
         /\ notified' = notified \cup IF owner[r] = t THEN NotifyFront(waiters[r]) ELSE {}
  /\ rowLocks' = [rowLocks EXCEPT ![t] = Tail(@)]
  /\ UNCHANGED <<waiters, phase, want>>

\* Txn::close() at the end of commit() or rollback().
Close(t) ==
  /\ phase[t] = "releasing"
  /\ rowLocks[t] = <<>>
  /\ phase' = [phase EXCEPT ![t] = "closed"]
  /\ UNCHANGED <<owner, waiters, notified, want, rowLocks>>

\* The Txn is dropped while open, as when commit() fails to append the catalog
\* snapshot: TxnLifecycle::drop aborts it, and nothing unlocks its rows.
DropTx(t) ==
  /\ phase[t] = "running"
  /\ phase' = [phase EXCEPT ![t] = "dropped"]
  /\ rowLocks' = [rowLocks EXCEPT ![t] = <<>>]
  /\ UNCHANGED <<owner, waiters, notified, want>>

TxStep(t) ==
  \/ \E r \in Rows : LockFree(t, r) \/ Enqueue(t, r)
  \/ WakeTake(t) \/ WakeBusy(t) \/ Timeout(t)
  \/ EndTx(t) \/ Unlock(t) \/ Close(t) \/ DropTx(t)

Next == \E t \in Txns : TxStep(t)

Spec == Init /\ [][Next]_vars

-----------------------------------------------------------------------------
\* The variables have the types of RowLockState and Txn; nobody waits in two
\* queues and a queue names a live waiter at most once.
TypeOK ==
  /\ owner \in [Rows -> Txns \cup {NoTx}]
  /\ waiters \in [Rows -> Seq(Txns \cup {Dead})]
  /\ notified \subseteq {t \in Txns : phase[t] = "parked"}
  /\ phase \in [Txns -> {"running", "parked", "releasing", "closed", "dropped"}]
  /\ want \in [Txns -> Rows \cup {NoRow}]
  /\ rowLocks \in [Txns -> Seq(Rows)]
  /\ \A t \in Txns, r \in Rows :
       LET places == {i \in DOMAIN waiters[r] : waiters[r][i] = t}
       IN  IF phase[t] = "parked" /\ want[t] = r THEN \E p \in DOMAIN waiters[r] : places = {p}
           ELSE places = {}

\* A transaction that believes it holds a row owns it, so no two transactions
\* ever write the same row at once, whatever wakes, times out or barges in.
HeldRowIsOwned ==
  \A t \in Txns, r \in Rows : Holds(t, r) => owner[r] = t

Parked(r) == {t \in Txns : phase[t] = "parked" /\ want[t] = r}

\* No wake-up is lost: when a row is free and transactions wait for it, one of
\* them has been woken, so a free row never leaves a waiter to its timeout.
FreeRowIsHandedOn ==
  \A r \in Rows :
    owner[r] = NoTx /\ Parked(r) # {} => Parked(r) \cap notified # {}

\* Nobody keeps a row by accident: unless its Txn was dropped while open, the
\* owner of a row lists it in row_locks, so release_locks() will return it, and
\* a transaction that commit() or rollback() has closed owns nothing.
OwnedRowIsListed ==
  \A r \in Rows : owner[r] # NoTx => Holds(owner[r], r) \/ phase[owner[r]] = "dropped"

\* Rows are granted in the order in which the waiters queued up.
FifoHandoff ==
  [][\A r \in Rows :
       owner'[r] # owner[r] /\ owner'[r] # NoTx /\ waiters[r] # <<>>
       => owner'[r] = Head(waiters[r])]_vars

=============================================================================
