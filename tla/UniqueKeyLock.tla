---------------------------- MODULE UniqueKeyLock ----------------------------
(***************************************************************************)
(* UniqueKeyLockTable of a B-tree index, and the guards that a SQL         *)
(* transaction collects in SessionState.kernel_unique_guards and drops at  *)
(* its end.  Unlike a row lock this lock is re-entrant and has no timeout. *)
(***************************************************************************)
EXTENDS FifoWaiters

CONSTANTS Txns, Keys, NoTx, NoKey,
          MaxGuards,      \* bound on the guards one transaction collects
          SpuriousWakes   \* whether a condition variable may wake by itself

ASSUME UniqueKeyAssumption ==
  /\ Dead \notin Txns /\ NoTx \notin Txns /\ NoKey \notin Keys
  /\ MaxGuards \in Nat /\ SpuriousWakes \in BOOLEAN

VARIABLES owner, depth, waiters,   \* UniqueKeyLockState, per key
          notified,                \* parked threads that notify_one has woken
          phase, want,             \* per transaction
          guards                   \* kernel_unique_guards, as keys

vars == <<owner, depth, waiters, notified, phase, want, guards>>

Init ==
  /\ owner = [k \in Keys |-> NoTx]
  /\ depth = [k \in Keys |-> 0]
  /\ waiters = [k \in Keys |-> <<>>]
  /\ notified = {}
  /\ phase = [t \in Txns |-> "running"]
  /\ want = [t \in Txns |-> NoKey]
  /\ guards = [t \in Txns |-> <<>>]

MayLock(t) == phase[t] = "running" /\ Len(guards[t]) < MaxGuards

\* lock() on a free key.
LockFree(t, k) ==
  /\ MayLock(t)
  /\ owner[k] = NoTx
  /\ owner' = [owner EXCEPT ![k] = t]
  /\ depth' = [depth EXCEPT ![k] = 1]
  /\ guards' = [guards EXCEPT ![t] = Append(@, k)]
  /\ UNCHANGED <<waiters, notified, phase, want>>

\* lock() on a key the transaction already owns.
LockAgain(t, k) ==
  /\ MayLock(t)
  /\ owner[k] = t
  /\ depth' = [depth EXCEPT ![k] = @ + 1]
  /\ guards' = [guards EXCEPT ![t] = Append(@, k)]
  /\ UNCHANGED <<owner, waiters, notified, phase, want>>

\* lock() on a key of another transaction: push_back and park.
Enqueue(t, k) ==
  /\ MayLock(t)
  /\ owner[k] \notin {NoTx, t}
  /\ waiters' = [waiters EXCEPT ![k] = Append(@, t)]
  /\ phase' = [phase EXCEPT ![t] = "parked"]
  /\ want' = [want EXCEPT ![t] = k]
  /\ UNCHANGED <<owner, depth, notified, guards>>

Woken(t) == phase[t] = "parked" /\ (t \in notified \/ SpuriousWakes)

\* A woken waiter finds the key free and takes it.
WakeTake(t) ==
  /\ Woken(t)
  /\ owner[want[t]] = NoTx
  /\ waiters' = [waiters EXCEPT ![want[t]] = TakeSlot(@, t)]
  /\ owner' = [owner EXCEPT ![want[t]] = t]
  /\ depth' = [depth EXCEPT ![want[t]] = 1]
  /\ guards' = [guards EXCEPT ![t] = Append(@, want[t])]
  /\ notified' = notified \ {t}
  /\ phase' = [phase EXCEPT ![t] = "running"]
  /\ want' = [want EXCEPT ![t] = NoKey]

\* A woken waiter finds the key taken again and parks again.
WakeBusy(t) ==
  /\ Woken(t)
  /\ t \in notified
  /\ owner[want[t]] # NoTx
  /\ notified' = notified \ {t}
  /\ UNCHANGED <<owner, depth, waiters, phase, want, guards>>

\* The SQL transaction has committed or rolled back and clears its guards.
EndTx(t) ==
  /\ phase[t] = "running"
  /\ phase' = [phase EXCEPT ![t] = "releasing"]
  /\ UNCHANGED <<owner, depth, waiters, notified, want, guards>>

\* Mutant: every dropped guard frees the key, however deep it is held.
DropGuardFrees(t) ==
  /\ phase[t] = "releasing"
  /\ guards[t] # <<>>
  /\ LET k == Head(guards[t])
     IN  /\ owner' = [owner EXCEPT ![k] = IF @ = t THEN NoTx ELSE @]
         /\ depth' = [depth EXCEPT ![k] = 0]
         /\ notified' = notified \cup NotifyFront(waiters[k])
  /\ guards' = [guards EXCEPT ![t] = Tail(@)]
  /\ UNCHANGED <<waiters, phase, want>>

\* Mutant: unlock() hands the key on only when nobody is left behind the
\* front waiter.
DropGuardForgetsQueue(t) ==
  /\ phase[t] = "releasing"
  /\ guards[t] # <<>>
  /\ LET k == Head(guards[t])
         last == owner[k] = t /\ depth[k] = 1
     IN  /\ owner' = [owner EXCEPT ![k] = IF last THEN NoTx ELSE @]
         /\ depth' = [depth EXCEPT ![k] = IF owner[k] = t THEN @ - 1 ELSE @]
         /\ notified' = notified
              \cup IF last /\ Len(waiters[k]) = 1 THEN NotifyFront(waiters[k]) ELSE {}
  /\ guards' = [guards EXCEPT ![t] = Tail(@)]
  /\ UNCHANGED <<waiters, phase, want>>

\* UniqueKeyGuard::drop, unlock(): the last guard frees the key and wakes the
\* front waiter.
DropGuard(t) ==
  /\ phase[t] = "releasing"
  /\ guards[t] # <<>>
  /\ LET k == Head(guards[t])
         last == owner[k] = t /\ depth[k] = 1
     IN  /\ owner' = [owner EXCEPT ![k] = IF last THEN NoTx ELSE @]
         /\ depth' = [depth EXCEPT ![k] = IF owner[k] = t THEN @ - 1 ELSE @]
         /\ notified' = notified \cup IF last THEN NotifyFront(waiters[k]) ELSE {}
  /\ guards' = [guards EXCEPT ![t] = Tail(@)]
  /\ UNCHANGED <<waiters, phase, want>>

Close(t) ==
  /\ phase[t] = "releasing"
  /\ guards[t] = <<>>
  /\ phase' = [phase EXCEPT ![t] = "closed"]
  /\ UNCHANGED <<owner, depth, waiters, notified, want, guards>>

Next ==
  \E t \in Txns :
    \/ \E k \in Keys : LockFree(t, k) \/ LockAgain(t, k) \/ Enqueue(t, k)
    \/ WakeTake(t) \/ WakeBusy(t) \/ EndTx(t) \/ DropGuard(t) \/ Close(t)

Spec == Init /\ [][Next]_vars

-----------------------------------------------------------------------------
\* The variables have the types of UniqueKeyLockState and SessionState; a
\* queue names a live waiter at most once.
TypeOK ==
  /\ owner \in [Keys -> Txns \cup {NoTx}]
  /\ depth \in [Keys -> 0..MaxGuards]
  /\ waiters \in [Keys -> Seq(Txns \cup {Dead})]
  /\ notified \subseteq {t \in Txns : phase[t] = "parked"}
  /\ phase \in [Txns -> {"running", "parked", "releasing", "closed"}]
  /\ want \in [Txns -> Keys \cup {NoKey}]
  /\ guards \in [Txns -> Seq(Keys)]

GuardCount(t, k) == Cardinality({i \in DOMAIN guards[t] : guards[t][i] = k})

\* The depth of a key is the number of live guards of its owner, and nobody
\* else has a guard for it: a key is free exactly when its last guard is gone.
DepthCountsGuards ==
  \A k \in Keys, t \in Txns :
    GuardCount(t, k) = IF owner[k] = t THEN depth[k] ELSE 0
=============================================================================
