---------------------------- MODULE RowLockProofs ----------------------------
(***************************************************************************)
(* Proofs about the row lock manager, for any number of transactions and   *)
(* rows: a row is held by one transaction at a time, the waiter queues     *)
(* name exactly the parked threads, and without spurious wake-ups a free   *)
(* row is always on its way to a waiter.                                   *)
(***************************************************************************)
EXTENDS RowLock, FifoWaitersProofs

Types ==
  /\ owner \in [Rows -> Txns \cup {NoTx}]
  /\ waiters \in [Rows -> Queue(Txns)]
  /\ notified \subseteq {t \in Txns : phase[t] = "parked"}
  /\ phase \in [Txns -> {"running", "parked", "releasing", "closed", "dropped"}]
  /\ want \in [Txns -> Rows \cup {NoRow}]
  /\ rowLocks \in [Txns -> Seq(Rows)]

\* The queue of a row names each thread parked on the row once, and no other.
Queues ==
  /\ \A t \in Txns : phase[t] = "parked" =>
       /\ want[t] \in Rows
       /\ \E i \in 1..Len(waiters[want[t]]) : waiters[want[t]][i] = t
  /\ \A r \in Rows : \A i \in 1..Len(waiters[r]) :
       waiters[r][i] # Dead =>
         phase[waiters[r][i]] = "parked" /\ want[waiters[r][i]] = r
  /\ \A r \in Rows : \A i, j \in 1..Len(waiters[r]) :
       waiters[r][i] = waiters[r][j] /\ waiters[r][i] # Dead => i = j

\* Txn.row_locks lists a row once.
NoRepeats ==
  \A t \in Txns : \A i, j \in 1..Len(rowLocks[t]) : rowLocks[t][i] = rowLocks[t][j] => i = j

\* Without spurious wake-ups only the thread at the head of a queue is ever
\* woken, so nobody leaves a dead condition variable behind, and the head of
\* the queue of a free row has been woken.
HeadIsWoken ==
  ~SpuriousWakes =>
    /\ \A r \in Rows : \A i \in 1..Len(waiters[r]) : waiters[r][i] # Dead
    /\ \A t \in notified : waiters[want[t]] # <<>> /\ Head(waiters[want[t]]) = t
    /\ \A r \in Rows : owner[r] = NoTx /\ waiters[r] # <<>> => Head(waiters[r]) \in notified

IInv == Types /\ Queues /\ NoRepeats /\ HeldRowIsOwned /\ HeadIsWoken

-----------------------------------------------------------------------------
\* The invariant gives the type invariant: a queue names a parked thread once.
LEMMA QueuesCount == Types /\ Queues => TypeOK
<1> SUFFICES ASSUME Types, Queues PROVE TypeOK OBVIOUS
<1>0. ASSUME NEW t \in Txns, NEW r \in Rows
      PROVE  LET places == {i \in DOMAIN waiters[r] : waiters[r][i] = t}
             IN  IF phase[t] = "parked" /\ want[t] = r THEN \E p \in DOMAIN waiters[r] : places = {p}
                 ELSE places = {}
  <2>1. DOMAIN waiters[r] = 1..Len(waiters[r]) BY DEF Types, Queue
  <2>2. t # Dead BY Zenon, RowLockAssumption
  <2>3. CASE phase[t] = "parked" /\ want[t] = r
    <3> PICK p \in 1..Len(waiters[r]) : waiters[r][p] = t BY Zenon, <2>3 DEF Queues
    <3>1. {i \in DOMAIN waiters[r] : waiters[r][i] = t} = {p} BY Zenon, <2>1, <2>2 DEF Queues
    <3> QED BY Zenon, <2>1, <2>3, <3>1
  <2>4. CASE ~(phase[t] = "parked" /\ want[t] = r)
    <3>1. {i \in DOMAIN waiters[r] : waiters[r][i] = t} = {} BY <2>1, <2>2, <2>4 DEF Queues
    <3> QED BY Zenon, <2>4, <3>1
  <2> QED BY Zenon, <2>3, <2>4
<1> QED BY Zenon, <1>0 DEF Types, TypeOK, Queue

-----------------------------------------------------------------------------
\* The empty lock table satisfies the invariant.
LEMMA InitIInv == Init => IInv
<1> SUFFICES ASSUME Init PROVE IInv OBVIOUS
<1> USE RowLockAssumption DEF Init
<1>1. <<>> \in Queue(Txns) /\ <<>> \in Seq(Rows) /\ Len(<<>>) = 0 BY DEF Queue
<1>2. Types BY Zenon, <1>1 DEF Types
<1>3. Queues BY <1>1 DEF Queues
<1>4. NoRepeats BY <1>1 DEF NoRepeats
<1>5. HeldRowIsOwned
  <2>1. \A t \in Txns : DOMAIN rowLocks[t] = {} OBVIOUS
  <2> QED BY Zenon, <2>1 DEF HeldRowIsOwned, Holds
<1>6. HeadIsWoken BY <1>1 DEF HeadIsWoken
<1> QED BY Zenon, <1>2, <1>3, <1>4, <1>5, <1>6 DEF IInv

\* push_row_lock() of a row the transaction has just come to own.
LEMMA PushRowLock ==
  ASSUME Types, NoRepeats, HeldRowIsOwned,
         NEW t \in Txns, NEW r \in Rows, owner[r] = NoTx,
         owner' = [owner EXCEPT ![r] = t],
         rowLocks' = [rowLocks EXCEPT ![t] = Append(@, r)]
  PROVE  /\ NoRepeats' /\ HeldRowIsOwned'
         /\ rowLocks' \in [Txns -> Seq(Rows)]
         /\ owner' \in [Rows -> Txns \cup {NoTx}]
<1> DEFINE l == rowLocks[t]
<1>1. l \in Seq(Rows) /\ Len(l) \in Nat BY DEF Types
<1>2. /\ Append(l, r) \in Seq(Rows) /\ Len(Append(l, r)) = Len(l) + 1
      /\ \A i \in 1..Len(l) : Append(l, r)[i] = l[i]
      /\ Append(l, r)[Len(l) + 1] = r
  BY <1>1, AppendFacts
<1>3. rowLocks' \in [Txns -> Seq(Rows)] /\ owner' \in [Rows -> Txns \cup {NoTx}]
  BY Zenon, <1>2 DEF Types
<1>4. rowLocks'[t] = Append(l, r) /\ \A u \in Txns \ {t} : rowLocks'[u] = rowLocks[u]
  BY Zenon DEF Types
<1>5. \A u \in Txns : ~Holds(u, r)
  BY Zenon, RowLockAssumption DEF HeldRowIsOwned
<1>6. \A i \in 1..Len(l) : l[i] # r
  <2>1. DOMAIN l = 1..Len(l) BY <1>1
  <2> QED BY Zenon, <1>5, <2>1 DEF Holds
<1>7. NoRepeats'
  <2> SUFFICES ASSUME NEW u \in Txns, NEW i \in 1..Len(rowLocks'[u]),
                      NEW j \in 1..Len(rowLocks'[u]), rowLocks'[u][i] = rowLocks'[u][j]
               PROVE  i = j
    BY Zenon DEF NoRepeats
  <2>1. CASE u # t BY Zenon, <2>1, <1>4 DEF NoRepeats
  <2>2. CASE u = t
    <3>1. i \in 1..(Len(l) + 1) /\ j \in 1..(Len(l) + 1) BY Zenon, <2>2, <1>4, <1>2
    <3>2. CASE i = Len(l) + 1 BY <3>1, <3>2, <2>2, <1>1, <1>2, <1>4, <1>6
    <3>3. CASE j = Len(l) + 1 BY <3>1, <3>3, <2>2, <1>1, <1>2, <1>4, <1>6
    <3>4. CASE i \in 1..Len(l) /\ j \in 1..Len(l)
      BY <3>4, <2>2, <1>2, <1>4 DEF NoRepeats
    <3> QED BY SMTT(30), <3>1, <3>2, <3>3, <3>4, <1>1
  <2> QED BY Zenon, <2>1, <2>2
<1>8. HeldRowIsOwned'
  <2> SUFFICES ASSUME NEW u \in Txns, NEW s \in Rows, Holds(u, s)'
               PROVE  owner'[s] = u
    BY Zenon DEF HeldRowIsOwned
  <2>1. CASE u # t
    <3>1. Holds(u, s) BY Zenon, <2>1, <1>4 DEF Holds
    <3>2. s # r BY Zenon, <3>1, <1>5
    <3> QED BY Zenon, <3>1, <3>2 DEF HeldRowIsOwned, Types
  <2>2. CASE u = t /\ s # r
    <3> PICK i \in DOMAIN rowLocks'[t] : rowLocks'[t][i] = s BY Zenon, <2>2 DEF Holds
    <3>1. i \in 1..(Len(l) + 1) BY <1>2, <1>4
    <3>2. i \in 1..Len(l) BY <3>1, <2>2, <1>1, <1>2, <1>4
    <3>3. Holds(t, s)
      <4>1. i \in DOMAIN l BY <3>2, <1>1
      <4>2. l[i] = s BY Zenon, <3>2, <1>2, <1>4
      <4> QED BY Zenon, <4>1, <4>2 DEF Holds
    <3>4. owner[s] = t BY Zenon, <3>3 DEF HeldRowIsOwned
    <3> QED BY Zenon, <3>4, <2>2 DEF Types
  <2>3. CASE u = t /\ s = r BY Zenon, <2>3 DEF Types
  <2> QED BY Zenon, <2>1, <2>2, <2>3
<1> QED BY Zenon, <1>3, <1>7, <1>8

\* Unlocking the first row of a transaction that is ending.
LEMMA PopRowLock ==
  ASSUME Types, NoRepeats, HeldRowIsOwned,
         NEW t \in Txns, rowLocks[t] # <<>>,
         owner' = [owner EXCEPT ![Head(rowLocks[t])] = IF @ = t THEN NoTx ELSE @],
         rowLocks' = [rowLocks EXCEPT ![t] = Tail(@)]
  PROVE  /\ NoRepeats' /\ HeldRowIsOwned'
         /\ rowLocks' \in [Txns -> Seq(Rows)]
         /\ owner' \in [Rows -> Txns \cup {NoTx}]
         /\ Head(rowLocks[t]) \in Rows /\ owner[Head(rowLocks[t])] = t
         /\ owner' = [owner EXCEPT ![Head(rowLocks[t])] = NoTx]
<1> DEFINE l == rowLocks[t]
           r == Head(l)
<1>1. l \in Seq(Rows) /\ Len(l) \in Nat /\ DOMAIN l = 1..Len(l) BY DEF Types
<1>2. /\ r \in Rows /\ Tail(l) \in Seq(Rows) /\ Len(Tail(l)) = Len(l) - 1
      /\ \A i \in 1..Len(Tail(l)) : Tail(l)[i] = l[i + 1]
  BY Zenon, <1>1, HeadTailFacts
<1>3. r = l[1] /\ 1 \in 1..Len(l) BY <1>1
<1>4. owner[r] = t BY ZenonT(30), <1>1, <1>2, <1>3 DEF HeldRowIsOwned, Holds
<1>5. owner' = [owner EXCEPT ![r] = NoTx] BY Zenon, <1>2, <1>4 DEF Types
<1>6. rowLocks' \in [Txns -> Seq(Rows)] /\ owner' \in [Rows -> Txns \cup {NoTx}]
  BY Zenon, <1>2, <1>5 DEF Types
<1>7. rowLocks'[t] = Tail(l) /\ \A u \in Txns \ {t} : rowLocks'[u] = rowLocks[u]
  BY Zenon DEF Types
<1>8. ASSUME NEW i \in 1..Len(Tail(l)) PROVE i + 1 \in 1..Len(l) /\ Tail(l)[i] = l[i + 1]
  BY <1>1, <1>2
<1>9. NoRepeats'
  <2> SUFFICES ASSUME NEW u \in Txns, NEW i \in 1..Len(rowLocks'[u]),
                      NEW j \in 1..Len(rowLocks'[u]), rowLocks'[u][i] = rowLocks'[u][j]
               PROVE  i = j
    BY Zenon DEF NoRepeats
  <2>1. CASE u # t BY Zenon, <2>1, <1>7 DEF NoRepeats
  <2>2. CASE u = t
    <3>1. /\ i + 1 \in 1..Len(l) /\ j + 1 \in 1..Len(l) /\ l[i + 1] = l[j + 1]
      BY Zenon, <2>2, <1>7, <1>8
    <3>2. i + 1 = j + 1 BY Zenon, <3>1 DEF NoRepeats
    <3> QED BY <3>2
  <2> QED BY Zenon, <2>1, <2>2
<1>10. HeldRowIsOwned'
  <2> SUFFICES ASSUME NEW u \in Txns, NEW s \in Rows, Holds(u, s)'
               PROVE  owner'[s] = u
    BY Zenon DEF HeldRowIsOwned
  <2>1. Holds(u, s) /\ s # r
    <3>1. CASE u # t
      <4>1. Holds(u, s) BY Zenon, <3>1, <1>7 DEF Holds
      <4> QED BY Zenon, <3>1, <4>1, <1>4 DEF HeldRowIsOwned
    <3>2. CASE u = t
      <4>1. DOMAIN Tail(l) = 1..Len(Tail(l)) BY <1>2
      <4> PICK i \in 1..Len(Tail(l)) : Tail(l)[i] = s BY Zenon, <3>2, <1>7, <4>1 DEF Holds
      <4>2. i + 1 \in 1..Len(l) /\ l[i + 1] = s BY Zenon, <1>8
      <4>3. i + 1 # 1 BY <1>1
      <4>4. s # r BY Zenon, <4>2, <4>3, <1>3 DEF NoRepeats
      <4> QED BY Zenon, <3>2, <4>2, <4>4, <1>1 DEF Holds
    <3> QED BY Zenon, <3>1, <3>2
  <2>2. owner[s] = u BY Zenon, <2>1 DEF HeldRowIsOwned
  <2> QED BY Zenon, <2>1, <2>2, <1>5 DEF Types
<1> QED BY Zenon, <1>2, <1>4, <1>5, <1>6, <1>9, <1>10

-----------------------------------------------------------------------------
\* lock_row() on a free row.
LEMMA LockFreeIInv ==
  ASSUME IInv, NEW t \in Txns, NEW r \in Rows, LockFree(t, r)
  PROVE  IInv'
<1> USE RowLockAssumption DEF LockFree
<1>0. Types /\ Queues /\ NoRepeats /\ HeldRowIsOwned /\ HeadIsWoken BY Zenon DEF IInv
<1> USE <1>0
<1>1. /\ NoRepeats' /\ HeldRowIsOwned'
      /\ rowLocks' \in [Txns -> Seq(Rows)]
      /\ owner' \in [Rows -> Txns \cup {NoTx}]
  BY Zenon, PushRowLock
<1>2. Types' BY Zenon, <1>1 DEF Types
<1>3. Queues' BY DEF Queues
<1>4. HeadIsWoken' BY Zenon DEF HeadIsWoken, Types
<1> QED BY Zenon, <1>1, <1>2, <1>3, <1>4 DEF IInv

\* lock_row() on a row of another transaction.
LEMMA EnqueueIInv ==
  ASSUME IInv, NEW t \in Txns, NEW r \in Rows, Enqueue(t, r)
  PROVE  IInv'
<1> USE RowLockAssumption DEF Enqueue
<1>0. Types /\ Queues /\ NoRepeats /\ HeldRowIsOwned /\ HeadIsWoken BY Zenon DEF IInv
<1> USE <1>0
<1> DEFINE q == waiters[r]
<1>1. q \in Queue(Txns) /\ Len(q) \in Nat /\ t \in Txns \cup {Dead} /\ t # Dead
  BY DEF Types, Queue
<1>2. /\ Append(q, t) \in Queue(Txns) /\ Append(q, t) # <<>> /\ Len(Append(q, t)) = Len(q) + 1
      /\ \A i \in 1..Len(q) : Append(q, t)[i] = q[i]
      /\ Append(q, t)[Len(q) + 1] = t
  BY <1>1, AppendFacts DEF Queue
<1>3. /\ waiters'[r] = Append(q, t)
      /\ \A s \in Rows \ {r} : waiters'[s] = waiters[s]
      /\ phase'[t] = "parked" /\ want'[t] = r /\ phase[t] = "running"
      /\ \A u \in Txns \ {t} : phase'[u] = phase[u] /\ want'[u] = want[u]
  BY Zenon DEF Types
<1>4. Types'
  <2>1. waiters' \in [Rows -> Queue(Txns)] BY Zenon, <1>2 DEF Types
  <2>2. phase' \in [Txns -> {"running", "parked", "releasing", "closed", "dropped"}] BY Zenon DEF Types
  <2>3. want' \in [Txns -> Rows \cup {NoRow}] BY Zenon DEF Types
  <2>4. notified \subseteq {u \in Txns : phase'[u] = "parked"} BY Zenon, <1>3 DEF Types
  <2> QED BY Zenon, <2>1, <2>2, <2>3, <2>4 DEF Types
<1>5. \A i \in 1..Len(q) : q[i] # t
  BY <1>1, <1>3 DEF Queues
<1>6. Queues'
  <2>1. ASSUME NEW u \in Txns, phase'[u] = "parked"
        PROVE  /\ want'[u] \in Rows
               /\ \E i \in 1..Len(waiters'[want'[u]]) : waiters'[want'[u]][i] = u
    <3>1. CASE u = t BY <3>1, <1>1, <1>2, <1>3
    <3>2. CASE u # t
      <4>1. phase[u] = "parked" /\ want'[u] = want[u] BY Zenon, <2>1, <3>2, <1>3
      <4> PICK i \in 1..Len(waiters[want[u]]) : waiters[want[u]][i] = u BY Zenon, <4>1 DEF Queues
      <4>2. want[u] \in Rows BY Zenon, <4>1 DEF Queues
      <4>3. CASE want[u] = r BY <4>1, <4>3, <1>1, <1>2, <1>3
      <4>4. CASE want[u] # r BY <4>1, <4>2, <4>4, <1>3
      <4> QED BY Zenon, <4>2, <4>3, <4>4, <4>1
    <3> QED BY Zenon, <3>1, <3>2
  <2>2. ASSUME NEW s \in Rows, NEW i \in 1..Len(waiters'[s]), waiters'[s][i] # Dead
        PROVE  phase'[waiters'[s][i]] = "parked" /\ want'[waiters'[s][i]] = s
    <3>1. CASE s = r /\ i = Len(q) + 1 BY <3>1, <1>2, <1>3
    <3>2. CASE ~(s = r /\ i = Len(q) + 1)
      <4>1. i \in 1..Len(waiters[s]) /\ waiters'[s][i] = waiters[s][i]
        BY <3>2, <1>1, <1>2, <1>3
      <4>2. waiters[s][i] \in Txns BY <4>1, <2>2 DEF Types, Queue
      <4>3. phase[waiters[s][i]] = "parked" /\ want[waiters[s][i]] = s
        BY Zenon, <4>1, <2>2 DEF Queues
      <4> QED BY ZenonT(30), <4>1, <4>2, <4>3, <1>3
    <3> QED BY Zenon, <3>1, <3>2
  <2>3. ASSUME NEW s \in Rows, NEW i \in 1..Len(waiters'[s]), NEW j \in 1..Len(waiters'[s]),
               waiters'[s][i] = waiters'[s][j], waiters'[s][i] # Dead
        PROVE  i = j
    <3>1. CASE s # r BY <2>3, <3>1, <1>3 DEF Queues
    <3>2. CASE s = r
      <4>1. i \in 1..(Len(q) + 1) /\ j \in 1..(Len(q) + 1) BY Zenon, <3>2, <1>2, <1>3
      <4>2. CASE i = Len(q) + 1 \/ j = Len(q) + 1
        BY <2>3, <3>2, <4>1, <4>2, <1>1, <1>2, <1>3, <1>5
      <4>3. CASE i \in 1..Len(q) /\ j \in 1..Len(q)
        BY <2>3, <3>2, <4>3, <1>2, <1>3 DEF Queues
      <4> QED BY <4>1, <4>2, <4>3, <1>1
    <3> QED BY Zenon, <3>1, <3>2
  <2> QED BY <2>1, <2>2, <2>3 DEF Queues
<1>7. HeadIsWoken'
  <2> SUFFICES ASSUME ~SpuriousWakes
               PROVE  /\ \A s \in Rows : \A i \in 1..Len(waiters'[s]) : waiters'[s][i] # Dead
                      /\ \A u \in notified :
                           waiters'[want'[u]] # <<>> /\ Head(waiters'[want'[u]]) = u
                      /\ \A s \in Rows : owner[s] = NoTx /\ waiters'[s] # <<>>
                                         => Head(waiters'[s]) \in notified
    BY Zenon DEF HeadIsWoken
  <2>1. ASSUME NEW s \in Rows, NEW i \in 1..Len(waiters'[s]) PROVE waiters'[s][i] # Dead
    <3>1. CASE s = r /\ i = Len(q) + 1 BY Zenon, <3>1, <1>1, <1>2, <1>3
    <3>2. CASE ~(s = r /\ i = Len(q) + 1)
      <4>1. i \in 1..Len(waiters[s]) /\ waiters'[s][i] = waiters[s][i]
        BY <3>2, <1>1, <1>2, <1>3
      <4> QED BY Zenon, <4>1 DEF HeadIsWoken
    <3> QED BY Zenon, <3>1, <3>2
  <2>2. ASSUME NEW u \in notified
        PROVE  waiters'[want'[u]] # <<>> /\ Head(waiters'[want'[u]]) = u
    <3>1. u \in Txns /\ phase[u] = "parked" /\ u # t BY Zenon, <1>3 DEF Types
    <3>2. want'[u] = want[u] /\ want[u] \in Rows BY Zenon, <3>1, <1>3 DEF Queues
    <3>3. waiters[want[u]] # <<>> /\ Head(waiters[want[u]]) = u BY Zenon DEF HeadIsWoken
    <3>4. CASE want[u] # r BY <3>2, <3>3, <3>4, <1>3
    <3>5. CASE want[u] = r
      <4>1. q # <<>> /\ Head(q) = u BY Zenon, <3>3, <3>5
      <4>2. Head(Append(q, t)) = Head(q) BY <4>1, <1>1, <1>2 DEF Queue
      <4> QED BY Zenon, <4>1, <4>2, <3>2, <3>5, <1>2, <1>3
    <3> QED BY Zenon, <3>4, <3>5
  <2>3. \A s \in Rows : owner[s] = NoTx /\ waiters'[s] # <<>>
                        => Head(waiters'[s]) \in notified
    BY Zenon, <1>3 DEF HeadIsWoken
  <2> QED BY Zenon, <2>1, <2>2, <2>3
<1>8. NoRepeats' /\ HeldRowIsOwned' BY Zenon DEF NoRepeats, HeldRowIsOwned, Holds
<1> QED BY Zenon, <1>4, <1>6, <1>7, <1>8 DEF IInv

\* A thread that stops waiting, with the lock or without it, leaves the other
\* waiters of every row as they were.
LEMMA LeaveQueue ==
  ASSUME Types, Queues, NEW t \in Txns, phase[t] = "parked", NEW q2,
         Without(Txns, waiters[want[t]], t, q2),
         waiters' = [waiters EXCEPT ![want[t]] = q2],
         phase' = [phase EXCEPT ![t] = "running"],
         want' = [want EXCEPT ![t] = NoRow]
  PROVE  /\ Queues'
         /\ waiters' \in [Rows -> Queue(Txns)]
         /\ phase' \in [Txns -> {"running", "parked", "releasing", "closed", "dropped"}]
         /\ want' \in [Txns -> Rows \cup {NoRow}]
<1> USE RowLockAssumption
<1> DEFINE r == want[t]
           q == waiters[r]
<1>1. r \in Rows BY Zenon DEF Queues
<1>2. q2 \in Queue(Txns) /\ t # Dead BY Zenon DEF Without
<1>3. /\ waiters'[r] = q2 /\ \A s \in Rows \ {r} : waiters'[s] = waiters[s]
      /\ phase'[t] = "running"
      /\ \A u \in Txns \ {t} : phase'[u] = phase[u] /\ want'[u] = want[u]
  BY Zenon, <1>1 DEF Types
<1>4. /\ waiters' \in [Rows -> Queue(Txns)]
      /\ phase' \in [Txns -> {"running", "parked", "releasing", "closed", "dropped"}]
      /\ want' \in [Txns -> Rows \cup {NoRow}]
  BY Zenon, <1>1, <1>2 DEF Types
<1>5. ASSUME NEW u \in Txns, phase'[u] = "parked"
      PROVE  /\ want'[u] \in Rows
             /\ \E i \in 1..Len(waiters'[want'[u]]) : waiters'[want'[u]][i] = u
  <2>1. u # t BY Zenon, <1>5, <1>3
  <2>2. phase[u] = "parked" /\ want'[u] = want[u] /\ want[u] \in Rows
    BY Zenon, <1>5, <2>1, <1>3 DEF Queues
  <2> PICK j \in 1..Len(waiters[want[u]]) : waiters[want[u]][j] = u BY Zenon, <2>2 DEF Queues
  <2>3. CASE want[u] = r
    <3>1. \E i \in 1..Len(q2) : q2[i] = u BY <2>1, <2>3 DEF Without
    <3> QED BY <3>1, <2>2, <2>3, <1>1, <1>3
  <2>4. CASE want[u] # r BY <2>2, <2>4, <1>3
  <2> QED BY Zenon, <2>3, <2>4
<1>6. ASSUME NEW s \in Rows, NEW i \in 1..Len(waiters'[s]), waiters'[s][i] # Dead
      PROVE  phase'[waiters'[s][i]] = "parked" /\ want'[waiters'[s][i]] = s
  <2> DEFINE u == waiters'[s][i]
  <2>1. /\ u # t /\ \E j \in 1..Len(waiters[s]) : waiters[s][j] = u
    <3>1. CASE s = r BY <3>1, <1>3, <1>6 DEF Without
    <3>2. CASE s # r
      <4>1. waiters'[s] = waiters[s] BY Zenon, <3>2, <1>3
      <4>2. u # t BY <3>2, <4>1, <1>2, <1>6 DEF Queues
      <4> QED BY Zenon, <4>1, <4>2
    <3> QED BY Zenon, <3>1, <3>2
  <2> HIDE DEF u
  <2>2. phase[u] = "parked" /\ want[u] = s BY <2>1, <1>6 DEF Queues, u
  <2>3. u \in Txns BY <2>1, <1>6 DEF Types, Queue, u
  <2> QED BY Zenon, <2>1, <2>2, <2>3, <1>3 DEF u
<1>7. ASSUME NEW s \in Rows, NEW i \in 1..Len(waiters'[s]), NEW j \in 1..Len(waiters'[s]),
             waiters'[s][i] = waiters'[s][j], waiters'[s][i] # Dead
      PROVE  i = j
  <2>1. CASE s = r BY <2>1, <1>3, <1>7 DEF Without
  <2>2. CASE s # r BY <2>2, <1>3, <1>7 DEF Queues
  <2> QED BY Zenon, <2>1, <2>2
<1> QED BY <1>4, <1>5, <1>6, <1>7 DEF Queues

\* The first of a queue that names live waiters only.
LEMMA FrontOfQueue ==
  ASSUME Types, Queues, NEW r \in Rows, waiters[r] # <<>>, Head(waiters[r]) # Dead
  PROVE  /\ Head(waiters[r]) = waiters[r][1] /\ 1 \in 1..Len(waiters[r])
         /\ Head(waiters[r]) \in Txns
         /\ phase[Head(waiters[r])] = "parked" /\ want[Head(waiters[r])] = r
<1>1. waiters[r] \in Queue(Txns) BY Zenon DEF Types
<1>2. Head(waiters[r]) = waiters[r][1] /\ 1 \in 1..Len(waiters[r])
  BY Zenon, <1>1, NotifyFrontProperties
<1>3. waiters[r][1] \in Txns BY <1>1, <1>2 DEF Queue
<1> QED BY <1>2, <1>3 DEF Queues

\* A woken waiter takes the free row.
LEMMA WakeTakeIInv ==
  ASSUME IInv, NEW t \in Txns, WakeTake(t)
  PROVE  IInv'
<1> USE RowLockAssumption DEF WakeTake, Woken
<1>0. Types /\ Queues /\ NoRepeats /\ HeldRowIsOwned /\ HeadIsWoken BY Zenon DEF IInv
<1> USE <1>0
<1> DEFINE r == want[t]
           q == waiters[r]
<1>1. phase[t] = "parked" /\ r \in Rows /\ q \in Queue(Txns) BY Zenon DEF Queues, Types
<1>2. PICK p \in 1..Len(q) : q[p] = t BY Zenon, <1>1 DEF Queues
<1>3. Without(Txns, q, t, TakeSlot(q, t))
  <2>1. \A i, j \in 1..Len(q) : q[i] = q[j] /\ q[i] # Dead => i = j BY Zenon, <1>1 DEF Queues
  <2> QED BY Zenon, <1>1, <1>2, <2>1, LeavingKeepsOthers
<1>4. /\ Queues'
      /\ waiters' \in [Rows -> Queue(Txns)]
      /\ phase' \in [Txns -> {"running", "parked", "releasing", "closed", "dropped"}]
      /\ want' \in [Txns -> Rows \cup {NoRow}]
  <2>1. waiters' = [waiters EXCEPT ![want[t]] = TakeSlot(q, t)] OBVIOUS
  <2> QED BY Zenon, <1>1, <1>3, <2>1, LeaveQueue
<1>5. /\ NoRepeats' /\ HeldRowIsOwned'
      /\ rowLocks' \in [Txns -> Seq(Rows)]
      /\ owner' \in [Rows -> Txns \cup {NoTx}]
  BY Zenon, <1>1, PushRowLock
<1>6. notified' \subseteq {u \in Txns : phase'[u] = "parked"} BY Zenon DEF Types
<1>7. Types' BY Zenon, <1>4, <1>5, <1>6 DEF Types
<1>8. HeadIsWoken'
  <2> SUFFICES ASSUME ~SpuriousWakes
               PROVE  /\ \A s \in Rows : \A i \in 1..Len(waiters'[s]) : waiters'[s][i] # Dead
                      /\ \A u \in notified' :
                           waiters'[want'[u]] # <<>> /\ Head(waiters'[want'[u]]) = u
                      /\ \A s \in Rows : owner'[s] = NoTx /\ waiters'[s] # <<>>
                                         => Head(waiters'[s]) \in notified'
    BY Zenon DEF HeadIsWoken
  <2>1. t \in notified /\ q # <<>> /\ Head(q) = t BY Zenon DEF HeadIsWoken
  <2>2. /\ waiters'[r] = TakeSlot(q, t) /\ owner'[r] = t
        /\ \A s \in Rows \ {r} : waiters'[s] = waiters[s] /\ owner'[s] = owner[s]
        /\ \A u \in Txns \ {t} : want'[u] = want[u]
    BY Zenon, <1>1 DEF Types
  <2>3. /\ Len(TakeSlot(q, t)) = Len(q) - 1
        /\ \A i \in 1..(Len(q) - 1) : TakeSlot(q, t)[i] = q[i + 1]
    BY <2>1, <1>1, TakeSlotProperties
  <2>4. ASSUME NEW s \in Rows, NEW i \in 1..Len(waiters'[s]) PROVE waiters'[s][i] # Dead
    <3>1. CASE s = r
      <4>1. Len(q) \in Nat BY <1>1 DEF Queue
      <4>2. i + 1 \in 1..Len(q) /\ waiters'[s][i] = q[i + 1] BY <3>1, <4>1, <2>2, <2>3
      <4> QED BY Zenon, <4>2, <1>1 DEF HeadIsWoken
    <3>2. CASE s # r BY <3>2, <2>2 DEF HeadIsWoken
    <3> QED BY Zenon, <3>1, <3>2
  <2>5. ASSUME NEW u \in notified'
        PROVE  waiters'[want'[u]] # <<>> /\ Head(waiters'[want'[u]]) = u
    <3>1. u \in notified /\ u \in Txns /\ u # t /\ want[u] \in Rows BY Zenon DEF Types, Queues
    <3>2. waiters[want[u]] # <<>> /\ Head(waiters[want[u]]) = u BY Zenon, <3>1 DEF HeadIsWoken
    <3>3. want[u] # r BY Zenon, <3>1, <3>2, <2>1
    <3> QED BY Zenon, <3>1, <3>2, <3>3, <2>2
  <2>6. ASSUME NEW s \in Rows, owner'[s] = NoTx, waiters'[s] # <<>>
        PROVE  Head(waiters'[s]) \in notified'
    <3>1. s # r BY <2>6, <2>2
    <3>2. owner[s] = NoTx /\ waiters[s] # <<>> /\ waiters'[s] = waiters[s]
      BY Zenon, <2>6, <3>1, <2>2
    <3>3. Head(waiters[s]) \in notified BY Zenon, <3>2 DEF HeadIsWoken
    <3>4. Head(waiters[s]) # Dead BY Zenon, <3>3 DEF Types
    <3>5. want[Head(waiters[s])] = s BY Zenon, <3>2, <3>4, FrontOfQueue
    <3>6. Head(waiters[s]) # t BY Zenon, <3>1, <3>5
    <3> QED BY <3>2, <3>3, <3>6
  <2> QED BY Zenon, <2>4, <2>5, <2>6
<1> QED BY Zenon, <1>4, <1>5, <1>7, <1>8 DEF IInv

\* A woken waiter finds the row taken.
LEMMA WakeBusyIInv ==
  ASSUME IInv, NEW t \in Txns, WakeBusy(t)
  PROVE  IInv'
<1> USE RowLockAssumption DEF WakeBusy, Woken
<1>0. Types /\ Queues /\ NoRepeats /\ HeldRowIsOwned /\ HeadIsWoken BY Zenon DEF IInv
<1> USE <1>0
<1>1. Types' BY Zenon DEF Types
<1>2. Queues' BY DEF Queues
<1>3. NoRepeats' /\ HeldRowIsOwned' BY Zenon DEF NoRepeats, HeldRowIsOwned, Holds
<1>4. HeadIsWoken'
  <2>1. ASSUME ~SpuriousWakes, NEW s \in Rows, owner[s] = NoTx, waiters[s] # <<>>
        PROVE  Head(waiters[s]) \in notified'
    <3>1. Head(waiters[s]) \in notified BY Zenon, <2>1 DEF HeadIsWoken
    <3>2. Head(waiters[s]) # Dead BY Zenon, <3>1 DEF Types
    <3>3. want[Head(waiters[s])] = s BY Zenon, <2>1, <3>2, FrontOfQueue
    <3>4. Head(waiters[s]) # t BY Zenon, <2>1, <3>3
    <3> QED BY Zenon, <3>1, <3>4
  <2> QED BY Zenon, <2>1 DEF HeadIsWoken
<1> QED BY Zenon, <1>1, <1>2, <1>3, <1>4 DEF IInv

\* A waiter gives up.
LEMMA TimeoutIInv ==
  ASSUME IInv, NEW t \in Txns, Timeout(t)
  PROVE  IInv'
<1> USE RowLockAssumption
<1>0. Types /\ Queues /\ NoRepeats /\ HeldRowIsOwned /\ HeadIsWoken BY Zenon DEF IInv
<1> USE <1>0
<1> DEFINE r == want[t]
           q == waiters[r]
           d == Dequeue(q, t)
<1>1. /\ phase[t] = "parked"
      /\ waiters' = [waiters EXCEPT ![r] = d]
      /\ notified' = (notified \ {t}) \cup IF owner[r] = NoTx THEN NotifyFront(d) ELSE {}
      /\ phase' = [phase EXCEPT ![t] = "running"]
      /\ want' = [want EXCEPT ![t] = NoRow]
      /\ UNCHANGED <<owner, rowLocks>>
  BY Zenon DEF Timeout
<1>2. r \in Rows /\ q \in Queue(Txns) /\ Len(q) \in Nat BY <1>1 DEF Queues, Types, Queue
<1>3. PICK p \in 1..Len(q) : q[p] = t BY Zenon, <1>1 DEF Queues
<1>4. \A i, j \in 1..Len(q) : q[i] = q[j] /\ q[i] # Dead => i = j BY SMTT(30), <1>2 DEF Queues
<1>5. /\ d \in Queue(Txns) /\ Len(d) = Len(q) - 1
      /\ \A i \in 1..(Len(q) - 1) : d[i] = IF i < p THEN q[i] ELSE q[i + 1]
  <2>1. \A i \in 1..Len(q) : q[i] = t => i = p BY Zenon, <1>3, <1>4
  <2>2. Dead \notin Txns OBVIOUS
  <2> HIDE <1>0, RowLockAssumption DEF q
  <2> QED BY Zenon, <1>2, <1>3, <2>1, <2>2, DequeueProperties
<1>6. Without(Txns, q, t, d) BY Zenon, <1>2, <1>3, <1>4, LeavingKeepsOthers
<1> HIDE DEF d
<1>7. /\ Queues'
      /\ waiters' \in [Rows -> Queue(Txns)]
      /\ phase' \in [Txns -> {"running", "parked", "releasing", "closed", "dropped"}]
      /\ want' \in [Txns -> Rows \cup {NoRow}]
  BY Zenon, <1>1, <1>6, LeaveQueue
<1>8. /\ waiters'[r] = d
      /\ \A s \in Rows \ {r} : waiters'[s] = waiters[s]
      /\ \A u \in Txns \ {t} : want'[u] = want[u] /\ phase'[u] = phase[u]
  BY Zenon, <1>1, <1>2 DEF Types
<1>9. \A u \in NotifyFront(d) : /\ d # <<>> /\ u = d[1] /\ u = Head(d) /\ u # t
                                /\ u \in Txns /\ phase[u] = "parked" /\ want[u] = r
  <2> SUFFICES ASSUME NEW u \in NotifyFront(d)
               PROVE  /\ d # <<>> /\ u = d[1] /\ u = Head(d) /\ u # t
                      /\ u \in Txns /\ phase[u] = "parked" /\ want[u] = r
    OBVIOUS
  <2>1. d # <<>> /\ u = d[1] /\ u = Head(d) /\ u # Dead /\ 1 \in 1..Len(d)
    BY Zenon, <1>5, NotifyFrontProperties
  <2>2. u # t /\ \E j \in 1..Len(q) : q[j] = u BY Zenon, <2>1, <1>6 DEF Without
  <2>3. u \in Txns /\ phase[u] = "parked" /\ want[u] = r
    BY <2>1, <2>2, <1>2 DEF Queues, Queue
  <2> QED BY Zenon, <2>1, <2>2, <2>3
<1>10. notified' \subseteq {u \in Txns : phase'[u] = "parked"}
  BY Zenon, <1>1, <1>8, <1>9 DEF Types
<1>11. Types' BY Zenon, <1>1, <1>7, <1>10 DEF Types
<1>12. HeadIsWoken'
  <2> SUFFICES ASSUME ~SpuriousWakes
               PROVE  /\ \A s \in Rows : \A i \in 1..Len(waiters'[s]) : waiters'[s][i] # Dead
                      /\ \A u \in notified' :
                           waiters'[want'[u]] # <<>> /\ Head(waiters'[want'[u]]) = u
                      /\ \A s \in Rows : owner'[s] = NoTx /\ waiters'[s] # <<>>
                                         => Head(waiters'[s]) \in notified'
    BY Zenon DEF HeadIsWoken
  <2>1. ASSUME NEW i \in 1..Len(d) PROVE d[i] # Dead
    <3>1. i \in 1..(Len(q) - 1) BY Zenon, <1>5
    <3>2. i \in 1..Len(q) /\ i + 1 \in 1..Len(q) BY <3>1, <1>2
    <3> QED BY SMTT(30), <3>1, <3>2, <1>2, <1>5 DEF HeadIsWoken
  <2>2. \A s \in Rows : \A i \in 1..Len(waiters'[s]) : waiters'[s][i] # Dead
    BY <2>1, <1>8 DEF HeadIsWoken
  <2>3. ASSUME NEW u \in notified'
        PROVE  waiters'[want'[u]] # <<>> /\ Head(waiters'[want'[u]]) = u
    <3>1. CASE u \in NotifyFront(d) BY Zenon, <3>1, <1>2, <1>8, <1>9
    <3>2. CASE u \in notified \ {t}
      <4>1. u \in Txns /\ want[u] \in Rows /\ want'[u] = want[u] BY Zenon, <3>2, <1>8 DEF Types, Queues
      <4>2. waiters[want[u]] # <<>> /\ Head(waiters[want[u]]) = u
        BY Zenon, <3>2 DEF HeadIsWoken
      <4>3. CASE want[u] # r BY SMTT(30), <4>1, <4>2, <4>3, <1>8
      <4>4. CASE want[u] = r
        <5>1. q[1] = u /\ 1 \in 1..Len(q) BY Zenon, <4>2, <4>4, <1>2, NotifyFrontProperties
        <5>2. 1 < p BY <5>1, <3>2, <1>2, <1>3
        <5>3. 1 \in 1..Len(d) /\ d[1] = u BY <5>1, <5>2, <1>2, <1>5
        <5>4. d # <<>> /\ Head(d) = u BY <5>3, <1>5 DEF Queue
        <5> QED BY Zenon, <5>4, <4>1, <4>4, <1>8
      <4> QED BY Zenon, <4>3, <4>4
    <3> QED BY Zenon, <3>1, <3>2, <1>1
  <2>4. ASSUME NEW s \in Rows, owner'[s] = NoTx, waiters'[s] # <<>>
        PROVE  Head(waiters'[s]) \in notified'
    <3>1. CASE s = r
      <4>1. d # <<>> /\ owner[r] = NoTx BY Zenon, <2>4, <3>1, <1>1, <1>8
      <4>2. NotifyFront(d) = {d[1]} \ {Dead} /\ Head(d) = d[1] /\ 1 \in 1..Len(d)
        BY Zenon, <4>1, <1>5, NotifyFrontProperties
      <4>3. Head(d) \in NotifyFront(d) BY Zenon, <4>2, <2>1
      <4> QED BY <3>1, <4>1, <4>3, <1>1, <1>8
    <3>2. CASE s # r
      <4>1. waiters'[s] = waiters[s] /\ owner[s] = NoTx /\ waiters[s] # <<>>
        BY Zenon, <2>4, <3>2, <1>1, <1>8
      <4>2. Head(waiters[s]) \in notified BY Zenon, <4>1 DEF HeadIsWoken
      <4>3. Head(waiters[s]) # Dead BY Zenon, <4>2 DEF Types
      <4>4. want[Head(waiters[s])] = s BY Zenon, <4>1, <4>3, FrontOfQueue
      <4>5. Head(waiters[s]) # t BY Zenon, <3>2, <4>4
      <4> QED BY <4>1, <4>2, <4>5, <1>1
    <3> QED BY Zenon, <3>1, <3>2
  <2> QED BY Zenon, <2>2, <2>3, <2>4
<1>13. NoRepeats' /\ HeldRowIsOwned' BY ZenonT(30), <1>1 DEF NoRepeats, HeldRowIsOwned, Holds
<1> QED BY Zenon, <1>7, <1>11, <1>12, <1>13 DEF IInv

\* release_locks() returns one row and wakes the head of its queue.
LEMMA UnlockIInv ==
  ASSUME IInv, NEW t \in Txns, Unlock(t)
  PROVE  IInv'
<1> USE RowLockAssumption
<1>0. Types /\ Queues /\ NoRepeats /\ HeldRowIsOwned /\ HeadIsWoken BY Zenon DEF IInv
<1> USE <1>0
<1> DEFINE r == Head(rowLocks[t])
           q == waiters[r]
<1>1. /\ rowLocks[t] # <<>>
      /\ owner' = [owner EXCEPT ![r] = IF @ = t THEN NoTx ELSE @]
      /\ notified' = notified \cup IF owner[r] = t THEN NotifyFront(q) ELSE {}
      /\ rowLocks' = [rowLocks EXCEPT ![t] = Tail(@)]
      /\ UNCHANGED <<waiters, phase, want>>
  BY Zenon DEF Unlock
<1>2. /\ NoRepeats' /\ HeldRowIsOwned'
      /\ rowLocks' \in [Txns -> Seq(Rows)]
      /\ owner' \in [Rows -> Txns \cup {NoTx}]
      /\ r \in Rows /\ owner[r] = t
      /\ owner' = [owner EXCEPT ![r] = NoTx]
  BY Zenon, <1>1, PopRowLock
<1> HIDE DEF r
<1>3. q \in Queue(Txns) /\ notified' = notified \cup NotifyFront(q) BY Zenon, <1>1, <1>2 DEF Types
<1>4. \A u \in NotifyFront(q) : /\ q # <<>> /\ u = Head(q) /\ u \in Txns
                                /\ phase[u] = "parked" /\ want[u] = r
  <2> SUFFICES ASSUME NEW u \in NotifyFront(q)
               PROVE  /\ q # <<>> /\ u = Head(q) /\ u \in Txns
                      /\ phase[u] = "parked" /\ want[u] = r
    OBVIOUS
  <2>1. q # <<>> /\ u = Head(q) /\ u # Dead BY Zenon, <1>3, NotifyFrontProperties
  <2> QED BY Zenon, <2>1, <1>2, FrontOfQueue
<1>5. notified' \subseteq {u \in Txns : phase[u] = "parked"} BY Zenon, <1>3, <1>4 DEF Types
<1>6. Types' BY Zenon, <1>1, <1>2, <1>5 DEF Types
<1>7. Queues' BY <1>1 DEF Queues
<1>8. HeadIsWoken'
  <2>1. ASSUME ~SpuriousWakes, NEW s \in Rows, owner'[s] = NoTx, waiters[s] # <<>>
        PROVE  Head(waiters[s]) \in notified'
    <3>1. CASE s = r
      <4>1. q # <<>> BY Zenon, <2>1, <3>1
      <4>2. NotifyFront(q) = {q[1]} \ {Dead} /\ Head(q) = q[1] /\ 1 \in 1..Len(q)
        BY Zenon, <4>1, <1>3, NotifyFrontProperties
      <4>3. q[1] # Dead BY Zenon, <2>1, <4>2, <1>2 DEF HeadIsWoken
      <4> QED BY Zenon, <3>1, <4>2, <4>3, <1>3
    <3>2. CASE s # r
      <4>1. owner[s] = NoTx BY Zenon, <2>1, <3>2, <1>2 DEF Types
      <4> QED BY Zenon, <2>1, <4>1, <1>3 DEF HeadIsWoken
    <3> QED BY Zenon, <3>1, <3>2
  <2>2. ASSUME ~SpuriousWakes, NEW u \in notified'
        PROVE  waiters[want[u]] # <<>> /\ Head(waiters[want[u]]) = u
    BY Zenon, <2>2, <1>3, <1>4 DEF HeadIsWoken
  <2> QED BY Zenon, <1>1, <2>1, <2>2 DEF HeadIsWoken
<1> QED BY Zenon, <1>2, <1>6, <1>7, <1>8 DEF IInv

\* The other steps of a transaction move its thread between phases.
LEMMA PhaseStepIInv ==
  ASSUME IInv, NEW t \in Txns, EndTx(t) \/ Close(t) \/ DropTx(t)
  PROVE  IInv'
<1> USE RowLockAssumption
<1>0. Types /\ Queues /\ NoRepeats /\ HeldRowIsOwned /\ HeadIsWoken BY Zenon DEF IInv
<1> USE <1>0
<1>1. PICK to \in {"releasing", "closed", "dropped"} :
        /\ phase[t] \in {"running", "releasing"}
        /\ phase' = [phase EXCEPT ![t] = to]
        /\ rowLocks' \in {rowLocks, [rowLocks EXCEPT ![t] = <<>>]}
        /\ UNCHANGED <<owner, waiters, notified, want>>
  BY Zenon DEF EndTx, Close, DropTx
<1>2. /\ phase'[t] = to /\ phase[t] # "parked" /\ to # "parked"
      /\ \A u \in Txns \ {t} : phase'[u] = phase[u]
  BY Zenon, <1>1 DEF Types
<1>3. <<>> \in Seq(Rows) /\ Len(<<>>) = 0 OBVIOUS
<1>4. Types'
  <2>1. rowLocks' \in [Txns -> Seq(Rows)] BY Zenon, <1>1, <1>3 DEF Types
  <2>2. phase' \in [Txns -> {"running", "parked", "releasing", "closed", "dropped"}]
    BY Zenon, <1>1 DEF Types
  <2>3. notified \subseteq {u \in Txns : phase'[u] = "parked"} BY Zenon, <1>2 DEF Types
  <2> QED BY Zenon, <1>1, <2>1, <2>2, <2>3 DEF Types
<1>5. Queues'
  <2>1. \A r \in Rows : \A i \in 1..Len(waiters[r]) :
          waiters[r][i] # Dead => waiters[r][i] \in Txns
    BY DEF Types, Queue
  <2>2. \A u \in Txns : phase'[u] = "parked" <=> phase[u] = "parked" BY Zenon, <1>2
  <2> QED BY <1>1, <2>1, <2>2 DEF Queues
<1>6. \A u \in Txns : rowLocks'[u] \in {rowLocks[u], <<>>} BY Zenon, <1>1 DEF Types
<1>7. NoRepeats' BY <1>3, <1>6 DEF NoRepeats
<1>8. HeldRowIsOwned'
  <2>1. DOMAIN <<>> = {} OBVIOUS
  <2>2. ASSUME NEW u \in Txns, NEW r \in Rows, Holds(u, r)' PROVE Holds(u, r)
    BY Zenon, <1>6, <2>1, <2>2 DEF Holds
  <2> QED BY Zenon, <1>1, <2>2 DEF HeldRowIsOwned
<1>9. HeadIsWoken' BY Zenon, <1>1 DEF HeadIsWoken
<1> QED BY Zenon, <1>4, <1>5, <1>7, <1>8, <1>9 DEF IInv

\* Every step keeps the invariant.
LEMMA NextIInv == IInv /\ [Next]_vars => IInv'
<1> SUFFICES ASSUME IInv, [Next]_vars PROVE IInv' OBVIOUS
<1>1. ASSUME NEW t \in Txns, TxStep(t) PROVE IInv'
  BY Zenon, <1>1, LockFreeIInv, EnqueueIInv, WakeTakeIInv, WakeBusyIInv, TimeoutIInv,
     UnlockIInv, PhaseStepIInv DEF TxStep
<1>2. CASE UNCHANGED vars
  <2> USE <1>2 DEF vars, IInv
  <2>1. Types' /\ Queues' BY DEF Types, Queues
  <2>2. NoRepeats' /\ HeldRowIsOwned' BY Zenon DEF NoRepeats, HeldRowIsOwned, Holds
  <2>3. HeadIsWoken' BY Zenon DEF HeadIsWoken
  <2> QED BY Zenon, <2>1, <2>2, <2>3
<1> QED BY Zenon, <1>1, <1>2 DEF Next

\* What a transaction owns stays listed: push_row_lock() follows every grant,
\* and release_locks() strikes a row from the list as it frees it.
LEMMA OwnedStep ==
  ASSUME IInv, OwnedRowIsListed, [Next]_vars
  PROVE  OwnedRowIsListed'
<1> USE RowLockAssumption
<1>0. Types /\ NoRepeats /\ HeldRowIsOwned BY Zenon DEF IInv
<1> USE <1>0
<1> SUFFICES ASSUME NEW s \in Rows, owner'[s] # NoTx
             PROVE  (Holds(owner[s], s) \/ phase[owner[s]] = "dropped")'
  BY Zenon DEF OwnedRowIsListed
<1>1. ASSUME NEW t \in Txns, NEW r \in Rows, phase[t] # "dropped",
             owner' = [owner EXCEPT ![r] = t],
             rowLocks' = [rowLocks EXCEPT ![t] = Append(@, r)],
             \A u \in Txns \ {t} : phase'[u] = phase[u]
      PROVE  (Holds(owner[s], s) \/ phase[owner[s]] = "dropped")'
  <2> DEFINE l == rowLocks[t]
  <2>1. l \in Seq(Rows) /\ Len(l) \in Nat /\ DOMAIN l = 1..Len(l) BY DEF Types
  <2>2. /\ DOMAIN Append(l, r) = 1..(Len(l) + 1)
        /\ \A i \in 1..Len(l) : Append(l, r)[i] = l[i]
        /\ Append(l, r)[Len(l) + 1] = r
    BY <2>1, AppendFacts
  <2>3. rowLocks'[t] = Append(l, r) /\ \A u \in Txns \ {t} : rowLocks'[u] = rowLocks[u]
    BY Zenon, <1>1 DEF Types
  <2>4. CASE s = r
    <3>1. owner'[s] = t BY Zenon, <1>1, <2>4 DEF Types
    <3>2. Len(l) + 1 \in DOMAIN rowLocks'[t] BY <2>1, <2>2, <2>3
    <3> QED BY Zenon, <3>1, <3>2, <2>2, <2>3, <2>4 DEF Holds
  <2>5. CASE s # r
    <3>1. owner'[s] = owner[s] /\ owner[s] \in Txns BY ZenonT(30), <1>1, <2>5 DEF Types
    <3>2. CASE Holds(owner[s], s)
      <4>1. CASE owner[s] # t BY Zenon, <3>1, <3>2, <4>1, <2>3 DEF Holds
      <4>2. CASE owner[s] = t
        <5> PICK i \in 1..Len(l) : l[i] = s BY Zenon, <3>2, <4>2, <2>1 DEF Holds
        <5>1. i \in DOMAIN rowLocks'[t] /\ rowLocks'[t][i] = s BY <2>1, <2>2, <2>3
        <5> QED BY Zenon, <5>1, <3>1, <4>2 DEF Holds
      <4> QED BY Zenon, <4>1, <4>2
    <3>3. CASE phase[owner[s]] = "dropped"
      BY Zenon, <3>1, <3>3, <1>1
    <3> QED BY Zenon, <3>1, <3>2, <3>3 DEF OwnedRowIsListed
  <2> QED BY Zenon, <2>4, <2>5
<1>2. ASSUME NEW t \in Txns, phase[t] # "dropped", UNCHANGED <<owner, rowLocks>>,
             \A u \in Txns \ {t} : phase'[u] = phase[u]
      PROVE  (Holds(owner[s], s) \/ phase[owner[s]] = "dropped")'
  BY <1>2 DEF OwnedRowIsListed, Holds, Types
<1>3. ASSUME NEW t \in Txns, TxStep(t)
      PROVE  (Holds(owner[s], s) \/ phase[owner[s]] = "dropped")'
  <2>1. CASE \E r \in Rows : LockFree(t, r) BY Zenon, <2>1, <1>1 DEF LockFree
  <2>2. CASE WakeTake(t)
    <3>1. phase[t] = "parked" /\ want[t] \in Rows BY SMTT(30), <2>2 DEF WakeTake, Woken, IInv, Queues
    <3> QED BY Zenon, <2>2, <3>1, <1>1 DEF WakeTake, Types
  <2>3. CASE \E r \in Rows : Enqueue(t, r) BY <2>3, <1>2 DEF Enqueue, Types
  <2>4. CASE WakeBusy(t) BY Zenon, <2>4, <1>2 DEF WakeBusy, Woken
  <2>5. CASE Timeout(t) BY Zenon, <2>5, <1>2 DEF Timeout, Types
  <2>6. CASE EndTx(t) \/ Close(t) BY Zenon, <2>6, <1>2 DEF EndTx, Close, Types
  <2>7. CASE DropTx(t)
    <3>1. owner'[s] = owner[s] /\ owner[s] \in Txns BY Zenon, <2>7 DEF DropTx, Types
    <3>2. CASE owner[s] = t BY ZenonT(30), <2>7, <3>1, <3>2 DEF DropTx, Types
    <3>3. CASE owner[s] # t
      <4>1. rowLocks'[owner[s]] = rowLocks[owner[s]] /\ phase'[owner[s]] = phase[owner[s]]
        BY Zenon, <2>7, <3>1, <3>3 DEF DropTx, Types
      <4> QED BY Zenon, <3>1, <4>1 DEF OwnedRowIsListed, Holds
    <3> QED BY Zenon, <3>2, <3>3
  <2>8. CASE Unlock(t)
    <3> DEFINE l == rowLocks[t]
               r == Head(l)
    <3>1. /\ r \in Rows /\ owner' = [owner EXCEPT ![r] = NoTx]
      BY Zenon, <2>8, PopRowLock DEF Unlock
    <3>2. s # r /\ owner'[s] = owner[s] /\ owner[s] \in Txns BY Zenon, <3>1 DEF Types
    <3>3. rowLocks'[t] = Tail(l) /\ \A u \in Txns \ {t} : rowLocks'[u] = rowLocks[u]
      BY Zenon, <2>8 DEF Unlock, Types
    <3>4. phase' = phase /\ l # <<>> BY Zenon, <2>8 DEF Unlock
    <3>5. CASE Holds(owner[s], s) /\ owner[s] = t
      <4>1. l \in Seq(Rows) /\ Len(l) \in Nat /\ DOMAIN l = 1..Len(l) /\ r = l[1] BY DEF Types
      <4>2. /\ DOMAIN Tail(l) = 1..(Len(l) - 1)
            /\ \A i \in 1..(Len(l) - 1) : Tail(l)[i] = l[i + 1]
        BY <4>1, <3>4, HeadTailFacts
      <4> PICK i \in 1..Len(l) : l[i] = s BY Zenon, <3>5, <4>1 DEF Holds
      <4>3. i # 1 BY Zenon, <3>2, <4>1
      <4>4. i - 1 \in 1..(Len(l) - 1) /\ (i - 1) + 1 = i BY <4>1, <4>3
      <4>5. i - 1 \in DOMAIN rowLocks'[t] /\ rowLocks'[t][i - 1] = s BY Zenon, <4>2, <4>4, <3>3
      <4> QED BY Zenon, <4>5, <3>2, <3>5 DEF Holds
    <3>6. CASE Holds(owner[s], s) /\ owner[s] # t BY Zenon, <3>2, <3>3, <3>6 DEF Holds
    <3>7. CASE phase[owner[s]] = "dropped" BY Zenon, <3>2, <3>4, <3>7
    <3> QED BY Zenon, <3>2, <3>5, <3>6, <3>7 DEF OwnedRowIsListed
  <2> QED BY Zenon, <1>3, <2>1, <2>2, <2>3, <2>4, <2>5, <2>6, <2>7, <2>8 DEF TxStep
<1>4. CASE UNCHANGED vars BY Zenon, <1>4 DEF vars, OwnedRowIsListed, Holds
<1> QED BY Zenon, <1>3, <1>4 DEF Next

\* The inductive invariant holds throughout.
THEOREM Invariance == Spec => []IInv
<1>1. Init => IInv BY Zenon, InitIInv
<1>2. IInv /\ [Next]_vars => IInv' BY Zenon, NextIInv
<1> QED BY <1>1, <1>2, PTL DEF Spec

\* The lock table keeps its types and each queue names exactly the threads
\* parked on its row, once each, through every wake-up and timeout of lock().
THEOREM TypeCorrect == Spec => []TypeOK
<1>1. IInv => TypeOK BY Zenon, QueuesCount DEF IInv
<1> QED BY <1>1, Invariance, PTL

\* A row that a transaction believes it holds is owned by it, so no two
\* transactions hold a row at once, with spurious wake-ups or without.
THEOREM MutualExclusion == Spec => []HeldRowIsOwned
<1>1. IInv => HeldRowIsOwned BY Zenon DEF IInv
<1> QED BY <1>1, Invariance, PTL

\* If condition variables never wake by themselves, unlock() and
\* dequeue_waiter() never lose a wake-up.
THEOREM NoLostWakeup == ASSUME ~SpuriousWakes PROVE Spec => []FreeRowIsHandedOn
<1>1. IInv => FreeRowIsHandedOn
  <2> SUFFICES ASSUME IInv, NEW r \in Rows, owner[r] = NoTx,
                      NEW t \in Parked(r)
               PROVE  Parked(r) \cap notified # {}
    BY Zenon DEF FreeRowIsHandedOn
  <2>1. t \in Txns /\ phase[t] = "parked" /\ want[t] = r BY Zenon DEF Parked
  <2>2. waiters[r] # <<>>
    <3>1. waiters[r] \in Queue(Txns) BY Zenon DEF IInv, Types
    <3>2. \E i \in 1..Len(waiters[r]) : waiters[r][i] = t BY Zenon, <2>1 DEF IInv, Queues
    <3> QED BY <3>1, <3>2 DEF Queue
  <2>3. Head(waiters[r]) \in notified BY Zenon, <2>2 DEF IInv, HeadIsWoken
  <2>4. Head(waiters[r]) # Dead BY Zenon, <2>3, RowLockAssumption DEF IInv, Types
  <2>5. /\ Head(waiters[r]) \in Txns
        /\ phase[Head(waiters[r])] = "parked" /\ want[Head(waiters[r])] = r
    BY Zenon, <2>2, <2>4, FrontOfQueue DEF IInv
  <2> QED BY Zenon, <2>3, <2>5 DEF Parked
<1> QED BY <1>1, Invariance, PTL

\* Only a Txn dropped while open leaves a row with an owner that will never
\* return it: commit() and rollback() free every row the transaction owns.
THEOREM RowsAreReturned == Spec => []OwnedRowIsListed
<1>1. Init => OwnedRowIsListed BY Zenon DEF Init, OwnedRowIsListed
<1>2. IInv /\ OwnedRowIsListed /\ [Next]_vars => OwnedRowIsListed' BY Zenon, OwnedStep
<1> QED BY <1>1, <1>2, Invariance, PTL DEF Spec
=============================================================================
