----------------------------- MODULE FifoWaiters -----------------------------
(***************************************************************************)
(* The queue of parked waiters that a row lock and a unique-key lock keep. *)
(* The code queues one condition variable per waiter.  A live condition    *)
(* variable belongs to one parked thread, so the queue holds the thread;   *)
(* one whose thread has moved on without taking it out of the queue is     *)
(* Dead, and notifying it wakes nobody.                                    *)
(***************************************************************************)
EXTENDS Naturals, Sequences, FiniteSets

Dead == "dead"

\* waiters.remove(position of the waiter's own condition variable).
Position(q, t) == CHOOSE i \in 1..Len(q) : q[i] = t /\ \A j \in 1..(i - 1) : q[j] # t
Dequeue(q, t) ==
  IF \E i \in 1..Len(q) : q[i] = t
  THEN [i \in 1..(Len(q) - 1) |-> IF i < Position(q, t) THEN q[i] ELSE q[i + 1]]
  ELSE q

\* A woken waiter takes the free lock: it pops itself off the head of the
\* queue, and a waiter further back leaves its condition variable behind.
TakeSlot(q, t) ==
  IF q # <<>> /\ Head(q) = t THEN Tail(q)
  ELSE [i \in 1..Len(q) |-> IF q[i] = t THEN Dead ELSE q[i]]

\* front().notify_one(): the threads that the call wakes.
NotifyFront(q) == IF q = <<>> THEN {} ELSE {Head(q)} \ {Dead}
=============================================================================
