-------------------------- MODULE FifoWaitersProofs --------------------------
(***************************************************************************)
(* What joining, leaving and notifying a queue of waiters does to the      *)
(* other waiters, for queues of any length.  T is the set of threads.      *)
(***************************************************************************)
EXTENDS FifoWaiters, Integers, TLAPS

\* A sequence with one element more at its end.
LEMMA AppendFacts ==
  ASSUME NEW S, NEW s \in Seq(S), NEW e \in S
  PROVE  /\ Append(s, e) \in Seq(S) /\ Append(s, e) # <<>>
         /\ Len(Append(s, e)) = Len(s) + 1
         /\ \A i \in 1..Len(s) : Append(s, e)[i] = s[i]
         /\ Append(s, e)[Len(s) + 1] = e
  OBVIOUS

\* A sequence without its first element.
LEMMA HeadTailFacts ==
  ASSUME NEW S, NEW s \in Seq(S), s # <<>>
  PROVE  /\ Head(s) \in S /\ Tail(s) \in Seq(S) /\ Len(Tail(s)) = Len(s) - 1
         /\ \A i \in 1..Len(Tail(s)) : Tail(s)[i] = s[i + 1]
  OBVIOUS

\* A function on 1..n is a sequence of length n.
LEMMA SequenceFacts ==
  ASSUME NEW S, NEW n \in Nat, NEW s \in [1..n -> S]
  PROVE  s \in Seq(S) /\ Len(s) = n
  OBVIOUS

Queue(T) == Seq(T \cup {Dead})

\* What remains of a queue when a waiter that it names once gives up: the
\* others in their order, and a new head only if the waiter was at the head.
LEMMA DequeueProperties ==
  ASSUME NEW T, Dead \notin T, NEW q \in Queue(T), NEW t \in T, NEW p \in 1..Len(q), q[p] = t,
         \A i \in 1..Len(q) : q[i] = t => i = p
  PROVE  /\ Dequeue(q, t) \in Queue(T)
         /\ Len(Dequeue(q, t)) = Len(q) - 1
         /\ \A i \in 1..(Len(q) - 1) :
              Dequeue(q, t)[i] = IF i < p THEN q[i] ELSE q[i + 1]
<1> DEFINE P(i) == q[i] = t /\ \A j \in 1..(i - 1) : q[j] # t
<1>1. Len(q) \in Nat /\ \A i \in 1..Len(q) : q[i] \in T \cup {Dead}
  BY DEF Queue
<1>2. P(p) BY <1>1
<1>3. Position(q, t) = p
  <2>1. Position(q, t) \in 1..Len(q) /\ P(Position(q, t)) BY <1>2 DEF Position
  <2> QED BY <2>1
<1>4. Dequeue(q, t) = [i \in 1..(Len(q) - 1) |-> IF i < p THEN q[i] ELSE q[i + 1]]
  BY <1>3 DEF Dequeue
<1>5. ASSUME NEW i \in 1..(Len(q) - 1)
      PROVE  (IF i < p THEN q[i] ELSE q[i + 1]) \in T \cup {Dead}
  BY <1>1
<1>6. Len(q) - 1 \in Nat BY <1>1
<1>7. Dequeue(q, t) \in [1..(Len(q) - 1) -> T \cup {Dead}] BY <1>4, <1>5
<1>8. Dequeue(q, t) \in Queue(T) /\ Len(Dequeue(q, t)) = Len(q) - 1
  BY <1>6, <1>7, SequenceFacts DEF Queue
<1> QED BY <1>4, <1>8

\* Taking the slot keeps every other waiter in its order; a waiter that was
\* not at the head leaves a dead condition variable.
LEMMA TakeSlotProperties ==
  ASSUME NEW T, Dead \notin T, NEW q \in Queue(T), NEW t \in T
  PROVE  /\ TakeSlot(q, t) \in Queue(T)
         /\ q # <<>> /\ Head(q) = t =>
              /\ Len(TakeSlot(q, t)) = Len(q) - 1
              /\ \A i \in 1..(Len(q) - 1) : TakeSlot(q, t)[i] = q[i + 1]
         /\ ~(q # <<>> /\ Head(q) = t) =>
              /\ Len(TakeSlot(q, t)) = Len(q)
              /\ \A i \in 1..Len(q) :
                   TakeSlot(q, t)[i] = IF q[i] = t THEN Dead ELSE q[i]
<1>1. Len(q) \in Nat /\ \A i \in 1..Len(q) : q[i] \in T \cup {Dead}
  BY DEF Queue
<1>2. CASE q # <<>> /\ Head(q) = t
  <2>1. TakeSlot(q, t) = Tail(q) BY <1>2 DEF TakeSlot
  <2>2. /\ Tail(q) \in Queue(T) /\ Len(Tail(q)) = Len(q) - 1
        /\ \A i \in 1..Len(Tail(q)) : Tail(q)[i] = q[i + 1]
    BY <1>2, HeadTailFacts DEF Queue
  <2> QED BY <1>2, <2>1, <2>2
<1>3. CASE ~(q # <<>> /\ Head(q) = t)
  <2>1. TakeSlot(q, t) = [i \in 1..Len(q) |-> IF q[i] = t THEN Dead ELSE q[i]]
    BY <1>3 DEF TakeSlot
  <2>2. TakeSlot(q, t) \in [1..Len(q) -> T \cup {Dead}] BY <1>1, <2>1
  <2>3. TakeSlot(q, t) \in Queue(T) /\ Len(TakeSlot(q, t)) = Len(q)
    BY <1>1, <2>2, SequenceFacts DEF Queue
  <2> QED BY <1>3, <2>1, <2>3
<1> QED BY <1>2, <1>3

\* notify_one() wakes the head of the queue, unless nobody waits there.
LEMMA NotifyFrontProperties ==
  ASSUME NEW T, NEW q \in Queue(T)
  PROVE  /\ q = <<>> => NotifyFront(q) = {}
         /\ q # <<>> => /\ NotifyFront(q) = {q[1]} \ {Dead}
                        /\ Head(q) = q[1] /\ 1 \in 1..Len(q)
BY DEF NotifyFront, Queue

\* q2 is what is left of q for the others when t no longer waits in it.
Without(T, q, t, q2) ==
  /\ q2 \in Queue(T)
  /\ \A i \in 1..Len(q2) :
       q2[i] # t /\ (q2[i] # Dead => \E j \in 1..Len(q) : q[j] = q2[i])
  /\ \A j \in 1..Len(q) : q[j] \notin {t, Dead} => \E i \in 1..Len(q2) : q2[i] = q[j]
  /\ \A i, j \in 1..Len(q2) : q2[i] = q2[j] /\ q2[i] # Dead => i = j

\* Both ways of leaving a queue leave the others in it.
LEMMA LeavingKeepsOthers ==
  ASSUME NEW T, Dead \notin T, NEW q \in Queue(T), NEW t \in T, NEW p \in 1..Len(q), q[p] = t,
         \A i, j \in 1..Len(q) : q[i] = q[j] /\ q[i] # Dead => i = j
  PROVE  Without(T, q, t, TakeSlot(q, t)) /\ Without(T, q, t, Dequeue(q, t))
<1>1. Len(q) \in Nat /\ t # Dead BY DEF Queue
<1>2. \A i \in 1..Len(q) : q[i] = t => i = p BY <1>1
<1>3. Without(T, q, t, Dequeue(q, t))
  <2> DEFINE d == Dequeue(q, t)
  <2>1. /\ d \in Queue(T) /\ Len(d) = Len(q) - 1
        /\ \A i \in 1..(Len(q) - 1) : d[i] = IF i < p THEN q[i] ELSE q[i + 1]
    BY <1>2, DequeueProperties
  <2> HIDE DEF d
  <2> DEFINE f(i) == IF i < p THEN i ELSE i + 1
  <2>2. ASSUME NEW i \in 1..Len(d) PROVE f(i) \in 1..Len(q) /\ f(i) # p /\ d[i] = q[f(i)]
    BY <2>1, <1>1
  <2>3. ASSUME NEW j \in 1..Len(q), q[j] \notin {t, Dead}
        PROVE  \E i \in 1..Len(d) : d[i] = q[j]
    <3>1. j # p BY <2>3
    <3>2. CASE j < p BY <3>2, <2>1, <1>1
    <3>3. CASE j > p
      <4>1. j - 1 \in 1..Len(d) /\ ~(j - 1 < p) /\ j - 1 + 1 = j BY <3>3, <2>1, <1>1
      <4> QED BY <4>1, <2>1
    <3> QED BY <3>1, <3>2, <3>3
  <2>4. ASSUME NEW i \in 1..Len(d), NEW j \in 1..Len(d), d[i] = d[j], d[i] # Dead
        PROVE  i = j
    <3>1. f(i) = f(j) BY <2>2, <2>4
    <3> QED BY <3>1, <2>1, <1>1
  <2>5. \A i \in 1..Len(d) :
          d[i] # t /\ (d[i] # Dead => \E j \in 1..Len(q) : q[j] = d[i])
    BY <2>2, <1>2
  <2> QED BY <2>1, <2>3, <2>4, <2>5 DEF Without, d
<1>4. Without(T, q, t, TakeSlot(q, t))
  <2> DEFINE d == TakeSlot(q, t)
  <2>1. d \in Queue(T) BY TakeSlotProperties
  <2>2. CASE q # <<>> /\ Head(q) = t
    <3>1. Len(d) = Len(q) - 1 /\ \A i \in 1..(Len(q) - 1) : d[i] = q[i + 1]
      BY <2>2, TakeSlotProperties
    <3>2. p = 1 BY <2>2, <1>1, <1>2 DEF Queue
    <3> HIDE DEF d
    <3>3. ASSUME NEW i \in 1..Len(d)
          PROVE  i + 1 \in 1..Len(q) /\ i + 1 # p /\ d[i] = q[i + 1]
      BY <3>1, <3>2, <1>1
    <3>4. ASSUME NEW j \in 1..Len(q), q[j] \notin {t, Dead}
          PROVE  \E i \in 1..Len(d) : d[i] = q[j]
      <4>1. j # 1 BY <3>2, <3>4
      <4>2. j - 1 \in 1..Len(d) /\ j - 1 + 1 = j BY <4>1, <3>1, <1>1
      <4> QED BY <4>2, <3>1
    <3>5. ASSUME NEW i \in 1..Len(d), NEW j \in 1..Len(d), d[i] = d[j], d[i] # Dead
          PROVE  i = j
      <4>1. i + 1 = j + 1 BY <3>3, <3>5
      <4> QED BY <4>1
    <3>6. \A i \in 1..Len(d) :
            d[i] # t /\ (d[i] # Dead => \E j \in 1..Len(q) : q[j] = d[i])
      BY <3>3, <1>2
    <3> QED BY <2>1, <3>4, <3>5, <3>6 DEF Without, d
  <2>3. CASE ~(q # <<>> /\ Head(q) = t)
    <3>1. Len(d) = Len(q) /\ \A i \in 1..Len(q) : d[i] = IF q[i] = t THEN Dead ELSE q[i]
      BY <2>3, TakeSlotProperties
    <3> HIDE DEF d
    <3> QED BY <2>1, <3>1, <1>1 DEF Without, d
  <2> QED BY <2>2, <2>3
<1> QED BY <1>3, <1>4
=============================================================================
