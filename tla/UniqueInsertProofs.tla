------------------------- MODULE UniqueInsertProofs -------------------------
(***************************************************************************)
(* Proofs about unique inserts and the lock table they go through, for any *)
(* number of sessions, keys and guards.  The lock table: the depth of a    *)
(* key counts the guards of its owner, so a key is free exactly when its   *)
(* last guard has been dropped, and a free key is never left to a queue    *)
(* nobody wakes.  The inserts: the composition uses the lock table as      *)
(* UniqueKeyLock describes it, a probe that sees every commit whose guard  *)
(* is gone keeps the keys unique in every snapshot, and sessions that wait *)
(* with no key in their hands never all wait.                              *)
(***************************************************************************)
EXTENDS UniqueInsert, FifoWaitersProofs, FiniteSetTheorems

-----------------------------------------------------------------------------
(* The lock table.                                                         *)

\* The type of the state, without the bound on the guards.
Types ==
  /\ owner \in [Keys -> Txns \cup {NoTx}]
  /\ depth \in [Keys -> Nat]
  /\ waiters \in [Keys -> Queue(Txns)]
  /\ notified \subseteq {t \in Txns : phase[t] = "parked"}
  /\ phase \in [Txns -> {"running", "parked", "releasing", "closed"}]
  /\ want \in [Txns -> Keys \cup {NoKey}]
  /\ guards \in [Txns -> Seq(Keys)]

\* The queue of a key names each thread parked on the key once, and no other.
Queues ==
  /\ \A t \in Txns : phase[t] = "parked" =>
       /\ want[t] \in Keys
       /\ \E i \in 1..Len(waiters[want[t]]) : waiters[want[t]][i] = t
  /\ \A k \in Keys : \A i \in 1..Len(waiters[k]) :
       waiters[k][i] # Dead =>
         phase[waiters[k][i]] = "parked" /\ want[waiters[k][i]] = k
  /\ \A k \in Keys : \A i, j \in 1..Len(waiters[k]) :
       waiters[k][i] = waiters[k][j] /\ waiters[k][i] # Dead => i = j

\* A parked transaction has room for the guard it waits for, and no key is
\* held deeper than its owner has guards.
Room ==
  /\ \A t \in Txns : Len(guards[t]) <= MaxGuards
  /\ \A t \in Txns : phase[t] = "parked" => Len(guards[t]) < MaxGuards
  /\ \A k \in Keys : owner[k] = NoTx => depth[k] = 0

\* The inductive invariant of the lock table.
IInv == Types /\ Queues /\ Room /\ DepthCountsGuards

-----------------------------------------------------------------------------
(* Counting the guards of a transaction on a key.                          *)

Places(s, k) == {i \in 1..Len(s) : s[i] = k}

\* The places of a key in a list of guards are finite in number, and no more
\* than the guards.
LEMMA PlacesBounded ==
  ASSUME NEW s \in Seq(Keys), NEW k
  PROVE  /\ IsFiniteSet(Places(s, k)) /\ Cardinality(Places(s, k)) \in Nat
         /\ Cardinality(Places(s, k)) <= Len(s)
<1>1. Len(s) \in Nat OBVIOUS
<1>2. IsFiniteSet(1..Len(s)) /\ Cardinality(1..Len(s)) = Len(s)
  BY SMTT(30), <1>1, FS_Interval
<1>3. Places(s, k) \in SUBSET (1..Len(s)) BY Zenon DEF Places
<1>4. /\ IsFiniteSet(Places(s, k))
      /\ Cardinality(Places(s, k)) <= Cardinality(1..Len(s))
  BY Zenon, <1>2, <1>3, FS_Subset
<1>5. Cardinality(Places(s, k)) \in Nat BY Zenon, <1>4, FS_CardinalityType
<1> QED BY Zenon, <1>2, <1>4, <1>5

\* A new guard adds one to the count of its key.
LEMMA PlacesAppend ==
  ASSUME NEW s \in Seq(Keys), NEW g \in Keys, NEW k \in Keys
  PROVE  Cardinality(Places(Append(s, g), k))
           = Cardinality(Places(s, k)) + IF g = k THEN 1 ELSE 0
<1>1. Len(s) \in Nat OBVIOUS
<1>2. /\ Len(Append(s, g)) = Len(s) + 1
      /\ \A i \in 1..Len(s) : Append(s, g)[i] = s[i]
      /\ Append(s, g)[Len(s) + 1] = g
  BY AppendFacts
<1>3. Places(Append(s, g), k) = Places(s, k) \cup IF g = k THEN {Len(s) + 1} ELSE {}
  BY <1>1, <1>2 DEF Places
<1>4. Len(s) + 1 \notin Places(s, k) BY <1>1 DEF Places
<1>5. IsFiniteSet(Places(s, k)) /\ Cardinality(Places(s, k)) \in Nat BY Zenon, PlacesBounded
<1>6. CASE g = k
  <2>1. Places(Append(s, g), k) = Places(s, k) \cup {Len(s) + 1} BY Zenon, <1>3, <1>6
  <2> QED BY Zenon, <2>1, <1>4, <1>5, <1>6, FS_AddElement
<1>7. CASE g # k
  <2>1. Places(Append(s, g), k) = Places(s, k) BY Zenon, <1>3, <1>7
  <2> QED BY <2>1, <1>5, <1>7
<1> QED BY Zenon, <1>6, <1>7

\* Dropping the first guard takes one from the count of its key.
LEMMA PlacesTail ==
  ASSUME NEW s \in Seq(Keys), s # <<>>, NEW k \in Keys
  PROVE  Cardinality(Places(Tail(s), k))
           = Cardinality(Places(s, k)) - IF Head(s) = k THEN 1 ELSE 0
<1>1. Len(s) \in Nat /\ 1 \in 1..Len(s) /\ Head(s) = s[1] OBVIOUS
<1>2. /\ Tail(s) \in Seq(Keys) /\ Len(Tail(s)) = Len(s) - 1
      /\ \A i \in 1..Len(Tail(s)) : Tail(s)[i] = s[i + 1]
  BY Zenon, HeadTailFacts
<1> DEFINE P == Places(Tail(s), k)
           Q == Places(s, k) \ {1}
           f == [i \in P |-> i + 1]
<1>3. ASSUME NEW i \in P PROVE i \in Nat /\ i + 1 \in Q
  BY <1>1, <1>2 DEF Places
<1>4. f \in [P -> Q] BY Zenon, <1>3
<1>5. \A a, b \in P : f[a] = f[b] => a = b BY <1>3
<1>6. \A j \in Q : \E i \in P : f[i] = j
  <2> SUFFICES ASSUME NEW j \in Q PROVE \E i \in P : f[i] = j OBVIOUS
  <2>1. j \in 2..Len(s) /\ s[j] = k BY <1>1 DEF Places
  <2>2. j - 1 \in 1..Len(Tail(s)) /\ (j - 1) + 1 = j BY <2>1, <1>1, <1>2
  <2>3. j - 1 \in P BY Zenon, <2>1, <2>2, <1>2 DEF Places
  <2> QED BY Zenon, <2>2, <2>3
<1>7. f \in Bijection(P, Q) BY Zenon, <1>4, <1>5, <1>6 DEF Bijection, Injection, Surjection, IsInjective
<1>8. IsFiniteSet(P) /\ IsFiniteSet(Places(s, k)) /\ Cardinality(Places(s, k)) \in Nat
  BY Zenon, <1>2, PlacesBounded
<1>9. Cardinality(Q) = Cardinality(P)
  <2>1. ExistsBijection(P, Q) BY Zenon, <1>7 DEF ExistsBijection
  <2> HIDE DEF P, Q
  <2> QED BY Zenon, <1>8, <2>1, FS_Bijection
<1>10. Cardinality(Q) = IF 1 \in Places(s, k) THEN Cardinality(Places(s, k)) - 1
                        ELSE Cardinality(Places(s, k))
  BY Zenon, <1>8, FS_RemoveElement
<1>11. 1 \in Places(s, k) <=> Head(s) = k BY Zenon, <1>1 DEF Places
<1> QED BY <1>8, <1>9, <1>10, <1>11

\* The count of the specification is the number of places.
LEMMA GuardCountIsPlaces ==
  ASSUME Types, NEW t \in Txns, NEW k
  PROVE  GuardCount(t, k) = Cardinality(Places(guards[t], k))
<1>1. DOMAIN guards[t] = 1..Len(guards[t]) BY DEF Types
<1> QED BY Zenon, <1>1 DEF GuardCount, Places

\* A new guard on a key, whose depth grows by one.
LEMMA PushGuard ==
  ASSUME Types, Room, DepthCountsGuards, NEW t \in Txns, NEW k \in Keys,
         owner[k] \in {NoTx, t}, Len(guards[t]) < MaxGuards,
         owner' = [owner EXCEPT ![k] = t],
         depth' = [depth EXCEPT ![k] = IF owner[k] = t THEN depth[k] + 1 ELSE 1],
         guards' = [guards EXCEPT ![t] = Append(@, k)],
         phase' \in {phase, [phase EXCEPT ![t] = "running"]}
  PROVE  /\ owner' \in [Keys -> Txns \cup {NoTx}]
         /\ depth' \in [Keys -> Nat]
         /\ guards' \in [Txns -> Seq(Keys)]
         /\ phase[t] # "parked" \/ phase' # phase => Room'
         /\ \A u \in Txns, j \in Keys :
              Cardinality(Places(guards'[u], j)) = IF owner'[j] = u THEN depth'[j] ELSE 0
<1> USE UniqueKeyAssumption
<1> DEFINE g == guards[t]
<1>1. g \in Seq(Keys) /\ Len(g) \in Nat BY DEF Types
<1>2. Append(g, k) \in Seq(Keys) /\ Len(Append(g, k)) = Len(g) + 1
  BY <1>1, AppendFacts
<1>3. /\ guards'[t] = Append(g, k) /\ \A u \in Txns \ {t} : guards'[u] = guards[u]
      /\ owner'[k] = t /\ \A j \in Keys \ {k} : owner'[j] = owner[j] /\ depth'[j] = depth[j]
      /\ depth'[k] = IF owner[k] = t THEN depth[k] + 1 ELSE 1
  BY Zenon DEF Types
<1>4. /\ owner' \in [Keys -> Txns \cup {NoTx}]
      /\ depth' \in [Keys -> Nat]
      /\ guards' \in [Txns -> Seq(Keys)]
  BY <1>2 DEF Types
<1>5. ASSUME phase[t] # "parked" \/ phase' # phase
      PROVE  Room'
  <2>1. \A u \in Txns : Len(guards'[u]) <= MaxGuards BY <1>1, <1>2, <1>3 DEF Room
  <2>2. phase'[t] # "parked" /\ \A u \in Txns \ {t} : phase'[u] = phase[u]
    BY Zenon, <1>5 DEF Types
  <2>3. \A u \in Txns : phase'[u] = "parked" => Len(guards'[u]) < MaxGuards
    BY Zenon, <2>2, <1>3 DEF Room
  <2>4. \A j \in Keys : owner'[j] = NoTx => depth'[j] = 0 BY <1>3 DEF Room
  <2> QED BY Zenon, <2>1, <2>3, <2>4 DEF Room
<1>6. ASSUME NEW u \in Txns, NEW j \in Keys
      PROVE  Cardinality(Places(guards'[u], j)) = IF owner'[j] = u THEN depth'[j] ELSE 0
  <2>1. Cardinality(Places(guards[u], j)) = IF owner[j] = u THEN depth[j] ELSE 0
    BY Zenon, GuardCountIsPlaces DEF DepthCountsGuards
  <2>2. CASE u = t
    <3>1. Cardinality(Places(guards'[u], j))
            = Cardinality(Places(g, j)) + IF k = j THEN 1 ELSE 0
      BY <2>2, <1>1, <1>3, PlacesAppend
    <3>2. CASE j = k
      <4>1. Cardinality(Places(guards'[u], j)) = (IF owner[k] = t THEN depth[k] ELSE 0) + 1
        BY Zenon, <2>1, <2>2, <3>1, <3>2
      <4> QED BY <4>1, <2>2, <3>2, <1>3 DEF Types
    <3>3. CASE j # k
      <4>1. (IF owner[j] = u THEN depth[j] ELSE 0) \in Nat BY Zenon DEF Types
      <4> QED BY <2>1, <2>2, <3>1, <3>3, <4>1, <1>3
    <3> QED BY Zenon, <3>2, <3>3
  <2>3. CASE u # t
    <3>1. guards'[u] = guards[u] BY Zenon, <2>3, <1>3
    <3>2. CASE j = k
      <4>1. owner[j] # u /\ owner'[j] # u BY Zenon, <2>3, <3>2, <1>3
      <4> QED BY Zenon, <2>1, <3>1, <4>1
    <3>3. CASE j # k BY Zenon, <2>1, <3>1, <3>3, <1>3
    <3> QED BY Zenon, <3>2, <3>3
  <2> QED BY Zenon, <2>2, <2>3
<1> QED BY Zenon, <1>4, <1>5, <1>6

\* Dropping a guard, whose key its transaction owns.
LEMMA PopGuard ==
  ASSUME Types, Room, DepthCountsGuards, NEW t \in Txns, guards[t] # <<>>,
         phase[t] # "parked", phase' = phase,
         NEW k, k = Head(guards[t]), NEW last, last = (owner[k] = t /\ depth[k] = 1),
         owner' = [owner EXCEPT ![k] = IF last THEN NoTx ELSE @],
         depth' = [depth EXCEPT ![k] = IF owner[k] = t THEN @ - 1 ELSE @],
         guards' = [guards EXCEPT ![t] = Tail(@)]
  PROVE  /\ k \in Keys
         /\ owner' \in [Keys -> Txns \cup {NoTx}]
         /\ depth' \in [Keys -> Nat]
         /\ guards' \in [Txns -> Seq(Keys)]
         /\ Room'
         /\ \A u \in Txns, j \in Keys :
              Cardinality(Places(guards'[u], j)) = IF owner'[j] = u THEN depth'[j] ELSE 0
<1> USE UniqueKeyAssumption
<1> DEFINE g == guards[t]
<1>1. g \in Seq(Keys) /\ Len(g) \in Nat BY DEF Types
<1>2. k \in Keys /\ Tail(g) \in Seq(Keys) /\ Len(Tail(g)) = Len(g) - 1
  BY Zenon, <1>1, HeadTailFacts
<1>3. owner[k] = t /\ depth[k] \in Nat /\ depth[k] >= 1
  <2>1. Cardinality(Places(Tail(g), k)) = Cardinality(Places(g, k)) - 1
    BY Zenon, <1>1, <1>2, PlacesTail
  <2>2. Cardinality(Places(Tail(g), k)) \in Nat /\ Cardinality(Places(g, k)) \in Nat
    BY Zenon, <1>1, <1>2, PlacesBounded
  <2>3. Cardinality(Places(g, k)) = IF owner[k] = t THEN depth[k] ELSE 0
    BY Zenon, <1>2, GuardCountIsPlaces DEF DepthCountsGuards
  <2> QED BY <2>1, <2>2, <2>3
<1>4. /\ guards'[t] = Tail(g) /\ \A u \in Txns \ {t} : guards'[u] = guards[u]
      /\ owner'[k] = IF depth[k] = 1 THEN NoTx ELSE t
      /\ depth'[k] = depth[k] - 1
      /\ \A j \in Keys \ {k} : owner'[j] = owner[j] /\ depth'[j] = depth[j]
  BY Zenon, <1>2, <1>3 DEF Types
<1>5. /\ owner' \in [Keys -> Txns \cup {NoTx}]
      /\ depth' \in [Keys -> Nat]
      /\ guards' \in [Txns -> Seq(Keys)]
  BY <1>2, <1>3 DEF Types
<1>6. Room'
  <2>1. \A u \in Txns : Len(guards'[u]) <= MaxGuards BY <1>1, <1>2, <1>4 DEF Room
  <2>2. \A u \in Txns : phase'[u] = "parked" => Len(guards'[u]) < MaxGuards
    BY Zenon, <1>4 DEF Room
  <2>3. \A j \in Keys : owner'[j] = NoTx => depth'[j] = 0 BY <1>3, <1>4 DEF Room
  <2> QED BY Zenon, <2>1, <2>2, <2>3 DEF Room
<1>7. ASSUME NEW u \in Txns, NEW j \in Keys
      PROVE  Cardinality(Places(guards'[u], j)) = IF owner'[j] = u THEN depth'[j] ELSE 0
  <2>1. Cardinality(Places(guards[u], j)) = IF owner[j] = u THEN depth[j] ELSE 0
    BY Zenon, GuardCountIsPlaces DEF DepthCountsGuards
  <2>2. CASE u = t
    <3>1. Cardinality(Places(guards'[u], j))
            = Cardinality(Places(g, j)) - IF k = j THEN 1 ELSE 0
      BY <2>2, <1>1, <1>4, PlacesTail
    <3>2. CASE j = k BY <2>1, <2>2, <3>1, <3>2, <1>3, <1>4
    <3>3. CASE j # k
      <4>1. (IF owner[j] = u THEN depth[j] ELSE 0) \in Nat BY Zenon DEF Types
      <4> QED BY <2>1, <2>2, <3>1, <3>3, <4>1, <1>4
    <3> QED BY Zenon, <3>2, <3>3
  <2>3. CASE u # t
    <3>1. guards'[u] = guards[u] BY Zenon, <2>3, <1>4
    <3>2. CASE j = k
      <4>1. owner[j] # u /\ owner'[j] # u BY <2>3, <3>2, <1>3, <1>4
      <4> QED BY Zenon, <2>1, <3>1, <4>1
    <3>3. CASE j # k BY Zenon, <2>1, <3>1, <3>3, <1>4
    <3> QED BY Zenon, <3>2, <3>3
  <2> QED BY Zenon, <2>2, <2>3
<1> QED BY Zenon, <1>2, <1>5, <1>6, <1>7

\* The counts of the next state, as the specification states them.
LEMMA CountsCarryOver ==
  ASSUME Types', \A u \in Txns, j \in Keys :
           Cardinality(Places(guards'[u], j)) = IF owner'[j] = u THEN depth'[j] ELSE 0
  PROVE  DepthCountsGuards'
<1>1. ASSUME NEW u \in Txns, NEW j \in Keys
      PROVE  GuardCount(u, j)' = Cardinality(Places(guards'[u], j))
  <2>1. DOMAIN guards'[u] = 1..Len(guards'[u]) BY DEF Types
  <2> QED BY Zenon, <2>1 DEF GuardCount, Places
<1> QED BY <1>1 DEF DepthCountsGuards

-----------------------------------------------------------------------------
\* The empty lock table satisfies the invariant.
LEMMA InitIInv == Init => IInv
<1> SUFFICES ASSUME Init PROVE IInv OBVIOUS
<1> USE UniqueKeyAssumption DEF Init
<1>1. <<>> \in Queue(Txns) /\ <<>> \in Seq(Keys) /\ Len(<<>>) = 0 BY DEF Queue
<1>2. Types BY Zenon, <1>1 DEF Types
<1>3. Queues BY <1>1 DEF Queues
<1>4. Room BY <1>1 DEF Room
<1>5. DepthCountsGuards
  <2> SUFFICES ASSUME NEW t \in Txns, NEW k \in Keys PROVE GuardCount(t, k) = 0
    BY Zenon DEF DepthCountsGuards
  <2>1. {i \in DOMAIN guards[t] : guards[t][i] = k} = {} OBVIOUS
  <2> QED BY Zenon, <2>1, FS_EmptySet DEF GuardCount
<1> QED BY Zenon, <1>2, <1>3, <1>4, <1>5 DEF IInv

\* A thread that stops waiting, with the lock or without it, leaves the other
\* waiters of every key as they were.
LEMMA LeaveQueue ==
  ASSUME Types, Queues, NEW t \in Txns, phase[t] = "parked", NEW q2,
         Without(Txns, waiters[want[t]], t, q2),
         waiters' = [waiters EXCEPT ![want[t]] = q2],
         phase' = [phase EXCEPT ![t] = "running"],
         want' = [want EXCEPT ![t] = NoKey]
  PROVE  /\ Queues'
         /\ waiters' \in [Keys -> Queue(Txns)]
         /\ phase' \in [Txns -> {"running", "parked", "releasing", "closed"}]
         /\ want' \in [Txns -> Keys \cup {NoKey}]
<1> USE UniqueKeyAssumption
<1> DEFINE r == want[t]
           q == waiters[r]
<1>1. r \in Keys BY Zenon DEF Queues
<1>2. q2 \in Queue(Txns) /\ t # Dead BY Zenon DEF Without
<1>3. /\ waiters'[r] = q2 /\ \A s \in Keys \ {r} : waiters'[s] = waiters[s]
      /\ phase'[t] = "running"
      /\ \A u \in Txns \ {t} : phase'[u] = phase[u] /\ want'[u] = want[u]
  BY Zenon, <1>1 DEF Types
<1>4. /\ waiters' \in [Keys -> Queue(Txns)]
      /\ phase' \in [Txns -> {"running", "parked", "releasing", "closed"}]
      /\ want' \in [Txns -> Keys \cup {NoKey}]
  BY Zenon, <1>1, <1>2 DEF Types
<1>5. ASSUME NEW u \in Txns, phase'[u] = "parked"
      PROVE  /\ want'[u] \in Keys
             /\ \E i \in 1..Len(waiters'[want'[u]]) : waiters'[want'[u]][i] = u
  <2>1. u # t BY Zenon, <1>5, <1>3
  <2>2. phase[u] = "parked" /\ want'[u] = want[u] /\ want[u] \in Keys
    BY Zenon, <1>5, <2>1, <1>3 DEF Queues
  <2> PICK j \in 1..Len(waiters[want[u]]) : waiters[want[u]][j] = u BY Zenon, <2>2 DEF Queues
  <2>3. CASE want[u] = r
    <3>1. \E i \in 1..Len(q2) : q2[i] = u BY <2>1, <2>3 DEF Without
    <3> QED BY <3>1, <2>2, <2>3, <1>1, <1>3
  <2>4. CASE want[u] # r BY <2>2, <2>4, <1>3
  <2> QED BY Zenon, <2>3, <2>4
<1>6. ASSUME NEW s \in Keys, NEW i \in 1..Len(waiters'[s]), waiters'[s][i] # Dead
      PROVE  phase'[waiters'[s][i]] = "parked" /\ want'[waiters'[s][i]] = s
  <2> DEFINE u == waiters'[s][i]
  <2>1. /\ u # t /\ \E j \in 1..Len(waiters[s]) : waiters[s][j] = u
    <3>1. CASE s = r BY <3>1, <1>3, <1>6 DEF Without
    <3>2. CASE s # r
      <4>1. waiters'[s] = waiters[s] BY Zenon, <3>2, <1>3
      <4>2. u # t BY <3>2, <4>1, <1>2, <1>6 DEF Queues
      <4> QED BY Zenon, <4>1, <4>2
    <3> QED BY Zenon, <3>1, <3>2
  <2> HIDE DEF u
  <2>2. phase[u] = "parked" /\ want[u] = s BY <2>1, <1>6 DEF Queues, u
  <2>3. u \in Txns BY <2>1, <1>6 DEF Types, Queue, u
  <2> QED BY Zenon, <2>1, <2>2, <2>3, <1>3 DEF u
<1>7. ASSUME NEW s \in Keys, NEW i \in 1..Len(waiters'[s]), NEW j \in 1..Len(waiters'[s]),
             waiters'[s][i] = waiters'[s][j], waiters'[s][i] # Dead
      PROVE  i = j
  <2>1. CASE s = r BY <2>1, <1>3, <1>7 DEF Without
  <2>2. CASE s # r BY <2>2, <1>3, <1>7 DEF Queues
  <2> QED BY Zenon, <2>1, <2>2
<1> QED BY <1>4, <1>5, <1>6, <1>7 DEF Queues

\* lock() on a key that is free or already the transaction's.
LEMMA LockIInv ==
  ASSUME IInv, NEW t \in Txns, NEW k \in Keys, LockFree(t, k) \/ LockAgain(t, k)
  PROVE  IInv'
<1> USE UniqueKeyAssumption
<1>0. Types /\ Queues /\ Room /\ DepthCountsGuards BY Zenon DEF IInv
<1> USE <1>0
<1>1. /\ phase[t] = "running" /\ Len(guards[t]) < MaxGuards
      /\ owner[k] \in {NoTx, t}
      /\ owner' = [owner EXCEPT ![k] = t]
      /\ depth' = [depth EXCEPT ![k] = IF owner[k] = t THEN depth[k] + 1 ELSE 1]
      /\ guards' = [guards EXCEPT ![t] = Append(@, k)]
      /\ UNCHANGED <<waiters, notified, phase, want>>
  <2>1. CASE LockFree(t, k) BY Zenon, <2>1 DEF LockFree, MayLock, Types
  <2>2. CASE LockAgain(t, k) BY Zenon, <2>2 DEF LockAgain, MayLock, Types
  <2> QED BY Zenon, <2>1, <2>2
<1>2. /\ owner' \in [Keys -> Txns \cup {NoTx}]
      /\ depth' \in [Keys -> Nat]
      /\ guards' \in [Txns -> Seq(Keys)]
      /\ Room'
      /\ \A u \in Txns, j \in Keys :
           Cardinality(Places(guards'[u], j)) = IF owner'[j] = u THEN depth'[j] ELSE 0
  <2>1. phase[t] # "parked" BY Zenon, <1>1
  <2> QED BY Zenon, <2>1, <1>1, PushGuard
<1>3. Types' BY Zenon, <1>1, <1>2 DEF Types
<1>4. Queues' BY <1>1 DEF Queues
<1>5. DepthCountsGuards' BY Zenon, <1>2, <1>3, CountsCarryOver
<1> QED BY Zenon, <1>2, <1>3, <1>4, <1>5 DEF IInv

\* lock() on a key of another transaction.
LEMMA EnqueueIInv ==
  ASSUME IInv, NEW t \in Txns, NEW r \in Keys, Enqueue(t, r)
  PROVE  IInv'
<1> USE UniqueKeyAssumption DEF Enqueue, MayLock
<1>0. Types /\ Queues /\ Room /\ DepthCountsGuards BY Zenon DEF IInv
<1> USE <1>0
<1> DEFINE q == waiters[r]
<1>1. q \in Queue(Txns) /\ Len(q) \in Nat /\ t \in Txns \cup {Dead} /\ t # Dead
  BY DEF Types, Queue
<1>2. /\ Append(q, t) \in Queue(Txns) /\ Append(q, t) # <<>> /\ Len(Append(q, t)) = Len(q) + 1
      /\ \A i \in 1..Len(q) : Append(q, t)[i] = q[i]
      /\ Append(q, t)[Len(q) + 1] = t
  BY <1>1, AppendFacts DEF Queue
<1>3. /\ waiters'[r] = Append(q, t)
      /\ \A s \in Keys \ {r} : waiters'[s] = waiters[s]
      /\ phase'[t] = "parked" /\ want'[t] = r /\ phase[t] = "running"
      /\ \A u \in Txns \ {t} : phase'[u] = phase[u] /\ want'[u] = want[u]
  BY Zenon DEF Types
<1>4. Types'
  <2>1. waiters' \in [Keys -> Queue(Txns)] BY Zenon, <1>2 DEF Types
  <2>2. phase' \in [Txns -> {"running", "parked", "releasing", "closed"}] BY Zenon DEF Types
  <2>3. want' \in [Txns -> Keys \cup {NoKey}] BY Zenon DEF Types
  <2>4. notified \subseteq {u \in Txns : phase'[u] = "parked"} BY Zenon, <1>3 DEF Types
  <2> QED BY Zenon, <2>1, <2>2, <2>3, <2>4 DEF Types
<1>5. \A i \in 1..Len(q) : q[i] # t
  BY <1>1, <1>3 DEF Queues
<1>6. Queues'
  <2>1. ASSUME NEW u \in Txns, phase'[u] = "parked"
        PROVE  /\ want'[u] \in Keys
               /\ \E i \in 1..Len(waiters'[want'[u]]) : waiters'[want'[u]][i] = u
    <3>1. CASE u = t BY <3>1, <1>1, <1>2, <1>3
    <3>2. CASE u # t
      <4>1. phase[u] = "parked" /\ want'[u] = want[u] BY Zenon, <2>1, <3>2, <1>3
      <4> PICK i \in 1..Len(waiters[want[u]]) : waiters[want[u]][i] = u BY Zenon, <4>1 DEF Queues
      <4>2. want[u] \in Keys BY Zenon, <4>1 DEF Queues
      <4>3. CASE want[u] = r BY <4>1, <4>3, <1>1, <1>2, <1>3
      <4>4. CASE want[u] # r BY <4>1, <4>2, <4>4, <1>3
      <4> QED BY Zenon, <4>2, <4>3, <4>4, <4>1
    <3> QED BY Zenon, <3>1, <3>2
  <2>2. ASSUME NEW s \in Keys, NEW i \in 1..Len(waiters'[s]), waiters'[s][i] # Dead
        PROVE  phase'[waiters'[s][i]] = "parked" /\ want'[waiters'[s][i]] = s
    <3>1. CASE s = r /\ i = Len(q) + 1 BY <3>1, <1>2, <1>3
    <3>2. CASE ~(s = r /\ i = Len(q) + 1)
      <4>1. i \in 1..Len(waiters[s]) /\ waiters'[s][i] = waiters[s][i]
        BY <3>2, <1>1, <1>2, <1>3
      <4>2. waiters[s][i] \in Txns BY <4>1, <2>2 DEF Types, Queue
      <4>3. phase[waiters[s][i]] = "parked" /\ want[waiters[s][i]] = s
        BY Zenon, <4>1, <2>2 DEF Queues
      <4> QED BY Zenon, <4>1, <4>2, <4>3, <1>3
    <3> QED BY Zenon, <3>1, <3>2
  <2>3. ASSUME NEW s \in Keys, NEW i \in 1..Len(waiters'[s]), NEW j \in 1..Len(waiters'[s]),
               waiters'[s][i] = waiters'[s][j], waiters'[s][i] # Dead
        PROVE  i = j
    <3>1. CASE s # r BY <2>3, <3>1, <1>3 DEF Queues
    <3>2. CASE s = r
      <4>1. i \in 1..(Len(q) + 1) /\ j \in 1..(Len(q) + 1) BY Zenon, <3>2, <1>2, <1>3
      <4>2. CASE i = Len(q) + 1 \/ j = Len(q) + 1
        BY <2>3, <3>2, <4>1, <4>2, <1>1, <1>2, <1>3, <1>5
      <4>3. CASE i \in 1..Len(q) /\ j \in 1..Len(q)
        BY <2>3, <3>2, <4>3, <1>2, <1>3 DEF Queues
      <4>4. Len(q) \in Nat BY Zenon, <1>1
      <4> HIDE <1>0, UniqueKeyAssumption DEF q, Enqueue, MayLock
      <4> QED BY <4>1, <4>2, <4>3, <4>4
    <3> QED BY Zenon, <3>1, <3>2
  <2> QED BY SMTT(30), <2>1, <2>2, <2>3 DEF Queues
<1>7. Room' BY Zenon, <1>3 DEF Room
<1>8. DepthCountsGuards' BY DEF DepthCountsGuards, GuardCount
<1> QED BY Zenon, <1>4, <1>6, <1>7, <1>8 DEF IInv

\* A woken waiter takes the free key.
LEMMA WakeTakeIInv ==
  ASSUME IInv, NEW t \in Txns, WakeTake(t)
  PROVE  IInv'
<1> USE UniqueKeyAssumption
<1>0. Types /\ Queues /\ Room /\ DepthCountsGuards BY Zenon DEF IInv
<1> USE <1>0
<1> DEFINE k == want[t]
           q == waiters[k]
<1>1. /\ phase[t] = "parked" /\ owner[k] = NoTx
      /\ waiters' = [waiters EXCEPT ![k] = TakeSlot(q, t)]
      /\ owner' = [owner EXCEPT ![k] = t]
      /\ depth' = [depth EXCEPT ![k] = 1]
      /\ guards' = [guards EXCEPT ![t] = Append(@, k)]
      /\ notified' = notified \ {t}
      /\ phase' = [phase EXCEPT ![t] = "running"]
      /\ want' = [want EXCEPT ![t] = NoKey]
  BY Zenon DEF WakeTake, Woken
<1>2. k \in Keys /\ q \in Queue(Txns) BY Zenon, <1>1 DEF Queues, Types
<1>3. PICK p \in 1..Len(q) : q[p] = t BY Zenon, <1>1 DEF Queues
<1>4. \A i, j \in 1..Len(q) : q[i] = q[j] /\ q[i] # Dead => i = j BY SMTT(30), <1>2 DEF Queues
<1>5. Without(Txns, q, t, TakeSlot(q, t))
  <2>1. Dead \notin Txns OBVIOUS
  <2> HIDE <1>0, UniqueKeyAssumption DEF q
  <2> QED BY Zenon, <1>2, <1>3, <1>4, <2>1, LeavingKeepsOthers
<1>6. /\ Queues'
      /\ waiters' \in [Keys -> Queue(Txns)]
      /\ phase' \in [Txns -> {"running", "parked", "releasing", "closed"}]
      /\ want' \in [Txns -> Keys \cup {NoKey}]
  BY Zenon, <1>1, <1>5, LeaveQueue
<1>7. /\ owner' \in [Keys -> Txns \cup {NoTx}]
      /\ depth' \in [Keys -> Nat]
      /\ guards' \in [Txns -> Seq(Keys)]
      /\ Room'
      /\ \A u \in Txns, j \in Keys :
           Cardinality(Places(guards'[u], j)) = IF owner'[j] = u THEN depth'[j] ELSE 0
  <2>1. depth' = [depth EXCEPT ![k] = IF owner[k] = t THEN depth[k] + 1 ELSE 1]
    BY Zenon, <1>1
  <2>2. phase' # phase BY Zenon, <1>1 DEF Types
  <2>3. Len(guards[t]) < MaxGuards BY Zenon, <1>1 DEF Room
  <2> QED BY Zenon, <2>1, <2>2, <2>3, <1>1, <1>2, PushGuard
<1>8. notified' \subseteq {u \in Txns : phase'[u] = "parked"} BY Zenon, <1>1 DEF Types
<1>9. Types' BY Zenon, <1>6, <1>7, <1>8 DEF Types
<1>10. DepthCountsGuards' BY Zenon, <1>7, <1>9, CountsCarryOver
<1> QED BY Zenon, <1>6, <1>7, <1>9, <1>10 DEF IInv

\* UniqueKeyGuard::drop.
LEMMA DropGuardIInv ==
  ASSUME IInv, NEW t \in Txns, DropGuard(t)
  PROVE  IInv'
<1> USE UniqueKeyAssumption
<1>0. Types /\ Queues /\ Room /\ DepthCountsGuards BY Zenon DEF IInv
<1> USE <1>0
<1> DEFINE k == Head(guards[t])
           last == owner[k] = t /\ depth[k] = 1
<1>1. /\ phase[t] = "releasing" /\ guards[t] # <<>>
      /\ owner' = [owner EXCEPT ![k] = IF last THEN NoTx ELSE @]
      /\ depth' = [depth EXCEPT ![k] = IF owner[k] = t THEN @ - 1 ELSE @]
      /\ notified' = notified \cup IF last THEN NotifyFront(waiters[k]) ELSE {}
      /\ guards' = [guards EXCEPT ![t] = Tail(@)]
      /\ UNCHANGED <<waiters, phase, want>>
  BY Zenon DEF DropGuard
<1>2. /\ k \in Keys
      /\ owner' \in [Keys -> Txns \cup {NoTx}]
      /\ depth' \in [Keys -> Nat]
      /\ guards' \in [Txns -> Seq(Keys)]
      /\ Room'
      /\ \A u \in Txns, j \in Keys :
           Cardinality(Places(guards'[u], j)) = IF owner'[j] = u THEN depth'[j] ELSE 0
  <2>1. phase[t] # "parked" /\ phase' = phase BY Zenon, <1>1
  <2> QED BY ZenonT(30), <2>1, <1>1, PopGuard
<1>3. \A u \in NotifyFront(waiters[k]) : u \in Txns /\ phase[u] = "parked"
  <2> SUFFICES ASSUME NEW u \in NotifyFront(waiters[k])
               PROVE  u \in Txns /\ phase[u] = "parked"
    OBVIOUS
  <2>1. waiters[k] \in Queue(Txns) BY Zenon, <1>2 DEF Types
  <2>2. u = waiters[k][1] /\ 1 \in 1..Len(waiters[k]) /\ u # Dead
    BY Zenon, <2>1, NotifyFrontProperties
  <2> QED BY <2>1, <2>2, <1>2 DEF Queues, Queue
<1>4. notified' \subseteq {u \in Txns : phase'[u] = "parked"} BY Zenon, <1>1, <1>3 DEF Types
<1>5. Types' BY SMTT(30), <1>1, <1>2, <1>4 DEF Types
<1>6. Queues' BY <1>1 DEF Queues
<1>7. DepthCountsGuards' BY Zenon, <1>2, <1>5, CountsCarryOver
<1> QED BY ZenonT(30), <1>2, <1>5, <1>6, <1>7 DEF IInv

\* The other steps touch neither keys nor guards.
LEMMA PhaseStepIInv ==
  ASSUME IInv, NEW t \in Txns, WakeBusy(t) \/ EndTx(t) \/ Close(t)
  PROVE  IInv'
<1> USE UniqueKeyAssumption
<1>0. Types /\ Queues /\ Room /\ DepthCountsGuards BY Zenon DEF IInv
<1> USE <1>0
<1>1. /\ notified' \subseteq notified
      /\ \/ phase' = phase
         \/ /\ phase[t] # "parked"
            /\ \E to \in {"releasing", "closed"} : phase' = [phase EXCEPT ![t] = to]
            /\ notified' = notified
      /\ UNCHANGED <<owner, depth, waiters, want, guards>>
  BY Zenon DEF WakeBusy, EndTx, Close
<1>2. /\ phase' \in [Txns -> {"running", "parked", "releasing", "closed"}]
      /\ \A u \in Txns : phase'[u] = "parked" <=> phase[u] = "parked"
  BY Zenon, <1>1 DEF Types
<1>3. Types' BY Zenon, <1>1, <1>2 DEF Types
<1>4. Queues'
  <2>1. \A k \in Keys : \A i \in 1..Len(waiters[k]) :
          waiters[k][i] # Dead => waiters[k][i] \in Txns
    BY DEF Types, Queue
  <2> QED BY <1>1, <1>2, <2>1 DEF Queues
<1>5. Room' BY Zenon, <1>1, <1>2 DEF Room
<1>6. DepthCountsGuards' BY <1>1 DEF DepthCountsGuards, GuardCount
<1> QED BY Zenon, <1>3, <1>4, <1>5, <1>6 DEF IInv

\* Every step keeps the invariant.
LEMMA NextIInv == IInv /\ [Next]_vars => IInv'
<1> SUFFICES ASSUME IInv, [Next]_vars PROVE IInv' OBVIOUS
<1>1. CASE Next
  BY Zenon, <1>1, LockIInv, EnqueueIInv, WakeTakeIInv, DropGuardIInv, PhaseStepIInv DEF Next
<1>2. CASE UNCHANGED vars
  <2> USE <1>2 DEF vars, IInv
  <2>1. Types' /\ Queues' /\ Room' BY DEF Types, Queues, Room
  <2>2. DepthCountsGuards' BY SMTT(30) DEF DepthCountsGuards, GuardCount
  <2> QED BY Zenon, <2>1, <2>2
<1> QED BY Zenon, <1>1, <1>2

\* The inductive invariant holds throughout.
THEOREM Invariance == Spec => []IInv
<1>1. Init => IInv BY Zenon, InitIInv
<1>2. IInv /\ [Next]_vars => IInv' BY Zenon, NextIInv
<1> QED BY <1>1, <1>2, PTL DEF Spec

\* The depth of a key is the number of its owner's live guards, however often
\* the key is locked again and whoever wakes: the key is free exactly when the
\* last UniqueKeyGuard has been dropped.
THEOREM DepthIsExact == Spec => []DepthCountsGuards
<1>1. IInv => DepthCountsGuards BY Zenon DEF IInv
<1> QED BY <1>1, Invariance, PTL

\* The lock table keeps its types, and no key is held deeper than a
\* transaction has guards.
THEOREM TypeCorrect == Spec => []TypeOK
<1>1. IInv => TypeOK
  <2> SUFFICES ASSUME IInv, NEW k \in Keys PROVE depth[k] \in 0..MaxGuards
    BY Zenon DEF IInv, Types, TypeOK, Queue
  <2>1. CASE owner[k] = NoTx BY <2>1, UniqueKeyAssumption DEF IInv, Room
  <2>2. CASE owner[k] # NoTx
    <3>1. owner[k] \in Txns BY Zenon, <2>2 DEF IInv, Types
    <3>2. depth[k] = Cardinality(Places(guards[owner[k]], k))
      BY Zenon, <3>1, GuardCountIsPlaces DEF IInv, DepthCountsGuards
    <3>3. /\ Cardinality(Places(guards[owner[k]], k)) \in Nat
          /\ Cardinality(Places(guards[owner[k]], k)) <= Len(guards[owner[k]])
      BY Zenon, <3>1, PlacesBounded DEF IInv, Types
    <3>4. Len(guards[owner[k]]) \in Nat /\ Len(guards[owner[k]]) <= MaxGuards
      BY <3>1 DEF IInv, Types, Room
    <3> QED BY <3>2, <3>3, <3>4, UniqueKeyAssumption
  <2> QED BY Zenon, <2>1, <2>2
<1> QED BY <1>1, Invariance, PTL

-----------------------------------------------------------------------------
(* Handing a key on, when condition variables do not wake by themselves.   *)

\* A queue holds live waiters only, a woken waiter is at the head of its queue,
\* and the head of the queue of a free key has been woken.
HandedOn ==
  /\ \A k \in Keys : \A i \in 1..Len(waiters[k]) : waiters[k][i] # Dead
  /\ \A u \in notified : waiters[want[u]][1] = u
  /\ \A k \in Keys : owner[k] = NoTx /\ waiters[k] # <<>> => waiters[k][1] \in notified

\* A closed transaction has dropped its guards.
ClosedLetGo == \A t \in Txns : phase[t] = "closed" => guards[t] = <<>>

\* The owner of a key holds it at least once.
OwnedIsHeld == \A k \in Keys : owner[k] # NoTx => depth[k] > 0

\* A queue that is not empty has a head, which is parked for the key unless it
\* is dead.
LEMMA FrontOfQueue ==
  ASSUME Types, Queues, NEW k \in Keys, waiters[k] # <<>>
  PROVE  /\ 1 \in 1..Len(waiters[k]) /\ Len(waiters[k]) \in Nat
         /\ waiters[k][1] # Dead =>
              /\ waiters[k][1] \in Txns
              /\ phase[waiters[k][1]] = "parked" /\ want[waiters[k][1]] = k
<1>1. waiters[k] \in Queue(Txns) BY Zenon DEF Types
<1>2. 1 \in 1..Len(waiters[k]) /\ Len(waiters[k]) \in Nat /\ waiters[k][1] \in Txns \cup {Dead}
  BY <1>1 DEF Queue
<1> QED BY ZenonT(30), <1>2 DEF Queues

\* lock() that takes a key leaves one free key less.
LEMMA LockHandsOn ==
  ASSUME IInv, HandedOn, NEW t \in Txns, NEW k \in Keys, LockFree(t, k) \/ LockAgain(t, k)
  PROVE  HandedOn'
<1>1. UNCHANGED <<waiters, notified, want>> /\ \A j \in Keys : owner'[j] = NoTx => owner[j] = NoTx
  BY Zenon, UniqueKeyAssumption DEF LockFree, LockAgain, IInv, Types
<1> QED BY Zenon, <1>1 DEF HandedOn

\* A waiter that parks stands at the end of the queue of a key that is taken.
LEMMA EnqueueHandsOn ==
  ASSUME IInv, HandedOn, NEW t \in Txns, NEW k \in Keys, Enqueue(t, k)
  PROVE  HandedOn'
<1> DEFINE q == waiters[k]
<1>1. q \in Queue(Txns) /\ Len(q) \in Nat /\ t \in Txns \cup {Dead} /\ t # Dead
  BY UniqueKeyAssumption DEF IInv, Types, Queue
<1>2. /\ Append(q, t) \in Queue(Txns) /\ Len(Append(q, t)) = Len(q) + 1
      /\ \A i \in 1..Len(q) : Append(q, t)[i] = q[i]
      /\ Append(q, t)[Len(q) + 1] = t
  BY <1>1, AppendFacts DEF Queue
<1>3. /\ waiters'[k] = Append(q, t) /\ \A j \in Keys \ {k} : waiters'[j] = waiters[j]
      /\ notified' = notified /\ owner' = owner /\ owner[k] # NoTx
      /\ phase[t] = "running" /\ \A u \in Txns \ {t} : want'[u] = want[u]
  BY Zenon DEF Enqueue, MayLock, IInv, Types
<1> HIDE DEF q
<1>4. ASSUME NEW j \in Keys, NEW i \in 1..Len(waiters'[j]) PROVE waiters'[j][i] # Dead
  <2>1. CASE j = k
    <3>1. i \in 1..Len(q) \/ i = Len(q) + 1 BY <1>1, <1>2, <1>3, <2>1
    <3> QED BY <1>1, <1>2, <1>3, <2>1, <3>1 DEF HandedOn, q
  <2>2. CASE j # k BY <1>3, <2>2 DEF HandedOn
  <2> QED BY Zenon, <2>1, <2>2
<1>5. ASSUME NEW u \in notified PROVE waiters'[want'[u]][1] = u
  <2>1. u \in Txns /\ phase[u] = "parked" /\ want[u] \in Keys BY Zenon DEF IInv, Types, Queues
  <2>2. want'[u] = want[u] BY Zenon, <1>3, <2>1
  <2>3. waiters[want[u]][1] = u BY Zenon DEF HandedOn
  <2>4. CASE want[u] = k
    <3>1. PICK i \in 1..Len(q) : TRUE BY Zenon, <2>1, <2>4 DEF IInv, Queues, q
    <3>2. 1 \in 1..Len(q) BY <1>1, <3>1
    <3> QED BY <1>2, <1>3, <2>2, <2>3, <2>4, <3>2 DEF q
  <2>5. CASE want[u] # k BY Zenon, <1>3, <2>1, <2>2, <2>3, <2>5
  <2> QED BY Zenon, <2>4, <2>5
<1>6. ASSUME NEW j \in Keys, owner'[j] = NoTx, waiters'[j] # <<>> PROVE waiters'[j][1] \in notified'
  BY Zenon, <1>3, <1>6 DEF HandedOn
<1> QED BY Zenon, <1>3, <1>4, <1>5, <1>6 DEF HandedOn

\* The waiter that takes the key was the head of its queue, so the others keep
\* their order and no condition variable is left behind.
LEMMA WakeTakeHandsOn ==
  ASSUME ~SpuriousWakes, IInv, HandedOn, NEW t \in Txns, WakeTake(t)
  PROVE  HandedOn'
<1> DEFINE k == want[t]
           q == waiters[k]
<1>1. /\ t \in notified /\ phase[t] = "parked" /\ k \in Keys
      /\ waiters' = [waiters EXCEPT ![k] = TakeSlot(q, t)]
      /\ owner' = [owner EXCEPT ![k] = t] /\ notified' = notified \ {t}
      /\ want' = [want EXCEPT ![t] = NoKey]
  BY Zenon DEF WakeTake, Woken, IInv, Queues
<1>2. q \in Queue(Txns) /\ q # <<>> /\ q[1] = t /\ Len(q) \in Nat
  <2>1. q \in Queue(Txns) BY Zenon, <1>1 DEF IInv, Types
  <2>2. PICK i \in 1..Len(q) : q[i] = t BY Zenon, <1>1 DEF IInv, Queues
  <2>3. q[1] = t BY Zenon, <1>1 DEF HandedOn
  <2> QED BY <2>1, <2>2, <2>3 DEF Queue
<1>3. /\ Len(TakeSlot(q, t)) = Len(q) - 1
      /\ \A i \in 1..(Len(q) - 1) : TakeSlot(q, t)[i] = q[i + 1]
  <2>1. Head(q) = t BY <1>2 DEF Queue
  <2>2. Dead \notin Txns BY Zenon, UniqueKeyAssumption
  <2> HIDE DEF q, k
  <2> QED BY <1>2, <2>1, <2>2, TakeSlotProperties
<1>4. /\ waiters'[k] = TakeSlot(q, t) /\ \A j \in Keys \ {k} : waiters'[j] = waiters[j]
      /\ owner'[k] = t /\ \A j \in Keys \ {k} : owner'[j] = owner[j]
      /\ \A u \in Txns \ {t} : want'[u] = want[u]
  BY Zenon, <1>1 DEF IInv, Types
<1>5. ASSUME NEW j \in Keys, NEW i \in 1..Len(waiters'[j]) PROVE waiters'[j][i] # Dead
  <2>1. CASE j = k
    <3>1. i \in 1..(Len(q) - 1) /\ i + 1 \in 1..Len(q) BY <1>2, <1>3, <1>4, <2>1
    <3>2. \A n \in 1..Len(q) : q[n] # Dead BY Zenon, <1>1 DEF HandedOn
    <3> HIDE DEF q, k
    <3> QED BY ZenonT(30), <1>3, <1>4, <2>1, <3>1, <3>2
  <2>2. CASE j # k BY <1>4, <2>2 DEF HandedOn
  <2> QED BY Zenon, <2>1, <2>2
<1>6. ASSUME NEW u \in notified' PROVE waiters'[want'[u]][1] = u
  <2>1. u \in notified /\ u # t BY Zenon, <1>1
  <2>2. u \in Txns /\ want[u] \in Keys /\ want'[u] = want[u] /\ waiters[want[u]][1] = u
    BY Zenon, <1>4, <2>1 DEF IInv, Types, Queues, HandedOn
  <2>3. want[u] # k BY Zenon, <1>2, <2>1, <2>2
  <2> QED BY Zenon, <1>4, <2>2, <2>3
<1>7. ASSUME NEW j \in Keys, owner'[j] = NoTx, waiters'[j] # <<>> PROVE waiters'[j][1] \in notified'
  <2>1. j # k BY Zenon, <1>4, <1>7, UniqueKeyAssumption
  <2>2. waiters'[j] = waiters[j] /\ waiters[j][1] \in notified BY Zenon, <1>4, <1>7, <2>1 DEF HandedOn
  <2>3. waiters[j] # <<>> /\ 1 \in 1..Len(waiters[j]) BY Zenon, <1>7, <2>2, FrontOfQueue DEF IInv
  <2>4. waiters[j][1] # Dead BY Zenon, <2>3 DEF HandedOn
  <2>5. want[waiters[j][1]] = j BY Zenon, <2>3, <2>4, FrontOfQueue DEF IInv
  <2>6. waiters[j][1] # t BY Zenon, <2>1, <2>5
  <2> QED BY <1>1, <2>2, <2>6
<1> QED BY Zenon, <1>5, <1>6, <1>7 DEF HandedOn

\* A woken waiter that finds its key taken parks again: it is not the key's
\* turn to be handed on.
LEMMA WakeBusyHandsOn ==
  ASSUME IInv, HandedOn, NEW t \in Txns, WakeBusy(t)
  PROVE  HandedOn'
<1>1. /\ t \in notified /\ owner[want[t]] # NoTx /\ notified' = notified \ {t}
      /\ UNCHANGED <<owner, waiters, want>>
  BY Zenon DEF WakeBusy
<1>2. ASSUME NEW j \in Keys, owner[j] = NoTx, waiters[j] # <<>> PROVE waiters[j][1] # t
  <2>1. 1 \in 1..Len(waiters[j]) BY Zenon, <1>2, FrontOfQueue DEF IInv
  <2>2. waiters[j][1] # Dead BY Zenon, <2>1 DEF HandedOn
  <2>3. want[waiters[j][1]] = j BY Zenon, <1>2, <2>2, FrontOfQueue DEF IInv
  <2> QED BY Zenon, <1>1, <1>2, <2>3
<1> QED BY Zenon, <1>1, <1>2 DEF HandedOn

\* The drop of the last guard wakes the head of the queue.
LEMMA DropHandsOn ==
  ASSUME IInv, HandedOn, NEW t \in Txns, DropGuard(t)
  PROVE  HandedOn'
<1> DEFINE k == Head(guards[t])
           last == owner[k] = t /\ depth[k] = 1
<1>1. /\ owner' = [owner EXCEPT ![k] = IF last THEN NoTx ELSE @]
      /\ notified' = notified \cup IF last THEN NotifyFront(waiters[k]) ELSE {}
      /\ guards[t] # <<>>
      /\ UNCHANGED <<waiters, phase, want>>
  BY Zenon DEF DropGuard
<1>2. k \in Keys BY <1>1 DEF IInv, Types
<1>3. \A j \in Keys : owner'[j] = IF j = k /\ last THEN NoTx ELSE owner[j]
  BY Zenon, <1>1, <1>2 DEF IInv, Types
<1> HIDE DEF k, last
<1>4. ASSUME waiters[k] # <<>>
      PROVE  /\ NotifyFront(waiters[k]) = {waiters[k][1]}
             /\ want[waiters[k][1]] = k
  <2>1. 1 \in 1..Len(waiters[k]) BY Zenon, <1>2, <1>4, FrontOfQueue DEF IInv
  <2>2. waiters[k][1] # Dead BY Zenon, <1>2, <2>1 DEF HandedOn
  <2>3. waiters[k] \in Queue(Txns) BY Zenon, <1>2 DEF IInv, Types
  <2>4. NotifyFront(waiters[k]) = {waiters[k][1]} \ {Dead} BY Zenon, <1>4, <2>3, NotifyFrontProperties
  <2>5. want[waiters[k][1]] = k BY Zenon, <1>2, <1>4, <2>2, FrontOfQueue DEF IInv
  <2> QED BY Zenon, <2>2, <2>4, <2>5
<1>5. waiters[k] = <<>> => NotifyFront(waiters[k]) = {} BY Zenon DEF NotifyFront
<1>6. \A u \in notified' : waiters[want[u]][1] = u
  BY Zenon, <1>1, <1>4, <1>5 DEF HandedOn
<1>7. ASSUME NEW j \in Keys, owner'[j] = NoTx, waiters[j] # <<>> PROVE waiters[j][1] \in notified'
  <2>1. CASE j = k /\ last BY Zenon, <1>1, <1>4, <1>7, <2>1
  <2>2. CASE ~(j = k /\ last)
    <3>1. owner[j] = NoTx BY Zenon, <1>3, <1>7, <2>2
    <3> QED BY Zenon, <1>1, <1>7, <3>1 DEF HandedOn
  <2> QED BY Zenon, <2>1, <2>2
<1> QED BY Zenon, <1>1, <1>6, <1>7 DEF HandedOn

\* Every step hands the keys on.
LEMMA HandedOnStep ==
  ASSUME ~SpuriousWakes, IInv, HandedOn, [Next]_vars
  PROVE  HandedOn'
<1>1. ASSUME NEW t \in Txns, EndTx(t) \/ Close(t) PROVE HandedOn'
  BY Zenon, <1>1 DEF EndTx, Close, HandedOn
<1>2. CASE UNCHANGED vars BY Zenon, <1>2 DEF vars, HandedOn
<1> QED BY ZenonT(30), <1>1, <1>2, LockHandsOn, EnqueueHandsOn, WakeTakeHandsOn, WakeBusyHandsOn, DropHandsOn
        DEF Next

\* Guards are collected by running transactions only.
LEMMA ClosedLetGoStep ==
  ASSUME IInv, ClosedLetGo, [Next]_vars
  PROVE  ClosedLetGo'
<1>1. ASSUME NEW u \in Txns, phase'[u] = "closed" PROVE guards'[u] = <<>>
  <2>1. CASE UNCHANGED vars BY Zenon, <1>1, <2>1 DEF vars, ClosedLetGo
  <2>2. ASSUME NEW t \in Txns, NEW k \in Keys, LockFree(t, k) \/ LockAgain(t, k) \/ Enqueue(t, k)
        PROVE  guards'[u] = <<>>
    <3>1. phase[t] = "running" /\ (phase' = phase \/ phase' = [phase EXCEPT ![t] = "parked"])
          /\ \A s \in Txns \ {t} : guards'[s] = guards[s]
      BY Zenon, <2>2 DEF LockFree, LockAgain, Enqueue, MayLock, IInv, Types
    <3> QED BY Zenon, <1>1, <3>1 DEF ClosedLetGo, IInv, Types
  <2>3. ASSUME NEW t \in Txns, WakeTake(t) PROVE guards'[u] = <<>>
    <3>1. phase[t] = "parked" /\ phase' = [phase EXCEPT ![t] = "running"]
          /\ \A s \in Txns \ {t} : guards'[s] = guards[s]
      BY Zenon, <2>3 DEF WakeTake, Woken, IInv, Types
    <3> QED BY Zenon, <1>1, <3>1 DEF ClosedLetGo, IInv, Types
  <2>4. ASSUME NEW t \in Txns, WakeBusy(t) \/ EndTx(t) \/ Close(t) PROVE guards'[u] = <<>>
    <3>1. guards' = guards
          /\ (phase' = phase \/ phase' = [phase EXCEPT ![t] = "releasing"]
              \/ (guards[t] = <<>> /\ phase' = [phase EXCEPT ![t] = "closed"]))
      BY Zenon, <2>4 DEF WakeBusy, EndTx, Close
    <3> QED BY Zenon, <1>1, <3>1 DEF ClosedLetGo, IInv, Types
  <2>5. ASSUME NEW t \in Txns, DropGuard(t) PROVE guards'[u] = <<>>
    <3>1. phase[t] = "releasing" /\ phase' = phase /\ \A s \in Txns \ {t} : guards'[s] = guards[s]
      BY Zenon, <2>5 DEF DropGuard, IInv, Types
    <3> QED BY Zenon, <1>1, <3>1 DEF ClosedLetGo
  <2> QED BY ZenonT(30), <2>1, <2>2, <2>3, <2>4, <2>5 DEF Next
<1> QED BY Zenon, <1>1 DEF ClosedLetGo

\* unlock() takes the owner away with the last guard.
LEMMA OwnedIsHeldStep ==
  ASSUME IInv, OwnedIsHeld, [Next]_vars
  PROVE  OwnedIsHeld'
<1>1. ASSUME NEW k \in Keys, owner'[k] # NoTx PROVE depth'[k] > 0
  <2>0. depth[k] \in Nat BY Zenon DEF IInv, Types
  <2>1. CASE UNCHANGED <<owner, depth>> BY Zenon, <1>1, <2>1 DEF OwnedIsHeld
  <2>2. ASSUME NEW t \in Txns, NEW j \in Keys, LockFree(t, j) \/ LockAgain(t, j)
        PROVE  depth'[k] > 0
    <3>1. CASE k = j BY <2>0, <2>2, <3>1 DEF LockFree, LockAgain, IInv, Types
    <3>2. CASE k # j
      <4>1. owner'[k] = owner[k] /\ depth'[k] = depth[k]
        BY Zenon, <2>2, <3>2 DEF LockFree, LockAgain, IInv, Types
      <4> QED BY Zenon, <1>1, <4>1 DEF OwnedIsHeld
    <3> QED BY Zenon, <3>1, <3>2
  <2>3. ASSUME NEW t \in Txns, WakeTake(t) PROVE depth'[k] > 0
    <3>1. owner' = [owner EXCEPT ![want[t]] = t] /\ depth' = [depth EXCEPT ![want[t]] = 1]
      BY Zenon, <2>3 DEF WakeTake
    <3>2. CASE k = want[t]
      <4>1. depth'[k] = 1 BY Zenon, <3>1, <3>2 DEF IInv, Types
      <4> QED BY <4>1
    <3>3. CASE k # want[t]
      <4>1. owner'[k] = owner[k] /\ depth'[k] = depth[k] BY Zenon, <3>1, <3>3 DEF IInv, Types
      <4> QED BY Zenon, <1>1, <4>1 DEF OwnedIsHeld
    <3> QED BY Zenon, <3>2, <3>3
  <2>4. ASSUME NEW t \in Txns, DropGuard(t) PROVE depth'[k] > 0
    <3> DEFINE j == Head(guards[t])
    <3>1. /\ owner'[k] = IF k = j /\ owner[j] = t /\ depth[j] = 1 THEN NoTx ELSE owner[k]
          /\ depth'[k] = IF k = j /\ owner[j] = t THEN depth[k] - 1 ELSE depth[k]
      BY Zenon, <2>4 DEF DropGuard, IInv, Types
    <3> HIDE DEF j
    <3>2. owner[k] # NoTx /\ depth[k] > 0 BY Zenon, <1>1, <3>1 DEF OwnedIsHeld
    <3>3. ~(k = j /\ owner[j] = t /\ depth[j] = 1) BY Zenon, <1>1, <3>1
    <3> QED BY <2>0, <3>1, <3>2, <3>3
  <2>5. ASSUME NEW t \in Txns, NEW j \in Keys, Enqueue(t, j) PROVE depth'[k] > 0
    BY Zenon, <2>1, <2>5 DEF Enqueue
  <2>6. ASSUME NEW t \in Txns, WakeBusy(t) \/ EndTx(t) \/ Close(t) PROVE depth'[k] > 0
    BY Zenon, <2>1, <2>6 DEF WakeBusy, EndTx, Close
  <2>7. CASE UNCHANGED vars BY Zenon, <2>1, <2>7 DEF vars
  <2> QED BY ZenonT(30), <2>2, <2>3, <2>4, <2>5, <2>6, <2>7 DEF Next
<1> QED BY Zenon, <1>1 DEF OwnedIsHeld

\* The inductive invariant of handing keys on.
HandOnInv == HandedOn /\ ClosedLetGo /\ OwnedIsHeld

\* At all times the head of the queue of a free key has been woken, an owned
\* key is held, and a closed transaction holds no guard (UniqueKeyGuard::drop,
\* unlock).
THEOREM KeysAreHandedOn ==
  ASSUME ~SpuriousWakes PROVE Spec => []HandOnInv
<1>1. Init => HandOnInv BY DEF Init, HandOnInv, HandedOn, ClosedLetGo, OwnedIsHeld
<1>2. IInv /\ HandOnInv /\ [Next]_vars => HandOnInv'
  BY Zenon, HandedOnStep, ClosedLetGoStep, OwnedIsHeldStep DEF HandOnInv
<1> QED BY <1>1, <1>2, Invariance, PTL DEF Spec

-----------------------------------------------------------------------------
(* The sessions that insert through it.                                    *)

\* An index entry: its key, the transaction that made it, the one that deleted it.
EntryType == [key : Keys, tx : Txns, del : Txns \cup {NoTx}]

\* The type of the transaction states and of the index.
StatusTypes ==
  /\ state \in [Txns -> {"none", "open", "reserved", "committed", "aborted"}]
  /\ csn \in [Txns -> Nat] /\ nextCsn \in Nat
  /\ \A t \in Txns : csn[t] < nextCsn
  /\ latest = [t \in Txns |-> latest[t]]
  /\ stage \in [Txns -> {"ready", "locked", "probing", "clear", "failed"}]
  /\ entries \in Seq(EntryType)

\* A session inserts only within its transaction, and gives its guards back
\* only after the end of it.
SessionOrder ==
  \A t \in Txns :
    /\ phase[t] \in {"releasing", "closed"} => state[t] \in {"committed", "aborted"}
    /\ phase[t] = "parked" => state[t] = "open" /\ stage[t] = "ready"
    /\ stage[t] \in {"locked", "probing", "clear"} =>
         state[t] = "open" /\ phase[t] = "running" /\ guards[t] # <<>>

\* The key of an entry is locked as long as its transaction has not ended.
MakersHoldKeys ==
  \A i \in DOMAIN entries :
    /\ state[entries[i].tx] # "none"
    /\ state[entries[i].tx] \in {"open", "reserved"} => owner[entries[i].key] = entries[i].tx

\* Entry d can never be alive in a snapshot that includes transaction t.
Superseded(d, t) ==
  \/ state[d.tx] = "aborted"
  \/ d.del = t
  \/ /\ d.del # NoTx /\ state[d.del] = "committed"
     /\ state[t] \in {"reserved", "committed"} => csn[d.del] < csn[t]

\* What a session that is probing can see of the entries of its key ...
ProbeSees ==
  \A t \in Txns : stage[t] = "probing" =>
    \A i \in SameKey(t) :
      \/ entries[i].tx = t
      \/ state[entries[i].tx] = "aborted"
      \/ IsTxVisible(entries[i].tx, latest[t])

\* ... what it knows of them when it has found none alive ...
ProbeCleared ==
  \A t \in Txns : stage[t] = "clear" => \A i \in SameKey(t) : Superseded(entries[i], t)

\* ... and what remains of that for every two entries of one key.
LaterSupersedes ==
  \A i, j \in DOMAIN entries :
    i < j /\ entries[i].key = entries[j].key =>
      state[entries[j].tx] = "aborted" \/ Superseded(entries[i], entries[j].tx)

\* What holds whatever the probes see, and what rests on their seeing enough.
Basics == IInv /\ StatusTypes /\ SessionOrder /\ MakersHoldKeys
Unique == ProbeSees /\ ProbeCleared /\ LaterSupersedes

\* The inductive invariant of unique inserts.
UniqueInv == StatusTypes /\ SessionOrder /\ MakersHoldKeys /\ ("gap" \notin met => Unique)

-----------------------------------------------------------------------------
\* Every step of a session is a step of the lock table or leaves it alone.
LEMMA SessionUsesLock == ASSUME NEW t \in Txns, Session(t) PROVE [Next]_vars
<1>1. CASE LockKey(t) BY Zenon, <1>1 DEF LockKey, Next
<1>2. CASE Wake(t) BY Zenon, <1>2 DEF Wake, Next
<1>3. CASE ClearGuards(t) BY Zenon, <1>3 DEF ClearGuards, Next
<1>4. CASE UNCHANGED vars BY Zenon, <1>4
<1>5. TakeLatest(t) \/ Lookup(t) \/ InsertEntry(t) \/ DeleteEntry(t) \/ BeginTx(t)
      \/ ReserveCsn(t) \/ ResolveCsn(t, "committed") \/ ResolveCsn(t, "aborted")
      \/ Rollback(t) => UNCHANGED vars
  BY Zenon DEF TakeLatest, Lookup, InsertEntry, DeleteEntry, BeginTx, ReserveCsn, ResolveCsn,
         Rollback
<1> QED BY Zenon, <1>1, <1>2, <1>3, <1>4, <1>5 DEF Session

\* The lock table's invariant holds in the composition.
LEMMA LockInvariant == SpecAll => []IInv
<1>1. InitAll => Init BY Zenon DEF InitAll
<1>2. [NextAll]_allVars => [Next]_vars BY Zenon, SessionUsesLock DEF NextAll, allVars
<1>3. SpecAll => Spec BY <1>1, <1>2, PTL DEF SpecAll, Spec
<1> QED BY <1>3, Invariance, PTL

\* The fields of an entry of the index.
LEMMA EntriesTyped ==
  ASSUME StatusTypes, NEW i \in DOMAIN entries
  PROVE  /\ entries[i] \in EntryType
         /\ entries[i].key \in Keys /\ entries[i].tx \in Txns
         /\ entries[i].del \in Txns \cup {NoTx}
<1>1. entries[i] \in EntryType BY DEF StatusTypes
<1> QED BY Zenon, <1>1 DEF EntryType

\* A transaction owns the keys it has guards for.
LEMMA GuardOwns ==
  ASSUME IInv, NEW t \in Txns, NEW i \in 1..Len(guards[t])
  PROVE  guards[t][i] \in Keys /\ owner[guards[t][i]] = t
<1> DEFINE k == guards[t][i]
<1>1. guards[t] \in Seq(Keys) /\ k \in Keys BY DEF IInv, Types
<1>2. GuardCount(t, k) = Cardinality(Places(guards[t], k))
  BY Zenon, <1>1, GuardCountIsPlaces DEF IInv
<1>3. i \in Places(guards[t], k) BY Zenon DEF Places
<1>4. Cardinality(Places(guards[t], k)) # 0
  BY Zenon, <1>1, <1>3, PlacesBounded, FS_EmptySet
<1> QED BY Zenon, <1>1, <1>2, <1>4 DEF IInv, DepthCountsGuards

\* A session in the middle of an insert owns the key.
LEMMA InserterOwns ==
  ASSUME IInv, SessionOrder, NEW t \in Txns, stage[t] \in {"locked", "probing", "clear"}
  PROVE  LockedKey(t) \in Keys /\ owner[LockedKey(t)] = t
<1>1. guards[t] \in Seq(Keys) /\ guards[t] # <<>> BY Zenon DEF IInv, Types, SessionOrder
<1>2. Len(guards[t]) \in 1..Len(guards[t]) BY <1>1
<1> QED BY Zenon, <1>2, GuardOwns DEF LockedKey

-----------------------------------------------------------------------------
\* The empty index satisfies the invariant.
LEMMA InitUnique == InitAll => UniqueInv
<1> SUFFICES ASSUME InitAll PROVE UniqueInv OBVIOUS
<1>1. StatusTypes BY DEF InitAll, StatusTypes
<1>2. SessionOrder BY Zenon DEF InitAll, Init, SessionOrder
<1>3. MakersHoldKeys BY DEF InitAll, MakersHoldKeys
<1>4. Unique
  BY DEF InitAll, Unique, ProbeSees, ProbeCleared, LaterSupersedes
<1> QED BY ZenonT(30), <1>1, <1>2, <1>3, <1>4 DEF UniqueInv

\* A step of the lock table: no session is probing with other guards than
\* before, and a key changes hands only when it is free or when the transaction
\* of its owner has ended.
LEMMA LockStep ==
  ASSUME Basics, "gap" \notin met => Unique, NEW t \in Txns,
         UNCHANGED <<statusVars, entries, latest>>, "gap" \notin met' => "gap" \notin met,
         \A k \in Keys : \/ owner'[k] = owner[k] \/ owner[k] = NoTx
                         \/ owner[k] = t /\ state[t] \in {"committed", "aborted"},
         stage' \in [Txns -> {"ready", "locked", "probing", "clear", "failed"}],
         \A u \in Txns \ {t} :
           phase'[u] = phase[u] /\ guards'[u] = guards[u] /\ stage'[u] = stage[u],
         phase'[t] \in {"releasing", "closed"} => state[t] \in {"committed", "aborted"},
         phase'[t] = "parked" => state[t] = "open" /\ stage'[t] = "ready",
         stage'[t] \in {"ready", "locked", "failed"},
         stage'[t] = "locked" => state[t] = "open" /\ phase'[t] = "running" /\ guards'[t] # <<>>
  PROVE  UniqueInv'
<1>1. /\ StatusTypes /\ phase \in [Txns -> {"running", "parked", "releasing", "closed"}]
      /\ DOMAIN guards = Txns /\ DOMAIN stage = Txns
      /\ \A i \in DOMAIN entries : entries[i] \in EntryType
  BY DEF Basics, IInv, Types, StatusTypes
<1>2. StatusTypes' BY Zenon, <1>1 DEF StatusTypes, statusVars
<1>3. SessionOrder'
  <2> SUFFICES ASSUME NEW u \in Txns
               PROVE  (/\ phase[u] \in {"releasing", "closed"} => state[u] \in {"committed", "aborted"}
                       /\ phase[u] = "parked" => state[u] = "open" /\ stage[u] = "ready"
                       /\ stage[u] \in {"locked", "probing", "clear"} =>
                            state[u] = "open" /\ phase[u] = "running" /\ guards[u] # <<>>)'
    BY Zenon DEF SessionOrder
  <2>1. CASE u = t BY Zenon, <1>1, <2>1 DEF statusVars
  <2>2. CASE u # t BY Zenon, <1>1, <2>2 DEF statusVars, Basics, SessionOrder
  <2> QED BY Zenon, <2>1, <2>2
<1>4. MakersHoldKeys'
  BY <1>1, UniqueKeyAssumption DEF MakersHoldKeys, Basics, statusVars, EntryType
<1>5. ASSUME "gap" \notin met' PROVE Unique'
  <2>1. \A u \in Txns : stage'[u] \in {"probing", "clear"} =>
           stage'[u] = stage[u] /\ SameKey(u)' = SameKey(u)
    BY <1>1 DEF SameKey, LockedKey
  <2>2. ProbeSees' BY ZenonT(30), <1>5, <2>1 DEF Unique, ProbeSees, IsTxVisible, statusVars
  <2>3. ProbeCleared' BY ZenonT(30), <1>5, <2>1 DEF Unique, ProbeCleared, Superseded, statusVars
  <2>4. LaterSupersedes' BY ZenonT(30), <1>5 DEF Unique, LaterSupersedes, Superseded, statusVars
  <2> QED BY Zenon, <2>2, <2>3, <2>4 DEF Unique
<1> QED BY Zenon, <1>2, <1>3, <1>4, <1>5 DEF UniqueInv

LEMMA LockSteps ==
  ASSUME Basics, "gap" \notin met => Unique, NEW t \in Txns,
         LockKey(t) \/ Wake(t) \/ ClearGuards(t)
  PROVE  UniqueInv'
<1> DEFINE OthersKeep ==
      /\ stage' \in [Txns -> {"ready", "locked", "probing", "clear", "failed"}]
      /\ \A u \in Txns \ {t} :
           phase'[u] = phase[u] /\ guards'[u] = guards[u] /\ stage'[u] = stage[u]
<1>1. /\ guards \in [Txns -> Seq(Keys)] /\ owner \in [Keys -> Txns \cup {NoTx}]
      /\ phase \in [Txns -> {"running", "parked", "releasing", "closed"}]
      /\ stage \in [Txns -> {"ready", "locked", "probing", "clear", "failed"}]
      /\ phase[t] = "parked" => want[t] \in Keys
  BY Zenon DEF Basics, IInv, Types, Queues, StatusTypes
<1>2. ASSUME NEW k \in Keys PROVE Append(guards[t], k) # <<>>
  <2>1. guards[t] \in Seq(Keys) BY Zenon, <1>1
  <2>2. Len(Append(guards[t], k)) = Len(guards[t]) + 1 /\ Len(guards[t]) \in Nat BY <2>1
  <2>3. Len(<<>>) = 0 OBVIOUS
  <2> QED BY <2>2, <2>3
<1>3. /\ phase[t] \in {"releasing", "closed"} => state[t] \in {"committed", "aborted"}
      /\ phase[t] = "parked" => state[t] = "open" /\ stage[t] = "ready"
      /\ stage[t] \in {"locked", "probing", "clear"} =>
           state[t] = "open" /\ phase[t] = "running" /\ guards[t] # <<>>
  BY Zenon DEF Basics, SessionOrder
<1>4. ASSUME NEW k \in Keys, LockFree(t, k) \/ LockAgain(t, k), InTx(t),
             Stage(t, "ready", "locked"), UNCHANGED <<met, statusVars, entries, latest>>
      PROVE  UniqueInv'
  <2>1. /\ phase'[t] = "running" /\ guards'[t] # <<>>
        /\ stage'[t] = "locked" /\ state[t] = "open" /\ OthersKeep
        /\ \A j \in Keys : owner'[j] = owner[j] \/ owner[j] = NoTx
    BY ZenonT(30), <1>1, <1>2, <1>4 DEF LockFree, LockAgain, MayLock, Stage, InTx
  <2> QED BY ZenonT(30), <1>4, <2>1, LockStep
<1>5. ASSUME NEW k \in Keys, Enqueue(t, k), InTx(t), stage[t] = "ready",
             "gap" \in met => "gap" \in met', UNCHANGED <<stage, statusVars, entries, latest>>
      PROVE  UniqueInv'
  <2>1. /\ phase'[t] = "parked" /\ OthersKeep
        /\ stage'[t] = "ready" /\ state[t] = "open" /\ owner' = owner
    BY Zenon, <1>1, <1>5 DEF Enqueue, InTx
  <2> QED BY ZenonT(30), <1>5, <2>1, LockStep
<1>6. ASSUME Wake(t) PROVE UniqueInv'
  <2>1. CASE WakeTake(t) /\ Stage(t, "ready", "locked")
    <3>1. /\ phase'[t] = "running" /\ guards'[t] # <<>>
          /\ stage'[t] = "locked" /\ OthersKeep
          /\ state[t] = "open" /\ want[t] \in Keys
          /\ \A j \in Keys : owner'[j] = owner[j] \/ owner[j] = NoTx
      BY ZenonT(30), <1>1, <1>2, <1>3, <2>1 DEF WakeTake, Woken, Stage
    <3>2. UNCHANGED <<met, statusVars, entries, latest>> BY Zenon, <1>6 DEF Wake, indexVars
    <3> QED BY ZenonT(30), <3>1, <3>2, LockStep
  <2>2. CASE WakeBusy(t) /\ UNCHANGED stage
    <3>1. /\ phase'[t] = "parked" /\ OthersKeep
          /\ stage'[t] = "ready" /\ state[t] = "open" /\ owner' = owner
      BY ZenonT(30), <1>1, <1>3, <2>2 DEF WakeBusy, Woken
    <3>2. UNCHANGED <<met, statusVars, entries, latest>> BY Zenon, <1>6 DEF Wake, indexVars
    <3> QED BY ZenonT(30), <3>1, <3>2, LockStep
  <2> QED BY ZenonT(30), <1>6, <2>1, <2>2 DEF Wake
<1>7. ASSUME ClearGuards(t) PROVE UniqueInv'
  <2>1. /\ UNCHANGED <<met, statusVars, entries, latest>>
        /\ stage' = stage
        /\ state[t] \in {"committed", "aborted"} /\ stage[t] \in {"ready", "failed"}
    BY SMTT(30), <1>1, <1>3, <1>7 DEF ClearGuards, indexVars, DropGuard, Close
  <2>2. /\ \A j \in Keys : owner'[j] = owner[j] \/ owner[j] = t
        /\ phase'[t] \in {"releasing", "closed"} /\ OthersKeep
    BY SMTT(30), <1>1, <1>7 DEF ClearGuards, EndTx, DropGuard, Close
  <2> QED BY ZenonT(30), <2>1, <2>2, LockStep
<1> QED BY ZenonT(30), <1>4, <1>5, <1>6, <1>7 DEF LockKey

-----------------------------------------------------------------------------
\* A step of the transaction: what supersedes an entry goes on doing so, since
\* a CSN is larger than every CSN reserved before it.
LEMMA StatusStep ==
  ASSUME Basics, "gap" \notin met => Unique, NEW t \in Txns, NEW n,
         UNCHANGED <<vars, indexVars, stage>>, state' = [state EXCEPT ![t] = n],
         \/ state[t] = "none" /\ n = "open" /\ UNCHANGED <<csn, nextCsn>>
         \/ /\ state[t] = "open" /\ n = "reserved" /\ phase[t] = "running" /\ stage[t] = "ready"
            /\ csn' = [csn EXCEPT ![t] = nextCsn] /\ nextCsn' = nextCsn + 1
         \/ /\ state[t] = "open" /\ n = "aborted" /\ phase[t] = "running"
            /\ stage[t] \in {"ready", "failed"} /\ UNCHANGED <<csn, nextCsn>>
         \/ state[t] = "reserved" /\ n \in {"committed", "aborted"} /\ UNCHANGED <<csn, nextCsn>>
  PROVE  UniqueInv'
<1>1. /\ state \in [Txns -> {"none", "open", "reserved", "committed", "aborted"}]
      /\ csn \in [Txns -> Nat] /\ nextCsn \in Nat /\ \A u \in Txns : csn[u] < nextCsn
      /\ \A i \in DOMAIN entries : entries[i] \in EntryType
      /\ \A i \in DOMAIN entries : entries[i].tx \in Txns /\ entries[i].del \in Txns \cup {NoTx}
  BY Zenon, EntriesTyped DEF Basics, StatusTypes
<1>2. entries' = entries /\ latest' = latest /\ met' = met /\ stage' = stage
      /\ phase' = phase /\ guards' = guards /\ owner' = owner
  BY Zenon DEF indexVars, vars
<1>3. n \in {"open", "reserved", "committed", "aborted"} OBVIOUS
<1>4. StatusTypes'
  <2>1. \/ csn' = csn /\ nextCsn' = nextCsn
        \/ csn' = [csn EXCEPT ![t] = nextCsn] /\ nextCsn' = nextCsn + 1
    OBVIOUS
  <2>2. csn' \in [Txns -> Nat] /\ nextCsn' \in Nat /\ \A u \in Txns : csn'[u] < nextCsn'
    BY <1>1, <2>1
  <2>3. state' \in [Txns -> {"none", "open", "reserved", "committed", "aborted"}]
    BY Zenon, <1>1, <1>3
  <2> QED BY ZenonT(30), <1>2, <2>2, <2>3 DEF StatusTypes, Basics
<1>5. SessionOrder'
  <2> SUFFICES ASSUME NEW u \in Txns
               PROVE  (/\ phase[u] \in {"releasing", "closed"} => state[u] \in {"committed", "aborted"}
                       /\ phase[u] = "parked" => state[u] = "open" /\ stage[u] = "ready"
                       /\ stage[u] \in {"locked", "probing", "clear"} =>
                            state[u] = "open" /\ phase[u] = "running" /\ guards[u] # <<>>)'
    BY Zenon DEF SessionOrder
  <2> QED BY Zenon, <1>1, <1>2 DEF SessionOrder, Basics
<1>6. MakersHoldKeys' BY ZenonT(30), <1>1, <1>2 DEF MakersHoldKeys, Basics
<1>7. ASSUME "gap" \notin met' PROVE Unique'
  <2>1. Unique BY ZenonT(30), <1>2, <1>7
  <2>2. \A u \in Txns : SameKey(u)' = SameKey(u) BY ZenonT(30), <1>2 DEF SameKey, LockedKey
  <2>3. ASSUME NEW x \in Txns, NEW s, IsTxVisible(x, s) PROVE (IsTxVisible(x, s))'
    BY ZenonT(30), <1>1, <2>3 DEF IsTxVisible
  <2>4. ASSUME NEW i \in DOMAIN entries, NEW u \in Txns, Superseded(entries[i], u)
        PROVE  (Superseded(entries[i], u))'
    <3>1. CASE state[entries[i].tx] = "aborted" BY SMTT(30), <1>1, <1>2, <3>1 DEF Superseded
    <3>2. CASE entries[i].del = u BY ZenonT(30), <1>2, <3>2 DEF Superseded
    <3>3. CASE /\ entries[i].del # NoTx /\ state[entries[i].del] = "committed"
               /\ state[u] \in {"reserved", "committed"} => csn[entries[i].del] < csn[u]
      <4> DEFINE d == entries[i].del
      <4>1. d \in Txns /\ d # t BY ZenonT(30), <1>1, <3>3
      <4>2. state'[d] = "committed" /\ csn'[d] = csn[d] BY ZenonT(30), <1>1, <3>3, <4>1
      <4>3. state'[u] \in {"reserved", "committed"} => csn'[d] < csn'[u]
        BY ZenonT(30), <1>1, <3>3, <4>1, <4>2
      <4> QED BY SMTT(30), <1>2, <3>3, <4>2, <4>3 DEF Superseded
    <3> QED BY ZenonT(30), <2>4, <3>1, <3>2, <3>3 DEF Superseded
  <2>5. ProbeSees'
    <3> SUFFICES ASSUME NEW u \in Txns, stage[u] = "probing", NEW i \in SameKey(u)
                 PROVE  (\/ entries[i].tx = u \/ state[entries[i].tx] = "aborted"
                         \/ IsTxVisible(entries[i].tx, latest[u]))'
      BY ZenonT(30), <1>2, <2>2 DEF ProbeSees
    <3>1. i \in DOMAIN entries BY Zenon DEF SameKey
    <3>2. \/ entries[i].tx = u \/ state[entries[i].tx] = "aborted"
          \/ IsTxVisible(entries[i].tx, latest[u])
      BY Zenon, <2>1 DEF Unique, ProbeSees
    <3>3. state[entries[i].tx] = "aborted" => state'[entries[i].tx] = "aborted" BY Zenon, <1>1, <3>1
    <3>4. IsTxVisible(entries[i].tx, latest[u]) => (IsTxVisible(entries[i].tx, latest[u]))'
      BY ZenonT(30), <1>1, <1>2, <3>1 DEF IsTxVisible
    <3> QED BY SMTT(30), <1>2, <3>2, <3>3, <3>4
  <2>6. ProbeCleared'
    <3> SUFFICES ASSUME NEW u \in Txns, stage[u] = "clear", NEW i \in SameKey(u)
                 PROVE  (Superseded(entries[i], u))'
      BY Zenon, <1>2, <2>2 DEF ProbeCleared
    <3> QED BY ZenonT(30), <2>1, <2>4 DEF Unique, ProbeCleared, SameKey
  <2>7. LaterSupersedes'
    <3> SUFFICES ASSUME NEW i \in DOMAIN entries, NEW j \in DOMAIN entries, i < j,
                        entries[i].key = entries[j].key
                 PROVE  (state[entries[j].tx] = "aborted" \/ Superseded(entries[i], entries[j].tx))'
      BY ZenonT(30), <1>2 DEF LaterSupersedes
    <3>1. state[entries[j].tx] = "aborted" \/ Superseded(entries[i], entries[j].tx)
      BY Zenon, <2>1 DEF Unique, LaterSupersedes
    <3>2. state[entries[j].tx] = "aborted" => (state[entries[j].tx] = "aborted")'
      BY ZenonT(30), <1>1, <1>2
    <3>3. entries[j].tx \in Txns BY Zenon, <1>1
    <3>4. Superseded(entries[i], entries[j].tx) => (Superseded(entries[i], entries[j].tx))'
      BY ZenonT(30), <1>2, <2>4, <3>3 DEF Superseded
    <3> QED BY ZenonT(30), <3>1, <3>2, <3>4
  <2> QED BY Zenon, <2>5, <2>6, <2>7 DEF Unique
<1> QED BY ZenonT(30), <1>4, <1>5, <1>6, <1>7 DEF UniqueInv

LEMMA StatusSteps ==
  ASSUME Basics, "gap" \notin met => Unique, NEW t \in Txns,
         \/ BeginTx(t) \/ ReserveCsn(t) \/ Rollback(t)
         \/ ResolveCsn(t, "committed") \/ ResolveCsn(t, "aborted")
  PROVE  UniqueInv'
<1>1. CASE BeginTx(t) BY ZenonT(30), <1>1, StatusStep DEF BeginTx
<1>2. CASE ReserveCsn(t) BY ZenonT(30), <1>2, StatusStep DEF ReserveCsn, InTx
<1>3. CASE Rollback(t) BY ZenonT(30), <1>3, StatusStep DEF Rollback, InTx
<1>4. CASE ResolveCsn(t, "committed") BY ZenonT(30), <1>4, StatusStep DEF ResolveCsn
<1>5. CASE ResolveCsn(t, "aborted") BY ZenonT(30), <1>5, StatusStep DEF ResolveCsn
<1> QED BY ZenonT(30), <1>1, <1>2, <1>3, <1>4, <1>5

-----------------------------------------------------------------------------
\* The latest snapshot shows a session every entry of its key that others have
\* committed: those whose transactions have not ended would own the key.
LEMMA TakeLatestStep ==
  ASSUME Basics, "gap" \notin met => Unique, NEW t \in Txns, TakeLatest(t)
  PROVE  UniqueInv'
<1>1. /\ state \in [Txns -> {"none", "open", "reserved", "committed", "aborted"}]
      /\ \A i \in DOMAIN entries : entries[i].tx \in Txns
      /\ stage \in [Txns -> {"ready", "locked", "probing", "clear", "failed"}]
      /\ latest = [u \in Txns |-> latest[u]]
  BY ZenonT(30), EntriesTyped DEF Basics, StatusTypes
<1>2. /\ UNCHANGED <<vars, statusVars, entries>>
      /\ stage' = [stage EXCEPT ![t] = "probing"] /\ stage[t] = "locked"
      /\ latest' = [latest EXCEPT ![t] = publishedCsn]
  BY Zenon DEF TakeLatest, Stage
<1>3. StatusTypes' BY ZenonT(30), <1>1, <1>2 DEF StatusTypes, Basics, statusVars
<1>4. SessionOrder' BY ZenonT(30), <1>1, <1>2 DEF SessionOrder, Basics, statusVars, vars
<1>5. MakersHoldKeys' BY SMTT(30), <1>2 DEF MakersHoldKeys, Basics, statusVars, vars
<1>6. ASSUME "gap" \notin met' PROVE Unique'
  <2>1. "gap" \notin met /\ ~Unpublished(t) BY ZenonT(30), <1>6 DEF TakeLatest
  <2>2. \A u \in Txns : SameKey(u)' = SameKey(u) BY ZenonT(30), <1>2 DEF SameKey, LockedKey, vars
  <2>3. ProbeSees'
    <3> SUFFICES ASSUME NEW u \in Txns, stage'[u] = "probing", NEW i \in SameKey(u)
                 PROVE  (\/ entries[i].tx = u \/ state[entries[i].tx] = "aborted"
                         \/ IsTxVisible(entries[i].tx, latest[u]))'
      BY ZenonT(30), <2>2 DEF ProbeSees
    <3>1. i \in DOMAIN entries BY Zenon DEF SameKey
    <3>2. CASE u # t
      BY ZenonT(30), <1>1, <1>2, <2>1, <3>2 DEF Unique, ProbeSees, statusVars, IsTxVisible
    <3>3. CASE u = t
      <4>1. owner[entries[i].key] = t
        BY Zenon, <1>2, <3>3, InserterOwns DEF Basics, SameKey
      <4>2. \/ entries[i].tx = t \/ state[entries[i].tx] \in {"committed", "aborted"}
        BY ZenonT(30), <1>1, <3>1, <4>1 DEF Basics, MakersHoldKeys
      <4>3. state[entries[i].tx] = "committed" => IsTxVisible(entries[i].tx, publishedCsn)
        BY ZenonT(30), <2>1, <3>3 DEF Unpublished
      <4>4. latest'[u] = publishedCsn BY ZenonT(30), <1>1, <1>2, <3>3
      <4> QED BY ZenonT(30), <1>2, <3>3, <4>2, <4>3, <4>4 DEF IsTxVisible, statusVars
    <3> QED BY ZenonT(30), <3>2, <3>3
  <2>4. ProbeCleared'
    BY <1>1, <1>2, <2>1, <2>2 DEF Unique, ProbeCleared, Superseded, statusVars
  <2>5. LaterSupersedes'
    BY Zenon, <1>2, <2>1 DEF Unique, LaterSupersedes, Superseded, statusVars
  <2> QED BY ZenonT(30), <2>3, <2>4, <2>5 DEF Unique
<1> QED BY ZenonT(30), <1>3, <1>4, <1>5, <1>6 DEF UniqueInv

\* A lookup that finds nothing alive has seen what superseded each entry.
LEMMA LookupStep ==
  ASSUME Basics, "gap" \notin met => Unique, NEW t \in Txns, Lookup(t)
  PROVE  UniqueInv'
<1> DEFINE hit == \E i \in SameKey(t) : EntryVisible(t, entries[i], latest[t])
<1>1. /\ state \in [Txns -> {"none", "open", "reserved", "committed", "aborted"}]
      /\ \A i \in DOMAIN entries : entries[i].tx \in Txns /\ entries[i].del \in Txns \cup {NoTx}
      /\ stage \in [Txns -> {"ready", "locked", "probing", "clear", "failed"}]
      /\ latest = [u \in Txns |-> latest[u]]
  BY Zenon, EntriesTyped DEF Basics, StatusTypes
<1>2. PICK to \in {"failed", "ready", "clear"} :
        stage' = [stage EXCEPT ![t] = to] /\ (to = "clear" => ~hit)
  BY Zenon DEF Lookup, Stage
<1>3. /\ UNCHANGED <<vars, statusVars, entries, met>> /\ stage[t] = "probing"
      /\ latest' = [latest EXCEPT ![t] = 0]
  BY Zenon DEF Lookup
<1> HIDE DEF hit
<1>4. StatusTypes' BY ZenonT(30), <1>1, <1>2, <1>3 DEF StatusTypes, Basics, statusVars
<1>5. SessionOrder' BY ZenonT(30), <1>1, <1>2, <1>3 DEF SessionOrder, Basics, statusVars, vars
<1>6. MakersHoldKeys' BY Zenon, <1>3 DEF MakersHoldKeys, Basics, statusVars, vars
<1>7. ASSUME "gap" \notin met' PROVE Unique'
  <2>1. Unique BY Zenon, <1>3, <1>7
  <2>2. \A u \in Txns : SameKey(u)' = SameKey(u) BY Zenon, <1>3 DEF SameKey, LockedKey, vars
  <2>3. ProbeSees'
    BY ZenonT(30), <1>1, <1>2, <1>3, <2>1, <2>2 DEF Unique, ProbeSees, statusVars, IsTxVisible
  <2>4. ProbeCleared'
    <3> SUFFICES ASSUME NEW u \in Txns, stage'[u] = "clear", NEW i \in SameKey(u)
                 PROVE  (Superseded(entries[i], u))'
      BY Zenon, <2>2 DEF ProbeCleared
    <3>1. CASE u # t
      BY ZenonT(30), <1>1, <1>2, <1>3, <2>1, <3>1 DEF Unique, ProbeCleared, Superseded, statusVars
    <3>2. CASE u = t
      <4>1. ~EntryVisible(t, entries[i], latest[t]) BY ZenonT(30), <1>1, <1>2, <3>2 DEF hit
      <4>2. \/ entries[i].tx = t \/ state[entries[i].tx] = "aborted"
            \/ IsTxVisible(entries[i].tx, latest[t])
        BY SMTT(30), <1>3, <2>1, <3>2 DEF Unique, ProbeSees
      <4>3. state[t] = "open" BY SMTT(30), <1>3 DEF Basics, SessionOrder
      <4>4. Superseded(entries[i], t)
        BY SMTT(30), <4>1, <4>2, <4>3 DEF EntryVisible, Sees, IsTxVisible, Superseded
      <4> QED BY ZenonT(30), <1>3, <3>2, <4>4 DEF Superseded, statusVars
    <3> QED BY Zenon, <3>1, <3>2
  <2>5. LaterSupersedes'
    BY ZenonT(30), <1>3, <2>1 DEF Unique, LaterSupersedes, Superseded, statusVars
  <2> QED BY ZenonT(30), <2>3, <2>4, <2>5 DEF Unique
<1> QED BY ZenonT(30), <1>4, <1>5, <1>6, <1>7 DEF UniqueInv

\* The new entry is the last of its key, and the earlier ones are superseded.
LEMMA InsertStep ==
  ASSUME Basics, "gap" \notin met => Unique, NEW t \in Txns, InsertEntry(t)
  PROVE  UniqueInv'
<1> DEFINE e == [key |-> LockedKey(t), tx |-> t, del |-> NoTx]
           n == Len(entries)
<1>1. /\ state \in [Txns -> {"none", "open", "reserved", "committed", "aborted"}]
      /\ \A i \in DOMAIN entries : entries[i].tx \in Txns /\ entries[i].key \in Keys
      /\ stage \in [Txns -> {"ready", "locked", "probing", "clear", "failed"}]
  BY Zenon, EntriesTyped DEF Basics, StatusTypes
<1>2. /\ UNCHANGED <<vars, statusVars, latest, met>>
      /\ stage' = [stage EXCEPT ![t] = "ready"] /\ stage[t] = "clear"
      /\ entries' = Append(entries, e)
  BY Zenon DEF InsertEntry, Stage
<1>3. LockedKey(t) \in Keys /\ owner[LockedKey(t)] = t
  BY Zenon, <1>2, InserterOwns DEF Basics
<1>4. e \in EntryType BY Zenon, <1>3 DEF EntryType
<1>5. /\ entries \in Seq(EntryType) /\ n \in Nat /\ DOMAIN entries = 1..n
      /\ entries' \in Seq(EntryType) /\ DOMAIN entries' = 1..(n + 1)
      /\ \A i \in 1..n : entries'[i] = entries[i]
      /\ entries'[n + 1] = e
  BY <1>2, <1>4 DEF Basics, StatusTypes
<1>6. state[t] = "open" BY Zenon, <1>2 DEF Basics, SessionOrder
<1>7. e.tx = t /\ e.key = LockedKey(t) OBVIOUS
<1> HIDE DEF e
<1>8. StatusTypes' BY ZenonT(30), <1>1, <1>2, <1>5 DEF StatusTypes, Basics, statusVars
<1>9. SessionOrder' BY ZenonT(30), <1>1, <1>2 DEF SessionOrder, Basics, statusVars, vars
<1>10. MakersHoldKeys'
  <2> SUFFICES ASSUME NEW i \in 1..(n + 1)
               PROVE  (/\ state[entries[i].tx] # "none"
                       /\ state[entries[i].tx] \in {"open", "reserved"} =>
                            owner[entries[i].key] = entries[i].tx)'
    BY Zenon, <1>5 DEF MakersHoldKeys
  <2>1. CASE i \in 1..n BY Zenon, <1>2, <1>5, <2>1 DEF MakersHoldKeys, Basics, statusVars, vars
  <2>2. CASE i = n + 1
    BY ZenonT(30), <1>2, <1>3, <1>5, <1>6, <1>7, <2>2 DEF statusVars, vars
  <2> QED BY <1>5, <2>1, <2>2
<1>11. ASSUME "gap" \notin met' PROVE Unique'
  <2>1. Unique BY Zenon, <1>2, <1>11
  <2>2. ASSUME NEW u \in Txns, stage'[u] \in {"probing", "clear"}
        PROVE  u # t /\ stage[u] = stage'[u] /\ SameKey(u)' = SameKey(u)
    <3>1. u # t /\ stage[u] = stage'[u] BY Zenon, <1>1, <1>2, <2>2
    <3>2. owner[LockedKey(u)] = u BY Zenon, <2>2, <3>1, InserterOwns DEF Basics
    <3>3. LockedKey(u) # LockedKey(t) BY ZenonT(30), <1>3, <3>1, <3>2
    <3>4. LockedKey(u)' = LockedKey(u) BY Zenon, <1>2 DEF LockedKey, vars
    <3> QED BY <1>5, <1>7, <3>1, <3>3, <3>4 DEF SameKey
  <2>3. ASSUME NEW i \in 1..n, NEW u PROVE (Superseded(entries[i], u))' <=> Superseded(entries[i], u)
    BY Zenon, <1>2, <1>5 DEF Superseded, statusVars
  <2>4. ProbeSees'
    <3> SUFFICES ASSUME NEW u \in Txns, stage'[u] = "probing", NEW i \in SameKey(u)
                 PROVE  (\/ entries[i].tx = u \/ state[entries[i].tx] = "aborted"
                         \/ IsTxVisible(entries[i].tx, latest[u]))'
      BY Zenon, <2>2 DEF ProbeSees
    <3>1. i \in 1..n BY Zenon, <1>5 DEF SameKey
    <3> QED BY <1>2, <1>5, <2>1, <2>2, <3>1 DEF Unique, ProbeSees, IsTxVisible, statusVars
  <2>5. ProbeCleared'
    <3> SUFFICES ASSUME NEW u \in Txns, stage'[u] = "clear", NEW i \in SameKey(u)
                 PROVE  (Superseded(entries[i], u))'
      BY Zenon, <2>2 DEF ProbeCleared
    <3>1. i \in 1..n BY Zenon, <1>5 DEF SameKey
    <3> QED BY Zenon, <2>1, <2>2, <2>3, <3>1 DEF Unique, ProbeCleared
  <2>6. LaterSupersedes'
    <3> SUFFICES ASSUME NEW i \in 1..(n + 1), NEW j \in 1..(n + 1), i < j,
                        entries'[i].key = entries'[j].key
                 PROVE  (state[entries[j].tx] = "aborted" \/ Superseded(entries[i], entries[j].tx))'
      BY Zenon, <1>5 DEF LaterSupersedes
    <3>1. i \in 1..n BY <1>5
    <3>2. CASE j \in 1..n
      BY Zenon, <1>2, <1>5, <2>1, <2>3, <3>1, <3>2 DEF Unique, LaterSupersedes, statusVars
    <3>3. CASE j = n + 1
      <4>1. i \in SameKey(t) BY ZenonT(30), <1>5, <1>7, <3>1, <3>3 DEF SameKey
      <4>2. Superseded(entries[i], t) BY ZenonT(30), <1>2, <2>1, <4>1 DEF Unique, ProbeCleared
      <4>3. entries'[j].tx = t BY ZenonT(30), <1>5, <1>7, <3>3
      <4>4. (Superseded(entries[i], t))' BY ZenonT(30), <2>3, <3>1, <4>2
      <4> QED BY Zenon, <4>3, <4>4 DEF Superseded
    <3> QED BY <1>5, <3>2, <3>3
  <2> QED BY Zenon, <2>4, <2>5, <2>6 DEF Unique
<1> QED BY Zenon, <1>8, <1>9, <1>10, <1>11 DEF UniqueInv

\* A delete mark replaces no mark but that of an aborted transaction, which
\* superseded the entry for nobody.
LEMMA DeleteStep ==
  ASSUME Basics, "gap" \notin met => Unique, NEW t \in Txns, DeleteEntry(t)
  PROVE  UniqueInv'
<1>1. PICK d \in DOMAIN entries :
        /\ entries[d].del # NoTx => state[entries[d].del] = "aborted"
        /\ entries' = [entries EXCEPT ![d].del = t]
        /\ UNCHANGED <<vars, statusVars, stage, latest, met>>
  BY Zenon DEF DeleteEntry
<1>2. /\ entries \in Seq(EntryType) /\ DOMAIN entries = 1..Len(entries)
      /\ \A i \in DOMAIN entries :
           /\ entries[i] \in EntryType
           /\ entries[i].tx \in Txns /\ entries[i].del \in Txns \cup {NoTx}
  BY EntriesTyped DEF Basics, StatusTypes
<1>3. [entries[d] EXCEPT !.del = t] \in EntryType BY Zenon, <1>1, <1>2 DEF EntryType
<1>4. entries' \in Seq(EntryType) /\ DOMAIN entries' = DOMAIN entries
  BY <1>1, <1>2, <1>3
<1>5. /\ \A i \in DOMAIN entries : i # d => entries'[i] = entries[i]
      /\ entries'[d] = [entries[d] EXCEPT !.del = t]
  BY Zenon, <1>1, <1>2
<1>6. ASSUME NEW i \in DOMAIN entries
      PROVE  entries'[i].key = entries[i].key /\ entries'[i].tx = entries[i].tx
  BY ZenonT(30), <1>2, <1>5 DEF EntryType
<1>7. StatusTypes' BY Zenon, <1>1, <1>4 DEF StatusTypes, Basics, statusVars
<1>8. SessionOrder' BY Zenon, <1>1 DEF SessionOrder, Basics, statusVars, vars
<1>9. MakersHoldKeys'
  BY <1>1, <1>4, <1>6 DEF MakersHoldKeys, Basics, statusVars, vars
<1>10. ASSUME "gap" \notin met' PROVE Unique'
  <2>1. Unique BY Zenon, <1>1, <1>10
  <2>2. ASSUME NEW u \in Txns PROVE SameKey(u)' = SameKey(u)
    BY Zenon, <1>1, <1>4, <1>6 DEF SameKey, LockedKey, vars
  <2>3. ASSUME NEW i \in DOMAIN entries, NEW u \in Txns, state[u] # "aborted",
               Superseded(entries[i], u)
        PROVE  (Superseded(entries[i], u))'
    <3>1. CASE i # d BY ZenonT(30), <1>1, <1>5, <2>3, <3>1 DEF Superseded, statusVars
    <3>2. CASE i = d
      <4>1. entries[d].del # u BY ZenonT(30), <1>1, <2>3, UniqueKeyAssumption
      <4>2. state[entries[d].tx] = "aborted" BY ZenonT(30), <1>1, <2>3, <3>2, <4>1 DEF Superseded
      <4> QED BY ZenonT(30), <1>1, <1>6, <3>2, <4>2 DEF Superseded, statusVars
    <3> QED BY Zenon, <3>1, <3>2
  <2>4. ProbeSees'
    <3> SUFFICES ASSUME NEW u \in Txns, stage[u] = "probing", NEW i \in SameKey(u)
                 PROVE  (\/ entries[i].tx = u \/ state[entries[i].tx] = "aborted"
                         \/ IsTxVisible(entries[i].tx, latest[u]))'
      BY Zenon, <1>1, <2>2 DEF ProbeSees
    <3>1. i \in DOMAIN entries BY Zenon DEF SameKey
    <3>2. \/ entries[i].tx = u \/ state[entries[i].tx] = "aborted"
          \/ IsTxVisible(entries[i].tx, latest[u])
      BY SMTT(30), <2>1 DEF Unique, ProbeSees
    <3> QED BY ZenonT(30), <1>1, <1>6, <3>1, <3>2 DEF IsTxVisible, statusVars
  <2>5. ProbeCleared'
    <3> SUFFICES ASSUME NEW u \in Txns, stage[u] = "clear", NEW i \in SameKey(u)
                 PROVE  (Superseded(entries[i], u))'
      BY Zenon, <1>1, <2>2 DEF ProbeCleared
    <3>1. i \in DOMAIN entries /\ Superseded(entries[i], u)
      BY Zenon, <2>1 DEF Unique, ProbeCleared, SameKey
    <3>2. state[u] = "open" BY Zenon DEF Basics, SessionOrder
    <3> QED BY Zenon, <2>3, <3>1, <3>2
  <2>6. LaterSupersedes'
    <3> SUFFICES ASSUME NEW i \in DOMAIN entries, NEW j \in DOMAIN entries, i < j,
                        entries[i].key = entries[j].key
                 PROVE  (state[entries[j].tx] = "aborted" \/ Superseded(entries[i], entries[j].tx))'
      BY Zenon, <1>4, <1>6 DEF LaterSupersedes
    <3>1. state[entries[j].tx] = "aborted" \/ Superseded(entries[i], entries[j].tx)
      BY Zenon, <2>1 DEF Unique, LaterSupersedes
    <3>2. CASE state[entries[j].tx] = "aborted" BY ZenonT(30), <1>1, <1>6, <3>2 DEF statusVars
    <3>3. CASE state[entries[j].tx] # "aborted"
      <4>1. PICK u \in Txns : u = entries[j].tx BY Zenon, <1>2
      <4>2. state[u] # "aborted" /\ Superseded(entries[i], u) BY ZenonT(30), <3>1, <3>3, <4>1
      <4>3. (Superseded(entries[i], u))' BY Zenon, <2>3, <4>2
      <4>4. entries'[j].tx = u BY Zenon, <1>6, <4>1
      <4> QED BY Zenon, <4>3, <4>4 DEF Superseded
    <3> QED BY Zenon, <3>2, <3>3
  <2> QED BY Zenon, <2>4, <2>5, <2>6 DEF Unique
<1> QED BY ZenonT(30), <1>7, <1>8, <1>9, <1>10 DEF UniqueInv

-----------------------------------------------------------------------------
\* Every step of a session keeps the invariant.
LEMMA UniqueStep == IInv /\ UniqueInv /\ [NextAll]_allVars => UniqueInv'
<1> SUFFICES ASSUME IInv, UniqueInv, [NextAll]_allVars PROVE UniqueInv' OBVIOUS
<1>1. Basics /\ ("gap" \notin met => Unique) BY Zenon DEF Basics, UniqueInv
<1>2. CASE UNCHANGED allVars
  <2>1. UNCHANGED <<vars, statusVars, entries, stage, latest, met>>
    BY Zenon, <1>2 DEF allVars, indexVars
  <2>2. StatusTypes' /\ SessionOrder' /\ MakersHoldKeys'
    BY Zenon, <1>1, <2>1
       DEF Basics, vars, statusVars, StatusTypes, SessionOrder, MakersHoldKeys, LockedKey
  <2>3. Unique => Unique'
    BY Zenon, <2>1 DEF vars, statusVars, Unique, ProbeSees, ProbeCleared, LaterSupersedes,
                       Superseded, SameKey, LockedKey, IsTxVisible
  <2> QED BY Zenon, <1>1, <2>1, <2>2, <2>3 DEF UniqueInv
<1>3. ASSUME NEW t \in Txns, Session(t) PROVE UniqueInv'
  BY Zenon, <1>1, <1>3, LockSteps, StatusSteps, TakeLatestStep, LookupStep, InsertStep, DeleteStep
     DEF Session
<1> QED BY Zenon, <1>2, <1>3 DEF NextAll

\* The invariant holds in every state of the composition.
LEMMA UniqueInvariance == SpecAll => []UniqueInv
<1> QED BY InitUnique, UniqueStep, LockInvariant, PTL DEF SpecAll

\* Within the sessions, too, the depth of a key is the number of guards its
\* owner has collected (UniqueKeyLockTable as the SQL executor uses it).
THEOREM SessionsCountGuards == SpecAll => []DepthCountsGuards
<1>1. IInv => DepthCountsGuards BY Zenon DEF IInv
<1> QED BY <1>1, LockInvariant, PTL

\* In no snapshot do two committed rows have the same unique key, for any number
\* of sessions and keys, unless a probe met a commit that was not published
\* (probe_unique_for_conflict, maintain_indexes_on_insert and _on_delete).
THEOREM UniquenessIsKept ==
  ASSUME "gap" \notin Hazards PROVE SpecAll => []KeysAreUnique
<1>1. ASSUME UniqueInv PROVE KeysAreUnique
  <2> SUFFICES ASSUME "gap" \notin met, NEW s \in 0..nextCsn,
                      NEW i \in DOMAIN entries, NEW j \in DOMAIN entries,
                      entries[i].key = entries[j].key,
                      LiveAt(entries[i], s), LiveAt(entries[j], s), i < j
               PROVE  FALSE
    <3>1. DOMAIN entries = 1..Len(entries) /\ Len(entries) \in Nat
      BY <1>1 DEF UniqueInv, StatusTypes
    <3>2. \A i, j \in DOMAIN entries : i < j \/ j < i \/ i = j BY <3>1
    <3> QED BY Zenon, <3>2 DEF KeysAreUnique
  <2>1. entries[i].tx \in Txns /\ entries[j].tx \in Txns /\ entries[i].del \in Txns \cup {NoTx}
    BY Zenon, <1>1, EntriesTyped DEF UniqueInv
  <2>2. state[entries[i].tx] = "committed" /\ state[entries[j].tx] = "committed"
        /\ csn[entries[j].tx] <= s
    BY SMTT(30) DEF LiveAt, IsTxVisible
  <2>3. Superseded(entries[i], entries[j].tx)
    BY Zenon, <1>1, <2>2 DEF UniqueInv, Unique, LaterSupersedes
  <2>4. entries[i].del # NoTx /\ state[entries[i].del] = "committed"
        /\ csn[entries[i].del] <= csn[entries[j].tx]
    <3>1. \A x \in Txns : csn[x] \in Nat BY Zenon, <1>1 DEF UniqueInv, StatusTypes
    <3> QED BY <2>1, <2>2, <2>3, <3>1, UniqueKeyAssumption DEF Superseded
  <2>5. csn[entries[i].del] <= s
    <3>1. /\ \A x \in Txns : csn[x] \in Nat
          /\ s \in Int
      BY <1>1 DEF UniqueInv, StatusTypes
    <3> QED BY <2>1, <2>2, <2>4, <3>1
  <2> QED BY Zenon, <2>4, <2>5 DEF LiveAt, IsTxVisible
<1> QED BY <1>1, UniqueInvariance, PTL

-----------------------------------------------------------------------------
(* Waiting ends.                                                           *)

\* A session that waits for a key holds no other, unless keys have crossed.
ParkedHoldNothing ==
  "crossed" \in met \/ \A t \in Txns : phase[t] = "parked" => guards[t] = <<>>

\* Every step keeps a parked session without guards: guards are collected by
\* running sessions, and one that parks with guards is noted.
LEMMA ParkedStep ==
  ASSUME IInv, ParkedHoldNothing, [NextAll]_allVars
  PROVE  ParkedHoldNothing'
<1>1. CASE UNCHANGED <<phase, guards>> /\ met \subseteq met' BY Zenon, <1>1 DEF ParkedHoldNothing
<1>2. UNCHANGED allVars => UNCHANGED <<phase, guards, met>> BY Zenon DEF allVars, vars, indexVars
<1>3. ASSUME NEW t \in Txns, NEW k \in Keys, LockFree(t, k) \/ LockAgain(t, k), met' = met
      PROVE  ParkedHoldNothing'
  <2>1. phase[t] = "running" /\ phase' = phase /\ \A u \in Txns \ {t} : guards'[u] = guards[u]
    BY Zenon, <1>3 DEF LockFree, LockAgain, MayLock, IInv, Types
  <2> QED BY Zenon, <1>3, <2>1 DEF ParkedHoldNothing
<1>4. ASSUME NEW t \in Txns, NEW k \in Keys, Enqueue(t, k),
             met' = met \cup IF guards[t] = <<>> THEN {} ELSE {"crossed"}
      PROVE  ParkedHoldNothing'
  <2>1. guards' = guards /\ \A u \in Txns \ {t} : phase'[u] = phase[u]
    BY Zenon, <1>4 DEF Enqueue, IInv, Types
  <2> QED BY Zenon, <1>4, <2>1 DEF ParkedHoldNothing
<1>5. ASSUME NEW t \in Txns, WakeTake(t), met' = met PROVE ParkedHoldNothing'
  <2>1. /\ phase'[t] = "running"
        /\ \A u \in Txns \ {t} : phase'[u] = phase[u] /\ guards'[u] = guards[u]
    BY Zenon, <1>5 DEF WakeTake, IInv, Types
  <2> QED BY Zenon, <1>5, <2>1 DEF ParkedHoldNothing
<1>6. ASSUME NEW t \in Txns, EndTx(t) \/ DropGuard(t) \/ Close(t), met' = met
      PROVE  ParkedHoldNothing'
  <2>1. /\ phase'[t] # "parked"
        /\ \A u \in Txns \ {t} : phase'[u] = phase[u] /\ guards'[u] = guards[u]
    BY Zenon, <1>6 DEF EndTx, DropGuard, Close, IInv, Types
  <2> QED BY Zenon, <1>6, <2>1 DEF ParkedHoldNothing
<1>7. ASSUME NEW t \in Txns, Session(t) PROVE ParkedHoldNothing'
  <2>1. CASE LockKey(t) BY ZenonT(30), <1>3, <1>4, <2>1 DEF LockKey
  <2>2. CASE Wake(t)
    <3>1. met' = met /\ (WakeTake(t) \/ WakeBusy(t)) BY Zenon, <2>2 DEF Wake, indexVars
    <3>2. WakeBusy(t) => UNCHANGED <<phase, guards>> BY Zenon DEF WakeBusy
    <3> QED BY ZenonT(30), <1>1, <1>5, <3>1, <3>2
  <2>3. CASE ClearGuards(t) BY Zenon, <1>6, <2>3 DEF ClearGuards, indexVars
  <2>4. TakeLatest(t) \/ Lookup(t) \/ InsertEntry(t) \/ DeleteEntry(t) \/ BeginTx(t)
        \/ ReserveCsn(t) \/ ResolveCsn(t, "committed") \/ ResolveCsn(t, "aborted")
        \/ Rollback(t) => UNCHANGED <<phase, guards>> /\ met \subseteq met'
    BY Zenon DEF TakeLatest, Lookup, InsertEntry, DeleteEntry, BeginTx, ReserveCsn, ResolveCsn,
           Rollback, vars, indexVars
  <2> QED BY ZenonT(30), <1>1, <1>7, <2>1, <2>2, <2>3, <2>4 DEF Session
<1> QED BY Zenon, <1>1, <1>2, <1>7 DEF NextAll

\* A session that is parked while all the others wait or have ended cannot be:
\* if its key is free, the head of the queue has been woken; if not, its owner
\* has a guard, and neither a parked nor a closed session has one.
LEMMA WaiterIsServed ==
  ASSUME IInv, HandOnInv, "crossed" \notin met, ParkedHoldNothing,
         \A u \in Txns : Waits(u), NEW t \in Txns, phase[t] = "parked"
  PROVE  FALSE
<1> DEFINE k == want[t]
<1>1. k \in Keys /\ waiters[k] # <<>>
  <2>1. k \in Keys /\ \E i \in 1..Len(waiters[k]) : waiters[k][i] = t BY Zenon DEF IInv, Queues
  <2>2. Len(<<>>) = 0 OBVIOUS
  <2> QED BY <2>1, <2>2
<1> HIDE DEF k
<1>2. CASE owner[k] = NoTx
  <2>1. waiters[k][1] \in notified BY Zenon, <1>1, <1>2 DEF HandOnInv, HandedOn
  <2>2. waiters[k][1] \in Txns /\ phase[waiters[k][1]] = "parked" BY Zenon, <2>1 DEF IInv, Types
  <2> QED BY Zenon, <2>1, <2>2 DEF Waits
<1>3. CASE owner[k] # NoTx
  <2> DEFINE u == owner[k]
  <2>1. u \in Txns BY Zenon, <1>1, <1>3 DEF IInv, Types
  <2>2. guards[u] = <<>>
    BY Zenon, <2>1 DEF Waits, ParkedHoldNothing, HandOnInv, ClosedLetGo
  <2>3. {i \in DOMAIN guards[u] : guards[u][i] = k} = {} BY <2>2
  <2>4. GuardCount(u, k) = 0 BY ZenonT(30), <2>3, FS_EmptySet DEF GuardCount
  <2>5. depth[k] = 0 BY ZenonT(30), <1>1, <2>1, <2>4 DEF IInv, DepthCountsGuards
  <2> QED BY <1>1, <1>3, <2>5 DEF HandOnInv, OwnedIsHeld
<1> QED BY Zenon, <1>2, <1>3

\* As long as a session is parked in UniqueKeyLockTable::lock, some session can
\* go on, for any number of sessions and keys: unless a session waits for one
\* key with another in its hands, or a condition variable wakes by itself.
THEOREM SomebodyCanGoOn ==
  ASSUME ~SpuriousWakes, "crossed" \notin Hazards PROVE SpecAll => []NobodyStranded
<1>1. InitAll => ParkedHoldNothing BY Zenon DEF InitAll, Init, ParkedHoldNothing
<1>2. SpecAll => []ParkedHoldNothing BY <1>1, ParkedStep, LockInvariant, PTL DEF SpecAll
<1>3. SpecAll => []HandOnInv
  <2>1. InitAll => Init BY Zenon DEF InitAll
  <2>2. [NextAll]_allVars => [Next]_vars BY Zenon, SessionUsesLock DEF NextAll, allVars
  <2>3. SpecAll => Spec BY <2>1, <2>2, PTL DEF SpecAll, Spec
  <2> QED BY <2>3, KeysAreHandedOn, PTL
<1>4. IInv /\ HandOnInv /\ ParkedHoldNothing => NobodyStranded
  <2> SUFFICES ASSUME IInv, HandOnInv, ParkedHoldNothing, "crossed" \notin met,
                      \A u \in Txns : Waits(u), NEW t \in Txns
               PROVE  phase[t] = "closed"
    BY Zenon DEF NobodyStranded
  <2>1. phase[t] = "closed" \/ phase[t] = "parked" BY Zenon DEF Waits
  <2> QED BY ZenonT(30), <2>1, WaiterIsServed
<1> QED BY <1>2, <1>3, <1>4, LockInvariant, PTL
=============================================================================
