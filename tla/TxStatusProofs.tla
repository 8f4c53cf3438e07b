--------------------------- MODULE TxStatusProofs ---------------------------
(***************************************************************************)
(* Proofs about the transaction status table, for any number of client     *)
(* threads and of transactions, and about what advance_published_csn       *)
(* computes, for every frontier and every set of resolved CSNs.            *)
(***************************************************************************)
EXTENDS TxStatus, WellFoundedInduction, TLAPS

\* Every nonempty set of CSNs has a smallest one: the loop of
\* advance_published_csn stops there.
LEMMA LeastNat ==
  ASSUME NEW T, T \subseteq Nat, T # {}
  PROVE  \E m \in T : \A y \in T : m <= y
<1> DEFINE R == OpToRel(<, Nat)
<1>1. IsWellFoundedOn(R, Nat)
  BY Zenon, NatLessThanWellFounded, Zenon
<1>2. \E x \in T : \A y \in T : ~ (<<y, x>> \in R)
  <2> HIDE DEF R
  <2> QED BY Zenon, <1>1, WFMin, Zenon
<1>3. R = {ss \in Nat \X Nat : ss[1] < ss[2]}
  BY Zenon DEF OpToRel
<1>4. \A x, y \in Nat : y < x => <<y, x>> \in R
  <2> HIDE DEF R
  <2> QED BY Zenon, <1>3
<1>5. QED
  <2> HIDE DEF R
  <2>1. PICK x \in T : \A y \in T : ~ (<<y, x>> \in R)
    BY Zenon, <1>2
  <2>2. ASSUME NEW y \in T PROVE x <= y
    <3>1. x \in Nat /\ y \in Nat OBVIOUS
    <3>2. ~ (y < x) BY Zenon, <3>1, <2>1, <1>4
    <3> QED BY <3>1, <3>2
  <2> QED BY Zenon, <2>2

\* When all resolved CSNs are below next_csn, advance_published_csn moves the
\* frontier to the end of the unbroken run of resolved CSNs that follows it:
\* no gap is jumped and no resolved CSN right after the frontier is left.
LEMMA AdvanceIsMaximalRun ==
  ASSUME NEW p \in Nat, NEW n \in Nat, p < n,
         NEW S, S \subseteq Nat, \A k \in S : k < n
  PROVE  LET k == AdvancePublished(p, S)
         IN  /\ k \in {p} \cup S
             /\ k >= p
             /\ (p + 1)..k \subseteq S
             /\ k + 1 \notin S
<1> DEFINE T == {m \in Nat : m > p /\ m \notin S}
           P(k) == /\ k >= p
                   /\ (p + 1)..k \subseteq S
                   /\ k + 1 \notin S
<1>1. PICK m \in T : \A y \in T : m <= y
  <2>1. n \in T OBVIOUS
  <2> QED BY Zenon, <2>1, LeastNat
<1>2. m - 1 \in {p} \cup S
  <2>1. CASE m - 1 = p BY Zenon, <2>1
  <2>2. CASE m - 1 # p
    <3>1. m - 1 \in Nat /\ m - 1 > p BY <2>2, <1>1
    <3>2. m - 1 \notin T BY <3>1, <1>1
    <3> QED BY Zenon, <3>1, <3>2
  <2> QED BY Zenon, <2>1, <2>2
<1>3. P(m - 1)
  <2>1. ASSUME NEW j \in (p + 1)..(m - 1) PROVE j \in S
    <3>1. j \in Nat /\ j > p /\ j < m BY <2>1, <1>1
    <3> QED BY <3>1, <1>1
  <2> QED BY <2>1, <1>1
<1>4. \E k \in {p} \cup S : P(k)
  BY Zenon, <1>2, <1>3
<1>5. AdvancePublished(p, S) = CHOOSE k \in {p} \cup S : P(k)
  BY Zenon DEF AdvancePublished
<1> HIDE DEF P
<1>6. AdvancePublished(p, S) \in {p} \cup S /\ P(AdvancePublished(p, S))
  BY Zenon, <1>4, <1>5
<1> QED BY Zenon, <1>6 DEF P

\* The CSN ledger: every CSN below next_csn is published, held by exactly one
\* committing thread, or parked in completed or skipped behind a gap.
Ledger ==
  /\ publishedCsn < nextCsn
  /\ \A c \in Holding : publishedCsn < csn[c] /\ csn[c] < nextCsn
  /\ \A c, d \in Holding : csn[c] = csn[d] => c = d
  /\ \A k \in completed \cup skipped :
       publishedCsn + 1 < k /\ k < nextCsn /\ k \notin Unresolved
  /\ \A k \in Nat : publishedCsn < k /\ k < nextCsn
                    => k \in Unresolved \cup completed \cup skipped

\* Each open transaction belongs to one thread, and its state is InProgress
\* until that thread stamps it.
Ownership ==
  /\ \A c \in Clients : pc[c] # "idle" => tx[c] >= 1 /\ tx[c] < nextTx
  /\ \A c, d \in Clients : pc[c] # "idle" /\ pc[d] # "idle" /\ tx[c] = tx[d]
                           => c = d
  /\ \A c \in Clients :
       pc[c] \in {"begun", "snapped", "open", "fetched", "reserved", "aborting"}
       => states[tx[c]] = InProgress
  /\ \A t \in TxIds : t >= nextTx => states[t] = Missing

IInv == TypeOK /\ Ledger /\ Ownership

\* The table as with_shards builds it satisfies the invariant.
LEMMA InitIInv == Init => IInv
<1> SUFFICES ASSUME Init PROVE IInv OBVIOUS
<1> USE MaxTxAssumption DEF Init
<1>1. TypeOK
  BY DEF TypeOK, TxIds, TxStates, Missing, NoSnapshot, Positions
<1>2. Ledger
  BY DEF Ledger, Holding, Unresolved
<1>3. Ownership
  BY Zenon DEF Ownership
<1> QED BY Zenon, <1>1, <1>2, <1>3 DEF IInv

\* A step that leaves the counters, the frontier and the held CSNs alone keeps
\* the ledger; most steps of a client are of this kind.
LEMMA LedgerFrame ==
  ASSUME Ledger, Holding' = Holding,
         UNCHANGED <<nextCsn, publishedCsn, completed, skipped, csn>>
  PROVE  Ledger'
<1>1. Unresolved' = Unresolved BY Zenon DEF Unresolved
<1> QED BY Zenon, <1>1 DEF Ledger

\* complete_csn and skip_csn keep the ledger: the resolved CSN is parked or
\* published with the run it closes, and no CSN is lost or counted twice.
LEMMA ResolveKeepsLedger ==
  ASSUME IInv, NEW c \in Clients, pc[c] \in {"reserved", "stamped"},
         NEW C, NEW S, C \cup S = completed \cup skipped \cup {csn[c]},
         C \subseteq Nat, S \subseteq Nat,
         Resolve(c, C, S),
         NEW to \in {"closing", "aborting"}, pc' = [pc EXCEPT ![c] = to],
         UNCHANGED <<nextCsn, csn>>
  PROVE  /\ Ledger'
         /\ publishedCsn' \in Nat
         /\ pending' \subseteq Nat
         /\ completed' \subseteq Nat
         /\ skipped' \subseteq Nat
         /\ publishedCsn' >= publishedCsn
<1> DEFINE done == C \cup S
           k == AdvancePublished(publishedCsn, done)
<1>1. TypeOK /\ Ledger BY Zenon DEF IInv
<1>2. c \in Holding /\ csn[c] \in Nat /\ publishedCsn < csn[c] /\ csn[c] < nextCsn
  BY Zenon, <1>1 DEF Holding, Ledger, TypeOK
<1>3. publishedCsn \in Nat /\ nextCsn \in Nat /\ publishedCsn < nextCsn
  BY Zenon, <1>1 DEF Ledger, TypeOK
<1>4. \A j \in done : j \in Nat /\ publishedCsn < j /\ j < nextCsn
  BY <1>1, <1>2, <1>3 DEF Ledger, TypeOK
<1>5. /\ k \in {publishedCsn} \cup done
      /\ k >= publishedCsn
      /\ (publishedCsn + 1)..k \subseteq done
      /\ k + 1 \notin done
  <2> HIDE DEF done
  <2>1. done \subseteq Nat /\ \A j \in done : j < nextCsn BY Zenon, <1>4
  <2> QED BY Zenon, <1>3, <2>1, AdvanceIsMaximalRun
<1>6. k \in Nat /\ k < nextCsn
  BY Zenon, <1>3, <1>4, <1>5
<1>7. /\ publishedCsn' = k
      /\ completed' = C \ ((publishedCsn + 1)..k)
      /\ skipped' = S \ ((publishedCsn + 1)..k)
      /\ pending' = pending \ {csn[c]}
  BY Zenon DEF Resolve, Consumed
<1> HIDE DEF k
<1>8. Holding' = Holding \ {c}
  BY Zenon, <1>1 DEF Holding, TypeOK
<1>9. Unresolved' = Unresolved \ {csn[c]}
  <2>1. \A d \in Holding : csn[d] = csn[c] => d = c
    BY Zenon, <1>1, <1>2 DEF Ledger
  <2> QED BY Zenon, <1>8, <2>1, <1>2 DEF Unresolved
<1>10. completed' \cup skipped' = done \ ((publishedCsn + 1)..k)
  BY Zenon, <1>7
<1>11. \A j \in done : j \notin Unresolved'
  BY Zenon, <1>9, <1>1 DEF Ledger
<1>12. \A d \in Holding' : k < csn[d] /\ csn[d] < nextCsn
  <2> SUFFICES ASSUME NEW d \in Holding' PROVE k < csn[d] /\ csn[d] < nextCsn
    OBVIOUS
  <2>1. d \in Holding /\ csn[d] \in Unresolved' /\ csn[d] \in Nat
    BY Zenon, <1>8, <1>1 DEF Unresolved, Holding, TypeOK
  <2>2. csn[d] \notin done /\ publishedCsn < csn[d] /\ csn[d] < nextCsn
    BY Zenon, <2>1, <1>11, <1>1 DEF Ledger
  <2> HIDE DEF done
  <2>3. csn[d] \notin (publishedCsn + 1)..k
    BY Zenon, <2>2, <1>5
  <2> QED BY <2>1, <2>2, <2>3, <1>3, <1>6
<1>13. \A d, e \in Holding' : csn[d] = csn[e] => d = e
  BY Zenon, <1>8, <1>1 DEF Ledger
<1>14. \A j \in completed' \cup skipped' : k + 1 < j /\ j < nextCsn /\ j \notin Unresolved'
  <2> SUFFICES ASSUME NEW j \in done, j \notin (publishedCsn + 1)..k
               PROVE  k + 1 < j /\ j < nextCsn /\ j \notin Unresolved'
    BY Zenon, <1>10
  <2>1. j \in Nat /\ publishedCsn < j /\ j < nextCsn /\ j # k + 1
    BY Zenon, <1>4, <1>5
  <2> QED BY <2>1, <1>11, <1>3, <1>6
<1>15. ASSUME NEW j \in Nat, k < j, j < nextCsn
       PROVE  j \in Unresolved' \cup completed' \cup skipped'
  <2>1. publishedCsn < j BY <1>15, <1>3, <1>5, <1>6
  <2>2. j \in Unresolved \cup completed \cup skipped
    BY Zenon, <2>1, <1>15, <1>1 DEF Ledger
  <2>3. j \in Unresolved' \cup done BY Zenon, <2>2, <1>9
  <2>4. j \notin (publishedCsn + 1)..k BY <1>15, <1>3, <1>6
  <2> QED BY Zenon, <2>3, <2>4, <1>10
<1>16. Ledger'
  <2> HIDE DEF done
  <2> QED BY Zenon, <1>6, <1>7, <1>12, <1>13, <1>14, <1>15 DEF Ledger
<1> QED BY Zenon, <1>16, <1>5, <1>6, <1>7, <1>1 DEF TypeOK

\* Every step of a client thread keeps the invariant.
LEMMA ClientStepIInv ==
  ASSUME IInv, NEW c \in Clients, ClientStep(c)
  PROVE  IInv'
<1> USE MaxTxAssumption DEF Goto, table, frontier, locals, Positions
<1>0. TypeOK /\ Ledger /\ Ownership BY Zenon DEF IInv
<1> USE <1>0
<1>1. CASE Begin(c)
  <2> USE <1>1 DEF Begin
  <2>1. TypeOK' BY DEF TypeOK, TxIds, TxStates, InProgress
  <2>2. Ledger'
    <3>1. Holding' = Holding BY Zenon DEF Holding, TypeOK
    <3> QED BY Zenon, <3>1, LedgerFrame
  <2>3. Ownership' BY DEF Ownership, TypeOK, TxIds
  <2> QED BY Zenon, <2>1, <2>2, <2>3 DEF IInv
<1>2. CASE TakeSnapshot(c)
  <2> USE <1>2 DEF TakeSnapshot
  <2>1. TypeOK' BY Zenon DEF TypeOK
  <2>2. Ledger'
    <3>1. Holding' = Holding BY Zenon DEF Holding, TypeOK
    <3> QED BY Zenon, <3>1, LedgerFrame
  <2>3. Ownership' BY Zenon DEF Ownership, TypeOK, TxIds
  <2> QED BY Zenon, <2>1, <2>2, <2>3 DEF IInv
<1>3. CASE RegisterSnapshot(c)
  <2> USE <1>3 DEF RegisterSnapshot
  <2>1. TypeOK' BY Zenon DEF TypeOK, NoSnapshot
  <2>2. Ledger'
    <3>1. Holding' = Holding BY Zenon DEF Holding, TypeOK
    <3> QED BY Zenon, <3>1, LedgerFrame
  <2>3. Ownership' BY Zenon DEF Ownership, TypeOK, TxIds
  <2> QED BY Zenon, <2>1, <2>2, <2>3 DEF IInv
<1>4. CASE Refresh(c)
  <2> USE <1>4 DEF Refresh
  <2>1. TypeOK' BY Zenon DEF TypeOK
  <2>2. Ledger'
    <3>1. Holding' = Holding BY Zenon DEF Holding, TypeOK
    <3> QED BY Zenon, <3>1, LedgerFrame
  <2>3. Ownership' BY Zenon DEF Ownership, TypeOK, TxIds
  <2> QED BY Zenon, <2>1, <2>2, <2>3 DEF IInv
<1>5. CASE FetchCsn(c)
  <2> USE <1>5 DEF FetchCsn
  <2>1. TypeOK' BY DEF TypeOK
  <2>2. Ledger'
    <3>1. Holding' = Holding \cup {c} /\ c \notin Holding
      BY Zenon DEF Holding, TypeOK
    <3>2. Unresolved' = Unresolved \cup {nextCsn}
      <4>1. \A d \in Holding : csn'[d] = csn[d]
        BY Zenon, <3>1 DEF TypeOK, Holding
      <4>2. csn'[c] = nextCsn BY Zenon DEF TypeOK
      <4> QED BY Zenon, <3>1, <4>1, <4>2 DEF Unresolved
    <3>3. \A d \in Holding' : publishedCsn < csn'[d] /\ csn'[d] < nextCsn'
      BY <3>1 DEF Ledger, TypeOK, Holding
    <3>4. \A d, e \in Holding' : csn'[d] = csn'[e] => d = e
      BY <3>1 DEF Ledger, TypeOK, Holding
    <3>5. \A k \in completed \cup skipped :
            publishedCsn + 1 < k /\ k < nextCsn' /\ k \notin Unresolved'
      BY <3>2 DEF Ledger, TypeOK
    <3>6. \A k \in Nat : publishedCsn < k /\ k < nextCsn'
                         => k \in Unresolved' \cup completed \cup skipped
      BY <3>2 DEF Ledger, TypeOK
    <3> QED BY <3>3, <3>4, <3>5, <3>6 DEF Ledger, TypeOK
  <2>3. Ownership' BY Zenon DEF Ownership, TypeOK, TxIds
  <2> QED BY Zenon, <2>1, <2>2, <2>3 DEF IInv
<1>6. CASE InsertPending(c)
  <2> USE <1>6 DEF InsertPending
  <2>1. TypeOK' BY Zenon DEF TypeOK
  <2>2. Ledger'
    <3>1. Holding' = Holding BY Zenon DEF Holding, TypeOK
    <3> QED BY Zenon, <3>1, LedgerFrame
  <2>3. Ownership' BY Zenon DEF Ownership, TypeOK, TxIds
  <2> QED BY Zenon, <2>1, <2>2, <2>3 DEF IInv
<1>7. CASE SetCommitted(c)
  <2> USE <1>7 DEF SetCommitted
  <2>1. TypeOK' BY Zenon DEF TypeOK, TxStates, Committed
  <2>2. Ledger'
    <3>1. Holding' = Holding BY Zenon DEF Holding, TypeOK
    <3> QED BY Zenon, <3>1, LedgerFrame
  <2>3. Ownership' BY DEF Ownership, TypeOK, TxIds
  <2> QED BY Zenon, <2>1, <2>2, <2>3 DEF IInv
<1>8. CASE CompleteCsn(c)
  <2> USE <1>8 DEF CompleteCsn
  <2>1. /\ Ledger' /\ publishedCsn' \in Nat /\ pending' \subseteq Nat
        /\ completed' \subseteq Nat /\ skipped' \subseteq Nat
    <3>1. csn[c] \in Nat BY Zenon DEF TypeOK
    <3>2. /\ completed \cup {csn[c]} \subseteq Nat
          /\ skipped \subseteq Nat
      BY Zenon, <3>1 DEF TypeOK
    <3> QED BY Zenon, <3>2, ResolveKeepsLedger
  <2>2. TypeOK' BY Zenon, <2>1 DEF TypeOK
  <2>3. Ownership' BY Zenon DEF Ownership, TypeOK, TxIds
  <2> QED BY Zenon, <2>1, <2>2, <2>3 DEF IInv
<1>9. CASE CancelCsn(c)
  <2> USE <1>9 DEF CancelCsn
  <2>1. /\ Ledger' /\ publishedCsn' \in Nat /\ pending' \subseteq Nat
        /\ completed' \subseteq Nat /\ skipped' \subseteq Nat
    <3>1. csn[c] \in Nat BY Zenon DEF TypeOK
    <3>2. /\ completed \subseteq Nat
          /\ skipped \cup {csn[c]} \subseteq Nat
      BY Zenon, <3>1 DEF TypeOK
    <3> QED BY Zenon, <3>2, ResolveKeepsLedger
  <2>2. TypeOK' BY Zenon, <2>1 DEF TypeOK
  <2>3. Ownership' BY Zenon DEF Ownership, TypeOK, TxIds
  <2> QED BY Zenon, <2>1, <2>2, <2>3 DEF IInv
<1>10. CASE GiveUp(c)
  <2> USE <1>10 DEF GiveUp
  <2>1. TypeOK' BY Zenon DEF TypeOK
  <2>2. Ledger'
    <3>1. Holding' = Holding BY Zenon DEF Holding, TypeOK
    <3> QED BY Zenon, <3>1, LedgerFrame
  <2>3. Ownership' BY Zenon DEF Ownership, TypeOK, TxIds
  <2> QED BY Zenon, <2>1, <2>2, <2>3 DEF IInv
<1>11. CASE SetAborted(c)
  <2> USE <1>11 DEF SetAborted
  <2>1. TypeOK' BY Zenon DEF TypeOK, TxStates, Aborted
  <2>2. Ledger'
    <3>1. Holding' = Holding BY Zenon DEF Holding, TypeOK
    <3> QED BY Zenon, <3>1, LedgerFrame
  <2>3. Ownership' BY DEF Ownership, TypeOK, TxIds
  <2> QED BY Zenon, <2>1, <2>2, <2>3 DEF IInv
<1>12. CASE Unregister(c)
  <2> USE <1>12 DEF Unregister
  <2>1. TypeOK' BY Zenon DEF TypeOK, NoSnapshot
  <2>2. Ledger'
    <3>1. Holding' = Holding BY Zenon DEF Holding, TypeOK
    <3> QED BY Zenon, <3>1, LedgerFrame
  <2>3. Ownership' BY Zenon DEF Ownership, TypeOK, TxIds
  <2> QED BY Zenon, <2>1, <2>2, <2>3 DEF IInv
<1> QED
  BY Zenon, <1>1, <1>2, <1>3, <1>4, <1>5, <1>6, <1>7, <1>8, <1>9, <1>10, <1>11, <1>12
     DEF ClientStep

\* oldest_active_snapshot_csn returns a CSN: among the registered snapshots
\* there is a smallest one.
LEMMA HorizonIsCsn ==
  ASSUME TypeOK
  PROVE  OldestActiveSnapshotCsn \in Nat
<1>1. CASE Registered = {}
  BY Zenon, <1>1 DEF OldestActiveSnapshotCsn, TypeOK
<1>2. CASE Registered # {}
  <2> DEFINE T == {active[t] : t \in Registered}
             P(s) == \A t \in Registered : s <= active[t]
  <2>1. T \subseteq Nat /\ T # {}
    BY <1>2 DEF Registered, TypeOK, NoSnapshot
  <2>2. PICK s \in T : \A y \in T : s <= y
    <3> HIDE DEF T
    <3> QED BY Zenon, <2>1, LeastNat
  <2>3. P(s) BY Zenon, <2>2
  <2>4. OldestActiveSnapshotCsn = CHOOSE x \in T : P(x)
    BY Zenon, <1>2 DEF OldestActiveSnapshotCsn
  <2> HIDE DEF P
  <2>5. OldestActiveSnapshotCsn \in T BY Zenon, <2>2, <2>3, <2>4
  <2> QED BY Zenon, <2>5, <2>1
<1> QED BY Zenon, <1>1, <1>2

\* Every step of the system keeps the invariant.
LEMMA NextIInv == IInv /\ [Next]_vars => IInv'
<1> SUFFICES ASSUME IInv, [Next]_vars PROVE IInv' OBVIOUS
<1>1. CASE Vacuum
  <2> USE <1>1 DEF Vacuum, table, frontier, locals
  <2>0. TypeOK /\ Ledger /\ Ownership BY Zenon DEF IInv
  <2>1. TypeOK' BY Zenon, <2>0, HorizonIsCsn DEF TypeOK
  <2>2. Ledger'
    <3>1. Holding' = Holding BY Zenon DEF Holding
    <3> QED BY Zenon, <2>0, <3>1, LedgerFrame
  <2>3. Ownership' BY Zenon, <2>0 DEF Ownership
  <2> QED BY Zenon, <2>1, <2>2, <2>3 DEF IInv
<1>2. ASSUME NEW c \in Clients, ClientStep(c) PROVE IInv'
  BY Zenon, <1>2, ClientStepIInv
<1>3. CASE UNCHANGED vars
  <2> USE <1>3 DEF vars, table, frontier, locals
  <2>0. TypeOK /\ Ledger /\ Ownership BY Zenon DEF IInv
  <2>1. TypeOK' BY Zenon, <2>0 DEF TypeOK
  <2>2. Ledger'
    <3>1. Holding' = Holding BY Zenon DEF Holding
    <3> QED BY Zenon, <2>0, <3>1, LedgerFrame
  <2>3. Ownership' BY Zenon, <2>0 DEF Ownership
  <2> QED BY Zenon, <2>1, <2>2, <2>3 DEF IInv
<1> QED BY Zenon, <1>1, <1>2, <1>3 DEF Next

\* The invariant holds in every reachable state.
THEOREM Invariance == Spec => []IInv
  BY InitIInv, NextIInv, PTL DEF Spec

\* Type correctness of the status table.
THEOREM TypeCorrect == Spec => []TypeOK
<1>1. IInv => TypeOK BY Zenon DEF IInv
<1> QED BY <1>1, Invariance, PTL

\* published_csn is exactly the end of the resolved prefix, however the steps
\* of any number of committing, cancelling and aborting threads interleave.
THEOREM FrontierCorrect == Spec => []FrontierExact
<1>1. IInv => FrontierExact
  <2> SUFFICES ASSUME IInv PROVE FrontierExact OBVIOUS
  <2>1. TypeOK /\ Ledger BY Zenon DEF IInv
  <2>2. \A k \in Unresolved : publishedCsn < k
    BY Zenon, <2>1 DEF Ledger, Unresolved
  <2>3. publishedCsn + 1 \in Unresolved \cup {nextCsn}
    <3>1. publishedCsn \in Nat /\ nextCsn \in Nat /\ publishedCsn < nextCsn
      BY Zenon, <2>1 DEF Ledger, TypeOK
    <3>2. publishedCsn + 1 \notin completed \cup skipped
      BY <2>1, <3>1 DEF Ledger, TypeOK
    <3>3. CASE publishedCsn + 1 < nextCsn
      BY <2>1, <3>1, <3>2, <3>3 DEF Ledger
    <3> QED BY <3>1, <3>3
  <2> QED BY Zenon, <2>1, <2>2, <2>3 DEF FrontierExact, Ledger
<1> QED BY <1>1, Invariance, PTL

\* What a step does to the set of transactions a snapshot sees.
LEMMA StepKeepsSnapshots ==
  ASSUME IInv, [Next]_vars
  PROVE  \A s \in 0..publishedCsn : VisibleAt(s)' = VisibleAt(s)
<1> SUFFICES ASSUME NEW s \in 0..publishedCsn, NEW t \in TxIds
             PROVE  IsTxVisible(t, s)' <=> IsTxVisible(t, s)
  BY Zenon DEF VisibleAt
<1>0. TypeOK /\ Ledger /\ Ownership BY Zenon DEF IInv
<1>1. CASE states' = states
  BY Zenon, <1>1 DEF IsTxVisible, StateOf
<1>2. ASSUME NEW c \in Clients, Begin(c) \/ SetCommitted(c) \/ SetAborted(c)
      PROVE  IsTxVisible(t, s)' <=> IsTxVisible(t, s)
  <2> USE <1>0 DEF TypeOK, Goto
  <2>1. CASE Begin(c)
    <3>1. states[nextTx] = Missing /\ nextTx \in TxIds
      BY <2>1, MaxTxAssumption DEF Begin, Ownership, TxIds
    <3> QED BY Zenon, <2>1, <3>1 DEF Begin, IsTxVisible, StateOf, Missing, InProgress, Aborted
  <2>2. CASE SetCommitted(c)
    <3>1. states[tx[c]] = InProgress BY Zenon, <2>2 DEF SetCommitted, Ownership
    <3>2. c \in Holding BY Zenon, <2>2 DEF SetCommitted, Holding
    <3>3. ~ (csn[c] <= s)
      <4>1. publishedCsn < csn[c] BY Zenon, <3>2 DEF Ledger
      <4> QED BY <4>1
    <3> QED BY <2>2, <3>1, <3>3
        DEF SetCommitted, IsTxVisible, StateOf, Missing, InProgress, Aborted, Committed
  <2>3. CASE SetAborted(c)
    <3>1. states[tx[c]] = InProgress BY Zenon, <2>3 DEF SetAborted, Ownership
    <3> QED BY <2>3, <3>1
        DEF SetAborted, IsTxVisible, StateOf, Missing, InProgress, Aborted
  <2> QED BY Zenon, <1>2, <2>1, <2>2, <2>3
<1>3. CASE UNCHANGED vars
  BY Zenon, <1>1, <1>3 DEF vars, table
<1>4. CASE Vacuum
  BY Zenon, <1>1, <1>4 DEF Vacuum, table
<1>5. ASSUME NEW c \in Clients, ClientStep(c)
      PROVE  IsTxVisible(t, s)' <=> IsTxVisible(t, s)
  <2>1. states' = states \/ Begin(c) \/ SetCommitted(c) \/ SetAborted(c)
    BY Zenon, <1>5 DEF ClientStep, TakeSnapshot, RegisterSnapshot, Refresh, FetchCsn,
         InsertPending, CompleteCsn, CancelCsn, GiveUp, Unregister, table
  <2> QED BY Zenon, <2>1, <1>1, <1>2
<1> QED BY Zenon, <1>3, <1>4, <1>5 DEF Next

\* Snapshot stability: the answers of is_tx_visible for a CSN that snapshot()
\* can have returned never change again.
THEOREM SnapshotsAreStable == Spec => SnapshotStable
<1>1. IInv /\ [Next]_vars
      => [\A s \in 0..publishedCsn : VisibleAt(s)' = VisibleAt(s)]_vars
  BY Zenon, StepKeepsSnapshots
<1> QED BY <1>1, Invariance, PTL DEF Spec, SnapshotStable
=============================================================================
