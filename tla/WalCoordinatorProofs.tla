------------------------ MODULE WalCoordinatorProofs ------------------------
(***************************************************************************)
(* Proofs about the WAL coordinator, for any number of client threads and  *)
(* records and any sizes of the buffer and of the batches: what it         *)
(* publishes is behind the disk, an acknowledged Strict commit is durable, *)
(* and it implements the abstract log.                                     *)
(***************************************************************************)
EXTENDS WalCoordinator, SequenceTheorems, FiniteSetTheorems, TLAPS

Appending == {c \in Clients : pc[c] = "append"}

\* Every LSN that somebody waits for or publishes belongs to a record, and the
\* calls that have not got their record yet still fit the bound.
Positions ==
  /\ PublishedBehindDisk
  /\ {mgrWritten, flushRequested, flushTarget} \subseteq 0..reserved
  /\ \A c \in Clients : target[c] <= reserved
  /\ reserved + Cardinality(Appending) <= MaxRecords

\* The writer's batch and the queue, read as one list, continue the log at the
\* position of WalManager.
Queue ==
  ~failure => /\ mgrWritten + Len(batch) + Len(pending) = reserved
              /\ \A i \in 1..Len(batch) : batch[i] = mgrWritten + i
              /\ \A i \in 1..Len(pending) : pending[i] = mgrWritten + Len(batch) + i

\* What a thread's position says about its locals: the barrier a client is in
\* is the one of its durability, and the writer holds records only between
\* taking them and writing them.
Roles ==
  /\ \A c \in Clients :
       /\ pc[c] = "append" => job[c] \in {"log", "commit"}
       /\ pc[c] = "flush" => job[c] \in {"Strict", "checkpoint"} /\ target[c] >= 1
       /\ pc[c] = "write" => job[c] = "Normal" /\ target[c] >= 1
  /\ failure => wpc = "stopped"
  /\ wpc \in {"wait", "window", "drain", "flush", "publish"} => batch = <<>>
  /\ wpc = "publish" => synced = mgrWritten

IInv == TypeOK /\ Positions /\ Queue /\ Roles /\ AckedIsDurable

-----------------------------------------------------------------------------
\* Cutting a queue in two loses nothing: the lengths add up and every record
\* is found at its place in one of the parts.
LEMMA CutSequence ==
  ASSUME NEW S, NEW s \in Seq(S), NEW n \in 0..Len(s)
  PROVE  /\ Prefix(s, n) \in Seq(S) /\ Len(Prefix(s, n)) = n
         /\ \A i \in 1..n : Prefix(s, n)[i] = s[i]
         /\ Rest(s, n) \in Seq(S) /\ Len(Rest(s, n)) = Len(s) - n
         /\ \A i \in 1..(Len(s) - n) : Rest(s, n)[i] = s[n + i]
<1>1. Len(s) \in Nat /\ \A i \in 1..Len(s) : s[i] \in S OBVIOUS
<1>2. /\ SubSeq(s, 1, n) \in Seq(S)
      /\ Len(SubSeq(s, 1, n)) = IF 1 <= n THEN n - 1 + 1 ELSE 0
      /\ \A i \in 1..(n - 1 + 1) : SubSeq(s, 1, n)[i] = s[1 + i - 1]
  BY <1>1, SubSeqProperties
<1>3. /\ SubSeq(s, n + 1, Len(s)) \in Seq(S)
      /\ Len(SubSeq(s, n + 1, Len(s)))
           = IF n + 1 <= Len(s) THEN Len(s) - (n + 1) + 1 ELSE 0
      /\ \A i \in 1..(Len(s) - (n + 1) + 1) :
           SubSeq(s, n + 1, Len(s))[i] = s[n + 1 + i - 1]
  <2>1. n + 1 \in Int /\ Len(s) \in Int /\ \A i \in (n + 1)..Len(s) : s[i] \in S
    BY <1>1
  <2> QED BY <2>1, SubSeqProperties
<1>4. /\ Prefix(s, n) \in Seq(S) /\ Len(Prefix(s, n)) = n
      /\ \A i \in 1..n : Prefix(s, n)[i] = s[i]
  BY <1>2 DEF Prefix
<1>5. /\ Rest(s, n) \in Seq(S) /\ Len(Rest(s, n)) = Len(s) - n
      /\ \A i \in 1..(Len(s) - n) : Rest(s, n)[i] = s[n + i]
  <2> DEFINE r == SubSeq(s, n + 1, Len(s))
  <2>1. n \in Nat /\ n <= Len(s) BY <1>1
  <2>2. Len(r) = Len(s) - n BY <1>1, <1>3, <2>1
  <2>3. ASSUME NEW i \in 1..(Len(s) - n) PROVE r[i] = s[n + i]
    <3>1. i \in 1..(Len(s) - (n + 1) + 1) /\ n + 1 + i - 1 = n + i BY <1>1, <2>1
    <3>2. r[i] = s[n + 1 + i - 1] BY Zenon, <1>3, <3>1
    <3> QED BY Zenon, <3>1, <3>2
  <2> QED BY Zenon, <1>3, <2>2, <2>3 DEF Rest
<1> QED BY Zenon, <1>4, <1>5

\* The calls between append() and their record: one more when a call starts,
\* one fewer when it gets its record.
LEMMA AppendingCount ==
  ASSUME TypeOK, NEW c \in Clients, NEW v, pc' = [pc EXCEPT ![c] = v]
  PROVE  /\ IsFiniteSet(Appending) /\ Cardinality(Appending) \in Nat
         /\ v = "append" /\ pc[c] # "append"
              => Cardinality(Appending') = Cardinality(Appending) + 1
         /\ v # "append" /\ pc[c] = "append"
              => Cardinality(Appending') = Cardinality(Appending) - 1
         /\ v # "append" /\ pc[c] # "append" => Appending' = Appending
<1>1. IsFiniteSet(Appending)
  <2>1. IsFiniteSet(Clients) BY Zenon, WalAssumption
  <2> QED BY Zenon, <2>1, FS_Subset, Zenon DEF Appending
<1>2. Cardinality(Appending) \in Nat BY Zenon, <1>1, FS_CardinalityType
<1>3. ASSUME v = "append", pc[c] # "append"
      PROVE  Cardinality(Appending') = Cardinality(Appending) + 1
  <2>1. Appending' = Appending \cup {c} /\ c \notin Appending
    BY Zenon, <1>3 DEF Appending, TypeOK
  <2> QED BY Zenon, <1>1, <2>1, FS_AddElement
<1>4. ASSUME v # "append", pc[c] = "append"
      PROVE  Cardinality(Appending') = Cardinality(Appending) - 1
  <2>1. Appending' = Appending \ {c} /\ c \in Appending
    BY Zenon, <1>4 DEF Appending, TypeOK
  <2> QED BY Zenon, <1>1, <2>1, FS_RemoveElement
<1>5. v # "append" /\ pc[c] # "append" => Appending' = Appending
  BY Zenon DEF Appending, TypeOK
<1> QED BY Zenon, <1>1, <1>2, <1>3, <1>4, <1>5

-----------------------------------------------------------------------------
\* The coordinator as new() builds it satisfies the invariant.
LEMMA InitIInv == Init => IInv
<1> SUFFICES ASSUME Init PROVE IInv OBVIOUS
<1> USE WalAssumption DEF Init
<1>1. TypeOK
  <2>1. <<>> \in Seq(1..MaxRecords) /\ Len(<<>>) = 0 OBVIOUS
  <2>2. /\ acked \subseteq (1..MaxRecords) \X Levels
        /\ rejected \subseteq 1..MaxRecords
    OBVIOUS
  <2>3. /\ pc \in [Clients -> {"idle", "append", "flush", "write"}]
        /\ job \in [Clients -> {"log", "commit", "checkpoint"} \cup Levels]
        /\ target \in [Clients -> 0..MaxRecords]
    OBVIOUS
  <2>4. {reserved, written, durable, flushRequested, flushTarget, mgrWritten, synced}
          \subseteq 0..MaxRecords
    OBVIOUS
  <2>5. /\ pending \in Seq(1..MaxRecords) /\ batch \in Seq(1..MaxRecords)
        /\ Len(pending) <= BufferRecords
    BY <2>1
  <2> QED BY ZenonT(30), <2>2, <2>3, <2>4, <2>5 DEF TypeOK
<1>2. Positions
  <2>1. Appending = {} BY Zenon DEF Appending
  <2>2. Cardinality(Appending) = 0 BY Zenon, <2>1, FS_EmptySet
  <2> QED BY <2>2 DEF Positions, PublishedBehindDisk
<1>3. Queue /\ Roles /\ AckedIsDurable BY DEF Queue, Roles, AckedIsDurable
<1> QED BY Zenon, <1>1, <1>2, <1>3 DEF IInv

\* The bound on the calls in flight survives a step of one client that neither
\* starts an append nor gives it its record.
LEMMA ClientMoves ==
  ASSUME TypeOK, Positions, NEW c \in Clients, NEW v,
         pc' = [pc EXCEPT ![c] = v], v # "append", reserved' = reserved
  PROVE  reserved' + Cardinality(Appending') <= MaxRecords
<1>1. Cardinality(Appending) \in Nat BY Zenon, AppendingCount
<1>2. Cardinality(Appending') \in {Cardinality(Appending), Cardinality(Appending) - 1}
  BY Zenon, AppendingCount
<1> QED BY SMTT(30), <1>1, <1>2, WalAssumption DEF Positions, TypeOK

\* What the invariant says of one client: it waits for a record of its own.
LEMMA ClientFacts ==
  ASSUME IInv, NEW c \in Clients
  PROVE  /\ pc[c] \in {"idle", "append", "flush", "write"}
         /\ reserved \in Nat /\ reserved <= MaxRecords
         /\ pc[c] \in {"flush", "write"} => target[c] \in 1..reserved
<1>1. /\ pc[c] \in {"idle", "append", "flush", "write"}
      /\ target[c] \in 0..MaxRecords /\ reserved \in 0..MaxRecords
  BY Zenon DEF IInv, TypeOK
<1>2. target[c] <= reserved BY Zenon DEF IInv, Positions
<1>3. pc[c] \in {"flush", "write"} => target[c] >= 1 BY Zenon DEF IInv, Roles
<1> QED BY <1>1, <1>2, <1>3, WalAssumption

\* Every step of a client thread keeps the invariant.
LEMMA ClientStepIInv ==
  ASSUME IInv, NEW c \in Clients,
         \/ \E j \in {"log", "commit"} : CallAppend(c, j)
         \/ CallFlushAll(c)
         \/ ClientStep(c)
  PROVE  IInv'
<1> USE WalAssumption DEF state, writer, disk
<1>0. TypeOK /\ Positions /\ Queue /\ Roles /\ AckedIsDurable BY Zenon DEF IInv
<1> USE <1>0
<1>1. CASE \E j \in {"log", "commit"} : CallAppend(c, j)
  <2> PICK j \in {"log", "commit"} : CallAppend(c, j) BY ZenonT(30), <1>1
  <2> USE DEF CallAppend
  <2>1. TypeOK' BY SMTT(30) DEF TypeOK
  <2>2. Positions'
    <3>1. /\ Cardinality(Appending) \in Nat
          /\ Cardinality(Appending') = Cardinality(Appending) + 1
      BY Zenon, AppendingCount
    <3>2. reserved + Cardinality(Appending) < MaxRecords BY Zenon DEF Appending
    <3> QED BY SMTT(30), <3>1, <3>2 DEF Positions, PublishedBehindDisk, TypeOK
  <2>3. Queue' /\ AckedIsDurable' BY Zenon DEF Queue, AckedIsDurable
  <2>4. Roles' BY ZenonT(30) DEF Roles, TypeOK
  <2> QED BY Zenon, <2>1, <2>2, <2>3, <2>4 DEF IInv
<1>2. CASE CallFlushAll(c)
  <2> USE <1>2 DEF CallFlushAll
  <2>1. TypeOK' BY SMTT(30) DEF TypeOK
  <2>2. Positions'
    <3>1. reserved' + Cardinality(Appending') <= MaxRecords BY Zenon, ClientMoves
    <3> QED BY <3>1 DEF Positions, PublishedBehindDisk, TypeOK
  <2>3. Queue' /\ AckedIsDurable' BY Zenon DEF Queue, AckedIsDurable
  <2>4. Roles' BY SMTT(30) DEF Roles, TypeOK
  <2> QED BY Zenon, <2>1, <2>2, <2>3, <2>4 DEF IInv
<1>3. CASE Enqueue(c)
  <2> USE <1>3 DEF Enqueue
  <2> PICK j \in NextJobs(job[c]) :
        /\ job' = [job EXCEPT ![c] = j]
        /\ pc' = [pc EXCEPT ![c] = Barrier(j)]
        /\ acked' = IF j = "UnsafeDev" THEN acked \cup {<<reserved', j>>} ELSE acked
    BY Zenon
  <2>1. Barrier(j) \in {"idle", "flush", "write"} BY Zenon DEF Barrier
  <2>2. /\ Cardinality(Appending) \in Nat
        /\ Cardinality(Appending') = Cardinality(Appending) - 1
    BY Zenon, <2>1, AppendingCount
  <2>3. Cardinality(Appending) >= 1
    <3>1. c \in Appending BY Zenon DEF Appending
    <3>2. IsFiniteSet(Appending)
      <4>1. IsFiniteSet(Clients) OBVIOUS
      <4> QED BY Zenon, <4>1, FS_Subset, Zenon DEF Appending
    <3>3. Cardinality(Appending \ {c}) = Cardinality(Appending) - 1
      BY Zenon, <3>1, <3>2, FS_RemoveElement
    <3>4. Cardinality(Appending \ {c}) \in Nat
      BY Zenon, <3>2, FS_RemoveElement, FS_CardinalityType
    <3> QED BY <2>2, <3>3, <3>4
  <2>4. reserved \in Nat /\ reserved' = reserved + 1 /\ reserved' \in 1..MaxRecords
    BY SMTT(30), <2>2, <2>3 DEF Positions, TypeOK
  <2>5. job[c] \in {"log", "commit"} /\ j \in {"log"} \cup Levels
    BY SMTT(30) DEF Roles, NextJobs
  <2>6. TypeOK'
    <3>1. pending \in Seq(1..MaxRecords) BY Zenon DEF TypeOK
    <3>2. pending' \in Seq(1..MaxRecords) /\ Len(pending') = Len(pending) + 1
      BY <2>4, <3>1, AppendProperties
    <3>3. Len(pending') <= BufferRecords BY <3>1, <3>2
    <3>4. acked' \subseteq (1..MaxRecords) \X Levels
      BY SMTT(30), <2>4, <2>5 DEF TypeOK
    <3>5. /\ pc' \in [Clients -> {"idle", "append", "flush", "write"}]
          /\ job' \in [Clients -> {"log", "commit", "checkpoint"} \cup Levels]
          /\ target' \in [Clients -> 0..MaxRecords]
      BY SMTT(30), <2>1, <2>4, <2>5 DEF TypeOK
    <3> QED BY SMTT(30), <2>4, <3>2, <3>3, <3>4, <3>5 DEF TypeOK
  <2>7. Positions'
    <3>1. reserved' + Cardinality(Appending') <= MaxRecords
      BY <2>2, <2>4 DEF Positions
    <3>2. \A d \in Clients : target'[d] <= reserved'
      BY SMTT(30), <2>4 DEF Positions, TypeOK
    <3>3. {mgrWritten, flushRequested, flushTarget} \subseteq 0..reserved'
      BY SMTT(30), <2>4 DEF Positions, TypeOK
    <3> QED BY Zenon, <3>1, <3>2, <3>3 DEF Positions, PublishedBehindDisk
  <2>8. Queue'
    <3>1. /\ pending \in Seq(1..MaxRecords) /\ Len(pending) \in Nat
          /\ batch \in Seq(1..MaxRecords) /\ Len(batch) \in Nat
          /\ mgrWritten \in Nat
      BY SMTT(30) DEF TypeOK
    <3>2. /\ Len(pending') = Len(pending) + 1
          /\ \A i \in 1..Len(pending) : pending'[i] = pending[i]
          /\ pending'[Len(pending) + 1] = reserved'
      BY <2>4, <3>1, AppendProperties
    <3>3. reserved' = mgrWritten + Len(batch) + Len(pending) + 1
      BY Zenon, <2>4, <3>1 DEF Queue
    <3>4. ASSUME NEW i \in 1..Len(pending') PROVE pending'[i] = mgrWritten + Len(batch) + i
      <4>1. CASE i = Len(pending) + 1 BY <4>1, <3>1, <3>2, <3>3
      <4>2. CASE i # Len(pending) + 1
        <5>1. i \in 1..Len(pending) BY <4>2, <3>1, <3>2
        <5> QED BY Zenon, <5>1, <3>2 DEF Queue
      <4> QED BY Zenon, <4>1, <4>2
    <3> QED BY SMTT(30), <3>1, <3>2, <3>3, <3>4 DEF Queue
  <2>9. Roles' BY <2>4, <2>5 DEF Roles, TypeOK, Barrier
  <2>10. AckedIsDurable' BY DEF AckedIsDurable
  <2> QED BY Zenon, <2>6, <2>7, <2>8, <2>9, <2>10 DEF IInv
<1>4. CASE BufferFull(c)
  <2> USE <1>4 DEF BufferFull, client
  <2>1. TypeOK' BY SMTT(30) DEF TypeOK
  <2>2. Positions'
    <3>1. Appending' = Appending BY Zenon DEF Appending
    <3> QED BY Zenon, <3>1 DEF Positions, PublishedBehindDisk
  <2>3. Queue' /\ AckedIsDurable' BY Zenon DEF Queue, AckedIsDurable
  <2>4. Roles' BY Zenon DEF Roles
  <2> QED BY Zenon, <2>1, <2>2, <2>3, <2>4 DEF IInv
<1>5. CASE ReturnErr(c)
  <2> USE <1>5 DEF ReturnErr
  <2>1. TypeOK'
    <3>1. rejected' \subseteq 1..MaxRecords
      <4>1. CASE job[c] \in Levels /\ pc[c] # "append"
        <5>1. pc[c] \in {"flush", "write"} BY Zenon, <4>1, ClientFacts
        <5>2. target[c] \in 1..MaxRecords BY <5>1, ClientFacts, WalAssumption
        <5>3. rejected' = rejected \cup {target[c]} BY SMTT(30), <4>1
        <5>4. rejected \subseteq 1..MaxRecords BY Zenon DEF TypeOK
        <5> QED BY Zenon, <5>2, <5>3, <5>4
      <4>2. CASE ~(job[c] \in Levels /\ pc[c] # "append")
        BY Zenon, <4>2 DEF TypeOK
      <4> QED BY SMTT(30), <4>1, <4>2
    <3>2. pc' \in [Clients -> {"idle", "append", "flush", "write"}] BY Zenon DEF TypeOK
    <3> QED BY SMTT(30), <3>1, <3>2 DEF TypeOK
  <2>2. Positions'
    <3>1. reserved' + Cardinality(Appending') <= MaxRecords BY Zenon, ClientMoves
    <3> QED BY Zenon, <3>1 DEF Positions, PublishedBehindDisk
  <2>3. Queue' /\ AckedIsDurable' BY SMTT(30) DEF Queue, AckedIsDurable
  <2>4. Roles' BY Zenon DEF Roles, TypeOK
  <2> QED BY Zenon, <2>1, <2>2, <2>3, <2>4 DEF IInv
<1>6. CASE BarrierMet(c)
  <2> USE <1>6 DEF BarrierMet
  <2>1. TypeOK' BY SMTT(30) DEF TypeOK, Roles
  <2>2. Positions'
    <3>1. reserved' + Cardinality(Appending') <= MaxRecords BY Zenon, ClientMoves
    <3> QED BY SMTT(30), <3>1 DEF Positions, PublishedBehindDisk
  <2>3. Queue' BY Zenon DEF Queue
  <2>4. Roles' BY SMTT(30) DEF Roles, TypeOK
  <2>5. AckedIsDurable'
    BY SMTT(30) DEF AckedIsDurable, Roles, Positions, PublishedBehindDisk, TypeOK
  <2> QED BY SMTT(30), <2>1, <2>2, <2>3, <2>4, <2>5 DEF IInv
<1>7. CASE WaitDurable(c)
  <2> USE <1>7 DEF WaitDurable, client, MaxOf
  <2>1. TypeOK' BY SMTT(30) DEF TypeOK
  <2>2. Positions'
    <3>1. Appending' = Appending BY SMTT(30) DEF Appending
    <3> QED BY SMTT(30), <3>1 DEF Positions, PublishedBehindDisk, TypeOK
  <2>3. Queue' /\ AckedIsDurable' BY Zenon DEF Queue, AckedIsDurable
  <2>4. Roles' BY Zenon DEF Roles
  <2> QED BY SMTT(30), <2>1, <2>2, <2>3, <2>4 DEF IInv
<1>8. CASE WaitWritten(c)
  <2> USE <1>8 DEF WaitWritten, client
  <2>1. TypeOK' BY SMTT(30) DEF TypeOK
  <2>2. Positions'
    <3>1. Appending' = Appending BY SMTT(30) DEF Appending
    <3> QED BY Zenon, <3>1 DEF Positions, PublishedBehindDisk
  <2>3. Queue' /\ AckedIsDurable' BY Zenon DEF Queue, AckedIsDurable
  <2>4. Roles' BY ZenonT(30) DEF Roles
  <2> QED BY Zenon, <2>1, <2>2, <2>3, <2>4 DEF IInv
<1> QED BY Zenon, <1>1, <1>2, <1>3, <1>4, <1>5, <1>6, <1>7, <1>8 DEF ClientStep

\* A step that leaves the clients' positions, the LSNs and the records alone
\* keeps everything but the places of the writer.
LEMMA WriterFrame ==
  ASSUME IInv, UNCHANGED <<reserved, written, durable, pending, flushRequested,
                           failure, batch, mgrWritten, synced, client>>,
         flushTarget' \in 0..reserved
  PROVE  Positions' /\ Queue' /\ AckedIsDurable'
<1> USE DEF IInv, client
<1>1. Appending' = Appending BY Zenon DEF Appending
<1> QED BY SMTT(30), <1>1 DEF Positions, PublishedBehindDisk, Queue, AckedIsDurable

\* Taking the first n queued records into an empty batch keeps the queue in
\* step with the log.
LEMMA TakeKeepsQueue ==
  ASSUME IInv, NEW n \in 0..Len(pending), batch = <<>>,
         batch' = Prefix(pending, n), pending' = Rest(pending, n),
         UNCHANGED <<reserved, mgrWritten, failure>>
  PROVE  /\ Queue'
         /\ batch' \in Seq(1..MaxRecords) /\ pending' \in Seq(1..MaxRecords)
         /\ Len(pending') <= BufferRecords
<1>1. TypeOK /\ Queue BY Zenon DEF IInv
<1>2. /\ pending \in Seq(1..MaxRecords) /\ Len(pending) \in Nat
      /\ mgrWritten \in Nat /\ reserved \in Nat /\ Len(pending) <= BufferRecords
  BY <1>1 DEF TypeOK
<1>3. /\ batch' \in Seq(1..MaxRecords) /\ Len(batch') = n
      /\ \A i \in 1..n : batch'[i] = pending[i]
      /\ pending' \in Seq(1..MaxRecords) /\ Len(pending') = Len(pending) - n
      /\ \A i \in 1..(Len(pending) - n) : pending'[i] = pending[n + i]
  BY ZenonT(30), <1>2, CutSequence
<1>4. Len(pending') <= BufferRecords
  BY <1>2, <1>3, WalAssumption
<1>5. Queue'
  <2> SUFFICES ASSUME ~failure
               PROVE  /\ mgrWritten + n + (Len(pending) - n) = reserved
                      /\ \A i \in 1..n : pending[i] = mgrWritten + i
                      /\ \A i \in 1..(Len(pending) - n) : pending[n + i] = mgrWritten + n + i
    BY Zenon, <1>3 DEF Queue
  <2>1. /\ mgrWritten + Len(pending) = reserved
        /\ \A i \in 1..Len(pending) : pending[i] = mgrWritten + i
    BY <1>1, <1>2 DEF Queue
  <2>2. ASSUME NEW i \in 1..(Len(pending) - n) PROVE pending[n + i] = mgrWritten + n + i
    <3>1. n + i \in 1..Len(pending) BY <1>2
    <3>2. pending[n + i] = mgrWritten + (n + i) BY Zenon, <3>1, <2>1
    <3> QED BY <3>2, <1>2
  <2>3. \A i \in 1..n : pending[i] = mgrWritten + i BY <2>1, <1>2
  <2> QED BY <2>1, <2>2, <2>3, <1>2
<1> QED BY SMTT(30), <1>3, <1>4, <1>5

\* Every step of the writer thread keeps the invariant.
LEMMA WriterStepIInv ==
  ASSUME IInv, WriterStep
  PROVE  IInv'
<1> USE WalAssumption DEF state, client, disk
<1>0. TypeOK /\ Positions /\ Queue /\ Roles /\ AckedIsDurable BY Zenon DEF IInv
<1> USE <1>0
<1>A. 0 \in 0..reserved /\ flushTarget \in 0..reserved /\ flushRequested \in 0..reserved
  BY DEF Positions, TypeOK
<1>B. Len(pending) \in Nat /\ \A n \in Nat \ {0} : Take(n) \in 0..Len(pending) /\ Take(n) <= n
  BY DEF TypeOK, Take
<1>1. CASE WriterWaits
  <2> USE <1>1 DEF WriterWaits, writer
  <2>1. TypeOK' BY SMTT(30) DEF TypeOK
  <2>2. Roles' BY Zenon DEF Roles
  <2> QED BY Zenon, <2>1, <2>2, <1>A, WriterFrame DEF IInv
<1>2. CASE WriterReturns
  <2> USE <1>2 DEF WriterReturns
  <2>1. TypeOK' BY SMTT(30) DEF TypeOK
  <2>2. Roles' BY Zenon DEF Roles
  <2> QED BY Zenon, <2>1, <2>2, <1>A, WriterFrame DEF IInv
<1>3. CASE TakeBatch
  <2> USE <1>3 DEF TakeBatch
  <2>1. batch = <<>> BY Zenon DEF Roles
  <2>2. /\ Queue'
        /\ batch' \in Seq(1..MaxRecords) /\ pending' \in Seq(1..MaxRecords)
        /\ Len(pending') <= BufferRecords
    BY Zenon, <1>B, <2>1, TakeKeepsQueue
  <2>3. writeRequested' \in BOOLEAN /\ stopping' \in BOOLEAN BY Zenon DEF TypeOK
  <2>4. flushTarget' \in 0..reserved BY Zenon, <1>A
  <2>5. TypeOK'
    <3>1. {reserved', written', durable', flushRequested', flushTarget', mgrWritten', synced'}
            \subseteq 0..MaxRecords
      BY <2>4 DEF TypeOK
    <3> QED BY ZenonT(30), <2>2, <2>3, <3>1 DEF TypeOK
  <2>6. Positions'
    <3>1. Appending' = Appending BY Zenon DEF Appending
    <3> QED BY Zenon, <3>1, <2>4 DEF Positions, PublishedBehindDisk
  <2>7. Roles' BY Zenon DEF Roles
  <2>8. AckedIsDurable' BY Zenon DEF AckedIsDurable
  <2> QED BY Zenon, <2>2, <2>5, <2>6, <2>7, <2>8 DEF IInv
<1>4. CASE WriteBatch
  <2> USE <1>4 DEF WriteBatch, MaxOf
  <2>1. ~failure BY Zenon DEF Roles
  <2>2. /\ Len(batch) \in Nat /\ Len(pending) \in Nat /\ mgrWritten \in Nat
        /\ reserved \in 0..MaxRecords
    BY SMTT(30) DEF TypeOK
  <2>3. /\ mgrWritten' = mgrWritten + Len(batch) /\ mgrWritten <= mgrWritten'
        /\ mgrWritten' \in 0..reserved
    BY <2>1, <2>2 DEF Queue
  <2>4. written' \in 0..MaxRecords /\ written' <= mgrWritten'
    BY SMTT(30), <2>2, <2>3 DEF Positions, PublishedBehindDisk, TypeOK
  <2>5. batch' = <<>> /\ Len(batch') = 0 /\ batch' \in Seq(1..MaxRecords) OBVIOUS
  <2>6. wpc' \in {"wait", "window", "drain", "flush"} BY Zenon DEF AfterWrite
  <2>7. TypeOK'
    <3>1. {reserved', written', durable', flushRequested', flushTarget', mgrWritten', synced'}
            \subseteq 0..MaxRecords
      BY <2>2, <2>3, <2>4 DEF TypeOK
    <3>2. parked' \subseteq Clients \cup {Writer} BY Zenon DEF TypeOK
    <3> QED BY SMTT(30), <2>5, <2>6, <3>1, <3>2 DEF TypeOK
  <2>8. Positions'
    <3>1. Appending' = Appending BY Zenon DEF Appending
    <3>2. synced <= mgrWritten' BY SMTT(30), <2>2, <2>3 DEF Positions, PublishedBehindDisk, TypeOK
    <3> QED BY Zenon, <3>1, <3>2, <2>3, <2>4 DEF Positions, PublishedBehindDisk
  <2>9. Queue'
    <3>1. ASSUME NEW i \in 1..Len(pending) PROVE pending[i] = mgrWritten' + 0 + i
      BY <2>1, <2>2, <2>3 DEF Queue
    <3>2. mgrWritten' + 0 + Len(pending) = reserved BY <2>1, <2>2, <2>3 DEF Queue
    <3> QED BY <3>1, <3>2, <2>5 DEF Queue
  <2>10. Roles' BY Zenon, <2>1, <2>5, <2>6 DEF Roles
  <2>11. AckedIsDurable' BY Zenon DEF AckedIsDurable
  <2> QED BY Zenon, <2>7, <2>8, <2>9, <2>10, <2>11 DEF IInv
<1>5. CASE Resample
  <2> USE <1>5 DEF Resample, MaxOf
  <2>1. flushTarget' \in 0..reserved BY Zenon, <1>A DEF TypeOK
  <2>2. TypeOK' BY SMTT(30), <2>1 DEF TypeOK
  <2>3. Roles' BY SMTT(30) DEF Roles
  <2> QED BY Zenon, <2>1, <2>2, <2>3, WriterFrame DEF IInv
<1>6. CASE Drain
  <2> USE <1>6 DEF Drain
  <2>1. CASE mgrWritten >= flushTarget
    <3> USE <2>1
    <3>1. wpc' = "flush" /\ UNCHANGED <<pending, batch, parked>> OBVIOUS
    <3>2. TypeOK' BY SMTT(30), <3>1 DEF TypeOK
    <3>3. Roles' BY SMTT(30), <3>1 DEF Roles
    <3> QED BY ZenonT(30), <3>1, <3>2, <3>3, <1>A, WriterFrame DEF IInv
  <2>2. CASE ~(mgrWritten >= flushTarget)
    <3> DEFINE gap == flushTarget - mgrWritten
               n == Take(IF gap < BatchRecords THEN gap ELSE BatchRecords)
    <3>1. batch = <<>> BY Zenon DEF Roles
    <3>2. gap \in Nat \ {0} BY SMTT(30), <2>2 DEF TypeOK
    <3>3. n \in 0..Len(pending) BY Zenon, <1>B, <3>2
    <3>4. batch' = Prefix(pending, n) /\ pending' = Rest(pending, n)
      BY Zenon, <2>2
    <3>5. /\ wpc = "drain" /\ parked' = {} /\ wpc' = "drainWrite"
          /\ UNCHANGED <<reserved, written, durable, writeRequested, flushRequested,
                         shutdown, failure, client, flushTarget, stopping, disk>>
      BY Zenon, <2>2
    <3> HIDE DEF n
    <3>6. /\ Queue'
          /\ batch' \in Seq(1..MaxRecords) /\ pending' \in Seq(1..MaxRecords)
          /\ Len(pending') <= BufferRecords
      BY ZenonT(30), <3>1, <3>3, <3>4, <3>5, TakeKeepsQueue
    <3> HIDE <1>6
    <3>7. TypeOK' BY SMTT(30), <3>5, <3>6 DEF TypeOK
    <3>8. Positions'
      <4>1. Appending' = Appending BY Zenon, <3>5 DEF Appending
      <4> QED BY Zenon, <4>1, <3>5 DEF Positions, PublishedBehindDisk
    <3>9. Roles'
      <4>1. ~failure BY Zenon, <3>5 DEF Roles
      <4>2. ~failure' /\ wpc' = "drainWrite" /\ pc' = pc /\ job' = job /\ target' = target
        BY Zenon, <3>5, <4>1 DEF client
      <4> HIDE DEF Drain
      <4> QED BY Zenon, <4>2 DEF Roles
    <3>10. AckedIsDurable' BY Zenon, <3>5 DEF AckedIsDurable
    <3> QED BY Zenon, <3>6, <3>7, <3>8, <3>9, <3>10 DEF IInv
  <2> QED BY Zenon, <2>1, <2>2
<1>7. CASE Fdatasync
  <2> USE <1>7 DEF Fdatasync
  <2>1. TypeOK' BY SMTT(30) DEF TypeOK
  <2>2. Positions'
    <3>1. Appending' = Appending BY Zenon DEF Appending
    <3> QED BY SMTT(30), <3>1 DEF Positions, PublishedBehindDisk, TypeOK
  <2>3. Queue' BY Zenon DEF Queue
  <2>4. Roles' BY Zenon DEF Roles
  <2>5. AckedIsDurable'
    BY SMTT(30) DEF AckedIsDurable, Positions, PublishedBehindDisk, TypeOK
  <2> QED BY ZenonT(30), <2>1, <2>2, <2>3, <2>4, <2>5 DEF IInv
<1>8. CASE PublishDurable
  <2> USE <1>8 DEF PublishDurable
  <2>1. synced = mgrWritten /\ batch = <<>> BY Zenon DEF Roles
  <2>2. flushRequested' \in 0..reserved BY Zenon, <1>A
  <2>3. TypeOK' BY SMTT(30), <2>2 DEF TypeOK
  <2>4. Positions'
    <3>1. Appending' = Appending BY Zenon DEF Appending
    <3> QED BY SMTT(30), <3>1, <2>1, <2>2 DEF Positions, PublishedBehindDisk, TypeOK
  <2>5. Queue' BY ZenonT(30) DEF Queue
  <2>6. Roles' BY SMTT(30), <2>1 DEF Roles
  <2>7. AckedIsDurable' BY Zenon DEF AckedIsDurable
  <2> QED BY Zenon, <2>3, <2>4, <2>5, <2>6, <2>7 DEF IInv
<1>9. CASE WriterFails
  <2> USE <1>9 DEF WriterFails
  <2>1. synced' \in 0..MaxRecords /\ synced <= synced' /\ synced' <= mgrWritten
    BY SMTT(30) DEF Positions, PublishedBehindDisk, TypeOK
  <2>2. TypeOK' BY SMTT(30), <2>1 DEF TypeOK
  <2>3. Positions'
    <3>1. Appending' = Appending BY Zenon DEF Appending
    <3> QED BY SMTT(30), <3>1, <2>1 DEF Positions, PublishedBehindDisk, TypeOK
  <2>4. Queue' BY Zenon DEF Queue
  <2>5. Roles' BY Zenon DEF Roles
  <2>6. AckedIsDurable' BY SMTT(30), <2>1 DEF AckedIsDurable, TypeOK
  <2> QED BY ZenonT(30), <2>2, <2>3, <2>4, <2>5, <2>6 DEF IInv
<1> QED BY ZenonT(30), <1>1, <1>2, <1>3, <1>4, <1>5, <1>6, <1>7, <1>8, <1>9 DEF WriterStep

\* Every step of the system keeps the invariant.
LEMMA NextIInv == IInv /\ [Next]_vars => IInv'
<1> SUFFICES ASSUME IInv, [Next]_vars PROVE IInv' OBVIOUS
<1>1. ASSUME NEW c \in Clients,
             \/ \E j \in {"log", "commit"} : CallAppend(c, j)
             \/ CallFlushAll(c)
             \/ ClientStep(c)
      PROVE  IInv'
  BY Zenon, <1>1, ClientStepIInv
<1>2. CASE WriterStep BY Zenon, <1>2, WriterStepIInv
<1>3. CASE Drop
  <2> USE <1>3 DEF Drop, client, writer, disk
  <2>1. TypeOK' BY SMTT(30) DEF IInv, TypeOK
  <2>2. Appending' = Appending BY Zenon DEF Appending
  <2> QED BY SMTT(30), <2>1, <2>2
          DEF IInv, Positions, PublishedBehindDisk, Queue, Roles, AckedIsDurable
<1>4. CASE UNCHANGED vars
  <2> USE <1>4 DEF vars, state, client, writer, disk
  <2>1. TypeOK' BY SMTT(30) DEF IInv, TypeOK
  <2>2. Appending' = Appending BY Zenon DEF Appending
  <2> QED BY Zenon, <2>1, <2>2
          DEF IInv, Positions, PublishedBehindDisk, Queue, Roles, AckedIsDurable
<1> QED BY Zenon, <1>1, <1>2, <1>3, <1>4 DEF Next, Terminated

\* The inductive invariant holds throughout.
THEOREM Invariance == Spec => []IInv
<1>1. Init => IInv BY Zenon, InitIInv
<1>2. IInv /\ [Next]_vars => IInv' BY Zenon, NextIInv
<1> QED BY <1>1, <1>2, PTL DEF Spec

\* The state of the coordinator keeps its types, the queue its limit and the
\* LSNs their range (append, flush_until and the writer loop).
THEOREM TypeCorrect == Spec => []TypeOK
<1>1. IInv => TypeOK BY Zenon DEF IInv
<1> QED BY <1>1, Invariance, PTL

\* The published durable and written LSNs never run ahead of the file.
THEOREM PublishedNeverAhead == Spec => []PublishedBehindDisk
<1>1. IInv => PublishedBehindDisk BY Zenon DEF IInv, Positions
<1> QED BY <1>1, Invariance, PTL

\* Every Strict commit() that returned Ok has been fdatasynced.
THEOREM StrictCommitsAreDurable == Spec => []AckedIsDurable
<1>1. IInv => AckedIsDurable BY Zenon DEF IInv
<1> QED BY <1>1, Invariance, PTL

\* The batch and the queue continue the log where WalManager stands.
THEOREM QueueNeverSkips == Spec => []QueueContinuesLog
<1>1. IInv => QueueContinuesLog
  <2> SUFFICES ASSUME IInv, ~failure
               PROVE  batch \o pending = [i \in 1..(reserved - mgrWritten) |-> mgrWritten + i]
    BY Zenon DEF QueueContinuesLog
  <2>1. TypeOK /\ Queue BY Zenon DEF IInv
  <2>2. /\ batch \in Seq(1..MaxRecords) /\ pending \in Seq(1..MaxRecords)
        /\ Len(batch) \in Nat /\ Len(pending) \in Nat
        /\ mgrWritten \in Nat /\ reserved \in Nat
    BY <2>1 DEF TypeOK
  <2>3. /\ mgrWritten + Len(batch) + Len(pending) = reserved
        /\ \A i \in 1..Len(batch) : batch[i] = mgrWritten + i
        /\ \A i \in 1..Len(pending) : pending[i] = mgrWritten + Len(batch) + i
    BY Zenon, <2>1 DEF Queue
  <2> DEFINE both == batch \o pending
  <2>4. /\ both \in Seq(1..MaxRecords)
        /\ Len(both) = Len(batch) + Len(pending)
        /\ \A i \in 1..(Len(batch) + Len(pending)) :
             both[i] = IF i <= Len(batch) THEN batch[i] ELSE pending[i - Len(batch)]
    BY Zenon, <2>2, ConcatProperties
  <2>5. Len(both) = reserved - mgrWritten BY <2>2, <2>3, <2>4
  <2>6. ASSUME NEW i \in 1..(reserved - mgrWritten) PROVE both[i] = mgrWritten + i
    <3>1. i \in 1..(Len(batch) + Len(pending)) BY <2>2, <2>3
    <3>2. CASE i <= Len(batch) BY <3>1, <3>2, <2>2, <2>3, <2>4
    <3>3. CASE ~(i <= Len(batch))
      <4>1. i - Len(batch) \in 1..Len(pending) BY <3>1, <3>3, <2>2
      <4>2. both[i] = pending[i - Len(batch)] BY Zenon, <3>1, <3>3, <2>4
      <4>3. both[i] = mgrWritten + Len(batch) + (i - Len(batch))
        BY Zenon, <4>1, <4>2, <2>3
      <4> QED BY <4>3, <2>2
    <3> QED BY Zenon, <3>2, <3>3
  <2>7. both = [i \in 1..Len(both) |-> both[i]]
    <3>1. both \in [1..Len(both) -> 1..MaxRecords] BY Zenon, <2>4, LenProperties
    <3> HIDE DEF both
    <3> QED BY Zenon, <3>1
  <2> QED BY Zenon, <2>5, <2>6, <2>7, Zenon
<1> QED BY <1>1, Invariance, PTL

-----------------------------------------------------------------------------
\* A step that no caller of the log can observe.
LEMMA Invisible ==
  ASSUME UNCHANGED <<reserved, mgrWritten, synced, failure, acked, rejected>>
  PROVE  UNCHANGED Log!vars
BY Zenon DEF Log!vars

\* Each step of a client is an append, an answer or a rejection of the abstract
\* log, or invisible.
LEMMA ClientStepSimulates ==
  ASSUME IInv, NEW c \in Clients,
         \/ \E j \in {"log", "commit"} : CallAppend(c, j)
         \/ CallFlushAll(c)
         \/ ClientStep(c)
  PROVE  [Log!Next]_Log!vars
<1> USE DEF state, disk, client
<1>0. TypeOK /\ Positions /\ Roles BY Zenon DEF IInv
<1>1. CASE \E j \in {"log", "commit"} : CallAppend(c, j)
  BY Zenon, <1>1, Invisible DEF CallAppend
<1>2. CASE CallFlushAll(c) BY ZenonT(30), <1>2, Invisible DEF CallFlushAll
<1>3. CASE Enqueue(c)
  <2> USE <1>3 DEF Enqueue
  <2> PICK j \in NextJobs(job[c]) :
        acked' = IF j = "UnsafeDev" THEN acked \cup {<<reserved', j>>} ELSE acked
    BY Zenon
  <2>1. \E level \in Levels \cup {"none"} :
          acked' = IF level = "UnsafeDev" THEN acked \cup {<<reserved', level>>} ELSE acked
    <3>1. CASE j = "UnsafeDev"
      <4>1. j \in Levels BY SMTT(30), <3>1, <1>0 DEF Roles, NextJobs
      <4> QED BY Zenon, <4>1
    <3>2. CASE j # "UnsafeDev"
      <4>1. acked' = IF "none" = "UnsafeDev" THEN acked \cup {<<reserved', "none">>} ELSE acked
        BY Zenon, <3>2
      <4> QED BY Zenon, <4>1
    <3> QED BY Zenon, <3>1, <3>2
  <2>2. Log!AppendRecord BY Zenon, <2>1 DEF Log!AppendRecord
  <2> QED BY SMTT(30), <2>2 DEF Log!Next
<1>4. CASE BufferFull(c) BY Zenon, <1>4, Invisible DEF BufferFull
<1>5. CASE ReturnErr(c)
  <2>1. CASE job[c] \in Levels /\ pc[c] # "append"
    <3>1. /\ pc[c] # "idle" /\ failure /\ rejected' = rejected \cup {target[c]}
          /\ UNCHANGED <<reserved, mgrWritten, synced, failure, acked>>
      BY Zenon, <1>5, <2>1 DEF ReturnErr
    <3>2. target[c] \in 1..reserved BY Zenon, <2>1, <3>1, ClientFacts
    <3>3. Log!Reject(target[c]) BY Zenon, <3>1 DEF Log!Reject
    <3> QED BY Zenon, <3>2, <3>3 DEF Log!Next
  <2>2. CASE ~(job[c] \in Levels /\ pc[c] # "append")
    BY Zenon, <1>5, <2>2, Invisible DEF ReturnErr
  <2> QED BY Zenon, <2>1, <2>2
<1>6. CASE BarrierMet(c)
  <2>1. CASE job[c] \in Levels
    <3>1. /\ pc[c] \in {"flush", "write"} /\ ~failure
          /\ IF pc[c] = "flush" THEN durable >= target[c] ELSE written >= target[c]
          /\ acked' = acked \cup {<<target[c], job[c]>>}
          /\ UNCHANGED <<reserved, mgrWritten, synced, failure, rejected>>
      BY Zenon, <1>6, <2>1 DEF BarrierMet
    <3>2. target[c] \in 1..reserved /\ reserved \in Nat BY Zenon, <3>1, ClientFacts
    <3>3. job[c] = IF pc[c] = "flush" THEN "Strict" ELSE "Normal"
      BY Zenon, <2>1, <3>1, <1>0, WalAssumption DEF Roles
    <3>4. target[c] <= Log!Covered(job[c])
      <4>1. /\ durable \in Int /\ written \in Int /\ synced \in Int /\ mgrWritten \in Int
            /\ durable <= synced /\ written <= mgrWritten
        BY <1>0 DEF TypeOK, Positions, PublishedBehindDisk
      <4>2. Log!Covered(job[c]) = IF pc[c] = "flush" THEN synced ELSE mgrWritten
        BY Zenon, <3>3 DEF Log!Covered
      <4> QED BY <3>1, <3>2, <4>1, <4>2
    <3>5. Log!Answer(target[c], job[c]) BY Zenon, <3>1, <3>4 DEF Log!Answer
    <3> QED BY Zenon, <2>1, <3>2, <3>5 DEF Log!Next
  <2>2. CASE job[c] \notin Levels BY Zenon, <1>6, <2>2, Invisible DEF BarrierMet
  <2> QED BY Zenon, <2>1, <2>2
<1>7. CASE WaitDurable(c) BY Zenon, <1>7, Invisible DEF WaitDurable
<1>8. CASE WaitWritten(c) BY Zenon, <1>8, Invisible DEF WaitWritten
<1> QED BY Zenon, <1>1, <1>2, <1>3, <1>4, <1>5, <1>6, <1>7, <1>8 DEF ClientStep

\* Each step of the writer is a write, an fdatasync or the failure of the
\* abstract log, or invisible.
LEMMA WriterStepSimulates ==
  ASSUME IInv, WriterStep
  PROVE  [Log!Next]_Log!vars
<1> USE DEF state, disk, client
<1>0. TypeOK /\ Positions /\ Queue /\ Roles BY Zenon DEF IInv
<1>1. CASE WriterWaits BY Zenon, <1>1, Invisible DEF WriterWaits
<1>2. CASE WriterReturns BY Zenon, <1>2, Invisible DEF WriterReturns
<1>3. CASE TakeBatch BY Zenon, <1>3, Invisible DEF TakeBatch
<1>4. CASE WriteBatch
  <2> USE <1>4 DEF WriteBatch
  <2>1. ~failure BY Zenon, <1>0 DEF Roles
  <2>2. mgrWritten' \in mgrWritten..reserved BY SMTT(30), <2>1, <1>0 DEF Queue, TypeOK
  <2>3. Log!Write BY Zenon, <2>1, <2>2 DEF Log!Write
  <2> QED BY Zenon, <2>3 DEF Log!Next
<1>5. CASE Resample BY Zenon, <1>5, Invisible DEF Resample
<1>6. CASE Drain BY Zenon, <1>6, Invisible DEF Drain
<1>7. CASE Fdatasync
  <2>1. ~failure BY Zenon, <1>7, <1>0 DEF Fdatasync, Roles
  <2>2. Log!Sync BY Zenon, <1>7, <2>1 DEF Fdatasync, Log!Sync
  <2> QED BY Zenon, <2>2 DEF Log!Next
<1>8. CASE PublishDurable BY Zenon, <1>8, Invisible DEF PublishDurable
<1>9. CASE WriterFails
  <2> USE <1>9 DEF WriterFails
  <2>1. ~failure BY SMTT(30), <1>0 DEF Roles
  <2>2. synced' \in synced..mgrWritten
    BY SMTT(30), <1>0 DEF Positions, PublishedBehindDisk, TypeOK
  <2>3. Log!Fail BY Zenon, <2>1, <2>2 DEF Log!Fail
  <2> QED BY Zenon, <2>3 DEF Log!Next
<1> QED BY Zenon, <1>1, <1>2, <1>3, <1>4, <1>5, <1>6, <1>7, <1>8, <1>9 DEF WriterStep

\* The coordinator implements the abstract log: group commit, the shared
\* condition variable and the writer thread show a caller of append(), commit()
\* and flush_all() nothing that DurableLog does not allow.
THEOREM Refinement == Spec => ImplementsDurableLog
<1>1. Init => Log!Init BY Zenon DEF Init, Log!Init
<1>2. IInv /\ [Next]_vars => [Log!Next]_Log!vars
  <2> SUFFICES ASSUME IInv, [Next]_vars PROVE [Log!Next]_Log!vars OBVIOUS
  <2>1. ASSUME NEW c \in Clients,
               \/ \E j \in {"log", "commit"} : CallAppend(c, j)
               \/ CallFlushAll(c)
               \/ ClientStep(c)
        PROVE  [Log!Next]_Log!vars
    BY Zenon, <2>1, ClientStepSimulates
  <2>2. CASE WriterStep BY Zenon, <2>2, WriterStepSimulates
  <2>3. CASE Drop BY Zenon, <2>3, Invisible DEF Drop, client, disk
  <2>4. CASE UNCHANGED vars BY Zenon, <2>4, Invisible DEF vars, state, client, disk
  <2> QED BY Zenon, <2>1, <2>2, <2>3, <2>4 DEF Next, Terminated
<1> QED BY <1>1, <1>2, Invariance, PTL DEF Spec, ImplementsDurableLog, Log!Spec
=============================================================================
