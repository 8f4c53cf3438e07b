--------------------------- MODULE WalCoordinator ---------------------------
(***************************************************************************)
(* WalCoordinator: client threads queue records under one mutex and wait   *)
(* on one condition variable; the writer thread moves the queue to the     *)
(* WalManager and calls fdatasync for groups of commits.  A record has     *)
(* length 1, so the LSN at the end of a record is its number.              *)
(***************************************************************************)
EXTENDS Naturals, Sequences, FiniteSets

CONSTANTS Clients, Writer,
          MaxRecords,       \* bound on the records of a behaviour
          BufferRecords,    \* wal_buffer_bytes
          BatchRecords,     \* wal_write_batch_bytes
          Levels,           \* the commit durabilities PRAGMA synchronous sets
          FlushOnShutdown,  \* flush_on_shutdown, from the open-time durability
          MayFail           \* whether a write or an fdatasync may fail

ASSUME WalAssumption ==
  /\ IsFiniteSet(Clients)
  /\ MaxRecords \in Nat
  /\ BufferRecords \in Nat \ {0}
  /\ BatchRecords \in Nat \ {0}
  /\ Levels \subseteq {"Strict", "Normal", "UnsafeDev"}
  /\ {FlushOnShutdown, MayFail} \subseteq BOOLEAN

VARIABLES
  reserved, written, durable,       \* WalCoordinatorState
  pending, writeRequested, flushRequested, shutdown, failure,
  parked,                           \* threads waiting on the condition variable
  pc, job, target,                  \* client threads
  wpc, batch, flushTarget, stopping, \* locals of wal_writer_loop
  mgrWritten, synced,               \* WalManager.written_lsn; the LSN on disk
  acked, rejected                   \* commits answered Ok (with level) and Err

state == <<reserved, written, durable, pending, writeRequested, flushRequested,
           shutdown, failure>>
client == <<pc, job, target, acked, rejected>>
writer == <<wpc, batch, flushTarget, stopping>>
disk == <<mgrWritten, synced>>
vars == <<state, parked, client, writer, disk>>

MaxOf(a, b) == IF a >= b THEN a ELSE b
Prefix(s, n) == SubSeq(s, 1, n)
Rest(s, n) == SubSeq(s, n + 1, Len(s))

Init ==
  /\ reserved = 0 /\ written = 0 /\ durable = 0
  /\ pending = <<>> /\ writeRequested = FALSE /\ flushRequested = 0
  /\ shutdown = FALSE /\ failure = FALSE
  /\ parked = {}
  /\ pc = [c \in Clients |-> "idle"]
  /\ job = [c \in Clients |-> "log"]
  /\ target = [c \in Clients |-> 0]
  /\ acked = {} /\ rejected = {}
  /\ wpc = "wait" /\ batch = <<>> /\ flushTarget = 0 /\ stopping = FALSE
  /\ mgrWritten = 0 /\ synced = 0

-----------------------------------------------------------------------------
(* Client threads.                                                         *)

\* append() of a redo record, or append_commit() of a commit record.
CallAppend(c, j) ==
  /\ pc[c] = "idle" /\ ~shutdown
  /\ reserved + Cardinality({d \in Clients : pc[d] = "append"}) < MaxRecords
  /\ pc' = [pc EXCEPT ![c] = "append"]
  /\ job' = [job EXCEPT ![c] = j]
  /\ UNCHANGED <<state, parked, target, acked, rejected, writer, disk>>

\* flush_all() of a checkpoint: samples the reserved LSN and flushes up to it.
CallFlushAll(c) ==
  /\ pc[c] = "idle" /\ ~shutdown /\ reserved > durable
  /\ pc' = [pc EXCEPT ![c] = "flush"]
  /\ job' = [job EXCEPT ![c] = "checkpoint"]
  /\ target' = [target EXCEPT ![c] = reserved]
  /\ UNCHANGED <<state, parked, acked, rejected, writer, disk>>

\* What append() leads to: a redo record returns; commit() reads the live
\* durability, which another session may have changed meanwhile.
NextJobs(j) == IF j = "commit" THEN Levels ELSE {j}
Barrier(j) == IF j = "Strict" THEN "flush" ELSE IF j = "Normal" THEN "write" ELSE "idle"

\* wait_for_wal_buffer() finds room; enqueue_reserved_record().
Enqueue(c) ==
  /\ pc[c] = "append" /\ c \notin parked
  /\ ~failure /\ Len(pending) < BufferRecords
  /\ reserved' = reserved + 1
  /\ pending' = Append(pending, reserved')
  /\ writeRequested' = TRUE
  /\ parked' = {}
  /\ target' = [target EXCEPT ![c] = reserved']
  /\ \E j \in NextJobs(job[c]) :
       /\ job' = [job EXCEPT ![c] = j]
       /\ pc' = [pc EXCEPT ![c] = Barrier(j)]
       /\ acked' = IF j = "UnsafeDev" THEN acked \cup {<<reserved', j>>} ELSE acked
  /\ UNCHANGED <<written, durable, flushRequested, shutdown, failure, rejected,
                 writer, disk>>

\* wait_for_wal_buffer() finds no room: request a write and wait.
BufferFull(c) ==
  /\ pc[c] = "append" /\ c \notin parked
  /\ ~failure /\ Len(pending) >= BufferRecords
  /\ writeRequested' = TRUE
  /\ parked' = {c}
  /\ UNCHANGED <<reserved, written, durable, pending, flushRequested, shutdown,
                 failure, client, writer, disk>>

\* check_wal_failure() fails: before the record exists, or in the barrier.
ReturnErr(c) ==
  /\ pc[c] # "idle" /\ c \notin parked
  /\ failure
  /\ rejected' = IF job[c] \in Levels /\ pc[c] # "append"
                 THEN rejected \cup {target[c]} ELSE rejected
  /\ pc' = [pc EXCEPT ![c] = "idle"]
  /\ UNCHANGED <<state, parked, job, target, acked, writer, disk>>

\* Mutant: flush_until() is satisfied with a written record.
BarrierMetWhenWritten(c) ==
  /\ pc[c] \in {"flush", "write"} /\ c \notin parked /\ ~failure
  /\ written >= target[c]
  /\ acked' = IF job[c] \in Levels THEN acked \cup {<<target[c], job[c]>>} ELSE acked
  /\ pc' = [pc EXCEPT ![c] = "idle"]
  /\ UNCHANGED <<state, parked, job, target, rejected, writer, disk>>

\* Mutant: the barrier looks at its LSN before it looks for a failure.
BarrierMetAfterFailure(c) ==
  /\ pc[c] \in {"flush", "write"} /\ c \notin parked
  /\ IF pc[c] = "flush" THEN durable >= target[c] ELSE written >= target[c]
  /\ acked' = IF job[c] \in Levels THEN acked \cup {<<target[c], job[c]>>} ELSE acked
  /\ pc' = [pc EXCEPT ![c] = "idle"]
  /\ UNCHANGED <<state, parked, job, target, rejected, writer, disk>>

\* flush_until() or write_until() returns Ok.
BarrierMet(c) ==
  /\ pc[c] \in {"flush", "write"} /\ c \notin parked /\ ~failure
  /\ IF pc[c] = "flush" THEN durable >= target[c] ELSE written >= target[c]
  /\ acked' = IF job[c] \in Levels THEN acked \cup {<<target[c], job[c]>>} ELSE acked
  /\ pc' = [pc EXCEPT ![c] = "idle"]
  /\ UNCHANGED <<state, parked, job, target, rejected, writer, disk>>

\* Mutant: flush_until() raises the flush request without a notification.
WaitDurableSilent(c) ==
  /\ pc[c] = "flush" /\ c \notin parked /\ ~failure /\ durable < target[c]
  /\ flushRequested' = MaxOf(flushRequested, target[c])
  /\ parked' = parked \cup {c}
  /\ UNCHANGED <<reserved, written, durable, pending, writeRequested, shutdown,
                 failure, client, writer, disk>>

\* flush_until() raises the flush request, notifies if it did, and waits.
WaitDurable(c) ==
  /\ pc[c] = "flush" /\ c \notin parked /\ ~failure /\ durable < target[c]
  /\ flushRequested' = MaxOf(flushRequested, target[c])
  /\ parked' = IF target[c] > flushRequested THEN {c} ELSE parked \cup {c}
  /\ UNCHANGED <<reserved, written, durable, pending, writeRequested, shutdown,
                 failure, client, writer, disk>>

\* write_until() requests a write and waits.
WaitWritten(c) ==
  /\ pc[c] = "write" /\ c \notin parked /\ ~failure /\ written < target[c]
  /\ writeRequested' = TRUE
  /\ parked' = {c}
  /\ UNCHANGED <<reserved, written, durable, pending, flushRequested, shutdown,
                 failure, client, writer, disk>>

\* Mutant: the shutdown flag is set without waking the writer.
DropSilent ==
  /\ ~shutdown
  /\ \A c \in Clients : pc[c] = "idle"
  /\ shutdown' = TRUE
  /\ UNCHANGED <<reserved, written, durable, pending, writeRequested,
                 flushRequested, failure, parked, client, writer, disk>>

\* WalCoordinator::drop, when no thread uses the coordinator any more.
Drop ==
  /\ ~shutdown
  /\ \A c \in Clients : pc[c] = "idle"
  /\ shutdown' = TRUE
  /\ parked' = {}
  /\ UNCHANGED <<reserved, written, durable, pending, writeRequested,
                 flushRequested, failure, client, writer, disk>>

-----------------------------------------------------------------------------
(* The writer thread.                                                      *)

\* The length of the batch popped from pending.
Take(n) == IF Len(pending) < n THEN Len(pending) ELSE n

WriterWaits ==
  /\ wpc = "wait" /\ Writer \notin parked
  /\ ~writeRequested /\ flushRequested <= durable /\ ~shutdown
  /\ parked' = parked \cup {Writer}
  /\ UNCHANGED <<state, client, writer, disk>>

\* The loop returns: nothing is pending at shutdown.
WriterReturns ==
  /\ wpc = "wait" /\ Writer \notin parked
  /\ shutdown /\ pending = <<>>
  /\ wpc' = "stopped"
  /\ UNCHANGED <<state, parked, client, batch, flushTarget, stopping, disk>>

\* Mutant: records beyond the batch limit are taken from the queue and lost.
TakeBatchDropsRest ==
  /\ wpc = "wait" /\ Writer \notin parked
  /\ writeRequested \/ flushRequested > durable \/ shutdown
  /\ ~(shutdown /\ pending = <<>>)
  /\ batch' = Prefix(pending, Take(BatchRecords))
  /\ pending' = <<>>
  /\ writeRequested' = FALSE
  /\ flushTarget' = IF flushRequested > durable THEN flushRequested ELSE 0
  /\ stopping' = shutdown
  /\ wpc' = "write"
  /\ parked' = {}
  /\ UNCHANGED <<reserved, written, durable, flushRequested, shutdown, failure,
                 client, disk>>

\* Pop a batch and sample the flush request; 0 stands for should_flush = false.
TakeBatch ==
  /\ wpc = "wait" /\ Writer \notin parked
  /\ writeRequested \/ flushRequested > durable \/ shutdown
  /\ ~(shutdown /\ pending = <<>>)
  /\ batch' = Prefix(pending, Take(BatchRecords))
  /\ pending' = Rest(pending, Take(BatchRecords))
  /\ writeRequested' = (pending' # <<>>)
  /\ flushTarget' = IF flushRequested > durable THEN flushRequested ELSE 0
  /\ stopping' = shutdown
  /\ wpc' = "write"
  /\ parked' = {}
  /\ UNCHANGED <<reserved, written, durable, flushRequested, shutdown, failure,
                 client, disk>>

\* write_encoded() of every record of the batch, then publish_written_lsn().
AfterWrite ==
  IF flushTarget > 0 THEN "window"
  ELSE IF stopping /\ FlushOnShutdown /\ batch # <<>> THEN "flush" ELSE "wait"

WriteBatch ==
  /\ wpc \in {"write", "drainWrite"}
  /\ mgrWritten' = mgrWritten + Len(batch)
  /\ written' = MaxOf(written, mgrWritten')
  /\ parked' = IF batch # <<>> THEN {} ELSE parked
  /\ batch' = <<>>
  /\ wpc' = IF wpc = "drainWrite" THEN "drain" ELSE AfterWrite
  /\ UNCHANGED <<reserved, durable, pending, writeRequested, flushRequested,
                 shutdown, failure, client, flushTarget, stopping, synced>>

\* wait_for_group_commit_window(), then resample_flush_target().
Resample ==
  /\ wpc = "window"
  /\ flushTarget' = MaxOf(flushTarget, flushRequested)
  /\ wpc' = "drain"
  /\ UNCHANGED <<state, parked, client, batch, stopping, disk>>

\* drain_until(): pop until the manager has written the target; a batch ends
\* at the batch limit or at the record that reaches the target.  An empty
\* queue would wait for an append.
Drain ==
  /\ wpc = "drain"
  /\ IF mgrWritten >= flushTarget
     THEN wpc' = "flush" /\ UNCHANGED <<pending, batch, parked>>
     ELSE /\ pending # <<>>
          /\ LET gap == flushTarget - mgrWritten
                 n == Take(IF gap < BatchRecords THEN gap ELSE BatchRecords)
             IN  /\ batch' = Prefix(pending, n)
                 /\ pending' = Rest(pending, n)
          /\ parked' = {}
          /\ wpc' = "drainWrite"
  /\ UNCHANGED <<reserved, written, durable, writeRequested, flushRequested,
                 shutdown, failure, client, flushTarget, stopping, disk>>

\* WalManager::flush(): fdatasync of everything written.
Fdatasync ==
  /\ wpc = "flush"
  /\ synced' = mgrWritten
  /\ wpc' = "publish"
  /\ UNCHANGED <<state, parked, client, batch, flushTarget, stopping, mgrWritten>>

\* Publish the durable LSN; a flush round clears a satisfied request, the
\* flush at shutdown leaves it.
PublishDurable ==
  /\ wpc = "publish"
  /\ durable' = mgrWritten
  /\ flushRequested' = IF flushTarget > 0 /\ flushRequested <= mgrWritten
                       THEN 0 ELSE flushRequested
  /\ parked' = {}
  /\ wpc' = "wait"
  /\ UNCHANGED <<reserved, written, pending, writeRequested, shutdown, failure,
                 client, batch, flushTarget, stopping, disk>>

\* A failing write_encoded() or flush(): publish_wal_failure() and return.  A
\* failed fdatasync may have reached the disk with any prefix.
WriterFails ==
  /\ MayFail
  /\ wpc \in {"write", "drainWrite", "flush"}
  /\ wpc # "flush" => batch # <<>>
  /\ synced' \in IF wpc = "flush" THEN synced..mgrWritten ELSE {synced}
  /\ failure' = TRUE
  /\ parked' = {}
  /\ wpc' = "stopped"
  /\ UNCHANGED <<reserved, written, durable, pending, writeRequested,
                 flushRequested, shutdown, client, batch, flushTarget, stopping,
                 mgrWritten>>

WriterStep ==
  \/ WriterWaits \/ WriterReturns \/ TakeBatch \/ WriteBatch \/ Resample
  \/ Drain \/ Fdatasync \/ PublishDurable \/ WriterFails

ClientStep(c) ==
  \/ Enqueue(c) \/ BufferFull(c) \/ ReturnErr(c)
  \/ BarrierMet(c) \/ WaitDurable(c) \/ WaitWritten(c)

\* The coordinator has been dropped and its writer joined.
Terminated == shutdown /\ wpc = "stopped" /\ UNCHANGED vars

Next ==
  \/ \E c \in Clients : \/ \E j \in {"log", "commit"} : CallAppend(c, j)
                        \/ CallFlushAll(c)
                        \/ ClientStep(c)
  \/ Drop
  \/ WriterStep
  \/ Terminated

Spec == Init /\ [][Next]_vars

\* Threads that can run are scheduled.  Nobody is forced to call anything.
FairSpec ==
  /\ Spec
  /\ WF_vars(WriterStep)
  /\ \A c \in Clients : WF_vars(ClientStep(c))

-----------------------------------------------------------------------------
\* The variables have the types of WalCoordinatorState, the clients' stacks and
\* the locals of the writer loop.
TypeOK ==
  /\ {reserved, written, durable, flushRequested, flushTarget, mgrWritten, synced}
       \subseteq 0..MaxRecords
  /\ pending \in Seq(1..MaxRecords) /\ batch \in Seq(1..MaxRecords)
  /\ Len(pending) <= BufferRecords
  /\ writeRequested \in BOOLEAN /\ shutdown \in BOOLEAN
  /\ failure \in BOOLEAN /\ stopping \in BOOLEAN
  /\ parked \subseteq Clients \cup {Writer}
  /\ pc \in [Clients -> {"idle", "append", "flush", "write"}]
  /\ job \in [Clients -> {"log", "commit", "checkpoint"} \cup Levels]
  /\ target \in [Clients -> 0..MaxRecords]
  /\ wpc \in {"wait", "write", "window", "drain", "drainWrite", "flush",
              "publish", "stopped"}
  /\ acked \subseteq (1..MaxRecords) \X Levels /\ rejected \subseteq 1..MaxRecords

\* What the writer holds and what is queued continue the log exactly where
\* WalManager stands, so write_encoded() never meets a record whose LSN is not
\* its write position and a drain never waits for a record nobody will append.
QueueContinuesLog ==
  ~failure => batch \o pending = [i \in 1..(reserved - mgrWritten) |-> mgrWritten + i]

\* The published LSNs never run ahead of the facts: durable_lsn of what
\* fdatasync has covered, written_lsn of what the manager has written.
PublishedBehindDisk == durable <= synced /\ synced <= mgrWritten /\ written <= mgrWritten

\* A Strict commit() returns Ok only for a record that fdatasync has covered,
\* whatever the commits of other levels beside it wait for: the batch that
\* carried it, the resampled target and the published LSN agree.
AckedIsDurable == \A a \in acked : a[2] = "Strict" => a[1] <= synced

\* Normal durability promises what Strict does.
NormalIsStrict == \A a \in acked : a[2] = "Normal" => a[1] <= synced

\* A transaction whose commit() returned Err is not durable (the "only if" of
\* the durability guarantee).
RejectedNotDurable == \A l \in rejected : l > synced

\* The abstract log: its prefixes are the reserved LSN, the manager's write
\* position and what fdatasync has covered, never the published copies.
Log == INSTANCE DurableLog
         WITH appended <- reserved, written <- mgrWritten, durable <- synced,
              failed <- failure

\* The coordinator implements the log its callers rely on: whatever client
\* threads and the writer do between the mutex and the condition variable, each
\* step is an append, a write, an fdatasync, a failure or an answer that the
\* prefix of its level covers, or is invisible.
ImplementsDurableLog == Log!Spec

\* Every append, commit and checkpoint flush is answered: no wake-up is lost
\* between the clients and the writer that share the condition variable.
CallReturns == \A c \in Clients : pc[c] # "idle" ~> pc[c] = "idle"

\* Dropping the coordinator joins the writer: the loop always ends.
DropReturns == shutdown ~> wpc = "stopped"
=============================================================================
