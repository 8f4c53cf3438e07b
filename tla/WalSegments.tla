----------------------------- MODULE WalSegments -----------------------------
(***************************************************************************)
(* The layout of the log on disk: LSNs reserved by the coordinator under   *)
(* its mutex, records placed later by the WalManager of the writer thread, *)
(* segments pruned after a checkpoint, and the scan that finds the end of  *)
(* the log when the database is opened again.  A file is a sequence of     *)
(* cells; a record header is one cell.                                     *)
(***************************************************************************)
EXTENDS Integers, Sequences, FiniteSets, FiniteSetsExt

CONSTANTS SegmentBytes,     \* config.segment_bytes
          Sizes,            \* encoded lengths of the records appended
          MaxRecords,       \* bound on the records of a behaviour
          MaxCrashes,       \* bound on its crashes
          ReorderedWrites   \* whether unsynced cells may reach the disk out of order

ASSUME SegmentsAssumption ==
  /\ SegmentBytes \in Nat \ {0}
  /\ Sizes \subseteq 1..SegmentBytes
  /\ MaxRecords \in Nat /\ MaxCrashes \in Nat
  /\ ReorderedWrites \in BOOLEAN

VARIABLES
  files, onDisk,                 \* cells per segment; segments with a directory entry
  seg, off, syncedTo,            \* WalManager's active segment, offset; cells synced in it
  reserved, pending,             \* WalCoordinatorState.reserved_lsn and the queue
  failed,                        \* the writer published a failure
  ckpt, pruning,                 \* control file's checkpoint_lsn; the prune that follows
  mode,                          \* "up", "down" after a crash, "refused" by the scan
  crashes,
  nextId, stable, covered        \* records: issued, acknowledged durable, checkpointed

vars == <<files, onDisk, seg, off, syncedTo, reserved, pending, failed, ckpt,
          pruning, mode, crashes, nextId, stable, covered>>

\* No LSN of a behaviour lies beyond this segment.
Segments == 1..(MaxRecords + 2)

Zero == [id |-> 0, lsn |-> 0, size |-> 1, i |-> 0]
Cells(r) == [j \in 1..r.size |-> [id |-> r.id, lsn |-> r.lsn, size |-> r.size, i |-> j]]

segment_for_lsn(lsn) == (lsn \div SegmentBytes) + 1
offset_for_lsn(lsn) == lsn % SegmentBytes
Position(s, o) == (s - 1) * SegmentBytes + o

\* write_all_at(o, new): bytes behind the write stay.
WriteAt(c, o, new) ==
  [i \in 1..(IF Len(c) > o + Len(new) THEN Len(c) ELSE o + Len(new)) |->
     IF i > o /\ i <= o + Len(new) THEN new[i - o] ELSE c[i]]

\* set_len(n): cut, or extend with zeros.
SetLen(c, n) == [i \in 1..n |-> IF i <= Len(c) THEN c[i] ELSE Zero]

Ids(c) == {c[i].id : i \in DOMAIN c} \ {0}

Init ==
  /\ files = [s \in Segments |-> <<>>] /\ onDisk = {1}
  /\ seg = 1 /\ off = 0 /\ syncedTo = 0
  /\ reserved = 0 /\ pending = <<>> /\ failed = FALSE
  /\ ckpt = 0 /\ pruning = FALSE
  /\ mode = "up" /\ crashes = 0
  /\ nextId = 1 /\ stable = {} /\ covered = {}

-----------------------------------------------------------------------------
(* Appending.                                                              *)

\* Mutant: a record that does not fit skips a whole segment.
ReserveSkipsSegment(size) ==
  IF offset_for_lsn(reserved) + size > SegmentBytes
  THEN (segment_for_lsn(reserved) + 1) * SegmentBytes
  ELSE reserved

\* reserve_queued_append(): the start LSN of the next record.
ReserveStart(size) ==
  LET current_offset == offset_for_lsn(reserved)
  IN  IF current_offset > 0 /\ current_offset + size > SegmentBytes
      THEN segment_for_lsn(reserved) * SegmentBytes
      ELSE reserved

Append_(size) ==
  /\ mode = "up" /\ ~failed /\ nextId <= MaxRecords
  /\ pending' = Append(pending, [id |-> nextId, lsn |-> ReserveStart(size), size |-> size])
  /\ reserved' = ReserveStart(size) + size
  /\ nextId' = nextId + 1
  /\ UNCHANGED <<files, onDisk, seg, off, syncedTo, failed, ckpt, pruning, mode,
                 crashes, stable, covered>>

\* write_encoded() with rotate_segment(): rotation syncs the old segment and
\* opens the next one as it is.
WriteEncoded ==
  /\ mode = "up" /\ ~failed /\ pending # <<>>
  /\ LET r == Head(pending)
         rotate == Position(seg, off) # r.lsn /\ off > 0 /\ off + r.size > SegmentBytes
         s == IF rotate THEN seg + 1 ELSE seg
         o == IF rotate THEN 0 ELSE off
         opened == IF rotate /\ s \notin onDisk THEN [files EXCEPT ![s] = <<>>] ELSE files
     IN  /\ seg' = s
         /\ onDisk' = IF rotate THEN onDisk \cup {s} ELSE onDisk
         /\ stable' = IF rotate THEN stable \cup Ids(files[seg]) ELSE stable
         /\ syncedTo' = IF rotate THEN 0 ELSE syncedTo
         /\ IF Position(s, o) = r.lsn
            THEN /\ files' = [opened EXCEPT ![s] = WriteAt(@, o, Cells(r))]
                 /\ off' = o + r.size
                 /\ pending' = Tail(pending)
                 /\ UNCHANGED failed
            ELSE /\ files' = opened
                 /\ off' = o
                 /\ failed' = TRUE
                 /\ UNCHANGED pending
  /\ UNCHANGED <<reserved, ckpt, pruning, mode, crashes, nextId, covered>>

\* flush(): fdatasync of the active segment.
Flush ==
  /\ mode = "up" /\ ~failed /\ syncedTo < off
  /\ syncedTo' = off
  /\ stable' = stable \cup Ids(files[seg])
  /\ UNCHANGED <<files, onDisk, seg, off, reserved, pending, failed, ckpt, pruning,
                 mode, crashes, nextId, covered>>

-----------------------------------------------------------------------------
(* Checkpoint and prune.                                                   *)

\* checkpoint_with_stats() up to the control file: flush_all() has made the
\* whole log durable and the dirty pages carry its effects.
Checkpoint ==
  /\ mode = "up" /\ ~failed /\ ~pruning
  /\ pending = <<>> /\ syncedTo = off /\ ckpt # reserved
  /\ ckpt' = reserved
  /\ covered' = stable
  /\ pruning' = TRUE
  /\ UNCHANGED <<files, onDisk, seg, off, syncedTo, reserved, pending, failed, mode,
                 crashes, nextId, stable>>

\* Mutant: the segment that holds the checkpoint LSN is pruned too.
PruneInclusive ==
  /\ mode = "up" /\ pruning
  /\ onDisk' = {s \in onDisk :
                  s > segment_for_lsn(ckpt) \/ s > segment_for_lsn(reserved)}
  /\ pruning' = FALSE
  /\ UNCHANGED <<files, seg, off, syncedTo, reserved, pending, failed, ckpt, mode,
                 crashes, nextId, stable, covered>>

\* prune_segments_below_checkpoint_lsn().
Prune ==
  /\ mode = "up" /\ pruning
  /\ onDisk' = {s \in onDisk :
                  s >= segment_for_lsn(ckpt) \/ s >= segment_for_lsn(reserved)}
  /\ pruning' = FALSE
  /\ UNCHANGED <<files, seg, off, syncedTo, reserved, pending, failed, ckpt, mode,
                 crashes, nextId, stable, covered>>

-----------------------------------------------------------------------------
(* Crash and restart.                                                      *)

\* What a crash may leave of the active segment.
Survivors(c) ==
  IF ReorderedWrites
  THEN {[i \in 1..Len(c) |-> IF i \in lost THEN Zero ELSE c[i]] :
          lost \in SUBSET ((syncedTo + 1)..Len(c))}
  ELSE {SetLen(c, n) : n \in syncedTo..Len(c)}

Crash ==
  /\ mode = "up" /\ crashes < MaxCrashes
  /\ crashes' = crashes + 1
  /\ \E c \in Survivors(files[seg]) : files' = [files EXCEPT ![seg] = c]
  /\ mode' = "down"
  /\ pending' = <<>> /\ failed' = FALSE /\ pruning' = FALSE
  /\ UNCHANGED <<onDisk, seg, off, syncedTo, reserved, ckpt, nextId, stable, covered>>

\* scan_report() of one segment.  "long" says how bytes that are no header
\* read as one: as a record that ends at or beyond the end of the file, or not.
ScanFile(s, isLast, long) ==
  LET c == files[s]
      record_len(o) == IF c[o + 1].i > 1 /\ long THEN Len(c) ELSE
                       IF c[o + 1].i > 1 THEN 1 ELSE c[o + 1].size
      decodes(o) == /\ c[o + 1].i = 1
                    /\ o + c[o + 1].size <= Len(c)
                    /\ \A j \in 1..c[o + 1].size : c[o + j] = [c[o + 1] EXCEPT !.i = j]
      scan[o \in 0..Len(c)] ==
        CASE o = Len(c) -> [ok |-> TRUE, recs |-> {}]
          [] o < Len(c) /\ decodes(o) ->
               IF c[o + 1].lsn = Position(s, o)
               THEN LET rest == scan[o + c[o + 1].size]
                    IN  [rest EXCEPT !.recs = @ \cup {c[o + 1]}]
               ELSE [ok |-> FALSE, recs |-> {}]
          [] OTHER -> [ok |-> isLast /\ o + record_len(o) >= Len(c), recs |-> {}]
  IN  scan[0]

scan_report(long) ==
  LET reports == [s \in onDisk |-> ScanFile(s, s = Max(onDisk), long)]
  IN  [ok |-> \A s \in onDisk : reports[s].ok,
       records |-> UNION {reports[s].recs : s \in onDisk}]

valid_end_lsn(records) ==
  IF records = {} THEN 0 ELSE Max({r.lsn + r.size : r \in records})

\* WalManager::open_prepared() after a scan, or an open that the scan refuses.
\* The records the scan accepted are on disk and are replayed.
Reopen ==
  /\ mode = "down"
  /\ \E long \in BOOLEAN :
       LET report == scan_report(long)
           end == valid_end_lsn(report.records)
           s == segment_for_lsn(end)
       IN  IF report.ok
           THEN /\ mode' = "up"
                /\ seg' = s /\ off' = offset_for_lsn(end) /\ syncedTo' = offset_for_lsn(end)
                /\ reserved' = end
                /\ stable' = stable \cup {r.id : r \in report.records}
                /\ onDisk' = onDisk \cup {s}
                /\ files' = [files EXCEPT
                     ![s] = SetLen(IF s \in onDisk THEN @ ELSE <<>>, offset_for_lsn(end))]
           ELSE mode' = "refused" /\ UNCHANGED <<seg, off, syncedTo, reserved, onDisk, files, stable>>
  /\ UNCHANGED <<pending, failed, ckpt, pruning, crashes, nextId, covered>>

Next ==
  \/ \E size \in Sizes : Append_(size)
  \/ WriteEncoded \/ Flush \/ Checkpoint \/ Prune \/ Crash \/ Reopen

Spec == Init /\ [][Next]_vars

-----------------------------------------------------------------------------
\* Whatever a crash leaves on disk, the next open accepts the log and replays
\* every record that fdatasync covered and no checkpoint has made redundant.
DurableRecordsRecovered ==
  mode = "down" =>
    \A long \in BOOLEAN :
      /\ scan_report(long).ok
      /\ stable \ covered \subseteq
           {r.id : r \in {q \in scan_report(long).records : q.lsn >= ckpt}}

\* The LSN that the coordinator reserves for a record is the position where
\* the manager later writes it: without an I/O error the writer never fails.
PositionsAgree == ~failed

\* The log never restarts below the checkpoint, where recovery would skip it.
LogCoversCheckpoint == mode = "up" => reserved >= ckpt
=============================================================================
