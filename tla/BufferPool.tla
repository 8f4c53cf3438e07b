----------------------------- MODULE BufferPool -----------------------------
(***************************************************************************)
(* The buffer pool: a bounded cache of pages in front of the page file.    *)
(* Clients pin, change and unpin pages; a pin that finds the pool full     *)
(* runs the clock eviction; a checkpointer flushes dirty frames meanwhile. *)
(*                                                                         *)
(* The shard locks and frame locks of the code are held for one step each. *)
(* A page is abstracted to the number of its last change.  A logged change *)
(* sets the page LSN to the end of its record; an unlogged one (the undo   *)
(* page, the vacuum's overwrite_tuple, a recovered page) sets it to 0.     *)
(***************************************************************************)
EXTENDS Integers, Sequences, FiniteSets, FiniteSetsExt

CONSTANTS
    Clients,
    Flusher,     \* the checkpointing thread
    OldPages,    \* pages the page file has at the start: 1..OldPages
    MaxPages,    \* bound: pages allocated in all
    Capacity,    \* frames the pool is configured for
    Frames,      \* bound: frame objects alive at one time
    UsageCap,    \* the ceiling of usage_count (5 in the code)
    MaxChanges,  \* bound: changes to pages
    MayFail,     \* may reading and writing a page fail?
    Hazards      \* which of the circumstances below histories may contain

\* "pin": a frame is evicted while a client has looked it up and not yet
\* raised its pin count; "flush": two threads write one frame at a time;
\* "reset": an unlogged change lowers the LSN of a page whose last logged
\* change is not yet durable.
ASSUME HazardsAssumption == Hazards \subseteq {"pin", "flush", "reset"}

\* Frame 0 stands for no frame, and 0 for nobody evicting.
ASSUME PoolAssumption ==
    /\ IsFiniteSet(Clients) /\ Flusher \notin Clients /\ 0 \notin Clients
    /\ OldPages \in Nat /\ MaxPages \in Nat /\ OldPages <= MaxPages
    /\ Frames \subseteq Nat \ {0} /\ IsFiniteSet(Frames)
    /\ UsageCap \in Nat

VARIABLES
    map,      \* the shards: page -> frame, or 0
    frames,   \* the frames
    resident, \* the counter of frames in the shards
    disk,     \* the page file
    nextPage,
    latest,   \* the last change made to each page
    changes,  \* changes so far; also the end of the log
    durable,  \* the fsynced end of the log
    pc,       \* where each client and the flusher are
    ev        \* the eviction under way, under the eviction mutex

vars == <<map, frames, resident, disk, nextPage, latest, changes, durable, pc, ev>>

Pages == 1..MaxPages
Free == [page |-> 0, loaded |-> FALSE, ver |-> 0, lsn |-> 0, need |-> 0, pins |-> 0,
         dirty |-> FALSE, usage |-> 0, writing |-> FALSE, failed |-> FALSE]
Away == [at |-> "away", page |-> 0, frame |-> 0, copy |-> Free]
NoEviction == [by |-> 0, list |-> <<>>, idx |-> 0]

Init ==
    /\ map = [p \in Pages |-> 0]
    /\ frames = [f \in Frames |-> Free]
    /\ resident = 0
    /\ disk = [p \in Pages |-> [ver |-> 0, lsn |-> 0, need |-> 0]]
    /\ nextPage = OldPages + 1
    /\ latest = [p \in Pages |-> 0]
    /\ changes = 0 /\ durable = 0
    /\ pc = [c \in Clients \cup {Flusher} |-> Away]
    /\ ev = NoEviction

\* Another client has the Arc of f and has not pinned it; without one, f is
\* dropped when c lets go of it.
WaitingFor(c, f) == \E d \in Clients \ {c} : pc[d].at = "attach" /\ pc[d].frame = f
Dropped(c, f, fr) == [frames EXCEPT ![f] = IF WaitingFor(c, f) THEN fr ELSE Free]

Goto(c, at) == [pc EXCEPT ![c].at = at]

\* Frames no shard and no thread refers to.
Unused ==
    Frames \ ({map[p] : p \in Pages} \cup {pc[c].frame : c \in DOMAIN pc}
              \cup {ev.list[i] : i \in DOMAIN ev.list})

-----------------------------------------------------------------------------
\* Pinning.

\* pin's lookup_frame: the Arc is cloned and the shard lock let go.
LookupFrame(c, p) ==
    pc' = [pc EXCEPT ![c] = [Away EXCEPT !.page = p, !.frame = map[p],
                                         !.at = IF map[p] # 0 THEN "attach" ELSE "capacity"]]

CallPin(c, p) ==
    /\ pc[c].at = "away"
    /\ p < nextPage
    /\ LookupFrame(c, p)
    /\ UNCHANGED <<map, frames, resident, disk, nextPage, latest, changes, durable, ev>>

Retry(c) ==
    /\ pc[c].at = "lookup"
    /\ LookupFrame(c, pc[c].page)
    /\ UNCHANGED <<map, frames, resident, disk, nextPage, latest, changes, durable, ev>>

\* Wait until the page is loaded; start over if loading failed.
Attach(c) ==
    LET f == pc[c].frame
        fr == frames[f]
    IN  /\ pc[c].at = "attach"
        /\ fr.loaded \/ fr.failed
        /\ IF fr.failed
           THEN /\ pc' = [pc EXCEPT ![c].frame = 0, ![c].at = "lookup"]
                /\ frames' = Dropped(c, f, fr)
           ELSE /\ frames' = [frames EXCEPT ![f] =
                        [fr EXCEPT !.pins = fr.pins + 1, !.usage = Min({fr.usage + 1, UsageCap})]]
                /\ pc' = Goto(c, "pinned")
        /\ UNCHANGED <<map, resident, disk, nextPage, latest, changes, durable, ev>>

\* try_insert_loading_frame.
InsertLoading(c) ==
    LET p == pc[c].page
    IN  /\ pc[c].at = "insert"
        /\ IF map[p] # 0
           THEN /\ pc' = Goto(c, "lookup")
                /\ UNCHANGED <<map, frames, resident>>
           ELSE \E f \in Unused :
                /\ f = Min(Unused)
                /\ frames' = [frames EXCEPT ![f] = [Free EXCEPT !.page = p, !.pins = 1, !.usage = 1]]
                /\ map' = [map EXCEPT ![p] = f]
                /\ resident' = resident + 1
                /\ pc' = [pc EXCEPT ![c].frame = f, ![c].at = "read"]
        /\ UNCHANGED <<disk, nextPage, latest, changes, durable, ev>>

ReadPage(c) ==
    LET f == pc[c].frame
        d == disk[pc[c].page]
    IN  /\ pc[c].at = "read"
        /\ frames' = [frames EXCEPT ![f] = [@ EXCEPT !.loaded = TRUE, !.ver = d.ver,
                                                  !.lsn = d.lsn, !.need = d.need]]
        /\ pc' = Goto(c, "pinned")
        /\ UNCHANGED <<map, resident, disk, nextPage, latest, changes, durable, ev>>

\* Mutant: the frame is removed without the load_failed mark.
ReadFailsSilently(c) ==
    LET f == pc[c].frame
    IN  /\ pc[c].at = "read"
        /\ MayFail
        /\ frames' = Dropped(c, f, frames[f])
        /\ map' = [map EXCEPT ![pc[c].page] = 0]
        /\ resident' = resident - 1
        /\ pc' = [pc EXCEPT ![c] = Away]
        /\ UNCHANGED <<disk, nextPage, latest, changes, durable, ev>>

\* remove_loading_frame: the waiters see load_failed and start over.
ReadFails(c) ==
    LET f == pc[c].frame
    IN  /\ pc[c].at = "read"
        /\ MayFail
        /\ frames' = Dropped(c, f, [frames[f] EXCEPT !.failed = TRUE])
        /\ map' = [map EXCEPT ![pc[c].page] = 0]
        /\ resident' = resident - 1
        /\ pc' = [pc EXCEPT ![c] = Away]
        /\ UNCHANGED <<disk, nextPage, latest, changes, durable, ev>>

\* allocate, once there is room: a new page, born dirty with LSN 0.
CallAllocate(c) ==
    /\ pc[c].at = "away"
    /\ nextPage \in Pages
    /\ pc' = [pc EXCEPT ![c] = [Away EXCEPT !.at = "capacity"]]
    /\ UNCHANGED <<map, frames, resident, disk, nextPage, latest, changes, durable, ev>>

AllocateFrame(c) ==
    /\ pc[c].at = "allocate"
    /\ nextPage \in Pages
    /\ \E f \in Unused :
        /\ f = Min(Unused)
        /\ frames' = [frames EXCEPT ![f] = [Free EXCEPT !.page = nextPage, !.loaded = TRUE,
                                            !.pins = 1, !.usage = 1, !.dirty = TRUE]]
        /\ map' = [map EXCEPT ![nextPage] = f]
        /\ pc' = [pc EXCEPT ![c] = [Away EXCEPT !.at = "pinned", !.page = nextPage, !.frame = f]]
    /\ resident' = resident + 1
    /\ nextPage' = nextPage + 1
    /\ UNCHANGED <<disk, latest, changes, durable, ev>>

\* Page ids are a bound of the model: an allocation beyond it is given up.
AllocateGivesUp(c) ==
    /\ pc[c].at = "allocate" /\ nextPage \notin Pages
    /\ pc' = [pc EXCEPT ![c] = Away]
    /\ UNCHANGED <<map, frames, resident, disk, nextPage, latest, changes, durable, ev>>

-----------------------------------------------------------------------------
\* Eviction.

AfterRoom(c) == IF pc[c].page = 0 THEN "allocate" ELSE "insert"

Loaded == {map[p] : p \in {q \in Pages : map[q] # 0}}
Orders(S) ==
  {s \in UNION {[1..n -> S] : n \in 0..Cardinality(S)} :
     /\ \A f \in S : \E i \in DOMAIN s : s[i] = f
     /\ \A i, j \in DOMAIN s : i # j => s[i] # s[j]}

\* ensure_capacity: room, or the eviction mutex and a list of all frames
\* that the clock hand starts somewhere in.
EnsureCapacity(c) ==
    /\ pc[c].at = "capacity"
    /\ \/ /\ resident < Capacity
          /\ pc' = Goto(c, AfterRoom(c))
          /\ UNCHANGED ev
       \/ /\ resident >= Capacity
          /\ ev.by = 0
          /\ \E list \in Orders(Loaded) : ev' = [by |-> c, list |-> list, idx |-> 0]
          /\ pc' = Goto(c, "visit")
    /\ UNCHANGED <<map, frames, resident, disk, nextPage, latest, changes, durable>>

Victim == ev.list[(ev.idx % Len(ev.list)) + 1]
Passed == [ev EXCEPT !.idx = @ + 1]

\* A frame of the list that may not go now: pinned, being written, loading,
\* used lately, or dirty with a page LSN above the evictor's durable LSN,
\* which is zero.
Stays(fr) == fr.pins > 0 \/ fr.writing \/ ~fr.loaded \/ fr.usage > 0 \/ (fr.dirty /\ fr.lsn > 0)

\* One turn of the clock in evict_one.
Visit(c) ==
    LET fr == frames[Victim]
    IN  /\ pc[c].at = "visit"
        /\ ev.idx < 2 * Len(ev.list)
        /\ IF Stays(fr)
           THEN /\ frames' = IF fr.pins = 0 /\ ~fr.writing /\ fr.loaded /\ fr.usage > 0
                             THEN [frames EXCEPT ![Victim].usage = @ - 1] ELSE frames
                /\ ev' = Passed
                /\ UNCHANGED pc
           ELSE /\ pc' = [pc EXCEPT ![c].frame = Victim,
                                    ![c].at = IF fr.dirty THEN "evictflush" ELSE "remove"]
                /\ UNCHANGED <<frames, ev>>
        /\ UNCHANGED <<map, resident, disk, nextPage, latest, changes, durable>>

\* Mutants: remove_frame_if_unpinned trusts an earlier look at the pin count;
\* or does not look at the dirty bit again.
RemovableUnchecked(fr) == ~fr.dirty /\ ~fr.writing /\ fr.loaded
RemovableDirty(fr) == fr.pins = 0 /\ ~fr.writing /\ fr.loaded

Removable(fr) == fr.pins = 0 /\ ~fr.dirty /\ ~fr.writing /\ fr.loaded

\* remove_frame_if_unpinned (which looks again at all that evict_one looked
\* at after its flush), then the loop of ensure_capacity.
Remove(c) ==
    LET f == pc[c].frame
        fr == frames[f]
        enough == resident - 1 < Capacity
    IN  /\ pc[c].at = "remove"
        /\ "pin" \in Hazards \/ ~WaitingFor(c, f)
        /\ IF map[fr.page] = f /\ Removable(fr)
           THEN /\ map' = [map EXCEPT ![fr.page] = 0]
                /\ frames' = Dropped(c, f, fr)
                /\ resident' = resident - 1
                /\ IF enough THEN ev' = NoEviction
                   ELSE \E list \in Orders(Loaded \ {f}) : ev' = [by |-> c, list |-> list, idx |-> 0]
                /\ pc' = [pc EXCEPT ![c].frame = 0,
                                    ![c].at = IF enough THEN AfterRoom(c) ELSE "visit"]
           ELSE /\ ev' = Passed
                /\ pc' = [pc EXCEPT ![c].frame = 0, ![c].at = "visit"]
                /\ UNCHANGED <<map, frames, resident>>
        /\ UNCHANGED <<disk, nextPage, latest, changes, durable>>

\* Two rounds without a victim: "no unpinned frame available for eviction".
EvictFails(c) ==
    /\ pc[c].at = "visit"
    /\ ev.idx >= 2 * Len(ev.list)
    /\ ev' = NoEviction
    /\ pc' = [pc EXCEPT ![c] = Away]
    /\ UNCHANGED <<map, frames, resident, disk, nextPage, latest, changes, durable>>

-----------------------------------------------------------------------------
\* Flushing a frame: copy it under the frame lock, write the copy, then clear
\* the dirty bit unless the page LSN has moved on.

FlushPick(f) ==
    /\ pc[Flusher].at = "away"
    /\ f \in Loaded
    /\ frames[f].loaded /\ frames[f].dirty /\ ~frames[f].writing /\ frames[f].lsn <= durable
    /\ pc' = [pc EXCEPT ![Flusher] = [Away EXCEPT !.at = "flush", !.frame = f]]
    /\ UNCHANGED <<map, frames, resident, disk, nextPage, latest, changes, durable, ev>>

\* Mutant: the checkpointer flushes up to the end of the log.
LimitAppended(c) == IF c = Flusher THEN changes ELSE 0

After(c) == IF c = Flusher THEN Away ELSE [pc[c] EXCEPT !.at = "remove", !.copy = Free]
Limit(c) == IF c = Flusher THEN durable ELSE 0

FlushCopy(c) ==
    LET f == pc[c].frame
    IN  /\ pc[c].at \in {"flush", "evictflush"}
        /\ "flush" \in Hazards \/ ~frames[f].writing
        /\ IF frames[f].dirty /\ frames[f].lsn <= Limit(c)
           THEN /\ frames' = [frames EXCEPT ![f].writing = TRUE]
                /\ pc' = [pc EXCEPT ![c].copy = frames[f], ![c].at = "write"]
           ELSE /\ pc' = [pc EXCEPT ![c] = After(c)]
                /\ UNCHANGED frames
        /\ UNCHANGED <<map, resident, disk, nextPage, latest, changes, durable, ev>>

FlushWrite(c) ==
    LET copy == pc[c].copy
    IN  /\ pc[c].at = "write"
        /\ disk' = [disk EXCEPT ![copy.page] = [ver |-> copy.ver, lsn |-> copy.lsn, need |-> copy.need]]
        /\ pc' = Goto(c, "written")
        /\ UNCHANGED <<map, frames, resident, nextPage, latest, changes, durable, ev>>

FlushDone(c) ==
    LET f == pc[c].frame
        fr == frames[f]
    IN  /\ pc[c].at = "written"
        /\ frames' = [frames EXCEPT ![f] =
                [fr EXCEPT !.writing = FALSE, !.dirty = fr.dirty /\ fr.lsn > pc[c].copy.lsn]]
        /\ pc' = [pc EXCEPT ![c] = After(c)]
        /\ UNCHANGED <<map, resident, disk, nextPage, latest, changes, durable, ev>>

\* The write fails: the frame stays dirty, and the error ends the eviction or
\* the checkpoint that asked for it.
FlushFails(c) ==
    /\ pc[c].at = "write"
    /\ MayFail
    /\ frames' = [frames EXCEPT ![pc[c].frame].writing = FALSE]
    /\ pc' = [pc EXCEPT ![c] = Away]
    /\ ev' = IF c = Flusher THEN ev ELSE NoEviction
    /\ UNCHANGED <<map, resident, disk, nextPage, latest, changes, durable>>

-----------------------------------------------------------------------------
\* What a client does with a pinned page.

Change(f, lsn, dirty) ==
    LET fr == frames[f]
    IN  /\ changes < MaxChanges
        /\ ~fr.writing
        /\ changes' = changes + 1
        /\ latest' = [latest EXCEPT ![fr.page] = changes + 1]
        /\ frames' = [frames EXCEPT ![f] =
                [fr EXCEPT !.ver = changes + 1, !.lsn = lsn, !.dirty = dirty,
                           !.need = IF lsn = changes + 1 THEN lsn ELSE fr.need]]

\* append_cell: change, LSN and dirty bit under one frame lock.
LoggedChange(c) ==
    LET f == pc[c].frame
    IN  /\ pc[c].at = "pinned"
        /\ Change(f, changes + 1, TRUE)
        /\ UNCHANGED <<map, resident, disk, nextPage, durable, pc, ev>>

\* overwrite_tuple: with_page_mut, and mark_dirty(Lsn::ZERO) in a lock of
\* its own.
UnloggedChange(c) ==
    LET f == pc[c].frame
    IN  /\ pc[c].at = "pinned"
        /\ "reset" \in Hazards \/ frames[f].need <= durable
        /\ Change(f, frames[f].lsn, frames[f].dirty)
        /\ pc' = Goto(c, "mark")
        /\ UNCHANGED <<map, resident, disk, nextPage, durable, ev>>

MarkDirty(c) ==
    LET f == pc[c].frame
    IN  /\ pc[c].at = "mark"
        /\ ~frames[f].writing
        /\ "reset" \in Hazards \/ frames[f].need <= durable
        /\ frames' = [frames EXCEPT ![f] = [@ EXCEPT !.dirty = TRUE, !.lsn = 0]]
        /\ pc' = Goto(c, "pinned")
        /\ UNCHANGED <<map, resident, disk, nextPage, latest, changes, durable, ev>>

\* Mutant: dropping a guard forgets the pin count.
UnpinKeepsCount(c) ==
    /\ pc[c].at = "pinned"
    /\ pc' = [pc EXCEPT ![c] = Away]
    /\ UNCHANGED <<map, frames, resident, disk, nextPage, latest, changes, durable, ev>>

Unpin(c) ==
    /\ pc[c].at = "pinned"
    /\ frames' = [frames EXCEPT ![pc[c].frame].pins = @ - 1]
    /\ pc' = [pc EXCEPT ![c] = Away]
    /\ UNCHANGED <<map, resident, disk, nextPage, latest, changes, durable, ev>>

\* The WAL writer.
Sync ==
    /\ durable < changes
    /\ durable' = changes
    /\ UNCHANGED <<map, frames, resident, disk, nextPage, latest, changes, pc, ev>>

ClientStep(c) ==
    \/ Retry(c) \/ Attach(c) \/ InsertLoading(c) \/ ReadPage(c) \/ ReadFails(c)
    \/ AllocateFrame(c) \/ AllocateGivesUp(c)
    \/ EnsureCapacity(c) \/ Visit(c) \/ Remove(c) \/ EvictFails(c)
    \/ MarkDirty(c) \/ Unpin(c)

FlushStep(c) == FlushCopy(c) \/ FlushWrite(c) \/ FlushDone(c) \/ FlushFails(c)

Next ==
    \/ \E c \in Clients : ClientStep(c) \/ CallAllocate(c) \/ LoggedChange(c) \/ UnloggedChange(c)
                          \/ \E p \in Pages : CallPin(c, p)
    \/ \E c \in Clients \cup {Flusher} : FlushStep(c)
    \/ \E f \in Frames : FlushPick(f)
    \/ Sync

Spec == Init /\ [][Next]_vars

-----------------------------------------------------------------------------
\* Properties.

Holds(c) == pc[c].at \in {"pinned", "mark"}

\* Types; the resident counter is the number of frames in the shards, and a
\* frame's pin count the number of guards on it.
TypeOK ==
    /\ map \in [Pages -> Frames \cup {0}]
    /\ resident = Cardinality({p \in Pages : map[p] # 0})
    /\ \A f \in Loaded : frames[f].pins =
            Cardinality({c \in Clients : (Holds(c) \/ pc[c].at = "read") /\ pc[c].frame = f})
    /\ \A p \in Pages : map[p] # 0 => frames[map[p]].page = p
    /\ durable <= changes
    /\ nextPage \in OldPages + 1..MaxPages + 1

\* Two guards on one page are guards on one frame, the one in the shard: no
\* eviction takes a frame from under a pin.
PinnedIsResident == \A c \in Clients : Holds(c) => map[pc[c].page] = pc[c].frame

\* No change to a page is ever lost: the newest state is in the resident
\* frame or, if there is none, in the page file; and a clean frame holds
\* what the page file holds, so evicting it is safe.
NoChangeLost ==
    \A p \in Pages :
        LET f == map[p]
            marking == \E c \in Clients : pc[c].at = "mark" /\ pc[c].frame = f
        IN  IF f # 0 /\ frames[f].loaded
            THEN /\ frames[f].ver = latest[p]
                 /\ frames[f].dirty \/ marking \/ disk[p].ver = frames[f].ver
            ELSE disk[p].ver = latest[p]

\* Write-ahead logging: the page file never shows a logged change whose
\* record is not yet durable.
LogBeforePage == \A p \in Pages : disk[p].need <= durable

\* A pin or an allocation that found no victim had none: "no unpinned frame
\* available for eviction" is said only when every frame is pinned or dirty
\* with an LSN of its own.
EvictionErrorIsTrue ==
    \A c \in Clients : (pc[c].at = "visit" /\ ev.idx >= 2 * Len(ev.list)) =>
        \A f \in Loaded : frames[f].pins > 0 \/ frames[f].writing \/ ~frames[f].loaded
                          \/ (frames[f].dirty /\ frames[f].lsn > 0)

\* Nobody waits in vain: a page a client waits for is loaded, has failed, or
\* is being read by the thread that put its frame in the shard, and the
\* eviction mutex is held only by a thread that is evicting.
WaitersAreServed ==
    /\ \A c \in Clients : pc[c].at = "attach" =>
            LET f == pc[c].frame
            IN  frames[f].loaded \/ frames[f].failed
                \/ \E d \in Clients : pc[d].at = "read" /\ pc[d].frame = f
    /\ ev.by # 0 => pc[ev.by].at \in {"visit", "evictflush", "write", "written", "remove"}

=============================================================================
