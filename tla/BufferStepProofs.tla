-------------------------- MODULE BufferStepProofs --------------------------
(***************************************************************************)
(* What each step of the buffer pool does to the frames and the threads,   *)
(* for any number of clients, pages and frames and any capacity; that no   *)
(* page reaches the file ahead of its log; and that no step loses a change *)
(* as long as the page map, the frames and the threads agree, which        *)
(* BufferPoolProofs shows.                                                 *)
(***************************************************************************)
EXTENDS BufferPool, TLAPS

\* The threads of the model: the clients and the background flusher.
Threads == Clients \cup {Flusher}

\* What a BufferFrame, a thread and the eviction under way may hold.
FrameType ==
  [page : Pages \cup {0}, loaded : BOOLEAN, ver : Nat, lsn : Nat, need : Nat, pins : Int,
   dirty : BOOLEAN, usage : Nat, writing : BOOLEAN, failed : BOOLEAN]

Sites ==
  {"away", "lookup", "attach", "capacity", "insert", "read", "allocate", "visit",
   "evictflush", "remove", "flush", "write", "written", "pinned", "mark"}

ThreadType ==
  [at : Sites, page : Pages \cup {0}, frame : Frames \cup {0}, copy : FrameType]

EvictionType == [by : Clients \cup {0}, list : Seq(Frames), idx : Nat]

\* The variables' types.
Types ==
  /\ map \in [Pages -> Frames \cup {0}]
  /\ frames \in [Frames -> FrameType]
  /\ disk \in [Pages -> [ver : Nat, lsn : Nat, need : Nat]]
  /\ nextPage \in OldPages + 1..MaxPages + 1
  /\ latest \in [Pages -> Nat]
  /\ changes \in Nat /\ durable \in Nat /\ durable <= changes
  /\ pc \in [Threads -> ThreadType]
  /\ ev \in EvictionType

\* Where a thread is tells what it has: a page, a frame.
WithFrame == {"attach", "read", "pinned", "mark", "evictflush", "remove", "flush",
              "write", "written"}
WithPage == {"lookup", "attach", "insert", "read", "pinned", "mark"}

\* A thread that works on a frame or a page has one.
Places ==
  /\ \A c \in Clients : pc[c].at # "flush"
  /\ pc[Flusher].at \in {"away", "flush", "write", "written"}
  /\ \A c \in Threads : pc[c].page < nextPage
  /\ \A c \in Threads : pc[c].at \in WithFrame => pc[c].frame \in Frames
  /\ \A c \in Threads : pc[c].at \in WithPage => pc[c].page \in Pages

-----------------------------------------------------------------------------
\* What each action does to the thread and the frame it is about.

\* A step of one thread, and of one frame.
OnlyThread(c) ==
  /\ pc' \in [Threads -> ThreadType]
  /\ \A d \in Threads \ {c} : pc'[d] = pc[d]

\* Thread c alone moves, to the given place, page and frame.
Moves(c, at, page, frame) ==
  OnlyThread(c) /\ pc'[c].at = at /\ pc'[c].page = page /\ pc'[c].frame = frame

\* No frame but f changes.
OnlyFrame(f) ==
  /\ frames' \in [Frames -> FrameType]
  /\ \A g \in Frames \ {f} : frames'[g] = frames[g]

\* Frame f keeps its page and the page what is in it; nor is it pinned or
\* unpinned, or its bits changed.
SamePage(f) ==
  /\ frames'[f].page = frames[f].page /\ frames'[f].loaded = frames[f].loaded
  /\ frames'[f].failed = frames[f].failed

\* The bytes of frame f, their LSN and what the log must hold for them stay.
SameContent(f) ==
  frames'[f].ver = frames[f].ver /\ frames'[f].lsn = frames[f].lsn /\ frames'[f].need = frames[f].need

\* The dirty and writing bits of frame f stay.
SameBits(f) == frames'[f].dirty = frames[f].dirty /\ frames'[f].writing = frames[f].writing

\* The capped usage count is a number.
LEMMA MinNat ==
  ASSUME NEW a \in Nat, NEW b \in Nat
  PROVE  Min({a, b}) \in Nat
BY DEF Min

\* The clock hand wraps around to a position of the list, in either lap.
LEMMA Slot ==
  ASSUME NEW i \in Nat, NEW n \in Nat, i < 2 * n
  PROVE  (i % n) + 1 \in 1..n
OBVIOUS

\* The clock hand visits frames only.
LEMMA OrdersType ==
  ASSUME NEW S, S \subseteq Frames
  PROVE  Orders(S) \subseteq Seq(Frames)
BY DEF Orders

\* A free slot is a frame.
LEMMA FreeType ==
  /\ Free \in FrameType
  /\ Free.page = 0 /\ ~Free.loaded /\ ~Free.failed /\ ~Free.dirty /\ ~Free.writing
  /\ Free.need = 0 /\ Free.lsn = 0 /\ Free.pins = 0
<1>1. Free \in FrameType BY DEF Free, FrameType
<1> QED BY Zenon, <1>1 DEF Free

\* A thread outside the pool is a thread.
LEMMA AwayType ==
  Away \in ThreadType /\ Away.at = "away" /\ Away.page = 0 /\ Away.frame = 0 /\ Away.copy = Free
BY Zenon, FreeType DEF Away, ThreadType, Sites

\* What is left to show of a step that replaces a whole thread record.
LEMMA WholeMove ==
  ASSUME Types, NEW c \in Threads, NEW new \in ThreadType, pc' = [pc EXCEPT ![c] = new]
  PROVE  OnlyThread(c) /\ pc'[c] = new
BY Zenon DEF Types, OnlyThread

\* Goto moves one thread and keeps its page and frame.
LEMMA GotoMove ==
  ASSUME Types, NEW c \in Threads, NEW at \in Sites, pc' = Goto(c, at)
  PROVE  Moves(c, at, pc[c].page, pc[c].frame) /\ pc'[c].copy = pc[c].copy
<1>1. pc[c] \in ThreadType BY Zenon DEF Types
<1>2. pc' = [pc EXCEPT ![c] = [pc[c] EXCEPT !.at = at]] BY Zenon DEF Goto
<1>3. [pc[c] EXCEPT !.at = at] \in ThreadType BY Zenon, <1>1 DEF ThreadType
<1>4. OnlyThread(c) /\ pc'[c] = [pc[c] EXCEPT !.at = at] BY Zenon, <1>2, <1>3, WholeMove
<1> QED BY Zenon, <1>1, <1>4 DEF Moves, ThreadType

\* A thread that takes a frame keeps its page.
LEMMA FrameMove ==
  ASSUME Types, NEW c \in Threads, NEW at \in Sites, NEW f \in Frames \cup {0},
         pc' = [pc EXCEPT ![c].frame = f, ![c].at = at]
  PROVE  Moves(c, at, pc[c].page, f) /\ pc'[c].copy = pc[c].copy
<1>1. pc[c] \in ThreadType BY Zenon DEF Types
<1> DEFINE new == [[pc[c] EXCEPT !.frame = f] EXCEPT !.at = at]
<1>2. /\ new \in ThreadType /\ new.at = at /\ new.page = pc[c].page /\ new.frame = f
      /\ new.copy = pc[c].copy
  BY Zenon, <1>1 DEF ThreadType
<1>3. pc' = [pc EXCEPT ![c] = new] BY Zenon DEF Types
<1>4. OnlyThread(c) /\ pc'[c] = new
  <2> HIDE DEF new
  <2> QED BY Zenon, <1>2, <1>3, WholeMove
<1> QED BY Zenon, <1>2, <1>4 DEF Moves

\* A thread that leaves the pool holds no page and no frame.
LEMMA AwayMove ==
  ASSUME Types, NEW c \in Threads, pc' = [pc EXCEPT ![c] = Away]
  PROVE  Moves(c, "away", 0, 0)
BY Zenon, AwayType, WholeMove DEF Moves

\* Replacing one frame by a well-formed one keeps the others.
LEMMA FrameUpdate ==
  ASSUME Types, NEW f \in Frames, NEW new \in FrameType, frames' = [frames EXCEPT ![f] = new]
  PROVE  OnlyFrame(f) /\ frames'[f] = new
BY Zenon DEF Types, OnlyFrame

\* Where a client stands, and the frame and page it works on.
LEMMA ClientTyping ==
  ASSUME Types, Places, NEW c \in Threads
  PROVE  /\ pc[c] \in ThreadType
         /\ pc[c].at \in WithFrame => pc[c].frame \in Frames /\ frames[pc[c].frame] \in FrameType
         /\ pc[c].at \in WithPage => pc[c].page \in Pages
BY Zenon DEF Types, Places

\* Clients are threads, and the flusher is another one.
LEMMA ClientsAreThreads == Clients \subseteq Threads /\ Flusher \in Threads /\ Flusher \notin Clients
BY Zenon, PoolAssumption DEF Threads

\* The next lemmas say what each action does, with records and EXCEPT out of
\* the way.  pin_existing: the lookup in the page map.
LEMMA LookupEffect ==
  ASSUME Types, NEW c \in Threads, NEW p \in Pages, LookupFrame(c, p)
  PROVE  Moves(c, IF map[p] # 0 THEN "attach" ELSE "capacity", p, map[p])
<1> DEFINE at == IF map[p] # 0 THEN "attach" ELSE "capacity"
           new == [Away EXCEPT !.page = p, !.frame = map[p], !.at = at]
<1>1. new \in ThreadType /\ new.page = p /\ new.frame = map[p] /\ new.at = at
  BY Zenon, FreeType DEF ThreadType, Types, Away, Sites
<1>2. pc' = [pc EXCEPT ![c] = new] BY Zenon DEF LookupFrame
<1>3. OnlyThread(c) /\ pc'[c] = new
  <2> HIDE DEF new
  <2> QED BY Zenon, <1>1, <1>2, WholeMove
<1> QED BY Zenon, <1>1, <1>3 DEF Moves

\* pin_existing after the lookup: the pin is taken, or given up with a wait.
LEMMA AttachEffect ==
  ASSUME Types, Places, NEW c \in Clients, Attach(c), NEW f, f = pc[c].frame
  PROVE  /\ pc[c].at = "attach" /\ f \in Frames /\ OnlyFrame(f)
         /\ UNCHANGED <<map, resident, disk, nextPage, latest, changes, durable, ev>>
         /\ \/ /\ frames[f].failed
               /\ Moves(c, "lookup", pc[c].page, 0)
               /\ frames'[f] = IF WaitingFor(c, f) THEN frames[f] ELSE Free
            \/ /\ frames[f].loaded /\ ~frames[f].failed
               /\ Moves(c, "pinned", pc[c].page, f)
               /\ SamePage(f) /\ SameContent(f) /\ SameBits(f)
               /\ frames'[f].pins = frames[f].pins + 1
<1>1. pc[c].at = "attach" BY Zenon DEF Attach
<1>2. /\ c \in Threads /\ f \in Frames
      /\ pc[c] \in ThreadType /\ frames[f] \in FrameType
  BY Zenon, <1>1, ClientTyping, ClientsAreThreads DEF WithFrame
<1>3. CASE frames[f].failed
  <2>1. Moves(c, "lookup", pc[c].page, 0)
    <3>1. pc' = [pc EXCEPT ![c].frame = 0, ![c].at = "lookup"] BY Zenon, <1>3 DEF Attach
    <3> QED BY Zenon, <1>2, <3>1, FrameMove DEF Sites
  <2> DEFINE new == IF WaitingFor(c, f) THEN frames[f] ELSE Free
  <2>2. frames' = [frames EXCEPT ![f] = new] BY Zenon, <1>3 DEF Attach, Dropped
  <2>3. new \in FrameType BY Zenon, <1>2, FreeType
  <2>4. OnlyFrame(f) /\ frames'[f] = new
    <3> HIDE DEF new
    <3> QED BY Zenon, <1>2, <2>2, <2>3, FrameUpdate
  <2> QED BY Zenon, <1>1, <1>2, <1>3, <2>1, <2>4 DEF Attach
<1>4. CASE ~frames[f].failed
  <2>1. Moves(c, "pinned", pc[c].page, f)
    <3>1. pc' = Goto(c, "pinned") BY Zenon, <1>4 DEF Attach
    <3> QED BY Zenon, <1>2, <3>1, GotoMove DEF Sites
  <2> DEFINE n == frames[f].pins + 1
             u == Min({frames[f].usage + 1, UsageCap})
             new == [frames[f] EXCEPT !.pins = n, !.usage = u]
  <2>2. frames' = [frames EXCEPT ![f] = new] BY Zenon, <1>4 DEF Attach
  <2>3. n \in Int /\ u \in Nat BY <1>2, MinNat, PoolAssumption DEF FrameType
  <2>4. /\ new \in FrameType /\ new.pins = n
        /\ new.page = frames[f].page /\ new.loaded = frames[f].loaded /\ new.failed = frames[f].failed
        /\ new.ver = frames[f].ver /\ new.lsn = frames[f].lsn /\ new.need = frames[f].need
        /\ new.dirty = frames[f].dirty /\ new.writing = frames[f].writing
    <3> HIDE DEF n, u
    <3> QED BY Zenon, <1>2, <2>3 DEF FrameType
  <2>5. OnlyFrame(f) /\ frames'[f] = new
    <3> HIDE DEF new
    <3> QED BY Zenon, <1>2, <2>2, <2>4, FrameUpdate
  <2> HIDE DEF new
  <2> QED BY Zenon, <1>1, <1>2, <1>4, <2>1, <2>4, <2>5 DEF Attach, SamePage, SameContent, SameBits
<1> QED BY Zenon, <1>3, <1>4

\* The slot the model gives a new frame is a frame no page maps to.
LEMMA UnusedFrame ==
  ASSUME Types, Places, NEW f \in Unused
  PROVE  /\ f \in Frames
         /\ \A p \in Pages : map[p] # f
         /\ \A c \in Threads : pc[c].frame # f
BY Zenon DEF Unused, Types

\* A frame as it enters a shard: to be read from the file, or new.
Loading(p) == [Free EXCEPT !.page = p, !.pins = 1, !.usage = 1]
Born(p) == [Free EXCEPT !.page = p, !.loaded = TRUE, !.pins = 1, !.usage = 1, !.dirty = TRUE]

\* The frame insert_loading publishes: not loaded, pinned once.
LEMMA LoadingFrame ==
  ASSUME NEW p \in Pages, NEW new, new = Loading(p)
  PROVE  /\ new \in FrameType /\ new.page = p /\ new.pins = 1 /\ ~new.loaded /\ ~new.failed
         /\ ~new.dirty /\ ~new.writing /\ new.need = 0 /\ new.lsn = 0
<1>1. new = [page |-> p, loaded |-> FALSE, ver |-> 0, lsn |-> 0, need |-> 0, pins |-> 1,
             dirty |-> FALSE, usage |-> 1, writing |-> FALSE, failed |-> FALSE]
  BY Zenon DEF Free, Loading
<1>2. new \in FrameType BY <1>1 DEF FrameType
<1> QED BY <1>1, <1>2

\* The frame allocate_page publishes: loaded, pinned once and dirty.
LEMMA BornFrame ==
  ASSUME NEW p \in Pages, NEW new, new = Born(p)
  PROVE  /\ new \in FrameType /\ new.page = p /\ new.pins = 1 /\ new.loaded /\ ~new.failed
         /\ new.dirty /\ ~new.writing /\ new.need = 0 /\ new.lsn = 0 /\ new.ver = 0
<1>1. new = [page |-> p, loaded |-> TRUE, ver |-> 0, lsn |-> 0, need |-> 0, pins |-> 1,
             dirty |-> TRUE, usage |-> 1, writing |-> FALSE, failed |-> FALSE]
  BY Zenon DEF Free, Born
<1>2. new \in FrameType BY <1>1 DEF FrameType
<1> QED BY <1>1, <1>2

\* insert_loading: another loader won, no room, or a loading frame is mapped.
LEMMA InsertEffect ==
  ASSUME Types, Places, NEW c \in Clients, InsertLoading(c), NEW p, p = pc[c].page
  PROVE  /\ pc[c].at = "insert" /\ p \in Pages
         /\ UNCHANGED <<disk, nextPage, latest, changes, durable, ev>>
         /\ \/ /\ map[p] # 0
               /\ Moves(c, "lookup", p, pc[c].frame)
               /\ UNCHANGED <<map, frames, resident>>
            \/ /\ map[p] = 0
               /\ \E f \in Unused :
                    /\ OnlyFrame(f) /\ Moves(c, "read", p, f)
                    /\ frames'[f].page = p /\ frames'[f].pins = 1
                    /\ ~frames'[f].loaded /\ ~frames'[f].failed
                    /\ ~frames'[f].dirty /\ ~frames'[f].writing
                    /\ frames'[f].need = 0 /\ frames'[f].lsn = 0
                    /\ map' = [map EXCEPT ![p] = f]
                    /\ resident' = resident + 1
<1>1. pc[c].at = "insert" BY Zenon DEF InsertLoading
<1>2. c \in Threads /\ p \in Pages /\ pc[c] \in ThreadType
  BY Zenon, <1>1, ClientTyping, ClientsAreThreads DEF WithPage
<1>3. CASE map[p] # 0
  <2>1. pc' = Goto(c, "lookup") BY Zenon, <1>3 DEF InsertLoading
  <2>2. Moves(c, "lookup", p, pc[c].frame) BY Zenon, <1>2, <2>1, GotoMove DEF Sites
  <2> QED BY Zenon, <1>1, <1>2, <1>3, <2>2 DEF InsertLoading
<1>4. CASE map[p] = 0
  <2> DEFINE new == Loading(p)
  <2>1. PICK f \in Unused :
          /\ frames' = [frames EXCEPT ![f] = new]
          /\ map' = [map EXCEPT ![p] = f]
          /\ resident' = resident + 1
          /\ pc' = [pc EXCEPT ![c].frame = f, ![c].at = "read"]
    BY Zenon, <1>4 DEF InsertLoading, Loading
  <2>2. f \in Frames BY Zenon, UnusedFrame
  <2>3. Moves(c, "read", p, f) BY Zenon, <1>2, <2>1, <2>2, FrameMove DEF Sites
  <2>5. /\ new \in FrameType /\ new.page = p /\ new.pins = 1 /\ ~new.loaded /\ ~new.failed
        /\ ~new.dirty /\ ~new.writing /\ new.need = 0 /\ new.lsn = 0
    BY Zenon, <1>2, LoadingFrame
  <2>7. OnlyFrame(f) /\ frames'[f] = new
    <3> HIDE DEF new
    <3> QED BY ZenonT(30), <2>1, <2>2, <2>5, FrameUpdate
  <2> HIDE DEF new
  <2> QED BY Zenon, <1>1, <1>2, <1>4, <2>1, <2>3, <2>5, <2>7 DEF InsertLoading
<1> QED BY Zenon, <1>3, <1>4

\* The read of a loading frame ends: it is loaded, with the bytes of the file.
LEMMA ReadEffect ==
  ASSUME Types, Places, NEW c \in Clients, ReadPage(c), NEW f, f = pc[c].frame
  PROVE  /\ pc[c].at = "read" /\ f \in Frames /\ pc[c].page \in Pages
         /\ OnlyFrame(f) /\ Moves(c, "pinned", pc[c].page, f)
         /\ UNCHANGED <<map, resident, disk, nextPage, latest, changes, durable, ev>>
         /\ frames'[f].page = frames[f].page /\ frames'[f].failed = frames[f].failed
         /\ frames'[f].pins = frames[f].pins /\ SameBits(f)
         /\ frames'[f].loaded
         /\ frames'[f].ver = disk[pc[c].page].ver /\ frames'[f].lsn = disk[pc[c].page].lsn
         /\ frames'[f].need = disk[pc[c].page].need
<1>1. pc[c].at = "read" BY Zenon DEF ReadPage
<1>2. /\ c \in Threads /\ f \in Frames /\ pc[c].page \in Pages
      /\ pc[c] \in ThreadType /\ frames[f] \in FrameType
  BY Zenon, <1>1, ClientTyping, ClientsAreThreads DEF WithFrame, WithPage
<1>3. Moves(c, "pinned", pc[c].page, f)
  <2>1. pc' = Goto(c, "pinned") BY Zenon DEF ReadPage
  <2> QED BY Zenon, <1>2, <2>1, GotoMove DEF Sites
<1> DEFINE v == disk[pc[c].page].ver
           l == disk[pc[c].page].lsn
           n == disk[pc[c].page].need
           new == [frames[f] EXCEPT !.loaded = TRUE, !.ver = v, !.lsn = l, !.need = n]
<1>4. frames' = [frames EXCEPT ![f] = new] BY Zenon DEF ReadPage
<1>5. v \in Nat /\ l \in Nat /\ n \in Nat BY Zenon, <1>2 DEF Types
<1>6. /\ new \in FrameType /\ new.pins = frames[f].pins
      /\ new.page = frames[f].page /\ new.loaded /\ new.failed = frames[f].failed
      /\ new.ver = v /\ new.lsn = l /\ new.need = n
      /\ new.dirty = frames[f].dirty /\ new.writing = frames[f].writing
  <2> HIDE DEF v, l, n
  <2> QED BY Zenon, <1>2, <1>5 DEF FrameType
<1>7. OnlyFrame(f) /\ frames'[f] = new
  <2> HIDE DEF new
  <2> QED BY Zenon, <1>2, <1>4, <1>6, FrameUpdate
<1> HIDE DEF new
<1> QED BY Zenon, <1>1, <1>2, <1>3, <1>6, <1>7 DEF ReadPage, SameBits

\* The read of a loading frame fails: it leaves the map, marked failed.
LEMMA ReadFailsEffect ==
  ASSUME Types, Places, NEW c \in Clients, ReadFails(c), NEW f, f = pc[c].frame
  PROVE  /\ pc[c].at = "read" /\ f \in Frames /\ pc[c].page \in Pages
         /\ OnlyFrame(f) /\ Moves(c, "away", 0, 0)
         /\ UNCHANGED <<disk, nextPage, latest, changes, durable, ev>>
         /\ map' = [map EXCEPT ![pc[c].page] = 0]
         /\ resident' = resident - 1
         /\ \/ /\ WaitingFor(c, f) /\ frames'[f].failed /\ SameContent(f) /\ SameBits(f)
               /\ frames'[f].page = frames[f].page /\ frames'[f].loaded = frames[f].loaded
            \/ ~WaitingFor(c, f) /\ frames'[f] = Free
<1>1. pc[c].at = "read" BY Zenon DEF ReadFails
<1>2. /\ c \in Threads /\ f \in Frames /\ pc[c].page \in Pages
      /\ pc[c] \in ThreadType /\ frames[f] \in FrameType
  BY Zenon, <1>1, ClientTyping, ClientsAreThreads DEF WithFrame, WithPage
<1>3. Moves(c, "away", 0, 0) BY Zenon, <1>2, AwayMove DEF ReadFails
<1> DEFINE bad == [frames[f] EXCEPT !.failed = TRUE]
           new == IF WaitingFor(c, f) THEN bad ELSE Free
<1>4. frames' = [frames EXCEPT ![f] = new] BY Zenon DEF ReadFails, Dropped
<1>5. /\ bad \in FrameType /\ bad.failed
      /\ bad.page = frames[f].page /\ bad.loaded = frames[f].loaded
      /\ bad.ver = frames[f].ver /\ bad.lsn = frames[f].lsn /\ bad.need = frames[f].need
      /\ bad.dirty = frames[f].dirty /\ bad.writing = frames[f].writing
  BY Zenon, <1>2 DEF FrameType
<1>6. new \in FrameType
  <2> HIDE DEF bad
  <2> QED BY Zenon, <1>5, FreeType
<1>7. OnlyFrame(f) /\ frames'[f] = new
  <2> HIDE DEF new
  <2> QED BY ZenonT(30), <1>2, <1>4, <1>6, FrameUpdate
<1> HIDE DEF bad
<1> QED BY ZenonT(30), <1>1, <1>2, <1>3, <1>5, <1>7 DEF ReadFails, SameBits, SameContent

\* allocate_page maps a new page to a new dirty frame.
LEMMA AllocateEffect ==
  ASSUME Types, Places, NEW c \in Clients, AllocateFrame(c)
  PROVE  /\ pc[c].at = "allocate" /\ nextPage \in Pages
         /\ UNCHANGED <<disk, latest, changes, durable, ev>>
         /\ resident' = resident + 1 /\ nextPage' = nextPage + 1
         /\ \E f \in Unused :
              /\ OnlyFrame(f) /\ Moves(c, "pinned", nextPage, f)
              /\ frames'[f].page = nextPage /\ frames'[f].pins = 1
              /\ frames'[f].loaded /\ ~frames'[f].failed
              /\ frames'[f].dirty /\ ~frames'[f].writing
              /\ frames'[f].need = 0 /\ frames'[f].lsn = 0 /\ frames'[f].ver = 0
              /\ map' = [map EXCEPT ![nextPage] = f]
<1>1. pc[c].at = "allocate" /\ nextPage \in Pages /\ c \in Threads
  BY Zenon, ClientsAreThreads DEF AllocateFrame
<1> DEFINE new == Born(nextPage)
<1>2. PICK f \in Unused :
        /\ frames' = [frames EXCEPT ![f] = new]
        /\ map' = [map EXCEPT ![nextPage] = f]
        /\ pc' = [pc EXCEPT ![c] = [Away EXCEPT !.at = "pinned", !.page = nextPage, !.frame = f]]
  BY Zenon DEF AllocateFrame, Born
<1>3. f \in Frames BY Zenon, UnusedFrame
<1>4. Moves(c, "pinned", nextPage, f)
  <2> DEFINE th == [Away EXCEPT !.at = "pinned", !.page = nextPage, !.frame = f]
  <2>1. th \in ThreadType /\ th.at = "pinned" /\ th.page = nextPage /\ th.frame = f
    BY Zenon, <1>1, <1>3, FreeType DEF ThreadType, Away, Sites
  <2>2. pc' = [pc EXCEPT ![c] = th] BY Zenon, <1>2
  <2>3. OnlyThread(c) /\ pc'[c] = th
    <3> HIDE DEF th
    <3> QED BY Zenon, <1>1, <2>1, <2>2, WholeMove
  <2> HIDE DEF th
  <2> QED BY Zenon, <2>1, <2>3 DEF Moves
<1>6. /\ new \in FrameType /\ new.page = nextPage /\ new.pins = 1 /\ new.loaded /\ ~new.failed
      /\ new.dirty /\ ~new.writing /\ new.need = 0 /\ new.lsn = 0 /\ new.ver = 0
  BY Zenon, <1>1, BornFrame
<1>8. OnlyFrame(f) /\ frames'[f] = new
  <2> HIDE DEF new
  <2> QED BY Zenon, <1>2, <1>3, <1>6, FrameUpdate
<1> HIDE DEF new
<1> QED BY ZenonT(30), <1>1, <1>2, <1>4, <1>6, <1>8 DEF AllocateFrame

\* The frames the clock may visit are frames.
LEMMA LoadedFrames ==
  ASSUME Types
  PROVE  Loaded \subseteq Frames
BY Zenon DEF Types, Loaded

\* A frame the clock hand passed over is still a frame.
LEMMA PassedType ==
  ASSUME Types
  PROVE  Passed \in EvictionType /\ Passed.by = ev.by
<1> DEFINE i == ev.idx + 1
<1>1. ev \in EvictionType /\ i \in Nat BY DEF Types, EvictionType
<1>2. Passed = [ev EXCEPT !.idx = i] BY Zenon DEF Passed
<1> HIDE DEF i
<1> QED BY Zenon, <1>1, <1>2 DEF EvictionType

\* When nobody evicts, the eviction state is well formed.
LEMMA NoEvictionType == NoEviction \in EvictionType /\ NoEviction.by = 0
BY DEF NoEviction, EvictionType

\* An eviction starts at the beginning of its list of frames.
LEMMA NewEviction ==
  ASSUME NEW c \in Clients, NEW S, S \subseteq Frames,
         \E list \in Orders(S) : ev' = [by |-> c, list |-> list, idx |-> 0]
  PROVE  ev' \in EvictionType /\ ev'.by = c
<1>1. PICK list \in Orders(S) : ev' = [by |-> c, list |-> list, idx |-> 0] OBVIOUS
<1>2. list \in Seq(Frames) BY Zenon, OrdersType
<1> QED BY Zenon, <1>1, <1>2 DEF EvictionType

\* ensure_capacity starts an eviction and touches no frame.
LEMMA CapacityEffect ==
  ASSUME Types, Places, NEW c \in Clients, EnsureCapacity(c)
  PROVE  /\ pc[c].at = "capacity"
         /\ UNCHANGED <<map, frames, resident, disk, nextPage, latest, changes, durable>>
         /\ \/ /\ UNCHANGED ev
               /\ Moves(c, AfterRoom(c), pc[c].page, pc[c].frame)
            \/ /\ ev' \in EvictionType /\ ev'.by = c
               /\ Moves(c, "visit", pc[c].page, pc[c].frame)
<1>1. pc[c].at = "capacity" /\ c \in Threads BY Zenon, ClientsAreThreads DEF EnsureCapacity
<1>2. CASE resident < Capacity /\ pc' = Goto(c, AfterRoom(c)) /\ UNCHANGED ev
  <2>1. AfterRoom(c) \in Sites BY Zenon DEF AfterRoom, Sites
  <2>2. Moves(c, AfterRoom(c), pc[c].page, pc[c].frame) BY Zenon, <1>1, <1>2, <2>1, GotoMove
  <2> QED BY Zenon, <1>1, <1>2, <2>2 DEF EnsureCapacity
<1>3. CASE /\ \E list \in Orders(Loaded) : ev' = [by |-> c, list |-> list, idx |-> 0]
           /\ pc' = Goto(c, "visit")
  <2>1. Moves(c, "visit", pc[c].page, pc[c].frame) BY Zenon, <1>1, <1>3, GotoMove DEF Sites
  <2>2. ev' \in EvictionType /\ ev'.by = c BY Zenon, <1>3, NewEviction, LoadedFrames
  <2> QED BY Zenon, <1>1, <2>1, <2>2 DEF EnsureCapacity
<1> QED BY Zenon, <1>2, <1>3 DEF EnsureCapacity

\* The frame the clock hand stands at is a frame.
LEMMA VictimType ==
  ASSUME Types, ev.idx < 2 * Len(ev.list)
  PROVE  Victim \in Frames
<1>1. ev.list \in Seq(Frames) /\ ev.idx \in Nat BY Zenon DEF Types, EvictionType
<1>2. Len(ev.list) \in Nat BY <1>1
<1>3. (ev.idx % Len(ev.list)) + 1 \in 1..Len(ev.list) BY Zenon, <1>1, <1>2, Slot
<1> QED BY <1>1, <1>3 DEF Victim

\* A visit of the clock hand: the list is over, or the frame is passed over,
\* spared, flushed first or chosen.
LEMMA VisitEffect ==
  ASSUME Types, Places, NEW c \in Clients, Visit(c)
  PROVE  /\ pc[c].at = "visit"
         /\ UNCHANGED <<map, resident, disk, nextPage, latest, changes, durable>>
         /\ ev' \in EvictionType /\ ev'.by = ev.by
         /\ frames' \in [Frames -> FrameType]
         /\ \A g \in Frames : /\ SamePage(g) /\ SameContent(g) /\ SameBits(g)
                              /\ frames'[g].pins = frames[g].pins
         /\ \/ UNCHANGED pc
            \/ \E v \in Frames, at \in {"evictflush", "remove"} : Moves(c, at, pc[c].page, v)
<1>1. pc[c].at = "visit" /\ c \in Threads /\ ev.idx < 2 * Len(ev.list)
  BY Zenon, ClientsAreThreads DEF Visit
<1>2. Victim \in Frames BY Zenon, <1>1, VictimType
<1> DEFINE fr == frames[Victim]
<1>3. fr \in FrameType /\ frames \in [Frames -> FrameType] /\ ev \in EvictionType
  BY Zenon, <1>2 DEF Types
<1>4. ev' \in EvictionType /\ ev'.by = ev.by BY Zenon, <1>3, PassedType DEF Visit
<1>5. CASE frames' = frames
  <2>1. \A g \in Frames : /\ SamePage(g) /\ SameContent(g) /\ SameBits(g)
                          /\ frames'[g].pins = frames[g].pins
    BY Zenon, <1>5 DEF SamePage, SameContent, SameBits
  <2>2. \/ UNCHANGED pc
        \/ \E v \in Frames, at \in {"evictflush", "remove"} : Moves(c, at, pc[c].page, v)
    <3>1. CASE UNCHANGED pc BY Zenon, <3>1
    <3>2. CASE pc' = [pc EXCEPT ![c].frame = Victim,
                                ![c].at = IF fr.dirty THEN "evictflush" ELSE "remove"]
      <4> DEFINE at == IF fr.dirty THEN "evictflush" ELSE "remove"
      <4>1. at \in {"evictflush", "remove"} /\ at \in Sites BY Zenon DEF Sites
      <4>2. pc' = [pc EXCEPT ![c].frame = Victim, ![c].at = at] BY Zenon, <3>2
      <4> HIDE DEF at
      <4>3. Moves(c, at, pc[c].page, Victim) BY ZenonT(30), <1>1, <1>2, <4>1, <4>2, FrameMove
      <4> QED BY Zenon, <1>2, <4>1, <4>3
    <3> QED BY Zenon, <3>1, <3>2 DEF Visit
  <2> QED BY Zenon, <1>1, <1>3, <1>4, <1>5, <2>1, <2>2 DEF Visit
<1>6. CASE fr.usage > 0 /\ frames' = [frames EXCEPT ![Victim].usage = @ - 1] /\ UNCHANGED pc
  <2> DEFINE u == fr.usage - 1
             new == [fr EXCEPT !.usage = u]
  <2>1. frames' = [frames EXCEPT ![Victim] = new] BY Zenon, <1>2, <1>6
  <2>2. u \in Nat BY <1>3, <1>6 DEF FrameType
  <2>3. /\ new \in FrameType /\ new.pins = fr.pins
        /\ new.page = fr.page /\ new.loaded = fr.loaded /\ new.failed = fr.failed
        /\ new.ver = fr.ver /\ new.lsn = fr.lsn /\ new.need = fr.need
        /\ new.dirty = fr.dirty /\ new.writing = fr.writing
    <3> HIDE DEF u
    <3> QED BY Zenon, <1>3, <2>2 DEF FrameType
  <2>4. OnlyFrame(Victim) /\ frames'[Victim] = new
    <3> HIDE DEF new
    <3> QED BY Zenon, <1>2, <2>1, <2>3, FrameUpdate
  <2> HIDE DEF new
  <2>5. \A g \in Frames : /\ SamePage(g) /\ SameContent(g) /\ SameBits(g)
                          /\ frames'[g].pins = frames[g].pins
    BY Zenon, <2>3, <2>4 DEF OnlyFrame, SamePage, SameContent, SameBits
  <2> QED BY Zenon, <1>1, <1>4, <1>6, <2>4, <2>5 DEF Visit, OnlyFrame
<1> QED BY Zenon, <1>5, <1>6 DEF Visit

\* remove_if_evictable: the frame leaves the map, or stays if it was pinned,
\* dirtied or being written in the meantime.
LEMMA RemoveEffect ==
  ASSUME Types, Places, NEW c \in Clients, Remove(c), NEW f, f = pc[c].frame
  PROVE  /\ pc[c].at = "remove" /\ f \in Frames
         /\ UNCHANGED <<disk, nextPage, latest, changes, durable>>
         /\ ev' \in EvictionType /\ (ev'.by # 0 => ev'.by = c \/ ev'.by = ev.by)
         /\ "pin" \in Hazards \/ ~WaitingFor(c, f)
         /\ \/ /\ \E at \in {AfterRoom(c), "visit"} :
                    Moves(c, at, pc[c].page, 0) /\ (ev'.by # 0 => at = "visit" /\ ev'.by = c)
               /\ map[frames[f].page] = f /\ Removable(frames[f])
               /\ map' = [map EXCEPT ![frames[f].page] = 0]
               /\ OnlyFrame(f)
               /\ frames'[f] = IF WaitingFor(c, f) THEN frames[f] ELSE Free
               /\ resident' = resident - 1
            \/ Moves(c, "visit", pc[c].page, 0) /\ UNCHANGED <<map, frames, resident>>
<1>1. pc[c].at = "remove" BY Zenon DEF Remove
<1>2. c \in Threads /\ f \in Frames /\ pc[c] \in ThreadType /\ frames[f] \in FrameType
  BY Zenon, <1>1, ClientTyping, ClientsAreThreads DEF WithFrame
<1>3. CASE map[frames[f].page] = f /\ Removable(frames[f])
  <2> DEFINE enough == resident - 1 < Capacity
             at == IF enough THEN AfterRoom(c) ELSE "visit"
             new == IF WaitingFor(c, f) THEN frames[f] ELSE Free
  <2>1. at \in Sites /\ at \in {AfterRoom(c), "visit"} BY Zenon DEF AfterRoom, Sites
  <2>2. pc' = [pc EXCEPT ![c].frame = 0, ![c].at = at] BY Zenon, <1>3 DEF Remove
  <2>3. Moves(c, at, pc[c].page, 0)
    <3> HIDE DEF at
    <3> QED BY Zenon, <1>2, <2>1, <2>2, FrameMove
  <2>4. frames' = [frames EXCEPT ![f] = new] BY Zenon, <1>3 DEF Remove, Dropped
  <2>5. new \in FrameType BY Zenon, <1>2, FreeType
  <2>6. OnlyFrame(f) /\ frames'[f] = new
    <3> HIDE DEF new
    <3> QED BY ZenonT(30), <1>2, <2>4, <2>5, FrameUpdate
  <2>7. ev' \in EvictionType /\ (ev'.by # 0 => at = "visit" /\ ev'.by = c)
    <3>1. CASE enough BY Zenon, <1>3, <3>1, NoEvictionType DEF Remove
    <3>2. CASE ~enough
      <4>1. \E list \in Orders(Loaded \ {f}) : ev' = [by |-> c, list |-> list, idx |-> 0]
        BY Zenon, <1>3, <3>2 DEF Remove
      <4>2. ev' \in EvictionType /\ ev'.by = c BY Zenon, <4>1, NewEviction, LoadedFrames
      <4> QED BY Zenon, <3>2, <4>2
    <3> QED BY Zenon, <3>1, <3>2
  <2> HIDE DEF at
  <2>8. \E a \in {AfterRoom(c), "visit"} :
          Moves(c, a, pc[c].page, 0) /\ (ev'.by # 0 => a = "visit" /\ ev'.by = c)
    BY Zenon, <2>1, <2>3, <2>7
  <2> QED BY Zenon, <1>1, <1>2, <1>3, <2>6, <2>7, <2>8 DEF Remove
<1>4. CASE ~(map[frames[f].page] = f /\ Removable(frames[f]))
  <2>1. pc' = [pc EXCEPT ![c].frame = 0, ![c].at = "visit"] BY Zenon, <1>4 DEF Remove
  <2>2. Moves(c, "visit", pc[c].page, 0) BY Zenon, <1>2, <2>1, FrameMove DEF Sites
  <2>3. ev' \in EvictionType /\ ev'.by = ev.by BY Zenon, <1>4, PassedType DEF Remove
  <2> QED BY Zenon, <1>1, <1>2, <1>4, <2>2, <2>3 DEF Remove
<1> QED BY Zenon, <1>3, <1>4

\* flush_frame_if_dirty is entered with the frame to write.
LEMMA PickEffect ==
  ASSUME Types, Places, NEW f \in Frames, FlushPick(f)
  PROVE  /\ pc[Flusher].at = "away" /\ Moves(Flusher, "flush", 0, f)
         /\ UNCHANGED <<map, frames, resident, disk, nextPage, latest, changes, durable, ev>>
<1> DEFINE th == [Away EXCEPT !.at = "flush", !.frame = f]
<1>1. th \in ThreadType /\ th.at = "flush" /\ th.page = 0 /\ th.frame = f
  BY Zenon, FreeType DEF ThreadType, Away, Sites
<1>2. pc' = [pc EXCEPT ![Flusher] = th] BY Zenon DEF FlushPick
<1>3. OnlyThread(Flusher) /\ pc'[Flusher] = th
  <2> HIDE DEF th
  <2> QED BY ZenonT(30), <1>1, <1>2, WholeMove, ClientsAreThreads
<1> HIDE DEF th
<1> QED BY Zenon, <1>1, <1>3 DEF FlushPick, Moves

\* Where a flush leaves its thread.
FlushOver(c) ==
  IF c = Flusher THEN Moves(c, "away", 0, 0) ELSE Moves(c, "remove", pc[c].page, pc[c].frame)

\* After a flush, an evictor goes on to the removal and the others leave.
LEMMA AfterMove ==
  ASSUME Types, NEW c \in Threads, pc' = [pc EXCEPT ![c] = After(c)]
  PROVE  FlushOver(c)
<1>1. CASE c = Flusher
  <2>1. pc' = [pc EXCEPT ![c] = Away] BY Zenon, <1>1 DEF After
  <2> QED BY Zenon, <1>1, <2>1, AwayMove DEF FlushOver
<1>2. CASE c # Flusher
  <2> DEFINE th == [pc[c] EXCEPT !.at = "remove", !.copy = Free]
  <2>1. pc[c] \in ThreadType BY Zenon DEF Types
  <2>2. th \in ThreadType /\ th.at = "remove" /\ th.page = pc[c].page /\ th.frame = pc[c].frame
    BY Zenon, <2>1, FreeType DEF ThreadType, Sites
  <2>3. pc' = [pc EXCEPT ![c] = th] BY Zenon, <1>2 DEF After
  <2>4. OnlyThread(c) /\ pc'[c] = th
    <3> HIDE DEF th
    <3> QED BY Zenon, <2>2, <2>3, WholeMove
  <2> HIDE DEF th
  <2> QED BY Zenon, <1>2, <2>2, <2>4 DEF FlushOver, Moves
<1> QED BY Zenon, <1>1, <1>2

\* The writing bit of a dirty frame is taken and everything else of it kept.
LEMMA WritingBit ==
  ASSUME Types, NEW f \in Frames, NEW w \in BOOLEAN, frames' = [frames EXCEPT ![f].writing = w]
  PROVE  /\ OnlyFrame(f) /\ SamePage(f) /\ SameContent(f) /\ frames'[f].pins = frames[f].pins
         /\ frames'[f].dirty = frames[f].dirty /\ frames'[f].writing = w
<1> DEFINE new == [frames[f] EXCEPT !.writing = w]
<1>1. frames[f] \in FrameType BY Zenon DEF Types
<1>2. frames' = [frames EXCEPT ![f] = new] OBVIOUS
<1>3. /\ new \in FrameType /\ new.pins = frames[f].pins
      /\ new.page = frames[f].page /\ new.loaded = frames[f].loaded /\ new.failed = frames[f].failed
      /\ new.ver = frames[f].ver /\ new.lsn = frames[f].lsn /\ new.need = frames[f].need
      /\ new.dirty = frames[f].dirty /\ new.writing = w
  BY Zenon, <1>1 DEF FrameType
<1>4. OnlyFrame(f) /\ frames'[f] = new
  <2> HIDE DEF new
  <2> QED BY Zenon, <1>2, <1>3, FrameUpdate
<1> HIDE DEF new
<1> QED BY Zenon, <1>3, <1>4 DEF SamePage, SameContent

\* flush_frame_if_dirty: nothing to write, someone writes already, or the
\* bytes are copied under the write bit with the dirty bit cleared.
LEMMA CopyEffect ==
  ASSUME Types, Places, NEW c \in Threads, FlushCopy(c), NEW f, f = pc[c].frame
  PROVE  /\ pc[c].at \in {"flush", "evictflush"} /\ f \in Frames
         /\ UNCHANGED <<map, resident, disk, nextPage, latest, changes, durable, ev>>
         /\ "flush" \in Hazards \/ ~frames[f].writing
         /\ \/ /\ frames[f].dirty /\ frames[f].lsn <= Limit(c)
               /\ OnlyFrame(f) /\ SamePage(f) /\ SameContent(f)
               /\ frames'[f].pins = frames[f].pins
               /\ frames'[f].dirty = frames[f].dirty /\ frames'[f].writing
               /\ Moves(c, "write", pc[c].page, f) /\ pc'[c].copy = frames[f]
            \/ UNCHANGED frames /\ FlushOver(c)
<1>1. pc[c].at \in {"flush", "evictflush"} BY Zenon DEF FlushCopy
<1>2. f \in Frames /\ pc[c] \in ThreadType /\ frames[f] \in FrameType
  BY Zenon, <1>1, ClientTyping DEF WithFrame
<1>3. CASE frames[f].dirty /\ frames[f].lsn <= Limit(c)
  <2>1. /\ OnlyFrame(f) /\ SamePage(f) /\ SameContent(f) /\ frames'[f].pins = frames[f].pins
        /\ frames'[f].dirty = frames[f].dirty /\ frames'[f].writing
    <3>1. frames' = [frames EXCEPT ![f].writing = TRUE] BY Zenon, <1>3 DEF FlushCopy
    <3> QED BY Zenon, <1>2, <3>1, WritingBit
  <2>2. Moves(c, "write", pc[c].page, f) /\ pc'[c].copy = frames[f]
    <3> DEFINE fr == frames[f]
               th == [[pc[c] EXCEPT !.copy = fr] EXCEPT !.at = "write"]
    <3>1. pc' = [pc EXCEPT ![c] = th] BY Zenon, <1>3 DEF FlushCopy, Types
    <3>2. /\ th \in ThreadType /\ th.at = "write" /\ th.page = pc[c].page
          /\ th.frame = pc[c].frame /\ th.copy = fr
      <4>1. fr \in FrameType BY Zenon, <1>2
      <4> HIDE DEF fr
      <4> QED BY Zenon, <1>2, <4>1 DEF ThreadType, Sites
    <3>3. OnlyThread(c) /\ pc'[c] = th
      <4> HIDE DEF th
      <4> QED BY Zenon, <3>1, <3>2, WholeMove
    <3> HIDE DEF th
    <3> QED BY Zenon, <3>2, <3>3 DEF Moves
  <2> QED BY Zenon, <1>1, <1>2, <1>3, <2>1, <2>2 DEF FlushCopy
<1>4. CASE ~(frames[f].dirty /\ frames[f].lsn <= Limit(c))
  <2>1. pc' = [pc EXCEPT ![c] = After(c)] /\ UNCHANGED frames BY Zenon, <1>4 DEF FlushCopy
  <2> QED BY Zenon, <1>1, <1>2, <2>1, AfterMove DEF FlushCopy
<1> QED BY Zenon, <1>3, <1>4

\* The copy goes to the file once the log is durable up to its LSN.
LEMMA WriteEffect ==
  ASSUME Types, Places, NEW c \in Threads, FlushWrite(c)
  PROVE  /\ pc[c].at = "write" /\ pc[c].frame \in Frames
         /\ UNCHANGED <<map, frames, resident, nextPage, latest, changes, durable, ev>>
         /\ disk' \in [Pages -> [ver : Nat, lsn : Nat, need : Nat]]
         /\ \A p \in Pages \ {pc[c].copy.page} : disk'[p] = disk[p]
         /\ pc[c].copy.page \in Pages =>
              /\ disk'[pc[c].copy.page].ver = pc[c].copy.ver
              /\ disk'[pc[c].copy.page].need = pc[c].copy.need
         /\ Moves(c, "written", pc[c].page, pc[c].frame) /\ pc'[c].copy = pc[c].copy
<1>1. pc[c].at = "write" BY Zenon DEF FlushWrite
<1>2. pc[c].frame \in Frames /\ pc[c] \in ThreadType BY Zenon, <1>1, ClientTyping DEF WithFrame
<1>3. Moves(c, "written", pc[c].page, pc[c].frame) /\ pc'[c].copy = pc[c].copy
  <2>1. pc' = Goto(c, "written") BY Zenon DEF FlushWrite
  <2> QED BY Zenon, <2>1, GotoMove DEF Sites
<1> DEFINE copy == pc[c].copy
           new == [ver |-> copy.ver, lsn |-> copy.lsn, need |-> copy.need]
<1>4. copy \in FrameType BY Zenon, <1>2 DEF ThreadType
<1>5. new \in [ver : Nat, lsn : Nat, need : Nat] /\ new.ver = copy.ver /\ new.need = copy.need
  <2> HIDE DEF copy
  <2> QED BY Zenon, <1>4 DEF FrameType
<1>6. disk' = [disk EXCEPT ![copy.page] = new] BY Zenon DEF FlushWrite
<1>7. /\ disk' \in [Pages -> [ver : Nat, lsn : Nat, need : Nat]]
      /\ \A p \in Pages \ {copy.page} : disk'[p] = disk[p]
      /\ copy.page \in Pages => disk'[copy.page] = new
  <2> HIDE DEF copy, new
  <2> QED BY Zenon, <1>5, <1>6 DEF Types
<1> HIDE DEF new
<1> QED BY Zenon, <1>1, <1>2, <1>3, <1>5, <1>7 DEF FlushWrite

\* The write bit is dropped after the write.
LEMMA DoneEffect ==
  ASSUME Types, Places, NEW c \in Threads, FlushDone(c), NEW f, f = pc[c].frame
  PROVE  /\ pc[c].at = "written" /\ f \in Frames
         /\ UNCHANGED <<map, resident, disk, nextPage, latest, changes, durable, ev>>
         /\ OnlyFrame(f) /\ SamePage(f) /\ SameContent(f) /\ frames'[f].pins = frames[f].pins
         /\ ~frames'[f].writing
         /\ frames'[f].dirty = (frames[f].dirty /\ frames[f].lsn > pc[c].copy.lsn)
         /\ FlushOver(c)
<1>1. pc[c].at = "written" BY Zenon DEF FlushDone
<1>2. f \in Frames /\ frames[f] \in FrameType BY Zenon, <1>1, ClientTyping DEF WithFrame
<1>3. FlushOver(c)
  <2>1. pc' = [pc EXCEPT ![c] = After(c)] BY Zenon DEF FlushDone
  <2> QED BY Zenon, <2>1, AfterMove
<1> DEFINE d == frames[f].dirty /\ frames[f].lsn > pc[c].copy.lsn
           new == [frames[f] EXCEPT !.writing = FALSE, !.dirty = d]
<1>4. frames' = [frames EXCEPT ![f] = new] BY Zenon DEF FlushDone
<1>5. d \in BOOLEAN OBVIOUS
<1>6. /\ new \in FrameType /\ new.pins = frames[f].pins
      /\ new.page = frames[f].page /\ new.loaded = frames[f].loaded /\ new.failed = frames[f].failed
      /\ new.ver = frames[f].ver /\ new.lsn = frames[f].lsn /\ new.need = frames[f].need
      /\ new.dirty = d /\ new.writing = FALSE
  <2> HIDE DEF d
  <2> QED BY Zenon, <1>2, <1>5 DEF FrameType
<1>7. OnlyFrame(f) /\ frames'[f] = new
  <2> HIDE DEF new
  <2> QED BY Zenon, <1>2, <1>4, <1>6, FrameUpdate
<1> HIDE DEF new
<1> QED BY Zenon, <1>1, <1>2, <1>3, <1>6, <1>7 DEF FlushDone, SamePage, SameContent

\* A failed write makes the frame dirty again and drops the write bit.
LEMMA WriteFailsEffect ==
  ASSUME Types, Places, NEW c \in Threads, FlushFails(c), NEW f, f = pc[c].frame
  PROVE  /\ pc[c].at = "write" /\ f \in Frames
         /\ UNCHANGED <<map, resident, disk, nextPage, latest, changes, durable>>
         /\ OnlyFrame(f) /\ SamePage(f) /\ SameContent(f) /\ frames'[f].pins = frames[f].pins
         /\ frames'[f].dirty = frames[f].dirty /\ ~frames'[f].writing
         /\ Moves(c, "away", 0, 0)
         /\ ev' \in EvictionType /\ (ev'.by # 0 => c = Flusher /\ ev' = ev)
<1>1. pc[c].at = "write" BY Zenon DEF FlushFails
<1>2. f \in Frames /\ frames[f] \in FrameType /\ ev \in EvictionType
  BY Zenon, <1>1, ClientTyping DEF WithFrame, Types
<1>3. Moves(c, "away", 0, 0) BY Zenon, AwayMove DEF FlushFails
<1>4. frames' = [frames EXCEPT ![f].writing = FALSE] BY Zenon DEF FlushFails
<1>5. /\ OnlyFrame(f) /\ SamePage(f) /\ SameContent(f) /\ frames'[f].pins = frames[f].pins
      /\ frames'[f].dirty = frames[f].dirty /\ ~frames'[f].writing
  BY Zenon, <1>2, <1>4, WritingBit
<1>6. ev' \in EvictionType /\ (ev'.by # 0 => c = Flusher /\ ev' = ev)
  BY Zenon, <1>2, NoEvictionType DEF FlushFails
<1> QED BY Zenon, <1>1, <1>2, <1>3, <1>5, <1>6 DEF FlushFails

\* A change of the bytes raises the version of the page and of its frame.
LEMMA ChangeEffect ==
  ASSUME Types, NEW f \in Frames, NEW lsn \in Nat, NEW dirty \in BOOLEAN, Change(f, lsn, dirty)
  PROVE  /\ OnlyFrame(f) /\ SamePage(f) /\ frames'[f].pins = frames[f].pins
         /\ ~frames[f].writing /\ ~frames'[f].writing
         /\ frames'[f].ver = changes + 1 /\ frames'[f].lsn = lsn /\ frames'[f].dirty = dirty
         /\ frames'[f].need = IF lsn = changes + 1 THEN lsn ELSE frames[f].need
         /\ changes' = changes + 1
         /\ latest' = [latest EXCEPT ![frames[f].page] = changes + 1]
         /\ latest' \in [Pages -> Nat]
<1>1. frames[f] \in FrameType /\ changes + 1 \in Nat /\ latest \in [Pages -> Nat] BY DEF Types
<1> DEFINE v == changes + 1
           n == IF lsn = changes + 1 THEN lsn ELSE frames[f].need
           new == [frames[f] EXCEPT !.ver = v, !.lsn = lsn, !.dirty = dirty, !.need = n]
<1>2. frames' = [frames EXCEPT ![f] = new] BY Zenon DEF Change
<1>3. v \in Nat /\ n \in Nat BY Zenon, <1>1 DEF FrameType
<1>4. /\ new \in FrameType /\ new.pins = frames[f].pins
      /\ new.page = frames[f].page /\ new.loaded = frames[f].loaded /\ new.failed = frames[f].failed
      /\ new.ver = v /\ new.lsn = lsn /\ new.need = n
      /\ new.dirty = dirty /\ new.writing = frames[f].writing
  <2> HIDE DEF v, n
  <2> QED BY Zenon, <1>1, <1>3 DEF FrameType
<1>5. OnlyFrame(f) /\ frames'[f] = new
  <2> HIDE DEF new
  <2> QED BY Zenon, <1>2, <1>4, FrameUpdate
<1>6. ~frames[f].writing /\ changes' = changes + 1
      /\ latest' = [latest EXCEPT ![frames[f].page] = changes + 1]
  BY Zenon DEF Change
<1>7. latest' \in [Pages -> Nat] BY Zenon, <1>1, <1>6
<1> HIDE DEF new
<1> QED BY Zenon, <1>4, <1>5, <1>6, <1>7 DEF SamePage

\* A client with a guard has a frame and a page.
LEMMA PinnedTyping ==
  ASSUME Types, Places, NEW c \in Clients, pc[c].at \in {"pinned", "mark"}
  PROVE  /\ c \in Threads /\ pc[c].frame \in Frames /\ pc[c].page \in Pages
         /\ frames[pc[c].frame] \in FrameType
         /\ frames[pc[c].frame].lsn \in Nat /\ frames[pc[c].frame].dirty \in BOOLEAN
<1>1. /\ c \in Threads /\ pc[c].frame \in Frames /\ pc[c].page \in Pages
      /\ frames[pc[c].frame] \in FrameType
  BY Zenon, ClientTyping, ClientsAreThreads DEF WithFrame, WithPage
<1> QED BY Zenon, <1>1 DEF FrameType

\* A logged change of a guarded page.
LEMMA LoggedEffect ==
  ASSUME Types, Places, NEW c \in Clients, LoggedChange(c), NEW f, f = pc[c].frame
  PROVE  /\ pc[c].at = "pinned" /\ f \in Frames
         /\ UNCHANGED <<map, resident, disk, nextPage, durable, pc, ev>>
         /\ Change(f, changes + 1, TRUE)
<1>1. pc[c].at = "pinned" BY Zenon DEF LoggedChange
<1> QED BY Zenon, <1>1, PinnedTyping DEF LoggedChange

\* A change of a guarded page that carries no LSN.
LEMMA UnloggedEffect ==
  ASSUME Types, Places, NEW c \in Clients, UnloggedChange(c), NEW f, f = pc[c].frame
  PROVE  /\ pc[c].at = "pinned" /\ f \in Frames
         /\ UNCHANGED <<map, resident, disk, nextPage, durable, ev>>
         /\ "reset" \in Hazards \/ frames[f].need <= durable
         /\ Change(f, frames[f].lsn, frames[f].dirty)
         /\ Moves(c, "mark", pc[c].page, f)
<1>1. pc[c].at = "pinned" BY Zenon DEF UnloggedChange
<1>2. pc' = Goto(c, "mark") BY Zenon DEF UnloggedChange
<1>3. f \in Frames /\ c \in Threads BY Zenon, <1>1, PinnedTyping
<1>4. Moves(c, "mark", pc[c].page, f) BY Zenon, <1>2, <1>3, GotoMove DEF Sites
<1> QED BY Zenon, <1>1, <1>3, <1>4 DEF UnloggedChange

\* mark_dirty, the step after a change.
LEMMA MarkEffect ==
  ASSUME Types, Places, NEW c \in Clients, MarkDirty(c), NEW f, f = pc[c].frame
  PROVE  /\ pc[c].at = "mark" /\ f \in Frames
         /\ UNCHANGED <<map, resident, disk, nextPage, latest, changes, durable, ev>>
         /\ "reset" \in Hazards \/ frames[f].need <= durable
         /\ OnlyFrame(f) /\ SamePage(f) /\ frames'[f].pins = frames[f].pins
         /\ ~frames[f].writing /\ ~frames'[f].writing /\ frames'[f].dirty
         /\ frames'[f].ver = frames[f].ver /\ frames'[f].need = frames[f].need
         /\ frames'[f].lsn = 0
         /\ Moves(c, "pinned", pc[c].page, f)
<1>1. pc[c].at = "mark" BY Zenon DEF MarkDirty
<1>2. pc' = Goto(c, "pinned") BY Zenon DEF MarkDirty
<1>3. f \in Frames /\ c \in Threads /\ frames[f] \in FrameType BY Zenon, <1>1, PinnedTyping
<1>4. Moves(c, "pinned", pc[c].page, f) BY Zenon, <1>2, <1>3, GotoMove DEF Sites
<1> DEFINE new == [frames[f] EXCEPT !.dirty = TRUE, !.lsn = 0]
<1>5. frames' = [frames EXCEPT ![f] = new] BY Zenon DEF MarkDirty
<1>6. /\ new \in FrameType /\ new.pins = frames[f].pins
      /\ new.page = frames[f].page /\ new.loaded = frames[f].loaded /\ new.failed = frames[f].failed
      /\ new.ver = frames[f].ver /\ new.lsn = 0 /\ new.need = frames[f].need
      /\ new.dirty = TRUE /\ new.writing = frames[f].writing
  BY ZenonT(30), <1>3 DEF FrameType
<1>7. OnlyFrame(f) /\ frames'[f] = new
  <2> HIDE DEF new
  <2> QED BY Zenon, <1>3, <1>5, <1>6, FrameUpdate
<1>8. ~frames[f].writing /\ ("reset" \in Hazards \/ frames[f].need <= durable)
      /\ UNCHANGED <<map, resident, disk, nextPage, latest, changes, durable, ev>>
  BY Zenon DEF MarkDirty
<1> HIDE DEF new
<1> QED BY ZenonT(30), <1>1, <1>3, <1>4, <1>6, <1>7, <1>8 DEF SamePage

\* The guard is dropped: one pin less.
LEMMA UnpinEffect ==
  ASSUME Types, Places, NEW c \in Clients, Unpin(c), NEW f, f = pc[c].frame
  PROVE  /\ pc[c].at = "pinned" /\ f \in Frames
         /\ UNCHANGED <<map, resident, disk, nextPage, latest, changes, durable, ev>>
         /\ OnlyFrame(f) /\ SamePage(f) /\ SameContent(f) /\ SameBits(f)
         /\ frames'[f].pins = frames[f].pins - 1
         /\ Moves(c, "away", 0, 0)
<1>1. pc[c].at = "pinned" BY Zenon DEF Unpin
<1>2. f \in Frames /\ c \in Threads /\ frames[f] \in FrameType BY Zenon, <1>1, PinnedTyping
<1>3. Moves(c, "away", 0, 0) BY Zenon, <1>2, AwayMove DEF Unpin
<1> DEFINE n == frames[f].pins - 1
           new == [frames[f] EXCEPT !.pins = n]
<1>4. frames' = [frames EXCEPT ![f] = new] BY Zenon, <1>2 DEF Unpin
<1>5. n \in Int BY <1>2 DEF FrameType
<1>6. /\ new \in FrameType /\ new.pins = n
      /\ new.page = frames[f].page /\ new.loaded = frames[f].loaded /\ new.failed = frames[f].failed
      /\ new.ver = frames[f].ver /\ new.lsn = frames[f].lsn /\ new.need = frames[f].need
      /\ new.dirty = frames[f].dirty /\ new.writing = frames[f].writing
  <2> HIDE DEF n
  <2> QED BY Zenon, <1>2, <1>5 DEF FrameType
<1>7. OnlyFrame(f) /\ frames'[f] = new
  <2> HIDE DEF new
  <2> QED BY Zenon, <1>2, <1>4, <1>6, FrameUpdate
<1> HIDE DEF new
<1> QED BY Zenon, <1>1, <1>2, <1>3, <1>6, <1>7 DEF Unpin, SamePage, SameContent, SameBits

-----------------------------------------------------------------------------
\* Types and places: kept by every action, whatever the circumstances.

\* An empty pool is well formed.
LEMMA PlacesInit == Init => Types /\ Places
<1> SUFFICES ASSUME Init PROVE Types /\ Places OBVIOUS
<1>1. pc \in [Threads -> ThreadType] BY Zenon, AwayType DEF Init, Threads
<1>2. frames \in [Frames -> FrameType] BY Zenon, FreeType DEF Init
<1>3. disk \in [Pages -> [ver : Nat, lsn : Nat, need : Nat]] BY Zenon DEF Init
<1>4. nextPage \in OldPages + 1..MaxPages + 1 BY PoolAssumption DEF Init
<1>5. Types BY <1>1, <1>2, <1>3, <1>4, NoEvictionType DEF Init, Types
<1>6. \A c \in Threads : pc[c] = Away BY Zenon DEF Init, Threads
<1>7. 0 < nextPage BY PoolAssumption DEF Init
<1>8. Places
  BY Zenon, <1>6, <1>7, AwayType, ClientsAreThreads DEF Places, WithFrame, WithPage
<1> QED BY Zenon, <1>5, <1>8

\* A thread that moves to a place where it has what belongs there.
LEMMA MoveKeepsPlaces ==
  ASSUME Types, Places, NEW c \in Threads, NEW at, NEW page, NEW f, Moves(c, at, page, f),
         nextPage' \in Nat, nextPage <= nextPage', page < nextPage',
         IF c = Flusher THEN at \in {"away", "flush", "write", "written"} ELSE at # "flush",
         at \in WithFrame => f \in Frames, at \in WithPage => page \in Pages
  PROVE  Places'
<1>1. \A d \in Threads : pc[d].page \in Nat /\ nextPage \in Nat
  BY PoolAssumption DEF Types, ThreadType, Pages
<1>2. \A d \in Threads : pc'[d].page < nextPage' BY <1>1 DEF Moves, OnlyThread, Places
<1>3. \A d \in Clients : pc'[d].at # "flush"
  BY Zenon, ClientsAreThreads DEF Moves, OnlyThread, Places
<1>4. pc'[Flusher].at \in {"away", "flush", "write", "written"}
  BY Zenon, ClientsAreThreads DEF Moves, OnlyThread, Places
<1>5. \A d \in Threads : pc'[d].at \in WithFrame => pc'[d].frame \in Frames
  BY Zenon DEF Moves, OnlyThread, Places
<1>6. \A d \in Threads : pc'[d].at \in WithPage => pc'[d].page \in Pages
  BY Zenon DEF Moves, OnlyThread, Places
<1> QED BY Zenon, <1>2, <1>3, <1>4, <1>5, <1>6 DEF Places

\* Every step keeps the types and the places.
LEMMA PlacesStep ==
  ASSUME Types, Places, Next
  PROVE  Types' /\ Places'
<1> USE ClientsAreThreads
<1>0. nextPage \in Nat /\ 0 < nextPage /\ \A d \in Threads : pc[d].page < nextPage
  BY PoolAssumption DEF Types, Places
<1>1. ASSUME NEW c \in Clients, ClientStep(c) PROVE Types' /\ Places'
  <2> DEFINE f == pc[c].frame
             p == pc[c].page
  <2>0. pc[c] \in ThreadType /\ p < nextPage BY Zenon, <1>0, ClientTyping
  <2>1. CASE Retry(c)
    <3>1. p \in Pages BY Zenon, <2>1, ClientTyping DEF Retry, WithPage
    <3> DEFINE at == IF map[p] # 0 THEN "attach" ELSE "capacity"
    <3>2. Moves(c, at, p, map[p]) BY Zenon, <2>1, <3>1, LookupEffect DEF Retry
    <3>3. at \in WithFrame => map[p] \in Frames BY Zenon, <3>1 DEF Types, WithFrame
    <3>4. Places'
      BY SMTT(30), <1>0, <2>0, <2>1, <3>1, <3>2, <3>3, MoveKeepsPlaces DEF Retry
    <3>5. Types' BY Zenon, <2>1, <3>2 DEF Types, Retry, Moves, OnlyThread
    <3> QED BY Zenon, <3>4, <3>5
  <2>2. CASE Attach(c)
    <3>1. p \in Pages BY Zenon, <2>2, ClientTyping DEF Attach, WithPage
    <3>2. Places'
      BY SMTT(30), <1>0, <2>0, <2>2, <3>1, AttachEffect, MoveKeepsPlaces DEF WithFrame, WithPage
    <3>3. Types' BY ZenonT(30), <2>2, AttachEffect DEF Types, Moves, OnlyThread, OnlyFrame
    <3> QED BY Zenon, <3>2, <3>3
  <2>3. CASE InsertLoading(c)
    <3>1. p \in Pages BY Zenon, <2>3, InsertEffect
    <3>2. Places'
      BY SMTT(30), <1>0, <2>0, <2>3, <3>1, InsertEffect, UnusedFrame, MoveKeepsPlaces DEF WithFrame, WithPage
    <3>3. Types' BY SMTT(30), <2>3, InsertEffect, UnusedFrame DEF Types, Moves, OnlyThread, OnlyFrame
    <3> QED BY Zenon, <3>2, <3>3
  <2>4. CASE ReadPage(c)
    <3>2. Places' BY SMTT(30), <1>0, <2>0, <2>4, ReadEffect, MoveKeepsPlaces DEF WithFrame, WithPage
    <3>3. Types' BY SMTT(30), <2>4, ReadEffect DEF Types, Moves, OnlyThread, OnlyFrame
    <3> QED BY Zenon, <3>2, <3>3
  <2>5. CASE ReadFails(c)
    <3>2. Places' BY SMTT(30), <1>0, <2>0, <2>5, ReadFailsEffect, MoveKeepsPlaces DEF WithFrame, WithPage
    <3>3. Types' BY Zenon, <2>5, ReadFailsEffect DEF Types, Moves, OnlyThread, OnlyFrame
    <3> QED BY Zenon, <3>2, <3>3
  <2>6. CASE AllocateFrame(c)
    <3>1. nextPage' \in OldPages + 1..MaxPages + 1 /\ nextPage' = nextPage + 1
      <4>1. nextPage \in 1..MaxPages /\ nextPage' = nextPage + 1
        BY Zenon, <2>6, AllocateEffect DEF Pages
      <4>2. nextPage \in OldPages + 1..MaxPages + 1 BY Zenon DEF Types
      <4> QED BY SMTT(30), <4>1, <4>2, PoolAssumption
    <3>2. Places'
      BY SMTT(30), <1>0, <2>0, <2>6, <3>1, AllocateEffect, UnusedFrame, MoveKeepsPlaces DEF WithFrame, WithPage
    <3>3. Types' BY SMTT(30), <2>6, <3>1, AllocateEffect, UnusedFrame DEF Types, Moves, OnlyThread, OnlyFrame
    <3> QED BY Zenon, <3>2, <3>3
  <2>7. CASE AllocateGivesUp(c)
    <3>1. Moves(c, "away", 0, 0) BY Zenon, <2>7, AwayMove DEF AllocateGivesUp
    <3>2. Places'
      BY <1>0, <2>0, <2>7, <3>1, MoveKeepsPlaces DEF WithFrame, WithPage, AllocateGivesUp
    <3>3. Types' BY Zenon, <2>7, <3>1 DEF Types, Moves, OnlyThread, AllocateGivesUp
    <3> QED BY Zenon, <3>2, <3>3
  <2>8. CASE EnsureCapacity(c)
    <3>1. /\ AfterRoom(c) \in {"allocate", "insert"}
          /\ AfterRoom(c) = "insert" => p \in Pages
      BY Zenon, <2>0 DEF AfterRoom, ThreadType
    <3>2. Places'
      BY <1>0, <2>0, <2>8, <3>1, CapacityEffect, MoveKeepsPlaces DEF WithFrame, WithPage
    <3>3. Types' BY SMTT(30), <2>8, CapacityEffect DEF Types, Moves, OnlyThread
    <3> QED BY Zenon, <3>2, <3>3
  <2>9. CASE Visit(c)
    <3>1. Places'
      <4>1. CASE UNCHANGED pc BY Zenon, <2>9, <4>1, VisitEffect DEF Places
      <4>2. CASE \E v \in Frames, at \in {"evictflush", "remove"} : Moves(c, at, p, v)
        BY SMTT(30), <1>0, <2>0, <2>9, <4>2, VisitEffect, MoveKeepsPlaces DEF WithFrame, WithPage
      <4> QED BY Zenon, <2>9, <4>1, <4>2, VisitEffect
    <3>2. Types' BY Zenon, <2>9, VisitEffect DEF Types, Moves, OnlyThread
    <3> QED BY Zenon, <3>1, <3>2
  <2>10. CASE Remove(c)
    <3>1. /\ AfterRoom(c) \in {"allocate", "insert"}
          /\ AfterRoom(c) = "insert" => p \in Pages
      BY Zenon, <2>0 DEF AfterRoom, ThreadType
    <3>2. Places'
      BY SMTT(30), <1>0, <2>0, <2>10, <3>1, RemoveEffect, MoveKeepsPlaces DEF WithFrame, WithPage
    <3>3. Types' BY SMTT(30), <2>10, RemoveEffect DEF Types, Moves, OnlyThread, OnlyFrame
    <3> QED BY Zenon, <3>2, <3>3
  <2>11. CASE EvictFails(c)
    <3>1. Moves(c, "away", 0, 0) BY Zenon, <2>11, AwayMove DEF EvictFails
    <3>2. Places' BY <1>0, <2>0, <2>11, <3>1, MoveKeepsPlaces DEF WithFrame, WithPage, EvictFails
    <3>3. Types' BY Zenon, <2>11, <3>1, NoEvictionType DEF Types, Moves, OnlyThread, EvictFails
    <3> QED BY Zenon, <3>2, <3>3
  <2>12. CASE MarkDirty(c)
    <3>1. p \in Pages BY Zenon, <2>12, PinnedTyping DEF MarkDirty
    <3>2. Places' BY SMTT(30), <1>0, <2>0, <2>12, <3>1, MarkEffect, MoveKeepsPlaces DEF WithFrame, WithPage
    <3>3. Types' BY SMTT(30), <2>12, MarkEffect DEF Types, Moves, OnlyThread, OnlyFrame
    <3> QED BY Zenon, <3>2, <3>3
  <2>13. CASE Unpin(c)
    <3>2. Places' BY SMTT(30), <1>0, <2>0, <2>13, UnpinEffect, MoveKeepsPlaces DEF WithFrame, WithPage
    <3>3. Types' BY Zenon, <2>13, UnpinEffect DEF Types, Moves, OnlyThread, OnlyFrame
    <3> QED BY Zenon, <3>2, <3>3
  <2> QED BY Zenon, <1>1, <2>1, <2>2, <2>3, <2>4, <2>5, <2>6, <2>7, <2>8, <2>9, <2>10, <2>11, <2>12, <2>13
          DEF ClientStep
<1>2. ASSUME NEW c \in Clients, CallAllocate(c) PROVE Types' /\ Places'
  <2> DEFINE th == [Away EXCEPT !.at = "capacity"]
  <2>1. th \in ThreadType /\ th.at = "capacity" /\ th.page = 0 /\ th.frame = 0
    BY Zenon, FreeType DEF ThreadType, Away, Sites
  <2>2. pc' = [pc EXCEPT ![c] = th] BY Zenon, <1>2 DEF CallAllocate
  <2>3. OnlyThread(c) /\ pc'[c] = th
    <3> HIDE DEF th
    <3> QED BY Zenon, <2>1, <2>2, WholeMove
  <2> HIDE DEF th
  <2>4. Moves(c, "capacity", 0, 0) BY Zenon, <2>1, <2>3 DEF Moves
  <2>5. Places' BY <1>0, <1>2, <2>4, MoveKeepsPlaces DEF WithFrame, WithPage, CallAllocate
  <2>6. Types' BY Zenon, <1>2, <2>4 DEF Types, Moves, OnlyThread, CallAllocate
  <2> QED BY Zenon, <2>5, <2>6
<1>3. ASSUME NEW c \in Clients, LoggedChange(c) PROVE Types' /\ Places'
  <2> DEFINE f == pc[c].frame
  <2>1. f \in Frames /\ Change(f, changes + 1, TRUE) BY Zenon, <1>3, LoggedEffect
  <2>2. changes + 1 \in Nat /\ durable \in Nat /\ durable <= changes + 1 BY DEF Types
  <2>3. /\ frames' \in [Frames -> FrameType] /\ latest' \in [Pages -> Nat]
        /\ changes' = changes + 1
    <3> HIDE DEF f
    <3> QED BY Zenon, <2>1, <2>2, ChangeEffect DEF OnlyFrame
  <2>4. Types' BY Zenon, <1>3, <2>2, <2>3, LoggedEffect DEF Types
  <2>5. Places' BY ZenonT(30), <1>3, LoggedEffect DEF Places
  <2> QED BY Zenon, <2>4, <2>5
<1>4. ASSUME NEW c \in Clients, UnloggedChange(c) PROVE Types' /\ Places'
  <2> DEFINE f == pc[c].frame
  <2>1. f \in Frames /\ Change(f, frames[f].lsn, frames[f].dirty) BY Zenon, <1>4, UnloggedEffect
  <2>2. /\ changes + 1 \in Nat /\ durable \in Nat /\ durable <= changes + 1
        /\ frames[f].lsn \in Nat /\ frames[f].dirty \in BOOLEAN /\ pc[c].page \in Pages
    BY SMTT(30), <1>4, PinnedTyping DEF Types, UnloggedChange
  <2>3. /\ frames' \in [Frames -> FrameType] /\ latest' \in [Pages -> Nat]
        /\ changes' = changes + 1
    <3> HIDE DEF f
    <3> QED BY Zenon, <2>1, <2>2, ChangeEffect DEF OnlyFrame
  <2>4. Types' BY Zenon, <1>4, <2>2, <2>3, UnloggedEffect DEF Types, Moves, OnlyThread
  <2>5. Places'
    BY SMTT(30), <1>0, <1>4, <2>1, <2>2, UnloggedEffect, MoveKeepsPlaces DEF WithFrame, WithPage
  <2> QED BY Zenon, <2>4, <2>5
<1>5. ASSUME NEW c \in Clients, NEW p \in Pages, CallPin(c, p) PROVE Types' /\ Places'
  <2> DEFINE at == IF map[p] # 0 THEN "attach" ELSE "capacity"
  <2>2. Moves(c, at, p, map[p]) /\ p < nextPage BY Zenon, <1>5, LookupEffect DEF CallPin
  <2>3. at \in WithFrame => map[p] \in Frames BY Zenon DEF Types, WithFrame
  <2>4. Places' BY SMTT(30), <1>0, <1>5, <2>2, <2>3, MoveKeepsPlaces DEF CallPin
  <2>5. Types' BY Zenon, <1>5, <2>2 DEF Types, CallPin, Moves, OnlyThread
  <2> QED BY Zenon, <2>4, <2>5
<1>6. ASSUME NEW c \in Threads, FlushStep(c) PROVE Types' /\ Places'
  <2>0. pc[c] \in ThreadType /\ pc[c].page < nextPage BY Zenon, <1>0, ClientTyping
  <2>a. ASSUME FlushOver(c), pc[c].frame \in Frames, UNCHANGED nextPage PROVE Places'
    BY <1>0, <2>0, <2>a, MoveKeepsPlaces DEF WithFrame, WithPage, FlushOver
  <2>b. ASSUME FlushOver(c) PROVE pc' \in [Threads -> ThreadType]
    BY Zenon, <2>b DEF FlushOver, Moves, OnlyThread
  <2>1. CASE FlushCopy(c)
    <3>1. Places'
      BY SMTT(30), <1>0, <2>0, <2>1, <2>a, CopyEffect, MoveKeepsPlaces DEF WithFrame, WithPage
    <3>2. Types' BY Zenon, <2>1, <2>b, CopyEffect DEF Types, Moves, OnlyThread, OnlyFrame
    <3> QED BY Zenon, <3>1, <3>2
  <2>2. CASE FlushWrite(c)
    <3>1. Places' BY SMTT(30), <1>0, <2>0, <2>2, WriteEffect, MoveKeepsPlaces DEF WithFrame, WithPage
    <3>2. Types' BY SMTT(30), <2>2, WriteEffect DEF Types, Moves, OnlyThread
    <3> QED BY Zenon, <3>1, <3>2
  <2>3. CASE FlushDone(c)
    <3>1. Places' BY Zenon, <2>3, <2>a, DoneEffect
    <3>2. Types' BY Zenon, <2>3, <2>b, DoneEffect DEF Types, OnlyFrame
    <3> QED BY Zenon, <3>1, <3>2
  <2>4. CASE FlushFails(c)
    <3>1. Places' BY SMTT(30), <1>0, <2>0, <2>4, WriteFailsEffect, MoveKeepsPlaces DEF WithFrame, WithPage
    <3>2. Types' BY Zenon, <2>4, WriteFailsEffect DEF Types, Moves, OnlyThread, OnlyFrame
    <3> QED BY Zenon, <3>1, <3>2
  <2> QED BY Zenon, <1>6, <2>1, <2>2, <2>3, <2>4 DEF FlushStep
<1>7. ASSUME NEW f \in Frames, FlushPick(f) PROVE Types' /\ Places'
  <2>1. Places' BY <1>0, <1>7, PickEffect, MoveKeepsPlaces DEF WithFrame, WithPage
  <2>2. Types' BY Zenon, <1>7, PickEffect DEF Types, Moves, OnlyThread
  <2> QED BY Zenon, <2>1, <2>2
<1>8. CASE Sync BY SMTT(30), <1>8 DEF Sync, Types, Places
<1> QED BY Zenon, <1>1, <1>2, <1>3, <1>4, <1>5, <1>6, <1>7, <1>8 DEF Next, Threads

-----------------------------------------------------------------------------
\* Write-ahead logging.

\* The LSN of a page covers the last logged change in it that is not durable.
LsnCovers ==
  /\ \A f \in Frames : frames[f].need <= durable \/ frames[f].need <= frames[f].lsn
  /\ \A c \in Threads : pc[c].at = "write" => pc[c].copy.need <= durable

\* The log invariant, with the types it needs.
LogInv == Types /\ Places /\ LsnCovers /\ LogBeforePage

\* A step that leaves the log and the page file alone.
LEMMA CoversKeep ==
  ASSUME Types, LsnCovers, LogBeforePage, UNCHANGED <<disk, durable>>,
         NEW c \in Threads, OnlyThread(c), pc'[c].at # "write",
         \A g \in Frames : \/ SameContent(g)
                           \/ frames'[g].need <= durable
                           \/ frames'[g].need <= frames'[g].lsn
  PROVE  LsnCovers' /\ LogBeforePage'
<1>1. LogBeforePage' BY Zenon DEF LogBeforePage
<1>2. \A g \in Frames : frames'[g].need <= durable \/ frames'[g].need <= frames'[g].lsn
  BY Zenon DEF LsnCovers, SameContent
<1>3. \A d \in Threads : pc'[d].at = "write" => pc'[d].copy.need <= durable
  BY Zenon DEF LsnCovers, OnlyThread
<1> QED BY Zenon, <1>1, <1>2, <1>3 DEF LsnCovers

\* The frames that a step does not touch stay covered.
LEMMA OthersKeep ==
  ASSUME NEW f \in Frames, OnlyFrame(f)
  PROVE  \A g \in Frames \ {f} : SameContent(g)
BY Zenon DEF OnlyFrame, SameContent

\* Every step keeps the LSN of a frame above the log its bytes need.
LEMMA CoversStep ==
  ASSUME Types, Places, LsnCovers, LogBeforePage, "reset" \notin Hazards, Next
  PROVE  LsnCovers' /\ LogBeforePage'
<1> USE ClientsAreThreads
<1>0. durable \in Nat /\ \A f \in Frames : frames[f].lsn \in Nat /\ frames[f].need \in Nat
  BY Zenon DEF Types, FrameType
<1>a. ASSUME UNCHANGED frames PROVE \A g \in Frames : SameContent(g)
  BY Zenon, <1>a DEF SameContent
<1>1. ASSUME NEW c \in Clients, ClientStep(c), NEW f, f = pc[c].frame
      PROVE  LsnCovers' /\ LogBeforePage'
  <2>1. CASE Retry(c)
    <3>1. pc[c].page \in Pages BY Zenon, <2>1, ClientTyping DEF Retry, WithPage
    <3>2. OnlyThread(c) /\ pc'[c].at # "write" /\ UNCHANGED <<frames, disk, durable>>
      BY Zenon, <2>1, <3>1, LookupEffect DEF Retry, Moves
    <3> QED BY Zenon, <1>a, <3>2, CoversKeep
  <2>2. CASE Attach(c)
    <3>1. SameContent(f) \/ frames'[f].need <= durable
      BY SMTT(30), <1>0, <1>1, <2>2, AttachEffect, FreeType DEF SameContent
    <3>2. OnlyThread(c) /\ pc'[c].at # "write" /\ UNCHANGED <<disk, durable>> /\ OnlyFrame(f) /\ f \in Frames
      BY Zenon, <1>1, <2>2, AttachEffect DEF Moves
    <3> QED BY Zenon, <3>1, <3>2, OthersKeep, CoversKeep
  <2>3. CASE InsertLoading(c)
    <3>1. OnlyThread(c) /\ pc'[c].at # "write" /\ UNCHANGED <<disk, durable>>
      BY Zenon, <2>3, InsertEffect DEF Moves
    <3>2. CASE UNCHANGED frames BY Zenon, <1>a, <3>1, <3>2, CoversKeep
    <3>3. CASE \E g \in Unused : OnlyFrame(g) /\ frames'[g].need = 0
      <4>1. PICK g \in Unused : OnlyFrame(g) /\ frames'[g].need = 0 BY Zenon, <3>3
      <4>2. g \in Frames /\ frames'[g].need <= durable BY <1>0, <4>1, UnusedFrame
      <4> QED BY Zenon, <3>1, <4>1, <4>2, OthersKeep, CoversKeep
    <3> QED BY Zenon, <2>3, <3>2, <3>3, InsertEffect
  <2>4. CASE ReadPage(c)
    <3>1. frames'[f].need <= durable /\ f \in Frames /\ OnlyFrame(f)
      BY SMTT(30), <1>1, <2>4, ReadEffect DEF LogBeforePage
    <3>2. OnlyThread(c) /\ pc'[c].at # "write" /\ UNCHANGED <<disk, durable>>
      BY Zenon, <2>4, ReadEffect DEF Moves
    <3> QED BY Zenon, <3>1, <3>2, OthersKeep, CoversKeep
  <2>5. CASE ReadFails(c)
    <3>1. SameContent(f) \/ frames'[f].need <= durable
      BY SMTT(30), <1>0, <1>1, <2>5, ReadFailsEffect, FreeType
    <3>2. OnlyThread(c) /\ pc'[c].at # "write" /\ UNCHANGED <<disk, durable>> /\ OnlyFrame(f) /\ f \in Frames
      BY Zenon, <1>1, <2>5, ReadFailsEffect DEF Moves
    <3> QED BY Zenon, <3>1, <3>2, OthersKeep, CoversKeep
  <2>6. CASE AllocateFrame(c)
    <3>1. PICK g \in Unused : OnlyFrame(g) /\ frames'[g].need = 0 /\ Moves(c, "pinned", nextPage, g)
      BY Zenon, <2>6, AllocateEffect
    <3>2. g \in Frames /\ frames'[g].need <= durable BY SMTT(30), <1>0, <3>1, UnusedFrame
    <3>3. OnlyThread(c) /\ pc'[c].at # "write" /\ UNCHANGED <<disk, durable>>
      BY Zenon, <2>6, <3>1, AllocateEffect DEF Moves
    <3> QED BY Zenon, <3>1, <3>2, <3>3, OthersKeep, CoversKeep
  <2>7. CASE AllocateGivesUp(c)
    BY ZenonT(30), <1>a, <2>7, AwayMove, CoversKeep DEF AllocateGivesUp, Moves
  <2>8. CASE EnsureCapacity(c)
    <3>1. OnlyThread(c) /\ pc'[c].at # "write" /\ UNCHANGED <<frames, disk, durable>>
      BY Zenon, <2>8, CapacityEffect DEF Moves, AfterRoom
    <3> QED BY Zenon, <1>a, <3>1, CoversKeep
  <2>9. CASE Visit(c)
    <3>1. OnlyThread(c) /\ pc'[c].at # "write"
      BY Zenon, <2>9, VisitEffect DEF Moves, OnlyThread, Types
    <3> QED BY Zenon, <2>9, <3>1, VisitEffect, CoversKeep
  <2>10. CASE Remove(c)
    <3>1. OnlyThread(c) /\ pc'[c].at # "write" /\ UNCHANGED <<disk, durable>>
      BY Zenon, <2>10, RemoveEffect DEF Moves, AfterRoom
    <3>2. CASE UNCHANGED frames BY Zenon, <1>a, <3>1, <3>2, CoversKeep
    <3>3. CASE OnlyFrame(f) /\ frames'[f] = IF WaitingFor(c, f) THEN frames[f] ELSE Free
      <4>1. f \in Frames /\ (SameContent(f) \/ frames'[f].need <= durable)
        BY SMTT(30), <1>0, <1>1, <2>10, <3>3, RemoveEffect, FreeType DEF SameContent
      <4> QED BY Zenon, <3>1, <3>3, <4>1, OthersKeep, CoversKeep
    <3> QED BY SMTT(30), <1>1, <2>10, <3>2, <3>3, RemoveEffect
  <2>11. CASE EvictFails(c) BY ZenonT(30), <1>a, <2>11, AwayMove, CoversKeep DEF EvictFails, Moves
  <2>12. CASE MarkDirty(c)
    <3>1. frames'[f].need <= durable /\ OnlyFrame(f) /\ f \in Frames BY Zenon, <1>1, <2>12, MarkEffect
    <3>2. OnlyThread(c) /\ pc'[c].at # "write" /\ UNCHANGED <<disk, durable>>
      BY Zenon, <2>12, MarkEffect DEF Moves
    <3> QED BY Zenon, <3>1, <3>2, OthersKeep, CoversKeep
  <2>13. CASE Unpin(c)
    <3>1. OnlyFrame(f) /\ SameContent(f) /\ f \in Frames BY Zenon, <1>1, <2>13, UnpinEffect
    <3>2. OnlyThread(c) /\ pc'[c].at # "write" /\ UNCHANGED <<disk, durable>>
      BY Zenon, <2>13, UnpinEffect DEF Moves
    <3> QED BY Zenon, <3>1, <3>2, OthersKeep, CoversKeep
  <2> QED BY Zenon, <1>1, <2>1, <2>2, <2>3, <2>4, <2>5, <2>6, <2>7, <2>8, <2>9, <2>10, <2>11, <2>12, <2>13
          DEF ClientStep
<1>2. ASSUME NEW c \in Clients, CallAllocate(c) PROVE LsnCovers' /\ LogBeforePage'
  <2>1. OnlyThread(c) /\ pc'[c] = [Away EXCEPT !.at = "capacity"]
    <3>1. [Away EXCEPT !.at = "capacity"] \in ThreadType BY Zenon, FreeType DEF ThreadType, Away, Sites
    <3> QED BY Zenon, <1>2, <3>1, WholeMove DEF CallAllocate
  <2>2. pc'[c].at # "write" BY Zenon, <2>1 DEF Away
  <2> QED BY Zenon, <1>2, <1>a, <2>1, <2>2, CoversKeep DEF CallAllocate
<1>3. ASSUME NEW c \in Clients, LoggedChange(c), NEW f, f = pc[c].frame
      PROVE  LsnCovers' /\ LogBeforePage'
  <2>0. PICK n \in Nat : n = changes + 1 BY DEF Types
  <2>1. f \in Frames /\ Change(f, n, TRUE) BY ZenonT(30), <1>3, <2>0, LoggedEffect
  <2>2. OnlyFrame(f) /\ frames'[f].need = n /\ frames'[f].lsn = n BY ZenonT(30), <2>0, <2>1, ChangeEffect
  <2>3. OnlyThread(c) /\ pc'[c].at # "write" /\ UNCHANGED <<disk, durable>>
    BY Zenon, <1>3, LoggedEffect DEF OnlyThread, Types
  <2> QED BY <2>1, <2>2, <2>3, OthersKeep, CoversKeep
<1>4. ASSUME NEW c \in Clients, UnloggedChange(c), NEW f, f = pc[c].frame
      PROVE  LsnCovers' /\ LogBeforePage'
  <2>1. /\ f \in Frames /\ Change(f, frames[f].lsn, frames[f].dirty)
        /\ frames[f].lsn \in Nat /\ frames[f].dirty \in BOOLEAN /\ frames[f].need <= durable
    BY Zenon, <1>4, UnloggedEffect, PinnedTyping
  <2>2. OnlyFrame(f) /\ (frames'[f].need <= durable \/ frames'[f].need <= frames'[f].lsn)
    BY SMTT(30), <1>0, <2>1, ChangeEffect
  <2>3. OnlyThread(c) /\ pc'[c].at # "write" /\ UNCHANGED <<disk, durable>>
    BY Zenon, <1>4, UnloggedEffect DEF Moves
  <2> QED BY ZenonT(30), <2>1, <2>2, <2>3, OthersKeep, CoversKeep
<1>5. ASSUME NEW c \in Clients, NEW p \in Pages, CallPin(c, p) PROVE LsnCovers' /\ LogBeforePage'
  <2>1. OnlyThread(c) /\ pc'[c].at # "write" /\ UNCHANGED <<frames, disk, durable>>
    BY Zenon, <1>5, LookupEffect DEF CallPin, Moves
  <2> QED BY Zenon, <1>a, <2>1, CoversKeep
<1>6. ASSUME NEW c \in Threads, FlushStep(c), NEW f, f = pc[c].frame
      PROVE  LsnCovers' /\ LogBeforePage'
  <2>1. CASE FlushCopy(c)
    <3>0. UNCHANGED <<disk, durable>> /\ f \in Frames BY Zenon, <1>6, <2>1, CopyEffect
    <3>1. CASE UNCHANGED frames /\ FlushOver(c)
      BY Zenon, <1>a, <3>0, <3>1, CoversKeep DEF FlushOver, Moves
    <3>2. CASE /\ frames[f].lsn <= Limit(c) /\ OnlyFrame(f) /\ SameContent(f)
               /\ Moves(c, "write", pc[c].page, f) /\ pc'[c].copy = frames[f]
      <4>1. Limit(c) <= durable /\ Limit(c) \in Nat BY SMTT(30), <1>0 DEF Limit
      <4>2. pc'[c].copy.need <= durable BY SMTT(30), <1>0, <3>0, <3>2, <4>1 DEF LsnCovers
      <4>3. \A d \in Threads : pc'[d].at = "write" => pc'[d].copy.need <= durable
        BY Zenon, <3>2, <4>2 DEF LsnCovers, Moves, OnlyThread
      <4>4. \A g \in Frames : SameContent(g) BY Zenon, <3>0, <3>2, OthersKeep
      <4>5. LsnCovers' BY Zenon, <3>0, <4>3, <4>4 DEF LsnCovers, SameContent
      <4> QED BY Zenon, <3>0, <4>5 DEF LogBeforePage
    <3> QED BY SMTT(30), <1>6, <2>1, <3>1, <3>2, CopyEffect
  <2>2. CASE FlushWrite(c)
    <3>1. pc[c].copy.need <= durable BY Zenon, <2>2, WriteEffect DEF LsnCovers
    <3>2. LogBeforePage' BY SMTT(30), <2>2, <3>1, WriteEffect DEF LogBeforePage
    <3>3. LsnCovers' BY SMTT(30), <2>2, WriteEffect DEF LsnCovers, Moves, OnlyThread
    <3> QED BY Zenon, <3>2, <3>3
  <2>3. CASE FlushDone(c)
    <3>1. OnlyThread(c) /\ pc'[c].at # "write" BY Zenon, <2>3, DoneEffect DEF FlushOver, Moves
    <3>2. UNCHANGED <<disk, durable>> /\ OnlyFrame(f) /\ SameContent(f) /\ f \in Frames
      BY Zenon, <1>6, <2>3, DoneEffect
    <3> QED BY Zenon, <3>1, <3>2, OthersKeep, CoversKeep
  <2>4. CASE FlushFails(c)
    <3>1. OnlyThread(c) /\ pc'[c].at # "write" BY Zenon, <2>4, WriteFailsEffect DEF Moves
    <3>2. UNCHANGED <<disk, durable>> /\ OnlyFrame(f) /\ SameContent(f) /\ f \in Frames
      BY Zenon, <1>6, <2>4, WriteFailsEffect
    <3> QED BY Zenon, <3>1, <3>2, OthersKeep, CoversKeep
  <2> QED BY Zenon, <1>6, <2>1, <2>2, <2>3, <2>4 DEF FlushStep
<1>7. ASSUME NEW f \in Frames, FlushPick(f) PROVE LsnCovers' /\ LogBeforePage'
  BY Zenon, <1>7, <1>a, PickEffect, CoversKeep DEF Moves
<1>8. CASE Sync
  <2>1. durable <= durable' /\ durable' \in Nat BY Zenon, <1>0, <1>8 DEF Sync, Types
  <2>2. \A p \in Pages : disk[p].need \in Nat BY Zenon DEF Types
  <2>3. \A c \in Threads : pc[c].copy.need \in Nat BY Zenon DEF Types, ThreadType, FrameType
  <2>4. LsnCovers' BY SMTT(30), <1>0, <1>8, <2>1, <2>3 DEF LsnCovers, Sync
  <2>5. LogBeforePage' BY <1>0, <1>8, <2>1, <2>2 DEF LogBeforePage, Sync
  <2> QED BY Zenon, <2>4, <2>5
<1> QED BY Zenon, <1>1, <1>2, <1>3, <1>4, <1>5, <1>6, <1>7, <1>8 DEF Next, Threads

\* Write-ahead logging: whatever is flushed when, by the checkpointer up to
\* the durable LSN or by an evictor with LSN zero, the page file never shows a
\* logged change whose record is not durable.
THEOREM LogFirst == "reset" \notin Hazards => (Spec => []LogBeforePage)
<1> SUFFICES ASSUME "reset" \notin Hazards PROVE Spec => []LogBeforePage OBVIOUS
<1>1. Init => LogInv
  <2> SUFFICES ASSUME Init PROVE LogInv OBVIOUS
  <2>1. LsnCovers BY SMTT(30), FreeType, AwayType DEF Init, LsnCovers, Threads
  <2>2. LogBeforePage BY DEF Init, LogBeforePage
  <2> QED BY Zenon, <2>1, <2>2, PlacesInit DEF LogInv
<1>2. LogInv /\ [Next]_vars => LogInv'
  <2> SUFFICES ASSUME LogInv, [Next]_vars PROVE LogInv' OBVIOUS
  <2>1. CASE Next BY Zenon, <2>1, PlacesStep, CoversStep DEF LogInv
  <2>2. CASE UNCHANGED vars
    BY Zenon, <2>2 DEF LogInv, vars, Types, Places, LsnCovers, LogBeforePage
  <2> QED BY Zenon, <2>1, <2>2
<1>3. LogInv => LogBeforePage BY Zenon DEF LogInv
<1> QED BY <1>1, <1>2, <1>3, PTL DEF Spec

-----------------------------------------------------------------------------
\* The shards and the frames agree.

\* The places of a client that counts as a pin of its frame.
Guarding == {"read", "pinned", "mark"}

\* A mapped frame carries its page, and is loaded or being read by a client.
MappedFrames ==
  \A p \in Pages, f \in Frames : map[p] = f =>
    /\ frames[f].page = p /\ ~frames[f].failed /\ p < nextPage
    /\ frames[f].loaded \/ \E d \in Clients : pc[d].at = "read" /\ pc[d].frame = f

\* A guard or a reader is on the mapped frame; only the reader's is not
\* loaded, and it has no other reader.
GuardedFrames ==
  /\ \A c \in Clients : pc[c].at \in Guarding =>
       /\ map[pc[c].page] = pc[c].frame
       /\ frames[pc[c].frame].loaded <=> pc[c].at # "read"
  /\ \A c, d \in Clients :
       pc[c].at = "read" /\ pc[d].at = "read" /\ pc[c].frame = pc[d].frame => c = d

\* So is a waiter, unless loading the frame has failed.
AwaitedFrames ==
  \A c \in Clients : pc[c].at = "attach" =>
    frames[pc[c].frame].failed \/ map[pc[c].page] = pc[c].frame

\* A frame with something to write is mapped.
Home(f) == frames[f].loaded /\ frames[f].page \in Pages /\ map[frames[f].page] = f
DirtyFrames ==
  \A f \in Frames : /\ frames[f].dirty \/ frames[f].writing => Home(f)
                    /\ frames[f].loaded => frames[f].page \in Pages

\* The counters: of frames in the shards, and of guards on a frame.
Pinners(f) == {c \in Clients : pc[c].at \in Guarding /\ pc[c].frame = f}
\* The pages in the map.
MappedPages == {p \in Pages : map[p] # 0}

\* pins counts the guards, and resident the pages in the map.
Counts ==
  /\ resident = Cardinality(MappedPages)
  /\ \A p \in Pages, f \in Frames : map[p] = f => frames[f].pins = Cardinality(Pinners(f))

\* The core of the argument: the map, the frames and the threads agree.
Residency == MappedFrames /\ GuardedFrames /\ AwaitedFrames /\ DirtyFrames /\ Counts

\* Nobody guards a mapped frame whose pin count is zero.
ZeroMeansFree ==
  \A p \in Pages, f \in Frames : map[p] = f /\ frames[f].pins = 0 => Pinners(f) = {}

\* A guard's frame is mapped.
LEMMA GuardHome ==
  ASSUME Types, Places, Residency, NEW c \in Clients, pc[c].at \in {"pinned", "mark"}
  PROVE  /\ Home(pc[c].frame) /\ frames[pc[c].frame].page = pc[c].page
         /\ map[pc[c].page] = pc[c].frame
         /\ pc[c].page \in Pages /\ pc[c].frame \in Frames /\ c \in Threads
<1>1. pc[c].frame \in Frames /\ pc[c].page \in Pages /\ c \in Threads BY Zenon, PinnedTyping
<1>2. map[pc[c].page] = pc[c].frame /\ frames[pc[c].frame].loaded
  BY Zenon DEF Residency, GuardedFrames, Guarding
<1>3. frames[pc[c].frame].page = pc[c].page BY Zenon, <1>1, <1>2 DEF Residency, MappedFrames
<1> QED BY Zenon, <1>1, <1>2, <1>3 DEF Home

-----------------------------------------------------------------------------
\* No change to a page is lost.

\* The places of a thread that holds a copy of a frame it writes.
Flushing == {"write", "written"}

\* A frame that is being written belongs to one thread, and the thread's copy
\* is the frame's page.
Writes ==
  /\ \A c \in Threads : pc[c].at \in Flushing =>
       /\ frames[pc[c].frame].writing
       /\ pc[c].copy.page = frames[pc[c].frame].page
       /\ pc[c].copy.ver = frames[pc[c].frame].ver
       /\ pc[c].copy.lsn = frames[pc[c].frame].lsn
       /\ pc[c].at = "written" => disk[pc[c].copy.page].ver = pc[c].copy.ver
  /\ \A c, d \in Threads :
       pc[c].at \in Flushing /\ pc[d].at \in Flushing /\ pc[c].frame = pc[d].frame => c = d

\* A page that was not allocated yet was never changed or written.
NewPages == \A p \in Pages : p >= nextPage => latest[p] = 0 /\ disk[p].ver = 0

\* The newest state of a page is in its frame, and in the file too unless the
\* frame is dirty or about to be marked so; without a loaded frame it is in
\* the file.
Marking(f) == \E c \in Clients : pc[c].at = "mark" /\ pc[c].frame = f
\* Frame f holds the newest bytes of page p, and the file does unless the
\* frame says that it is behind.
FrameIsNewest(p, f) ==
  /\ frames[f].ver = latest[p]
  /\ frames[f].dirty \/ Marking(f) \/ disk[p].ver = latest[p]
\* The newest bytes of a page are in its frame if it has one, and else in
\* the file.
Newest ==
  /\ \A p \in Pages, f \in Frames : map[p] = f /\ frames[f].loaded => FrameIsNewest(p, f)
  /\ \A p \in Pages : map[p] = 0 => disk[p].ver = latest[p]
  /\ \A p \in Pages, f \in Frames : map[p] = f /\ ~frames[f].loaded => disk[p].ver = latest[p]

\* The invariant about the bytes.
ContentInv == Writes /\ NewPages /\ Newest

\* A thread that flushes works on a frame.
LEMMA WritersTyping ==
  ASSUME Types, Places, Places', NEW c \in Threads
  PROVE  /\ pc[c].at \in Flushing => pc[c].frame \in Frames
         /\ pc'[c].at \in Flushing => pc'[c].frame \in Frames
BY Zenon DEF Places, Flushing, WithFrame

\* A frame under a flush keeps its page.
LEMMA WritesKeep ==
  ASSUME Types, Places, Places', Writes, UNCHANGED disk, NEW c \in Threads, OnlyThread(c),
         pc'[c].at \in Flushing => pc'[c] = pc[c],
         \A g \in Frames : frames[g].writing =>
           /\ frames'[g].writing /\ frames'[g].page = frames[g].page
           /\ frames'[g].ver = frames[g].ver /\ frames'[g].lsn = frames[g].lsn
  PROVE  Writes'
<1>1. \A d \in Threads : pc'[d].at \in Flushing => pc'[d] = pc[d] /\ pc[d].frame \in Frames
  BY Zenon, WritersTyping DEF OnlyThread
<1> QED BY <1>1 DEF Writes

\* Only frame f changes, and nobody is writing it.
LEMMA WritesSpared ==
  ASSUME Types, Places, Places', Writes, UNCHANGED disk, NEW c \in Threads, OnlyThread(c),
         pc'[c].at \notin Flushing, NEW f \in Frames, OnlyFrame(f), ~frames[f].writing
  PROVE  Writes'
<1>1. \A g \in Frames : frames[g].writing =>
        /\ frames'[g].writing /\ frames'[g].page = frames[g].page
        /\ frames'[g].ver = frames[g].ver /\ frames'[g].lsn = frames[g].lsn
  BY Zenon DEF OnlyFrame
<1> QED BY Zenon, <1>1, WritesKeep

\* The shards, the file and the contents of mapped frames stay as they are.
LEMMA NewestKeep ==
  ASSUME Types, Newest, NewPages, UNCHANGED <<map, disk, latest, nextPage>>,
         \A p \in Pages, g \in Frames : map[p] = g =>
           /\ frames'[g].loaded = frames[g].loaded /\ frames'[g].ver = frames[g].ver
           /\ frames'[g].dirty = frames[g].dirty,
         \A d \in Clients : pc[d].at = "mark" => pc'[d].at = "mark" /\ pc'[d].frame = pc[d].frame
  PROVE  Newest' /\ NewPages'
<1>1. NewPages' BY Zenon DEF NewPages
<1>2. \A g \in Frames : Marking(g) => Marking(g)' BY Zenon DEF Marking
<1>3. \A p \in Pages, f \in Frames : map'[p] = f /\ frames'[f].loaded => FrameIsNewest(p, f)'
  BY <1>2 DEF Newest, FrameIsNewest
<1>4. /\ \A p \in Pages : map'[p] = 0 => disk'[p].ver = latest'[p]
      /\ \A p \in Pages, f \in Frames : map'[p] = f /\ ~frames'[f].loaded => disk'[p].ver = latest'[p]
  BY Zenon DEF Newest
<1> QED BY Zenon, <1>1, <1>3, <1>4 DEF Newest

\* A thread moves, no frame changes but in its usage count or pins.
LEMMA CalmStep ==
  ASSUME Types, Places, Places', ContentInv, UNCHANGED <<map, disk, latest, nextPage>>,
         NEW c \in Threads, OnlyThread(c), pc[c].at # "mark",
         pc'[c].at \in Flushing => pc'[c] = pc[c],
         \A g \in Frames : SamePage(g) /\ SameContent(g) /\ SameBits(g)
  PROVE  ContentInv'
<1>1. Writes' BY Zenon, WritesKeep DEF ContentInv, SamePage, SameContent, SameBits
<1>2. \A d \in Clients : pc[d].at = "mark" => pc'[d].at = "mark" /\ pc'[d].frame = pc[d].frame
  BY Zenon, ClientsAreThreads DEF OnlyThread
<1>3. \A p \in Pages, g \in Frames : map[p] = g =>
        /\ frames'[g].loaded = frames[g].loaded /\ frames'[g].ver = frames[g].ver
        /\ frames'[g].dirty = frames[g].dirty
  BY Zenon DEF SamePage, SameContent, SameBits
<1>4. Newest' /\ NewPages' BY Zenon, <1>2, <1>3, NewestKeep DEF ContentInv
<1> QED BY Zenon, <1>1, <1>4 DEF ContentInv

\* A step that changes no frame, file or page keeps the bytes in order.
LEMMA NothingChanges ==
  ASSUME UNCHANGED frames
  PROVE  \A g \in Frames : SamePage(g) /\ SameContent(g) /\ SameBits(g)
BY Zenon DEF SamePage, SameContent, SameBits

\* Taking a pin keeps the bytes in order.
LEMMA AttachContent ==
  ASSUME Types, Places, Residency, Places', ContentInv, NEW c \in Clients, Attach(c),
         NEW f, f = pc[c].frame
  PROVE  ContentInv'
<1>0. /\ c \in Threads /\ f \in Frames /\ OnlyFrame(f) /\ OnlyThread(c)
      /\ pc[c].at = "attach" /\ pc'[c].at \notin Flushing
      /\ UNCHANGED <<map, disk, latest, nextPage>>
  BY Zenon, ClientsAreThreads, AttachEffect DEF Moves, Flushing
<1>1. CASE SamePage(f) /\ SameContent(f) /\ SameBits(f)
  <2>1. \A g \in Frames : SamePage(g) /\ SameContent(g) /\ SameBits(g)
    BY Zenon, <1>0, <1>1 DEF OnlyFrame, SamePage, SameContent, SameBits
  <2> QED BY Zenon, <1>0, <2>1, CalmStep
<1>2. CASE frames[f].failed
  <2>1. \A p \in Pages : map[p] # f BY Zenon, <1>0, <1>2 DEF Residency, MappedFrames
  <2>2. ~frames[f].writing BY Zenon, <1>0, <2>1 DEF Residency, DirtyFrames, Home
  <2>3. Writes' BY Zenon, <1>0, <2>2, WritesSpared DEF ContentInv
  <2>4. \A d \in Clients : pc[d].at = "mark" => pc'[d].at = "mark" /\ pc'[d].frame = pc[d].frame
    BY Zenon, <1>0, ClientsAreThreads DEF OnlyThread
  <2>5. \A p \in Pages, g \in Frames : map[p] = g =>
          /\ frames'[g].loaded = frames[g].loaded /\ frames'[g].ver = frames[g].ver
          /\ frames'[g].dirty = frames[g].dirty
    BY Zenon, <1>0, <2>1 DEF OnlyFrame
  <2>6. Newest' /\ NewPages' BY Zenon, <1>0, <2>4, <2>5, NewestKeep DEF ContentInv
  <2> QED BY Zenon, <2>3, <2>6 DEF ContentInv
<1> QED BY Zenon, <1>1, <1>2, AttachEffect

\* A page gets its frame: still to be read, or new and dirty.
LEMMA EnterContent ==
  ASSUME Types, Places, Residency, Places', ContentInv, UNCHANGED <<disk, latest>>,
         NEW c \in Clients, pc[c].at \in {"insert", "allocate"}, NEW at \in {"read", "pinned"},
         NEW p \in Pages, NEW f \in Unused, Moves(c, at, p, f), OnlyFrame(f),
         map[p] = 0, map' = [map EXCEPT ![p] = f],
         nextPage \in Nat, nextPage' \in Nat, nextPage <= nextPage',
         ~frames'[f].loaded \/ (frames'[f].ver = latest[p] /\ frames'[f].dirty)
  PROVE  ContentInv'
<1>0. /\ c \in Threads /\ f \in Frames /\ 0 \notin Frames
      /\ \A q \in Pages : map[q] # f
      /\ map'[p] = f /\ \A q \in Pages \ {p} : map'[q] = map[q]
      /\ OnlyThread(c) /\ pc'[c].at \notin Flushing
      /\ \A q \in Pages : q \in Nat
  <2>1. c \in Threads BY Zenon, ClientsAreThreads
  <2>2. f \in Frames /\ 0 \notin Frames /\ \A q \in Pages : map[q] # f
    BY Zenon, UnusedFrame, PoolAssumption
  <2>3. map'[p] = f /\ \A q \in Pages \ {p} : map'[q] = map[q] BY Zenon DEF Types
  <2>4. OnlyThread(c) /\ pc'[c].at \notin Flushing BY Zenon DEF Moves, Flushing
  <2>5. \A q \in Pages : q \in Nat BY PoolAssumption DEF Pages
  <2> QED BY Zenon, <2>1, <2>2, <2>3, <2>4, <2>5
<1>1. ~frames[f].writing BY Zenon, <1>0 DEF Residency, DirtyFrames, Home
<1>2. Writes' BY Zenon, <1>0, <1>1, WritesSpared DEF ContentInv
<1>3. NewPages' BY <1>0 DEF ContentInv, NewPages
<1>4. \A g \in Frames : Marking(g) => Marking(g)'
  BY Zenon, <1>0, ClientsAreThreads DEF Marking, OnlyThread
<1>5. ASSUME NEW q \in Pages, NEW g \in Frames, map'[q] = g, frames'[g].loaded
      PROVE  FrameIsNewest(q, g)'
  <2>1. CASE q = p BY Zenon, <1>0, <1>5, <2>1 DEF FrameIsNewest
  <2>2. CASE q # p
    <3>1. map[q] = g /\ frames'[g] = frames[g] BY <1>0, <1>5, <2>2 DEF OnlyFrame
    <3>2. FrameIsNewest(q, g) BY Zenon, <1>5, <3>1 DEF ContentInv, Newest
    <3> QED BY Zenon, <1>4, <3>1, <3>2 DEF FrameIsNewest
  <2> QED BY Zenon, <2>1, <2>2
<1>6. ASSUME NEW q \in Pages, NEW g \in Frames, map'[q] = g, ~frames'[g].loaded
      PROVE  disk[q].ver = latest[q]
  <2>1. CASE q = p BY Zenon, <2>1 DEF ContentInv, Newest
  <2>2. CASE q # p
    <3>1. map[q] = g /\ frames'[g] = frames[g] BY <1>0, <1>6, <2>2 DEF OnlyFrame
    <3> QED BY Zenon, <1>6, <3>1 DEF ContentInv, Newest
  <2> QED BY Zenon, <2>1, <2>2
<1>7. ASSUME NEW q \in Pages, map'[q] = 0 PROVE disk[q].ver = latest[q]
  BY Zenon, <1>0, <1>7 DEF ContentInv, Newest
<1>8. Newest' BY Zenon, <1>5, <1>6, <1>7 DEF Newest
<1> QED BY Zenon, <1>2, <1>3, <1>8 DEF ContentInv

\* A frame leaves its shard when the file has the newest state of its page.
LEMMA LeaveContent ==
  ASSUME Types, Places, Residency, Places', ContentInv, UNCHANGED <<disk, latest, nextPage>>,
         NEW c \in Clients, pc[c].at # "mark", OnlyThread(c), pc'[c].at \notin Flushing,
         NEW p \in Pages, NEW f \in Frames, map[p] = f, map' = [map EXCEPT ![p] = 0],
         OnlyFrame(f), ~frames[f].writing, disk[p].ver = latest[p]
  PROVE  ContentInv'
<1>0. /\ c \in Threads /\ 0 \notin Frames
      /\ map'[p] = 0 /\ \A q \in Pages \ {p} : map'[q] = map[q] /\ map[q] # f
  BY ClientsAreThreads, PoolAssumption DEF Types, Residency, MappedFrames
<1>2. Writes' BY Zenon, <1>0, WritesSpared DEF ContentInv
<1>3. NewPages' BY Zenon DEF ContentInv, NewPages
<1>4. \A g \in Frames : Marking(g) => Marking(g)'
  BY Zenon, <1>0, ClientsAreThreads DEF Marking, OnlyThread
<1>5. ASSUME NEW q \in Pages, NEW g \in Frames, map'[q] = g
      PROVE  map[q] = g /\ frames'[g] = frames[g]
  BY <1>0, <1>5 DEF OnlyFrame
<1>6. ASSUME NEW q \in Pages, NEW g \in Frames, map'[q] = g, frames'[g].loaded
      PROVE  FrameIsNewest(q, g)'
  <2>1. FrameIsNewest(q, g) BY <1>5, <1>6 DEF ContentInv, Newest
  <2> QED BY ZenonT(30), <1>4, <1>5, <1>6, <2>1 DEF FrameIsNewest
<1>7. ASSUME NEW q \in Pages, NEW g \in Frames, map'[q] = g, ~frames'[g].loaded
      PROVE  disk[q].ver = latest[q]
  BY <1>5, <1>7 DEF ContentInv, Newest
<1>8. ASSUME NEW q \in Pages, map'[q] = 0 PROVE disk[q].ver = latest[q]
  BY Zenon, <1>0, <1>8 DEF ContentInv, Newest
<1>9. Newest' BY Zenon, <1>6, <1>7, <1>8 DEF Newest
<1> QED BY Zenon, <1>2, <1>3, <1>9 DEF ContentInv

\* A read brings in the newest bytes: no frame had them and no write was
\* under way.
LEMMA ReadContent ==
  ASSUME Types, Places, Residency, Places', ContentInv, NEW c \in Clients, ReadPage(c),
         NEW f, f = pc[c].frame
  PROVE  ContentInv'
<1>0. /\ c \in Threads /\ f \in Frames /\ OnlyFrame(f) /\ OnlyThread(c) /\ pc[c].page \in Pages
      /\ pc[c].at = "read" /\ pc'[c].at \notin Flushing
      /\ UNCHANGED <<map, disk, latest, nextPage>>
      /\ frames'[f].ver = disk[pc[c].page].ver
  BY ClientsAreThreads, ReadEffect DEF Moves, Flushing
<1>1. map[pc[c].page] = f /\ ~frames[f].loaded BY Zenon, <1>0 DEF Residency, GuardedFrames, Guarding
<1>2. ~frames[f].writing BY Zenon, <1>0, <1>1 DEF Residency, DirtyFrames, Home
<1>3. Writes' BY Zenon, <1>0, <1>2, WritesSpared DEF ContentInv
<1>4. NewPages' BY Zenon, <1>0 DEF ContentInv, NewPages
<1>5. \A g \in Frames : Marking(g) => Marking(g)'
  BY Zenon, <1>0, ClientsAreThreads DEF Marking, OnlyThread
<1>6. disk[pc[c].page].ver = latest[pc[c].page] BY Zenon, <1>0, <1>1 DEF ContentInv, Newest
<1>7. ASSUME NEW q \in Pages, NEW g \in Frames, map[q] = g, frames'[g].loaded
      PROVE  FrameIsNewest(q, g)'
  <2>1. CASE g = f
    <3>1. q = pc[c].page BY <1>0, <1>1, <1>7, <2>1 DEF Residency, MappedFrames
    <3> QED BY ZenonT(30), <1>0, <1>6, <2>1, <3>1 DEF FrameIsNewest
  <2>2. CASE g # f
    <3>1. frames'[g] = frames[g] BY Zenon, <1>0, <2>2 DEF OnlyFrame
    <3>2. FrameIsNewest(q, g) BY Zenon, <1>7, <3>1 DEF ContentInv, Newest
    <3> QED BY Zenon, <1>0, <1>5, <3>1, <3>2 DEF FrameIsNewest
  <2> QED BY Zenon, <2>1, <2>2
<1>8. ASSUME NEW q \in Pages, NEW g \in Frames, map[q] = g, ~frames'[g].loaded
      PROVE  disk[q].ver = latest[q]
  <2>1. g # f BY Zenon, <1>8, ReadEffect
  <2>2. frames'[g] = frames[g] BY Zenon, <1>0, <2>1 DEF OnlyFrame
  <2> QED BY Zenon, <1>8, <2>2 DEF ContentInv, Newest
<1>9. Newest' BY Zenon, <1>0, <1>7, <1>8 DEF ContentInv, Newest
<1> QED BY ZenonT(30), <1>3, <1>4, <1>9 DEF ContentInv

\* A page changes in its frame, which is then dirty or about to be so.
LEMMA UpdateContent ==
  ASSUME Types, Places, Residency, Places', ContentInv, UNCHANGED <<map, disk, nextPage>>,
         NEW c \in Threads, OnlyThread(c), pc'[c].at \notin Flushing,
         NEW f \in Frames, NEW p \in Pages, map[p] = f, frames[f].loaded,
         OnlyFrame(f), SamePage(f), ~frames[f].writing,
         frames'[f].ver = latest'[p], \A q \in Pages \ {p} : latest'[q] = latest[q],
         frames'[f].dirty \/ Marking(f)',
         c \in Clients /\ pc[c].at = "mark" => pc[c].frame = f
  PROVE  ContentInv'
<1>0. /\ \A q \in Pages \ {p} : map[q] # f
      /\ p < nextPage /\ \A q \in Pages : q \in Nat /\ nextPage \in Nat
  <2>1. (\A q \in Pages \ {p} : map[q] # f) /\ p < nextPage BY DEF Residency, MappedFrames
  <2>2. \A q \in Pages : q \in Nat /\ nextPage \in Nat BY PoolAssumption DEF Types, Pages
  <2> QED BY Zenon, <2>1, <2>2
<1>1. Writes' BY Zenon, WritesSpared DEF ContentInv
<1>2. NewPages'
  <2>1. \A q \in Pages : q >= nextPage => q # p BY <1>0
  <2> QED BY Zenon, <2>1 DEF ContentInv, NewPages
<1>3. \A g \in Frames \ {f} : Marking(g) => Marking(g)'
  BY Zenon, ClientsAreThreads DEF Marking, OnlyThread
<1>4. ASSUME NEW q \in Pages, NEW g \in Frames, map[q] = g, frames'[g].loaded
      PROVE  FrameIsNewest(q, g)'
  <2>1. CASE g = f
    <3>1. q = p BY Zenon, <1>0, <1>4, <2>1
    <3> QED BY Zenon, <2>1, <3>1 DEF FrameIsNewest
  <2>2. CASE g # f
    <3>1. frames'[g] = frames[g] /\ q # p BY Zenon, <1>4, <2>2 DEF OnlyFrame
    <3>2. FrameIsNewest(q, g) BY Zenon, <1>4, <3>1 DEF ContentInv, Newest
    <3> QED BY Zenon, <1>3, <2>2, <3>1, <3>2 DEF FrameIsNewest
  <2> QED BY Zenon, <2>1, <2>2
<1>5. ASSUME NEW q \in Pages, NEW g \in Frames, map[q] = g, ~frames'[g].loaded
      PROVE  disk[q].ver = latest'[q]
  <2>1. g # f /\ q # p BY Zenon, <1>5 DEF SamePage
  <2>2. frames'[g] = frames[g] BY Zenon, <2>1 DEF OnlyFrame
  <2> QED BY Zenon, <1>5, <2>1, <2>2 DEF ContentInv, Newest
<1>6. ASSUME NEW q \in Pages, map[q] = 0 PROVE disk[q].ver = latest'[q]
  <2>1. q # p BY Zenon, <1>6, PoolAssumption
  <2> QED BY Zenon, <1>6, <2>1 DEF ContentInv, Newest
<1>7. Newest' BY ZenonT(30), <1>4, <1>5, <1>6 DEF Newest
<1> QED BY Zenon, <1>1, <1>2, <1>7 DEF ContentInv

\* The flush of one frame: its page is copied,
LEMMA CopyContent ==
  ASSUME Types, Places, Residency, Places', ContentInv, "flush" \notin Hazards,
         NEW c \in Threads, FlushCopy(c), NEW f, f = pc[c].frame
  PROVE  ContentInv'
<1>0. /\ f \in Frames /\ ~frames[f].writing /\ pc[c].at \notin Flushing /\ pc[c].at # "mark"
      /\ UNCHANGED <<map, disk, latest, nextPage>>
  BY Zenon, CopyEffect DEF Flushing
<1>1. CASE UNCHANGED frames /\ FlushOver(c)
  <2>1. OnlyThread(c) /\ pc'[c].at \notin Flushing BY Zenon, <1>1 DEF FlushOver, Moves, Flushing
  <2> QED BY Zenon, <1>0, <1>1, <2>1, NothingChanges, CalmStep
<1>2. CASE /\ OnlyFrame(f) /\ SamePage(f) /\ SameContent(f)
           /\ frames'[f].dirty = frames[f].dirty /\ frames'[f].writing
           /\ Moves(c, "write", pc[c].page, f) /\ pc'[c].copy = frames[f]
  <2>1. /\ \A d \in Threads \ {c} : pc'[d] = pc[d]
        /\ pc'[c].at = "write" /\ pc'[c].frame = f
    BY Zenon, <1>2 DEF Moves, OnlyThread
  <2>2. \A d \in Threads \ {c} : pc[d].at \in Flushing => pc[d].frame \in Frames /\ pc[d].frame # f
    BY Zenon, <1>0, WritersTyping DEF ContentInv, Writes
  <2>3. ASSUME NEW d \in Threads, pc'[d].at \in Flushing
        PROVE  /\ frames'[pc'[d].frame].writing
               /\ pc'[d].copy.page = frames'[pc'[d].frame].page
               /\ pc'[d].copy.ver = frames'[pc'[d].frame].ver
               /\ pc'[d].copy.lsn = frames'[pc'[d].frame].lsn
               /\ pc'[d].at = "written" => disk[pc'[d].copy.page].ver = pc'[d].copy.ver
    <3>1. CASE d = c BY ZenonT(30), <1>2, <2>1, <3>1 DEF SamePage, SameContent
    <3>2. CASE d # c
      <4>1. pc'[d] = pc[d] /\ frames'[pc[d].frame] = frames[pc[d].frame]
        BY Zenon, <1>2, <2>1, <2>2, <2>3, <3>2 DEF OnlyFrame
      <4> QED BY <2>3, <4>1 DEF ContentInv, Writes
    <3> QED BY Zenon, <3>1, <3>2
  <2>4. \A d, e \in Threads :
          pc'[d].at \in Flushing /\ pc'[e].at \in Flushing /\ pc'[d].frame = pc'[e].frame => d = e
    BY <2>1, <2>2 DEF ContentInv, Writes
  <2>5. Writes' BY Zenon, <1>0, <2>3, <2>4 DEF Writes
  <2>6. \A d \in Clients : pc[d].at = "mark" => pc'[d].at = "mark" /\ pc'[d].frame = pc[d].frame
    BY Zenon, <1>0, <2>1, ClientsAreThreads
  <2>7. \A p \in Pages, g \in Frames : map[p] = g =>
          /\ frames'[g].loaded = frames[g].loaded /\ frames'[g].ver = frames[g].ver
          /\ frames'[g].dirty = frames[g].dirty
    BY Zenon, <1>2 DEF OnlyFrame, SamePage, SameContent
  <2>8. Newest' /\ NewPages' BY Zenon, <1>0, <2>6, <2>7, NewestKeep DEF ContentInv
  <2> QED BY Zenon, <2>5, <2>8 DEF ContentInv
<1> QED BY <1>1, <1>2, CopyEffect

\* The page a thread is writing: it is mapped, and the copy is its newest state.
LEMMA CopyIsNewest ==
  ASSUME Types, Places, Residency, ContentInv, NEW c \in Threads, pc[c].at \in Flushing
  PROVE  \E f \in Frames, p \in Pages :
           /\ f = pc[c].frame /\ p = pc[c].copy.page
           /\ map[p] = f /\ frames[f].loaded /\ frames[f].writing /\ frames[f].page = p
           /\ pc[c].copy.ver = latest[p] /\ frames[f].ver = latest[p]
           /\ frames[f].lsn = pc[c].copy.lsn /\ p < nextPage
<1> DEFINE f == pc[c].frame
           p == pc[c].copy.page
<1>1. f \in Frames BY Zenon DEF Places, Flushing, WithFrame
<1>2. /\ frames[f].writing /\ frames[f].page = p /\ pc[c].copy.ver = frames[f].ver
      /\ frames[f].lsn = pc[c].copy.lsn
  BY Zenon DEF ContentInv, Writes
<1>3. p \in Pages /\ map[p] = f /\ frames[f].loaded
  BY Zenon, <1>1, <1>2 DEF Residency, DirtyFrames, Home
<1>4. frames[f].ver = latest[p] BY Zenon, <1>1, <1>3 DEF ContentInv, Newest, FrameIsNewest
<1>5. p < nextPage BY Zenon, <1>1, <1>3 DEF Residency, MappedFrames
<1> HIDE DEF f, p
<1>6. f = pc[c].frame /\ p = pc[c].copy.page BY Zenon DEF f, p
<1> QED BY Zenon, <1>1, <1>2, <1>3, <1>4, <1>5, <1>6

\* the copy is written,
LEMMA WriteContent ==
  ASSUME Types, Places, Residency, Places', ContentInv, NEW c \in Threads, FlushWrite(c),
         NEW f, f = pc[c].frame, NEW p, p = pc[c].copy.page
  PROVE  ContentInv'
<1>0. /\ pc[c].at = "write" /\ pc[c].at \in Flushing
      /\ UNCHANGED <<map, frames, latest, nextPage>>
      /\ \A q \in Pages \ {p} : disk'[q] = disk[q]
      /\ OnlyThread(c) /\ pc'[c].at = "written" /\ pc'[c].frame = f /\ pc'[c].copy = pc[c].copy
  BY ZenonT(30), WriteEffect DEF Moves, Flushing
<1>1. /\ f \in Frames /\ p \in Pages /\ map[p] = f /\ frames[f].loaded /\ frames[f].writing
      /\ frames[f].page = p /\ pc[c].copy.ver = latest[p] /\ frames[f].ver = latest[p]
      /\ p < nextPage
  <2>1. PICK g \in Frames, q \in Pages :
          /\ g = pc[c].frame /\ q = pc[c].copy.page
          /\ map[q] = g /\ frames[g].loaded /\ frames[g].writing /\ frames[g].page = q
          /\ pc[c].copy.ver = latest[q] /\ frames[g].ver = latest[q] /\ q < nextPage
    BY Zenon, <1>0, CopyIsNewest
  <2>2. g = f /\ q = p BY Zenon, <2>1
  <2> QED BY Zenon, <2>1, <2>2
<1>2. disk'[p].ver = latest[p] BY Zenon, <1>1, WriteEffect
<1>3. ASSUME NEW d \in Threads, pc'[d].at \in Flushing
      PROVE  /\ frames[pc'[d].frame].writing
             /\ pc'[d].copy.page = frames[pc'[d].frame].page
             /\ pc'[d].copy.ver = frames[pc'[d].frame].ver
             /\ pc'[d].copy.lsn = frames[pc'[d].frame].lsn
             /\ pc'[d].at = "written" => disk'[pc'[d].copy.page].ver = pc'[d].copy.ver
             /\ pc[d].at \in Flushing /\ pc'[d].frame = pc[d].frame
  <2>1. CASE d = c
    <3>1. pc'[c].frame = f /\ pc'[c].copy.page = p /\ pc'[c].copy.ver = pc[c].copy.ver
          /\ pc'[c].copy.lsn = pc[c].copy.lsn
      BY Zenon, <1>0
    <3>2. frames[f].lsn = pc[c].copy.lsn BY Zenon, <1>0 DEF ContentInv, Writes
    <3> QED BY Zenon, <1>0, <1>1, <1>2, <2>1, <3>1, <3>2
  <2>2. CASE d # c
    <3>1. pc'[d] = pc[d] BY Zenon, <1>0, <2>2 DEF OnlyThread
    <3>2. /\ pc[d].frame # f /\ pc[d].frame \in Frames /\ pc[d].copy.page \in Pages
          /\ map[pc[d].copy.page] = pc[d].frame
      <4>1. pc[d].at \in Flushing BY Zenon, <1>3, <3>1
      <4>2. pc[d].frame # f BY Zenon, <1>0, <2>2, <4>1 DEF ContentInv, Writes
      <4> QED BY Zenon, <4>1, <4>2, CopyIsNewest
    <3>3. pc[d].copy.page # p BY Zenon, <1>1, <3>2
    <3>4. disk'[pc[d].copy.page] = disk[pc[d].copy.page] BY Zenon, <1>0, <3>2, <3>3
    <3>5. pc[d].at \in Flushing BY Zenon, <1>3, <3>1
    <3>6. /\ frames[pc[d].frame].writing
          /\ pc[d].copy.page = frames[pc[d].frame].page
          /\ pc[d].copy.ver = frames[pc[d].frame].ver
          /\ pc[d].copy.lsn = frames[pc[d].frame].lsn
          /\ pc[d].at = "written" => disk[pc[d].copy.page].ver = pc[d].copy.ver
      BY Zenon, <3>5 DEF ContentInv, Writes
    <3> QED BY Zenon, <3>1, <3>4, <3>5, <3>6
  <2> QED BY Zenon, <2>1, <2>2
<1>4. Writes'
  <2>1. ASSUME NEW d \in Threads, NEW e \in Threads, pc'[d].at \in Flushing,
               pc'[e].at \in Flushing, pc'[d].frame = pc'[e].frame
        PROVE  d = e
    <3>1. /\ pc[d].at \in Flushing /\ pc'[d].frame = pc[d].frame
          /\ pc[e].at \in Flushing /\ pc'[e].frame = pc[e].frame
      BY Zenon, <1>3, <2>1
    <3>2. pc[d].frame = pc[e].frame BY Zenon, <2>1, <3>1
    <3> QED BY Zenon, <3>1, <3>2 DEF ContentInv, Writes
  <2> QED BY Zenon, <1>0, <1>3, <2>1 DEF Writes
<1>5. NewPages'
  <2>1. \A q \in Pages : q >= nextPage => q # p
    BY <1>1, PoolAssumption DEF Types, Pages
  <2> QED BY Zenon, <1>0, <2>1 DEF ContentInv, NewPages
<1>6. \A g \in Frames : Marking(g) => Marking(g)'
  BY Zenon, <1>0, ClientsAreThreads DEF Marking, OnlyThread
<1>7. \A q \in Pages : disk[q].ver = latest[q] => disk'[q].ver = latest[q] BY Zenon, <1>0, <1>2
<1>8. \A q \in Pages, g \in Frames : map[q] = g /\ frames[g].loaded => FrameIsNewest(q, g)'
  BY ZenonT(30), <1>0, <1>6, <1>7 DEF ContentInv, Newest, FrameIsNewest
<1>9. Newest' BY Zenon, <1>0, <1>7, <1>8 DEF ContentInv, Newest
<1> QED BY Zenon, <1>4, <1>5, <1>9 DEF ContentInv

\* and the frame is clean if the page LSN has not moved on, or the write has
\* failed and the frame stays dirty.
LEMMA FlushEndContent ==
  ASSUME Types, Places, Residency, Places', ContentInv, NEW c \in Threads,
         NEW f, f = pc[c].frame, pc[c].at \in Flushing,
         OnlyThread(c), pc'[c].at \notin Flushing, UNCHANGED <<map, disk, latest, nextPage>>,
         OnlyFrame(f), SamePage(f), SameContent(f),
         pc[c].at = "written" \/ frames'[f].dirty = frames[f].dirty
  PROVE  ContentInv'
<1>0. PICK p \in Pages :
        /\ f \in Frames /\ map[p] = f /\ frames[f].loaded /\ p = pc[c].copy.page
        /\ pc[c].copy.ver = latest[p] /\ frames[f].ver = latest[p]
  BY Zenon, CopyIsNewest
<1>1. \A d \in Threads \ {c} : /\ pc'[d] = pc[d]
                               /\ pc[d].at \in Flushing => pc[d].frame \in Frames /\ pc[d].frame # f
  BY Zenon, WritersTyping DEF OnlyThread, ContentInv, Writes
<1>2. \A g \in Frames \ {f} : frames'[g] = frames[g] BY ZenonT(30) DEF OnlyFrame
<1>3. Writes'
  <2>1. ASSUME NEW d \in Threads, pc'[d].at \in Flushing
        PROVE  /\ pc'[d] = pc[d] /\ pc[d].at \in Flushing
               /\ frames'[pc[d].frame] = frames[pc[d].frame]
    BY Zenon, <1>1, <1>2, <2>1
  <2>2. ASSUME NEW d \in Threads, NEW e \in Threads, pc'[d].at \in Flushing,
               pc'[e].at \in Flushing, pc'[d].frame = pc'[e].frame
        PROVE  d = e
    <3>1. pc[d].at \in Flushing /\ pc[e].at \in Flushing /\ pc[d].frame = pc[e].frame
      BY Zenon, <2>1, <2>2
    <3> QED BY Zenon, <3>1 DEF ContentInv, Writes
  <2>3. ASSUME NEW d \in Threads, pc'[d].at \in Flushing
        PROVE  /\ frames'[pc'[d].frame].writing
               /\ pc'[d].copy.page = frames'[pc'[d].frame].page
               /\ pc'[d].copy.ver = frames'[pc'[d].frame].ver
               /\ pc'[d].copy.lsn = frames'[pc'[d].frame].lsn
               /\ pc'[d].at = "written" => disk'[pc'[d].copy.page].ver = pc'[d].copy.ver
    <3>1. /\ pc'[d] = pc[d] /\ pc[d].at \in Flushing
          /\ frames'[pc[d].frame] = frames[pc[d].frame]
      BY Zenon, <2>1, <2>3
    <3>2. /\ frames[pc[d].frame].writing
          /\ pc[d].copy.page = frames[pc[d].frame].page
          /\ pc[d].copy.ver = frames[pc[d].frame].ver
          /\ pc[d].copy.lsn = frames[pc[d].frame].lsn
          /\ pc[d].at = "written" => disk[pc[d].copy.page].ver = pc[d].copy.ver
      BY Zenon, <3>1 DEF ContentInv, Writes
    <3> QED BY Zenon, <3>1, <3>2
  <2> QED BY Zenon, <2>2, <2>3 DEF Writes
<1>4. NewPages' BY Zenon DEF ContentInv, NewPages
<1>5. \A g \in Frames : Marking(g) => Marking(g)'
  BY Zenon, <1>1, ClientsAreThreads DEF Marking, Flushing
<1>6. pc[c].at = "written" => disk[p].ver = latest[p] BY Zenon, <1>0 DEF ContentInv, Writes
<1>7. ASSUME NEW q \in Pages, NEW g \in Frames, map[q] = g, frames'[g].loaded
      PROVE  FrameIsNewest(q, g)'
  <2>1. CASE g = f
    <3>1. q = p BY <1>0, <1>7, <2>1 DEF Residency, MappedFrames
    <3>2. frames'[f].ver = latest'[p] BY Zenon, <1>0 DEF SameContent
    <3>3. FrameIsNewest(p, f) BY Zenon, <1>0 DEF ContentInv, Newest
    <3> QED BY ZenonT(30), <1>0, <1>5, <1>6, <2>1, <3>1, <3>2, <3>3 DEF FrameIsNewest
  <2>2. CASE g # f
    <3>1. frames'[g] = frames[g] BY Zenon, <1>2, <2>2
    <3>2. FrameIsNewest(q, g) BY Zenon, <1>7, <3>1 DEF ContentInv, Newest
    <3> QED BY Zenon, <1>5, <3>1, <3>2 DEF FrameIsNewest
  <2> QED BY Zenon, <2>1, <2>2
<1>8. ASSUME NEW q \in Pages, NEW g \in Frames, map[q] = g, ~frames'[g].loaded
      PROVE  disk[q].ver = latest[q]
  BY ZenonT(30), <1>0, <1>2, <1>8 DEF ContentInv, Newest, SamePage
<1>9. Newest' BY Zenon, <1>7, <1>8 DEF ContentInv, Newest
<1> QED BY ZenonT(30), <1>3, <1>4, <1>9 DEF ContentInv

\* Every step keeps the newest bytes of every page.
LEMMA ContentStep ==
  ASSUME Types, Places, Residency, ZeroMeansFree, Places', ContentInv, Next,
         "pin" \notin Hazards, "flush" \notin Hazards
  PROVE  ContentInv'
<1> USE ClientsAreThreads
<1>0. nextPage \in Nat BY PoolAssumption DEF Types
<1>1. ASSUME NEW c \in Clients, ClientStep(c), NEW f, f = pc[c].frame PROVE ContentInv'
  <2>1. CASE Retry(c)
    <3>1. pc[c].page \in Pages BY Zenon, <2>1, ClientTyping DEF Retry, WithPage
    <3>2. OnlyThread(c) /\ pc'[c].at \notin Flushing /\ pc[c].at # "mark"
      BY Zenon, <2>1, <3>1, LookupEffect DEF Retry, Moves, Flushing
    <3> QED BY Zenon, <2>1, <3>2, NothingChanges, CalmStep DEF Retry
  <2>2. CASE Attach(c) BY ZenonT(30), <2>2, AttachContent
  <2>3. CASE InsertLoading(c)
    <3>0. pc[c].at = "insert" /\ pc[c].page \in Pages /\ UNCHANGED <<disk, latest, nextPage>>
      BY Zenon, <2>3, InsertEffect
    <3>1. CASE Moves(c, "lookup", pc[c].page, pc[c].frame) /\ UNCHANGED <<map, frames, resident>>
      <4>1. OnlyThread(c) /\ pc'[c].at \notin Flushing BY Zenon, <3>1 DEF Moves, Flushing
      <4> QED BY Zenon, <3>0, <3>1, <4>1, NothingChanges, CalmStep
    <3>2. CASE /\ map[pc[c].page] = 0
               /\ \E g \in Unused : /\ OnlyFrame(g) /\ Moves(c, "read", pc[c].page, g)
                                    /\ ~frames'[g].loaded /\ map' = [map EXCEPT ![pc[c].page] = g]
      <4>1. PICK p \in Pages : p = pc[c].page BY Zenon, <3>0
      <4>2. PICK g \in Unused : /\ OnlyFrame(g) /\ Moves(c, "read", p, g)
                                /\ ~frames'[g].loaded /\ map' = [map EXCEPT ![p] = g]
        BY ZenonT(30), <3>2, <4>1
      <4>3. map[p] = 0 /\ nextPage' \in Nat /\ nextPage <= nextPage' BY <1>0, <3>0, <3>2, <4>1
      <4> QED BY Zenon, <1>0, <3>0, <4>2, <4>3, EnterContent
    <3> QED BY <2>3, <3>1, <3>2, InsertEffect
  <2>4. CASE ReadPage(c) BY Zenon, <2>4, ReadContent
  <2>5. CASE ReadFails(c)
    <3>1. PICK p \in Pages : p = pc[c].page BY Zenon, <2>5, ReadFailsEffect
    <3>2. /\ pc[c].at = "read" /\ f \in Frames /\ OnlyFrame(f) /\ OnlyThread(c)
          /\ pc'[c].at \notin Flushing /\ map' = [map EXCEPT ![p] = 0]
          /\ UNCHANGED <<disk, latest, nextPage>>
      BY Zenon, <1>1, <2>5, <3>1, ReadFailsEffect DEF Moves, Flushing
    <3>3. map[p] = f /\ ~frames[f].loaded
      BY Zenon, <1>1, <3>1, <3>2 DEF Residency, GuardedFrames, Guarding
    <3>4. ~frames[f].writing /\ disk[p].ver = latest[p]
      BY Zenon, <3>2, <3>3 DEF Residency, DirtyFrames, Home, ContentInv, Newest
    <3> QED BY Zenon, <3>2, <3>3, <3>4, LeaveContent
  <2>6. CASE AllocateFrame(c)
    <3>1. PICK p \in Pages : p = nextPage BY Zenon, <2>6, AllocateEffect
    <3>2. PICK g \in Unused : /\ OnlyFrame(g) /\ Moves(c, "pinned", p, g)
                              /\ frames'[g].ver = 0 /\ frames'[g].dirty
                              /\ map' = [map EXCEPT ![p] = g]
      BY ZenonT(30), <2>6, <3>1, AllocateEffect
    <3>3. /\ pc[c].at = "allocate" /\ UNCHANGED <<disk, latest>>
          /\ nextPage' \in Nat /\ nextPage <= nextPage'
      BY <1>0, <2>6, AllocateEffect
    <3>4. map[p] = 0
      <4>1. map[p] \in Frames => p < nextPage BY Zenon DEF Residency, MappedFrames
      <4> QED BY <1>0, <3>1, <4>1 DEF Types
    <3>5. latest[p] = 0 BY <1>0, <3>1 DEF ContentInv, NewPages
    <3> QED BY Zenon, <1>0, <3>2, <3>3, <3>4, <3>5, EnterContent
  <2>7. CASE AllocateGivesUp(c)
    <3>1. OnlyThread(c) /\ pc'[c].at \notin Flushing /\ pc[c].at # "mark"
      BY Zenon, <2>7, AwayMove DEF AllocateGivesUp, Moves, Flushing
    <3> QED BY Zenon, <2>7, <3>1, NothingChanges, CalmStep DEF AllocateGivesUp
  <2>8. CASE EnsureCapacity(c)
    <3>1. OnlyThread(c) /\ pc'[c].at \notin Flushing /\ pc[c].at # "mark"
      BY Zenon, <2>8, CapacityEffect DEF Moves, Flushing, AfterRoom
    <3> QED BY Zenon, <2>8, <3>1, CapacityEffect, NothingChanges, CalmStep
  <2>9. CASE Visit(c)
    <3>1. OnlyThread(c) /\ pc'[c].at \notin Flushing /\ pc[c].at # "mark"
      BY ZenonT(30), <2>9, VisitEffect DEF Moves, Flushing, OnlyThread, Types
    <3> QED BY Zenon, <2>9, <3>1, VisitEffect, CalmStep
  <2>10. CASE Remove(c)
    <3>0. /\ pc[c].at = "remove" /\ f \in Frames /\ OnlyThread(c) /\ pc'[c].at \notin Flushing
          /\ UNCHANGED <<disk, latest, nextPage>>
      BY Zenon, <1>1, <2>10, RemoveEffect DEF Moves, Flushing, AfterRoom
    <3>1. CASE UNCHANGED <<map, frames, resident>> BY Zenon, <3>0, <3>1, NothingChanges, CalmStep
    <3>2. CASE /\ map[frames[f].page] = f /\ Removable(frames[f])
               /\ map' = [map EXCEPT ![frames[f].page] = 0] /\ OnlyFrame(f)
      <4>1. PICK p \in Pages : p = frames[f].page
        BY Zenon, <3>0, <3>2 DEF Removable, Residency, DirtyFrames
      <4>2. map[p] = f /\ map' = [map EXCEPT ![p] = 0] BY Zenon, <3>2, <4>1
      <4>3. frames[f].pins = 0 BY Zenon, <3>2 DEF Removable
      <4>4. Pinners(f) = {} BY Zenon, <3>0, <4>2, <4>3 DEF ZeroMeansFree
      <4>5. ~Marking(f) BY Zenon, <4>4 DEF Marking, Pinners, Guarding
      <4>6. FrameIsNewest(p, f) BY Zenon, <3>0, <3>2, <4>2 DEF Removable, ContentInv, Newest
      <4>7. disk[p].ver = latest[p] /\ ~frames[f].writing
        BY Zenon, <3>2, <4>5, <4>6 DEF FrameIsNewest, Removable
      <4> QED BY Zenon, <3>0, <3>2, <4>2, <4>7, LeaveContent
    <3> QED BY <1>1, <2>10, <3>1, <3>2, RemoveEffect
  <2>11. CASE EvictFails(c)
    <3>1. OnlyThread(c) /\ pc'[c].at \notin Flushing /\ pc[c].at # "mark"
      BY Zenon, <2>11, AwayMove DEF EvictFails, Moves, Flushing
    <3> QED BY Zenon, <2>11, <3>1, NothingChanges, CalmStep DEF EvictFails
  <2>12. CASE MarkDirty(c)
    <3>0. Moves(c, "pinned", pc[c].page, f)
      BY Zenon, <1>1, <2>12, MarkEffect
    <3>4. OnlyThread(c) /\ pc'[c].at \notin Flushing
      BY Zenon, <3>0 DEF Moves, Flushing
    <3>1. /\ pc[c].at = "mark" /\ f \in Frames /\ OnlyThread(c) /\ pc'[c].at \notin Flushing
          /\ OnlyFrame(f) /\ SamePage(f) /\ ~frames[f].writing /\ frames'[f].dirty
          /\ frames'[f].ver = frames[f].ver /\ UNCHANGED <<map, disk, latest, nextPage>>
      BY Zenon, <1>1, <2>12, <3>4, MarkEffect
    <3>2. PICK p \in Pages : map[p] = f /\ frames[f].loaded
      BY Zenon, <1>1, <3>1, GuardHome DEF Home
    <3>3. frames'[f].ver = latest'[p]
      BY Zenon, <3>1, <3>2 DEF ContentInv, Newest, FrameIsNewest
    <3> QED BY ZenonT(30), <1>1, <3>1, <3>2, <3>3, UpdateContent
  <2>13. CASE Unpin(c)
    <3>1. OnlyThread(c) /\ pc'[c].at \notin Flushing /\ pc[c].at # "mark"
      BY Zenon, <2>13, UnpinEffect DEF Moves, Flushing
    <3>2. \A g \in Frames : SamePage(g) /\ SameContent(g) /\ SameBits(g)
      BY ZenonT(30), <2>13, UnpinEffect DEF OnlyFrame, SamePage, SameContent, SameBits
    <3> QED BY Zenon, <2>13, <3>1, <3>2, UnpinEffect, CalmStep
  <2> QED BY Zenon, <1>1, <2>1, <2>2, <2>3, <2>4, <2>5, <2>6, <2>7, <2>8, <2>9, <2>10, <2>11, <2>12, <2>13
          DEF ClientStep
<1>2. ASSUME NEW c \in Clients, CallAllocate(c) PROVE ContentInv'
  <2>1. OnlyThread(c) /\ pc'[c] = [Away EXCEPT !.at = "capacity"]
    <3>1. [Away EXCEPT !.at = "capacity"] \in ThreadType BY Zenon, FreeType DEF ThreadType, Away, Sites
    <3> QED BY Zenon, <1>2, <3>1, WholeMove DEF CallAllocate
  <2>2. pc'[c].at \notin Flushing BY Zenon, <2>1 DEF Away, Flushing
  <2> QED BY Zenon, <1>2, <2>1, <2>2, NothingChanges, CalmStep DEF CallAllocate
<1>3. ASSUME NEW c \in Clients, LoggedChange(c), NEW f, f = pc[c].frame PROVE ContentInv'
  <2>0. PICK n \in Nat : n = changes + 1 BY DEF Types
  <2>1. /\ pc[c].at = "pinned" /\ f \in Frames /\ Change(f, n, TRUE)
        /\ UNCHANGED <<map, disk, nextPage, pc>>
    BY Zenon, <1>3, <2>0, LoggedEffect
  <2>2. PICK p \in Pages : map[p] = f /\ frames[f].loaded /\ frames[f].page = p
    BY Zenon, <1>3, <2>1, GuardHome DEF Home
  <2>3. /\ OnlyFrame(f) /\ SamePage(f) /\ ~frames[f].writing /\ frames'[f].dirty
        /\ frames'[f].ver = n /\ latest' = [latest EXCEPT ![p] = n]
    BY Zenon, <2>0, <2>1, <2>2, ChangeEffect
  <2>4. frames'[f].ver = latest'[p] /\ \A q \in Pages \ {p} : latest'[q] = latest[q]
    BY Zenon, <2>3 DEF Types
  <2>5. OnlyThread(c) /\ pc'[c].at \notin Flushing /\ pc[c].at # "mark"
    BY Zenon, <2>1 DEF OnlyThread, Types, Flushing
  <2> QED BY Zenon, <2>1, <2>2, <2>3, <2>4, <2>5, UpdateContent
<1>4. ASSUME NEW c \in Clients, UnloggedChange(c), NEW f, f = pc[c].frame PROVE ContentInv'
  <2>0. PICK n \in Nat : n = changes + 1 BY DEF Types
  <2>1. /\ pc[c].at = "pinned" /\ f \in Frames /\ Change(f, frames[f].lsn, frames[f].dirty)
        /\ Moves(c, "mark", pc[c].page, f) /\ UNCHANGED <<map, disk, nextPage>>
    BY Zenon, <1>4, UnloggedEffect
  <2>2. PICK p \in Pages : map[p] = f /\ frames[f].loaded /\ frames[f].page = p
    BY Zenon, <1>4, <2>1, GuardHome DEF Home
  <2>3. frames[f].lsn \in Nat /\ frames[f].dirty \in BOOLEAN BY ZenonT(30), <1>4, <2>1, PinnedTyping
  <2>4. /\ OnlyFrame(f) /\ SamePage(f) /\ ~frames[f].writing
        /\ frames'[f].ver = n /\ latest' = [latest EXCEPT ![p] = n]
    BY <2>0, <2>1, <2>2, <2>3, ChangeEffect
  <2>5. frames'[f].ver = latest'[p] /\ \A q \in Pages \ {p} : latest'[q] = latest[q]
    BY Zenon, <2>4 DEF Types
  <2>6. OnlyThread(c) /\ pc'[c].at \notin Flushing /\ pc[c].at # "mark" /\ Marking(f)'
    BY Zenon, <2>1 DEF Moves, Flushing, Marking
  <2> QED BY Zenon, <2>1, <2>2, <2>4, <2>5, <2>6, UpdateContent
<1>5. ASSUME NEW c \in Clients, NEW p \in Pages, CallPin(c, p) PROVE ContentInv'
  <2>1. OnlyThread(c) /\ pc'[c].at \notin Flushing /\ pc[c].at # "mark"
    BY Zenon, <1>5, LookupEffect DEF CallPin, Moves, Flushing
  <2> QED BY Zenon, <1>5, <2>1, NothingChanges, CalmStep DEF CallPin
<1>6. ASSUME NEW c \in Threads, FlushStep(c), NEW f, f = pc[c].frame PROVE ContentInv'
  <2>1. CASE FlushCopy(c) BY Zenon, <2>1, CopyContent
  <2>2. CASE FlushWrite(c) BY Zenon, <2>2, WriteContent
  <2>3. CASE FlushDone(c)
    <3>1. OnlyThread(c) /\ pc'[c].at \notin Flushing
      BY Zenon, <2>3, DoneEffect DEF FlushOver, Moves, Flushing
    <3>2. /\ pc[c].at = "written" /\ pc[c].at \in Flushing
          /\ OnlyFrame(f) /\ SamePage(f) /\ SameContent(f)
          /\ UNCHANGED <<map, disk, latest, nextPage>>
      BY Zenon, <1>6, <2>3, DoneEffect DEF Flushing
    <3> QED BY Zenon, <1>6, <3>1, <3>2, FlushEndContent
  <2>4. CASE FlushFails(c)
    <3>1. OnlyThread(c) /\ pc'[c].at \notin Flushing
      BY Zenon, <2>4, WriteFailsEffect DEF Moves, Flushing
    <3>2. /\ pc[c].at \in Flushing
          /\ OnlyFrame(f) /\ SamePage(f) /\ SameContent(f) /\ frames'[f].dirty = frames[f].dirty
          /\ UNCHANGED <<map, disk, latest, nextPage>>
      BY Zenon, <1>6, <2>4, WriteFailsEffect DEF Flushing
    <3> QED BY Zenon, <1>6, <3>1, <3>2, FlushEndContent
  <2> QED BY Zenon, <1>6, <2>1, <2>2, <2>3, <2>4 DEF FlushStep
<1>7. ASSUME NEW f \in Frames, FlushPick(f) PROVE ContentInv'
  <2>1. OnlyThread(Flusher) /\ pc'[Flusher].at \notin Flushing /\ pc[Flusher].at # "mark"
    BY Zenon, <1>7, PickEffect DEF Moves, Flushing
  <2> QED BY Zenon, <1>7, <2>1, PickEffect, NothingChanges, CalmStep
<1>8. CASE Sync
  <2>1. OnlyThread(Flusher) /\ pc' = pc BY Zenon, <1>8 DEF Sync, OnlyThread, Types
  <2>2. pc[Flusher].at # "mark" BY Zenon DEF Places
  <2> QED BY Zenon, <1>8, <2>1, <2>2, NothingChanges, CalmStep DEF Sync
<1> QED BY Zenon, <1>1, <1>2, <1>3, <1>4, <1>5, <1>6, <1>7, <1>8 DEF Next, Threads
=============================================================================
