-------------------------- MODULE BufferPoolProofs --------------------------
(***************************************************************************)
(* Proofs about the buffer pool, for any number of clients, pages and      *)
(* frames and any capacity: the page map, the frames and the threads agree *)
(* and no change to a page is lost.                                        *)
(***************************************************************************)
EXTENDS BufferStepProofs, FiniteSetTheorems

-----------------------------------------------------------------------------
\* The shards and the frames agree.

\* Finitely many clients pin a frame, before and after a step.
LEMMA PinnersFinite ==
  ASSUME NEW f
  PROVE  IsFiniteSet(Pinners(f)) /\ Pinners(f) \subseteq Clients
         /\ IsFiniteSet(Pinners(f)') /\ Pinners(f)' \subseteq Clients
BY Zenon, FS_Subset, PoolAssumption DEF Pinners

\* There are finitely many pages.
LEMMA PagesFinite == IsFiniteSet(Pages) /\ IsFiniteSet(MappedPages) /\ IsFiniteSet(MappedPages')
<1>1. IsFiniteSet(Pages) BY FS_Interval, PoolAssumption DEF Pages
<1> QED BY Zenon, <1>1, FS_Subset DEF MappedPages

\* The pin count of a mapped frame tells whether it is guarded.
LEMMA CountsTell ==
  ASSUME Counts PROVE ZeroMeansFree
<1> SUFFICES ASSUME NEW p \in Pages, NEW f \in Frames, map[p] = f, frames[f].pins = 0
             PROVE  Pinners(f) = {}
  BY Zenon DEF ZeroMeansFree
<1>1. Cardinality(Pinners(f)) = 0 BY Zenon DEF Counts
<1> QED BY Zenon, <1>1, PinnersFinite, FS_EmptySet

\* What a client may do that leaves no trace in the shards.
Unnoticed(d) ==
  \/ pc[d].at \notin Guarding /\ pc'[d].at \notin Guarding \cup {"attach"}
  \/ /\ pc[d].at \notin Guarding /\ pc'[d].at = "attach"
     /\ map[pc'[d].page] = pc'[d].frame
  \/ /\ pc'[d].page = pc[d].page /\ pc'[d].frame = pc[d].frame
     /\ \/ pc'[d].at = pc[d].at
        \/ pc[d].at \in {"pinned", "mark"} /\ pc'[d].at \in {"pinned", "mark"}

\* A step nobody could notice in the map, the pins and the places keeps all
\* of it.
LEMMA QuietStep ==
  ASSUME Types, Places, Residency, Types', Places',
         UNCHANGED <<map, resident, nextPage>>,
         \A g \in Frames : SamePage(g) /\ frames'[g].pins = frames[g].pins,
         \A g \in Frames : frames'[g].dirty \/ frames'[g].writing => Home(g),
         \A d \in Clients : Unnoticed(d)
  PROVE  Residency'
<1>0. \A d \in Clients : /\ pc'[d].at \in Guarding \cup {"attach"} => pc'[d].frame \in Frames
                         /\ pc[d].at \in Guarding \cup {"attach"} => pc[d].frame \in Frames
  BY Zenon, ClientsAreThreads DEF Places, Guarding, WithFrame
<1>1. MappedFrames' BY <1>0 DEF Residency, MappedFrames, SamePage, Unnoticed, Guarding
<1>2. GuardedFrames'
  <2>1. ASSUME NEW d \in Clients, pc'[d].at \in Guarding
        PROVE  /\ pc[d].at \in Guarding /\ pc'[d].page = pc[d].page /\ pc'[d].frame = pc[d].frame
               /\ pc'[d].at = "read" <=> pc[d].at = "read"
    BY Zenon, <2>1 DEF Unnoticed, Guarding
  <2>2. \A d \in Clients : pc'[d].at = "read" => pc'[d].at \in Guarding BY Zenon DEF Guarding
  <2> QED BY <1>0, <2>1, <2>2 DEF Residency, GuardedFrames, SamePage
<1>3. AwaitedFrames' BY Zenon, <1>0 DEF Residency, AwaitedFrames, SamePage, Unnoticed, Guarding
<1>4. DirtyFrames' BY Zenon DEF Residency, DirtyFrames, SamePage, Home
<1>5. \A f \in Frames : Pinners(f)' = Pinners(f) BY Zenon, <1>0 DEF Pinners, Unnoticed, Guarding
<1>6. MappedPages' = MappedPages BY Zenon DEF MappedPages
<1>7. Counts' BY Zenon, <1>5, <1>6 DEF Residency, Counts
<1> QED BY Zenon, <1>1, <1>2, <1>3, <1>4, <1>7 DEF Residency

\* A waiter of a failed load starts over, and the frame is freed with the last
\* of them; any other takes a pin of the frame that its page maps to.
LEMMA AttachStep ==
  ASSUME Types, Places, Residency, Types', Places', NEW c \in Clients, Attach(c),
         NEW f, f = pc[c].frame
  PROVE  Residency'
<1>0. /\ \A d \in Clients : pc[d].at \in Guarding \cup {"attach"} => pc[d].frame \in Frames
      /\ \A d \in Clients : pc[d].at \in Guarding => pc[d].page \in Pages
      /\ 0 \notin Frames
  BY Zenon, ClientsAreThreads, PoolAssumption DEF Places, Guarding, WithFrame, WithPage
<1>1. CASE frames[f].failed /\ Moves(c, "lookup", pc[c].page, 0)
           /\ frames'[f] = IF WaitingFor(c, f) THEN frames[f] ELSE Free
  <2>1. \A p \in Pages : map[p] # f BY Zenon, <1>1, <1>0, AttachEffect DEF Residency, MappedFrames
  <2>2. \A d \in Clients : pc[d].at \in Guarding => pc[d].frame # f
    BY Zenon, <2>1, <1>0 DEF Residency, GuardedFrames
  <2>3. \A g \in Frames \ {f} : frames'[g] = frames[g] BY Zenon, AttachEffect DEF OnlyFrame
  <2>4. /\ \A d \in Clients \ {c} : pc'[d] = pc[d]
        /\ pc[c].at = "attach" /\ pc'[c].at = "lookup" /\ f \in Frames
        /\ UNCHANGED <<map, resident, nextPage>>
    BY Zenon, <1>1, ClientsAreThreads, AttachEffect DEF Moves, OnlyThread
  <2>5. MappedFrames' BY SMTT(30), <1>0, <2>1, <2>3, <2>4 DEF Residency, MappedFrames
  <2>6. GuardedFrames' BY SMTT(30), <1>0, <2>2, <2>3, <2>4 DEF Residency, GuardedFrames, Guarding
  <2>7. AwaitedFrames'
    BY <1>0, <1>1, <2>3, <2>4 DEF Residency, AwaitedFrames, WaitingFor
  <2>8. DirtyFrames' BY SMTT(30), <1>1, <2>1, <2>3, <2>4, FreeType DEF Residency, DirtyFrames, Home
  <2>9. \A g \in Frames : Pinners(g)' = Pinners(g) BY Zenon, <2>4 DEF Pinners, Guarding
  <2>10. MappedPages' = MappedPages BY Zenon, <2>4 DEF MappedPages
  <2>11. Counts' BY Zenon, <2>1, <2>3, <2>4, <2>9, <2>10 DEF Residency, Counts
  <2> QED BY Zenon, <2>5, <2>6, <2>7, <2>8, <2>11 DEF Residency
<1>2. CASE frames[f].loaded /\ ~frames[f].failed /\ Moves(c, "pinned", pc[c].page, f)
           /\ SamePage(f) /\ SameBits(f) /\ frames'[f].pins = frames[f].pins + 1
  <2>1. map[pc[c].page] = f /\ f \in Frames
    BY ZenonT(30), <1>2, AttachEffect DEF Residency, AwaitedFrames
  <2>2. \A g \in Frames : SamePage(g) /\ SameBits(g)
    BY SMTT(30), <1>2, AttachEffect DEF OnlyFrame, SamePage, SameBits
  <2>3. /\ \A d \in Clients \ {c} : pc'[d] = pc[d]
        /\ pc[c].at = "attach" /\ pc'[c].at = "pinned" /\ pc'[c].page = pc[c].page
        /\ pc'[c].frame = f
        /\ UNCHANGED <<map, resident, nextPage>>
        /\ \A g \in Frames \ {f} : frames'[g] = frames[g]
    BY <1>2, ClientsAreThreads, AttachEffect DEF Moves, OnlyThread, OnlyFrame
  <2>5. MappedFrames' BY SMTT(30), <2>2, <2>3 DEF Residency, MappedFrames, SamePage
  <2>6. GuardedFrames'
    BY SMTT(30), <1>0, <1>2, <2>1, <2>2, <2>3 DEF Residency, GuardedFrames, Guarding, SamePage
  <2>7. AwaitedFrames' BY SMTT(30), <1>0, <2>2, <2>3 DEF Residency, AwaitedFrames, SamePage
  <2>8. DirtyFrames' BY <2>2, <2>3 DEF Residency, DirtyFrames, Home, SamePage, SameBits
  <2>9. /\ Pinners(f)' = Pinners(f) \cup {c} /\ c \notin Pinners(f)
        /\ \A g \in Frames \ {f} : Pinners(g)' = Pinners(g)
    BY Zenon, <2>3 DEF Pinners, Guarding
  <2>10. Cardinality(Pinners(f)') = Cardinality(Pinners(f)) + 1
    BY ZenonT(30), <2>9, PinnersFinite, FS_AddElement
  <2>11. MappedPages' = MappedPages BY Zenon, <2>3 DEF MappedPages
  <2>12. ASSUME NEW q \in Pages, NEW g \in Frames, map[q] = g
         PROVE  frames'[g].pins = Cardinality(Pinners(g)')
    <3>1. frames[g].pins = Cardinality(Pinners(g)) BY Zenon, <2>12 DEF Residency, Counts
    <3>2. CASE g = f BY Zenon, <1>2, <2>10, <3>1, <3>2
    <3>3. CASE g # f BY Zenon, <2>3, <2>9, <3>1, <3>3
    <3> QED BY Zenon, <3>2, <3>3
  <2>13. Counts' BY Zenon, <2>3, <2>11, <2>12 DEF Residency, Counts
  <2> QED BY Zenon, <2>5, <2>6, <2>7, <2>8, <2>13 DEF Residency
<1> QED BY Zenon, <1>1, <1>2, AttachEffect

\* A new frame for a page that has none.
LEMMA EnterStep ==
  ASSUME Types, Places, Residency, Types', Places', NEW c \in Clients, NEW f \in Unused,
         NEW p \in Pages, map[p] = 0, map' = [map EXCEPT ![p] = f], resident' = resident + 1,
         OnlyFrame(f), NEW at \in {"read", "pinned"}, Moves(c, at, p, f),
         pc[c].at \in {"insert", "allocate"},
         nextPage' \in Nat, nextPage <= nextPage', p < nextPage',
         frames'[f].page = p, frames'[f].pins = 1, ~frames'[f].failed, ~frames'[f].writing,
         frames'[f].loaded <=> at = "pinned", frames'[f].dirty => frames'[f].loaded
  PROVE  Residency'
<1>0. /\ \A d \in Clients : pc[d].at \in Guarding \cup {"attach"} =>
           pc[d].frame \in Frames /\ pc[d].page \in Pages
      /\ 0 \notin Frames
      /\ \A q \in Pages : q \in Nat
      /\ nextPage \in Nat
  BY SMTT(30), ClientsAreThreads, PoolAssumption DEF Places, Types, Guarding, WithFrame, WithPage, Pages
<1>1. /\ f \in Frames
      /\ \A q \in Pages : map[q] # f
      /\ \A d \in Clients : pc[d].frame # f
  BY Zenon, UnusedFrame, ClientsAreThreads
<1>2. /\ \A g \in Frames \ {f} : frames'[g] = frames[g]
      /\ \A d \in Clients \ {c} : pc'[d] = pc[d]
      /\ pc'[c].at = at /\ pc'[c].page = p /\ pc'[c].frame = f
      /\ map'[p] = f /\ \A q \in Pages \ {p} : map'[q] = map[q]
  BY Zenon, ClientsAreThreads DEF OnlyFrame, Moves, OnlyThread, Types
<1>3. MappedFrames'
  <2> SUFFICES ASSUME NEW q \in Pages, NEW g \in Frames, map'[q] = g
               PROVE  /\ frames'[g].page = q /\ ~frames'[g].failed /\ q < nextPage'
                      /\ frames'[g].loaded \/ \E d \in Clients : pc'[d].at = "read" /\ pc'[d].frame = g
    BY Zenon DEF MappedFrames
  <2>1. CASE q = p BY Zenon, <1>2, <2>1
  <2>2. CASE q # p
    <3>1. map[q] = g /\ g # f BY Zenon, <1>1, <1>2, <2>2
    <3>2. /\ frames[g].page = q /\ ~frames[g].failed /\ q < nextPage
          /\ frames[g].loaded \/ \E d \in Clients : pc[d].at = "read" /\ pc[d].frame = g
      BY <3>1 DEF Residency, MappedFrames
    <3>3. q < nextPage' BY <1>0, <3>2
    <3> QED BY Zenon, <1>2, <3>1, <3>2, <3>3
  <2> QED BY Zenon, <2>1, <2>2
<1>4. GuardedFrames'
  <2>1. ASSUME NEW d \in Clients, pc'[d].at \in Guarding
        PROVE  /\ map'[pc'[d].page] = pc'[d].frame
               /\ frames'[pc'[d].frame].loaded <=> pc'[d].at # "read"
    <3>1. CASE d = c BY Zenon, <1>2, <3>1
    <3>2. CASE d # c
      <4>1. pc'[d] = pc[d] /\ pc[d].frame # f /\ pc[d].frame \in Frames /\ pc[d].page \in Pages
        BY Zenon, <1>0, <1>1, <1>2, <2>1, <3>2
      <4>2. /\ map[pc[d].page] = pc[d].frame
            /\ frames[pc[d].frame].loaded <=> pc[d].at # "read"
        BY Zenon, <2>1, <4>1 DEF Residency, GuardedFrames
      <4> QED BY <1>0, <1>2, <4>1, <4>2
    <3> QED BY Zenon, <3>1, <3>2
  <2>2. ASSUME NEW d \in Clients, NEW e \in Clients, pc'[d].at = "read", pc'[e].at = "read",
               pc'[d].frame = pc'[e].frame
        PROVE  d = e
    BY SMTT(30), <1>1, <1>2, <2>2 DEF Residency, GuardedFrames
  <2> QED BY Zenon, <2>1, <2>2 DEF GuardedFrames
<1>5. AwaitedFrames'
  <2> SUFFICES ASSUME NEW d \in Clients, pc'[d].at = "attach"
               PROVE  frames'[pc'[d].frame].failed \/ map'[pc'[d].page] = pc'[d].frame
    BY Zenon DEF AwaitedFrames
  <2>1. d # c /\ pc'[d] = pc[d] BY Zenon, <1>2
  <2> QED BY SMTT(30), <1>0, <1>1, <1>2, <2>1 DEF Residency, AwaitedFrames
<1>6. DirtyFrames'
  <2> SUFFICES ASSUME NEW g \in Frames
               PROVE  /\ frames'[g].dirty \/ frames'[g].writing =>
                           /\ frames'[g].loaded /\ frames'[g].page \in Pages
                           /\ map'[frames'[g].page] = g
                      /\ frames'[g].loaded => frames'[g].page \in Pages
    BY Zenon DEF DirtyFrames, Home
  <2>1. CASE g = f BY Zenon, <1>2, <2>1
  <2>2. CASE g # f BY SMTT(30), <1>0, <1>2, <2>2 DEF Residency, DirtyFrames, Home
  <2> QED BY Zenon, <2>1, <2>2
<1>7. Counts'
  <2>1. MappedPages' = MappedPages \cup {p} /\ p \notin MappedPages
    BY SMTT(30), <1>0, <1>1, <1>2 DEF MappedPages
  <2>2. resident' = Cardinality(MappedPages')
    BY Zenon, <2>1, PagesFinite, FS_AddElement DEF Residency, Counts
  <2>3. Pinners(f)' = {c} /\ \A g \in Frames \ {f} : Pinners(g)' = Pinners(g)
    BY SMTT(30), <1>1, <1>2 DEF Pinners, Guarding
  <2>4. Cardinality(Pinners(f)') = 1 BY Zenon, <2>3, FS_Singleton
  <2>5. ASSUME NEW q \in Pages, NEW g \in Frames, map'[q] = g
        PROVE  frames'[g].pins = Cardinality(Pinners(g)')
    <3>1. CASE g = f BY Zenon, <2>4, <3>1
    <3>2. CASE g # f
      <4>1. map[q] = g BY Zenon, <1>2, <2>5, <3>2
      <4>2. frames[g].pins = Cardinality(Pinners(g)) BY Zenon, <4>1 DEF Residency, Counts
      <4> QED BY Zenon, <1>2, <2>3, <3>2, <4>2
    <3> QED BY Zenon, <3>1, <3>2
  <2> QED BY Zenon, <2>2, <2>5 DEF Counts
<1> QED BY Zenon, <1>3, <1>4, <1>5, <1>6, <1>7 DEF Residency

\* A frame leaves its shard: nobody but c has it, waiters apart, and they
\* will see that its loading failed.
LEMMA LeaveStep ==
  ASSUME Types, Places, Residency, Types', Places', NEW c \in Clients,
         NEW p \in Pages, NEW f \in Frames, map[p] = f,
         map' = [map EXCEPT ![p] = 0], resident' = resident - 1, UNCHANGED nextPage,
         OnlyFrame(f), OnlyThread(c),
         \A d \in Clients \ {c} : pc[d].at \in Guarding => pc[d].frame # f,
         pc[c].at # "attach",
         pc[c].at \in Guarding => pc[c].frame = f,
         pc'[c].at \notin Guarding \cup {"attach"},
         ~frames'[f].dirty, ~frames'[f].writing, ~frames'[f].loaded,
         WaitingFor(c, f) => frames'[f].failed
  PROVE  Residency'
<1>0. /\ \A d \in Clients : pc[d].at \in Guarding \cup {"attach"} =>
           pc[d].frame \in Frames /\ pc[d].page \in Pages
      /\ 0 \notin Frames
  BY Zenon, ClientsAreThreads, PoolAssumption DEF Places, Guarding, WithFrame, WithPage
<1>1. /\ \A g \in Frames \ {f} : frames'[g] = frames[g]
      /\ \A d \in Clients \ {c} : pc'[d] = pc[d]
      /\ map'[p] = 0 /\ \A q \in Pages \ {p} : map'[q] = map[q]
  BY Zenon, ClientsAreThreads DEF OnlyFrame, OnlyThread, Types
<1>2. frames[f].page = p /\ \A q \in Pages \ {p} : map[q] # f
  BY SMTT(30) DEF Residency, MappedFrames
<1>3. MappedFrames'
  <2> SUFFICES ASSUME NEW q \in Pages, NEW g \in Frames, map'[q] = g
               PROVE  /\ frames'[g].page = q /\ ~frames'[g].failed /\ q < nextPage
                      /\ frames'[g].loaded \/ \E d \in Clients : pc'[d].at = "read" /\ pc'[d].frame = g
    BY DEF MappedFrames
  <2>1. q # p /\ map[q] = g /\ g # f BY ZenonT(30), <1>0, <1>1, <1>2
  <2>2. /\ frames[g].page = q /\ ~frames[g].failed /\ q < nextPage
        /\ frames[g].loaded \/ \E d \in Clients : pc[d].at = "read" /\ pc[d].frame = g
    BY <2>1 DEF Residency, MappedFrames
  <2>3. \A d \in Clients : pc[d].at = "read" /\ pc[d].frame = g => d # c BY Zenon, <2>1 DEF Guarding
  <2> QED BY Zenon, <1>1, <2>1, <2>2, <2>3
<1>4. GuardedFrames'
  <2>1. ASSUME NEW d \in Clients, pc'[d].at \in Guarding
        PROVE  /\ map'[pc'[d].page] = pc'[d].frame
               /\ frames'[pc'[d].frame].loaded <=> pc'[d].at # "read"
    <3>1. d # c /\ pc'[d] = pc[d] /\ pc[d].frame # f BY Zenon, <1>1, <2>1
    <3>2. /\ map[pc[d].page] = pc[d].frame
          /\ frames[pc[d].frame].loaded <=> pc[d].at # "read"
          /\ pc[d].frame \in Frames /\ pc[d].page \in Pages
      BY ZenonT(30), <1>0, <2>1, <3>1 DEF Residency, GuardedFrames
    <3> QED BY <1>1, <3>1, <3>2
  <2>2. ASSUME NEW d \in Clients, NEW e \in Clients, pc'[d].at = "read", pc'[e].at = "read",
               pc'[d].frame = pc'[e].frame
        PROVE  d = e
    <3>1. d # c /\ e # c BY Zenon, <2>2 DEF Guarding
    <3> QED BY <1>1, <2>2, <3>1 DEF Residency, GuardedFrames
  <2> QED BY Zenon, <2>1, <2>2 DEF GuardedFrames
<1>5. AwaitedFrames'
  <2> SUFFICES ASSUME NEW d \in Clients, pc'[d].at = "attach"
               PROVE  frames'[pc'[d].frame].failed \/ map'[pc'[d].page] = pc'[d].frame
    BY Zenon DEF AwaitedFrames
  <2>1. d # c /\ pc'[d] = pc[d] BY Zenon, <1>1
  <2>2. CASE pc[d].frame = f BY Zenon, <2>1, <2>2 DEF WaitingFor
  <2>3. CASE pc[d].frame # f BY SMTT(30), <1>0, <1>1, <2>1, <2>3 DEF Residency, AwaitedFrames
  <2> QED BY Zenon, <2>2, <2>3
<1>6. DirtyFrames'
  <2> SUFFICES ASSUME NEW g \in Frames
               PROVE  /\ frames'[g].dirty \/ frames'[g].writing =>
                           /\ frames'[g].loaded /\ frames'[g].page \in Pages
                           /\ map'[frames'[g].page] = g
                      /\ frames'[g].loaded => frames'[g].page \in Pages
    BY Zenon DEF DirtyFrames, Home
  <2>1. CASE g = f BY Zenon, <2>1
  <2>2. CASE g # f BY SMTT(30), <1>1, <1>2, <2>2 DEF Residency, DirtyFrames, Home
  <2> QED BY Zenon, <2>1, <2>2
<1>7. Counts'
  <2>1. MappedPages' = MappedPages \ {p} /\ p \in MappedPages
    BY Zenon, <1>0, <1>1 DEF MappedPages
  <2>2. Cardinality(MappedPages') = Cardinality(MappedPages) - 1
    BY Zenon, <2>1, PagesFinite, FS_RemoveElement
  <2>3. resident' = Cardinality(MappedPages') BY Zenon, <2>2 DEF Residency, Counts
  <2>4. \A g \in Frames \ {f} : Pinners(g)' = Pinners(g)
    BY <1>1 DEF Pinners, Guarding
  <2>5. ASSUME NEW q \in Pages, NEW g \in Frames, map'[q] = g
        PROVE  frames'[g].pins = Cardinality(Pinners(g)')
    <3>1. q # p /\ map[q] = g /\ g # f BY Zenon, <1>0, <1>1, <1>2, <2>5
    <3>2. frames[g].pins = Cardinality(Pinners(g)) BY Zenon, <3>1 DEF Residency, Counts
    <3> QED BY Zenon, <1>1, <2>4, <3>1, <3>2
  <2> QED BY Zenon, <2>3, <2>5 DEF Counts
<1> QED BY Zenon, <1>3, <1>4, <1>5, <1>6, <1>7 DEF Residency

\* The end of a read keeps the pool in order: only its loader guarded the
\* frame, and it is now a reader.
LEMMA ReadStep ==
  ASSUME Types, Places, Residency, Types', Places', NEW c \in Clients, ReadPage(c),
         NEW f, f = pc[c].frame
  PROVE  Residency'
<1>0. /\ \A d \in Clients : pc[d].at \in Guarding \cup {"attach"} =>
           pc[d].frame \in Frames /\ pc[d].page \in Pages
      /\ 0 \notin Frames
  BY ZenonT(30), ClientsAreThreads, PoolAssumption DEF Places, Guarding, WithFrame, WithPage
<1>1. /\ \A g \in Frames \ {f} : frames'[g] = frames[g]
      /\ \A d \in Clients \ {c} : pc'[d] = pc[d]
      /\ pc[c].at = "read" /\ pc'[c].at = "pinned" /\ pc'[c].page = pc[c].page /\ pc'[c].frame = f
      /\ f \in Frames /\ pc[c].page \in Pages
      /\ UNCHANGED <<map, resident, nextPage>>
      /\ frames'[f].page = frames[f].page /\ frames'[f].failed = frames[f].failed
      /\ frames'[f].pins = frames[f].pins /\ frames'[f].loaded
      /\ frames'[f].dirty = frames[f].dirty /\ frames'[f].writing = frames[f].writing
  BY SMTT(30), ClientsAreThreads, ReadEffect DEF OnlyFrame, Moves, OnlyThread, SameBits
<1>2. map[pc[c].page] = f /\ ~frames[f].loaded BY Zenon, <1>1 DEF Residency, GuardedFrames, Guarding
<1>3. frames[f].page = pc[c].page BY Zenon, <1>1, <1>2 DEF Residency, MappedFrames
<1>4. \A d \in Clients \ {c} : pc[d].at \in Guarding => pc[d].frame # f
  BY <1>1, <1>2 DEF Residency, GuardedFrames, Guarding
<1>5. MappedFrames' BY <1>1 DEF Residency, MappedFrames
<1>6. GuardedFrames'
  <2>1. ASSUME NEW d \in Clients, pc'[d].at \in Guarding
        PROVE  /\ map[pc'[d].page] = pc'[d].frame
               /\ frames'[pc'[d].frame].loaded <=> pc'[d].at # "read"
    <3>1. CASE d = c BY Zenon, <1>1, <1>2, <3>1
    <3>2. CASE d # c BY SMTT(30), <1>0, <1>1, <1>4, <2>1, <3>2 DEF Residency, GuardedFrames
    <3> QED BY Zenon, <3>1, <3>2
  <2>2. ASSUME NEW d \in Clients, NEW e \in Clients, pc'[d].at = "read", pc'[e].at = "read",
               pc'[d].frame = pc'[e].frame
        PROVE  d = e
    BY <1>1, <2>2 DEF Residency, GuardedFrames
  <2> QED BY Zenon, <1>1, <2>1, <2>2 DEF GuardedFrames
<1>7. AwaitedFrames' BY <1>0, <1>1 DEF Residency, AwaitedFrames
<1>8. DirtyFrames' BY <1>1, <1>2, <1>3 DEF Residency, DirtyFrames, Home
<1>9. \A g \in Frames : Pinners(g)' = Pinners(g) BY <1>1 DEF Pinners, Guarding
<1>10. MappedPages' = MappedPages BY ZenonT(30), <1>1 DEF MappedPages
<1>11. Counts' BY <1>1, <1>9, <1>10 DEF Residency, Counts
<1> QED BY Zenon, <1>5, <1>6, <1>7, <1>8, <1>11 DEF Residency

\* Dropping a guard takes away one pin and one pinner.
LEMMA UnpinStep ==
  ASSUME Types, Places, Residency, Types', Places', NEW c \in Clients, Unpin(c),
         NEW f, f = pc[c].frame
  PROVE  Residency'
<1>0. /\ \A d \in Clients : pc[d].at \in Guarding \cup {"attach"} =>
           pc[d].frame \in Frames /\ pc[d].page \in Pages
      /\ 0 \notin Frames
  BY Zenon, ClientsAreThreads, PoolAssumption DEF Places, Guarding, WithFrame, WithPage
<1>1. /\ \A g \in Frames \ {f} : frames'[g] = frames[g]
      /\ \A d \in Clients \ {c} : pc'[d] = pc[d]
      /\ pc[c].at = "pinned" /\ pc'[c].at = "away"
      /\ f \in Frames /\ UNCHANGED <<map, resident, nextPage>>
      /\ frames'[f].pins = frames[f].pins - 1
  BY Zenon, ClientsAreThreads, UnpinEffect DEF OnlyFrame, Moves, OnlyThread
<1>2. \A g \in Frames : SamePage(g) /\ SameBits(g)
  BY Zenon, UnpinEffect DEF OnlyFrame, SamePage, SameBits
<1>3. MappedFrames' BY SMTT(30), <1>1, <1>2 DEF Residency, MappedFrames, SamePage
<1>4. GuardedFrames' BY <1>0, <1>1, <1>2 DEF Residency, GuardedFrames, SamePage, Guarding
<1>5. AwaitedFrames' BY <1>0, <1>1, <1>2 DEF Residency, AwaitedFrames, SamePage
<1>6. DirtyFrames' BY <1>1, <1>2 DEF Residency, DirtyFrames, Home, SamePage, SameBits
<1>7. /\ Pinners(f)' = Pinners(f) \ {c} /\ c \in Pinners(f)
      /\ \A g \in Frames \ {f} : Pinners(g)' = Pinners(g)
  BY <1>1 DEF Pinners, Guarding
<1>8. Cardinality(Pinners(f)') = Cardinality(Pinners(f)) - 1
  BY ZenonT(30), <1>7, PinnersFinite, FS_RemoveElement
<1>9. MappedPages' = MappedPages BY Zenon, <1>1 DEF MappedPages
<1>10. ASSUME NEW q \in Pages, NEW g \in Frames, map[q] = g
       PROVE  frames'[g].pins = Cardinality(Pinners(g)')
  <2>1. frames[g].pins = Cardinality(Pinners(g)) BY Zenon, <1>10 DEF Residency, Counts
  <2>2. CASE g = f BY Zenon, <1>1, <1>8, <2>1, <2>2
  <2>3. CASE g # f BY Zenon, <1>1, <1>7, <2>1, <2>3
  <2> QED BY Zenon, <2>2, <2>3
<1>11. Counts' BY Zenon, <1>1, <1>9, <1>10 DEF Residency, Counts
<1> QED BY Zenon, <1>3, <1>4, <1>5, <1>6, <1>11 DEF Residency

\* A failed read takes its frame out of the map with its only pin.
LEMMA ReadFailsStep ==
  ASSUME Types, Places, Residency, Types', Places', NEW c \in Clients, ReadFails(c),
         NEW f, f = pc[c].frame
  PROVE  Residency'
<1>1. /\ pc[c].at = "read" /\ f \in Frames /\ pc[c].page \in Pages
      /\ OnlyFrame(f) /\ Moves(c, "away", 0, 0) /\ UNCHANGED nextPage
      /\ map' = [map EXCEPT ![pc[c].page] = 0] /\ resident' = resident - 1
  BY Zenon, ReadFailsEffect
<1>2. map[pc[c].page] = f /\ ~frames[f].loaded BY Zenon, <1>1 DEF Residency, GuardedFrames, Guarding
<1>3. \A d \in Clients \ {c} : pc[d].at \in Guarding => pc[d].frame # f
  BY Zenon, <1>1, <1>2 DEF Residency, GuardedFrames, Guarding
<1>4. ~frames[f].dirty /\ ~frames[f].writing BY Zenon, <1>1, <1>2 DEF Residency, DirtyFrames, Home
<1>5. /\ ~frames'[f].dirty /\ ~frames'[f].writing /\ ~frames'[f].loaded
      /\ WaitingFor(c, f) => frames'[f].failed
  BY ZenonT(30), <1>2, <1>4, ReadFailsEffect, FreeType DEF SameBits
<1>6. pc'[c].at \notin Guarding \cup {"attach"} /\ OnlyThread(c) BY Zenon, <1>1 DEF Moves, Guarding
<1> DEFINE p == pc[c].page
<1>7. p \in Pages /\ map[p] = f /\ map' = [map EXCEPT ![p] = 0] BY Zenon, <1>1, <1>2
<1> HIDE DEF p
<1> QED BY ZenonT(30), <1>1, <1>3, <1>5, <1>6, <1>7, LeaveStep

\* An evicted frame has no pin left, so no client loses its page.
LEMMA RemoveStep ==
  ASSUME Types, Places, Residency, Types', Places', "pin" \notin Hazards,
         NEW c \in Clients, Remove(c), NEW f, f = pc[c].frame
  PROVE  Residency'
<1>0. /\ pc[c].at = "remove" /\ f \in Frames /\ ~WaitingFor(c, f) /\ UNCHANGED nextPage
      /\ AfterRoom(c) \in {"allocate", "insert"}
  BY Zenon, RemoveEffect DEF AfterRoom
<1>1. CASE Moves(c, "visit", pc[c].page, 0) /\ UNCHANGED <<map, frames, resident>>
  <2>1. \A g \in Frames : SamePage(g) /\ frames'[g].pins = frames[g].pins BY Zenon, <1>1 DEF SamePage
  <2>2. \A g \in Frames : frames'[g].dirty \/ frames'[g].writing => Home(g)
    BY Zenon, <1>1 DEF Residency, DirtyFrames
  <2>3. \A d \in Clients : Unnoticed(d)
    BY Zenon, <1>0, <1>1, ClientsAreThreads DEF Moves, OnlyThread, Unnoticed, Guarding
  <2> QED BY Zenon, <1>0, <1>1, <2>1, <2>2, <2>3, QuietStep
<1>2. CASE /\ \E at \in {AfterRoom(c), "visit"} : Moves(c, at, pc[c].page, 0)
           /\ map[frames[f].page] = f /\ Removable(frames[f])
           /\ map' = [map EXCEPT ![frames[f].page] = 0]
           /\ OnlyFrame(f)
           /\ frames'[f] = IF WaitingFor(c, f) THEN frames[f] ELSE Free
           /\ resident' = resident - 1
  <2> DEFINE p == frames[f].page
  <2>1. p \in Pages /\ map[p] = f /\ map' = [map EXCEPT ![p] = 0]
    BY Zenon, <1>0, <1>2 DEF Removable, Residency, DirtyFrames
  <2>2. frames[f].pins = 0 /\ frames[f].pins = Cardinality(Pinners(f))
    BY Zenon, <1>0, <1>2, <2>1 DEF Removable, Residency, Counts
  <2>3. Pinners(f) = {} BY Zenon, <2>2, PinnersFinite, FS_EmptySet
  <2>4. \A d \in Clients \ {c} : pc[d].at \in Guarding => pc[d].frame # f
    BY Zenon, <2>3 DEF Pinners
  <2>5. ~frames'[f].dirty /\ ~frames'[f].writing /\ ~frames'[f].loaded
    BY Zenon, <1>0, <1>2, FreeType
  <2>6. pc[c].at \notin Guarding \cup {"attach"} BY Zenon, <1>0 DEF Guarding
  <2>7. pc'[c].at \notin Guarding \cup {"attach"} /\ OnlyThread(c)
    BY Zenon, <1>0, <1>2 DEF Moves, Guarding
  <2> HIDE DEF p
  <2> QED BY ZenonT(30), <1>0, <1>2, <2>1, <2>4, <2>5, <2>6, <2>7, LeaveStep
<1> QED BY SMTT(30), <1>1, <1>2, RemoveEffect

\* A thread moves and the frames keep all but a bit or two.
LEMMA ThreadStep ==
  ASSUME Types, Places, Residency, Types', Places', NEW c \in Threads, OnlyThread(c),
         c \in Clients => Unnoticed(c), UNCHANGED <<map, resident, nextPage>>,
         \A g \in Frames : SamePage(g) /\ frames'[g].pins = frames[g].pins,
         \A g \in Frames : frames'[g].dirty \/ frames'[g].writing => Home(g)
  PROVE  Residency'
<1>1. \A d \in Clients : Unnoticed(d) BY Zenon, ClientsAreThreads DEF OnlyThread, Unnoticed
<1> QED BY Zenon, <1>1, QuietStep

\* A step that touches no frame leaves no new bit behind.
LEMMA SameFrames ==
  ASSUME Residency, UNCHANGED frames
  PROVE  /\ \A g \in Frames : SamePage(g) /\ frames'[g].pins = frames[g].pins
         /\ \A g \in Frames : frames'[g].dirty \/ frames'[g].writing => Home(g)
BY Zenon DEF SamePage, Residency, DirtyFrames

\* A thread moves, unnoticed, and no frame changes.
LEMMA MoveStep ==
  ASSUME Types, Places, Residency, Types', Places', NEW c \in Threads, OnlyThread(c),
         c \in Clients => Unnoticed(c), UNCHANGED <<map, frames, resident, nextPage>>
  PROVE  Residency'
BY Zenon, SameFrames, ThreadStep

\* One frame's bits change, and it is mapped.
LEMMA OneFrame ==
  ASSUME Residency, NEW f \in Frames, OnlyFrame(f), SamePage(f),
         frames'[f].pins = frames[f].pins,
         frames'[f].dirty \/ frames'[f].writing => Home(f)
  PROVE  /\ \A g \in Frames : SamePage(g) /\ frames'[g].pins = frames[g].pins
         /\ \A g \in Frames : frames'[g].dirty \/ frames'[g].writing => Home(g)
BY Zenon DEF OnlyFrame, SamePage, Residency, DirtyFrames

\* A lookup only reads, and a waiter waits for the frame it read.
LEMMA LookupStep ==
  ASSUME Types, Places, Residency, Types', Places', NEW c \in Clients, NEW p \in Pages,
         LookupFrame(c, p), pc[c].at \notin Guarding,
         UNCHANGED <<map, frames, resident, nextPage>>
  PROVE  Residency'
<1>1. Moves(c, IF map[p] # 0 THEN "attach" ELSE "capacity", p, map[p])
  BY Zenon, LookupEffect, ClientsAreThreads
<1>2. Unnoticed(c) /\ OnlyThread(c) BY Zenon, <1>1 DEF Moves, Unnoticed, Guarding
<1> QED BY Zenon, <1>2, MoveStep, ClientsAreThreads

\* Every step of every thread keeps the map, the frames and the threads in
\* agreement.
LEMMA ResidencyStep ==
  ASSUME Types, Places, Residency, Types', Places', "pin" \notin Hazards, Next
  PROVE  Residency'
<1> USE ClientsAreThreads
<1>1. ASSUME NEW c \in Clients, ClientStep(c) PROVE Residency'
  <2>1. CASE Retry(c)
    <3>1. pc[c].page \in Pages /\ pc[c].at \notin Guarding
      BY Zenon, <2>1, ClientTyping DEF Retry, WithPage, Guarding
    <3> QED BY Zenon, <2>1, <3>1, LookupStep DEF Retry
  <2>2. CASE Attach(c) BY ZenonT(30), <2>2, AttachStep
  <2>3. CASE InsertLoading(c)
    <3> DEFINE p == pc[c].page
    <3>0. p \in Pages /\ pc[c].at = "insert" /\ nextPage' = nextPage BY ZenonT(30), <2>3, InsertEffect
    <3>1. CASE Moves(c, "lookup", p, pc[c].frame) /\ UNCHANGED <<map, frames, resident>>
      <4>1. Unnoticed(c) /\ OnlyThread(c) BY Zenon, <3>0, <3>1 DEF Moves, Unnoticed, Guarding
      <4> QED BY Zenon, <3>0, <3>1, <4>1, MoveStep
    <3>2. CASE /\ map[p] = 0
               /\ \E f \in Unused :
                    /\ OnlyFrame(f) /\ Moves(c, "read", p, f)
                    /\ frames'[f].page = p /\ frames'[f].pins = 1
                    /\ ~frames'[f].loaded /\ ~frames'[f].failed
                    /\ ~frames'[f].dirty /\ ~frames'[f].writing
                    /\ map' = [map EXCEPT ![p] = f]
                    /\ resident' = resident + 1
      <4>1. nextPage \in Nat /\ p < nextPage BY PoolAssumption DEF Types, Places
      <4>2. PICK q \in Pages : q = p BY Zenon, <3>0
      <4>3. PICK f \in Unused :
              /\ OnlyFrame(f) /\ Moves(c, "read", q, f)
              /\ frames'[f].page = q /\ frames'[f].pins = 1
              /\ ~frames'[f].loaded /\ ~frames'[f].failed
              /\ ~frames'[f].dirty /\ ~frames'[f].writing
              /\ map' = [map EXCEPT ![q] = f]
              /\ resident' = resident + 1
        BY ZenonT(30), <3>2, <4>2
      <4>4. map[q] = 0 /\ q < nextPage' /\ nextPage <= nextPage' /\ nextPage' \in Nat
        BY <3>0, <3>2, <4>1, <4>2
      <4> QED BY ZenonT(30), <3>0, <4>3, <4>4, EnterStep
    <3> QED BY <2>3, <3>1, <3>2, InsertEffect
  <2>4. CASE ReadPage(c) BY Zenon, <2>4, ReadStep
  <2>5. CASE ReadFails(c) BY Zenon, <2>5, ReadFailsStep
  <2>6. CASE AllocateFrame(c)
    <3>1. /\ nextPage \in Nat /\ nextPage \in Pages /\ nextPage' = nextPage + 1
          /\ pc[c].at = "allocate"
      BY <2>6, AllocateEffect, PoolAssumption DEF Types
    <3>2. map[nextPage] = 0
      <4>1. map[nextPage] \in Frames => nextPage < nextPage
        BY Zenon, <3>1 DEF Residency, MappedFrames
      <4> QED BY <3>1, <4>1 DEF Types
    <3>3. PICK p \in Pages : p = nextPage BY Zenon, <3>1
    <3>4. p < nextPage' /\ nextPage <= nextPage' /\ nextPage' \in Nat BY <3>1, <3>3
    <3> QED BY ZenonT(30), <2>6, <3>1, <3>2, <3>3, <3>4, AllocateEffect, EnterStep
  <2>7. CASE AllocateGivesUp(c)
    <3>1. Moves(c, "away", 0, 0) BY ZenonT(30), <2>7, AwayMove DEF AllocateGivesUp
    <3>2. Unnoticed(c) /\ OnlyThread(c)
      BY Zenon, <2>7, <3>1 DEF Moves, Unnoticed, Guarding, AllocateGivesUp
    <3> QED BY Zenon, <2>7, <3>2, MoveStep DEF AllocateGivesUp
  <2>8. CASE EnsureCapacity(c)
    <3>1. Unnoticed(c) /\ OnlyThread(c)
      BY Zenon, <2>8, CapacityEffect DEF Moves, Unnoticed, Guarding, AfterRoom
    <3> QED BY Zenon, <2>8, <3>1, CapacityEffect, MoveStep
  <2>9. CASE Visit(c)
    <3>1. Unnoticed(c) /\ OnlyThread(c)
      <4>1. CASE UNCHANGED pc BY Zenon, <4>1 DEF Unnoticed, OnlyThread, Types
      <4>2. CASE \E v \in Frames, at \in {"evictflush", "remove"} : Moves(c, at, pc[c].page, v)
        BY Zenon, <2>9, <4>2, VisitEffect DEF Moves, Unnoticed, Guarding
      <4> QED BY Zenon, <2>9, <4>1, <4>2, VisitEffect
    <3>2. /\ \A g \in Frames : SamePage(g) /\ frames'[g].pins = frames[g].pins
          /\ \A g \in Frames : frames'[g].dirty \/ frames'[g].writing => Home(g)
      BY Zenon, <2>9, VisitEffect DEF Residency, DirtyFrames, SameBits
    <3> QED BY Zenon, <2>9, <3>1, <3>2, VisitEffect, ThreadStep
  <2>10. CASE Remove(c) BY Zenon, <2>10, RemoveStep
  <2>11. CASE EvictFails(c)
    <3>1. Moves(c, "away", 0, 0) BY ZenonT(30), <2>11, AwayMove DEF EvictFails
    <3>2. Unnoticed(c) /\ OnlyThread(c) BY Zenon, <2>11, <3>1 DEF Moves, Unnoticed, Guarding, EvictFails
    <3> QED BY Zenon, <2>11, <3>2, MoveStep DEF EvictFails
  <2>12. CASE MarkDirty(c)
    <3>1. Unnoticed(c) /\ OnlyThread(c) BY <2>12, MarkEffect DEF Moves, Unnoticed
    <3>2. Home(pc[c].frame) BY Zenon, <2>12, MarkEffect, GuardHome
    <3>3. /\ \A g \in Frames : SamePage(g) /\ frames'[g].pins = frames[g].pins
          /\ \A g \in Frames : frames'[g].dirty \/ frames'[g].writing => Home(g)
      BY Zenon, <2>12, <3>2, MarkEffect, OneFrame
    <3> QED BY Zenon, <2>12, <3>1, <3>3, MarkEffect, ThreadStep
  <2>13. CASE Unpin(c) BY Zenon, <2>13, UnpinStep
  <2> QED BY Zenon, <1>1, <2>1, <2>2, <2>3, <2>4, <2>5, <2>6, <2>7, <2>8, <2>9, <2>10, <2>11, <2>12, <2>13
          DEF ClientStep
<1>2. ASSUME NEW c \in Clients, CallAllocate(c) PROVE Residency'
  <2>1. pc[c].at = "away" /\ pc'[c] = [Away EXCEPT !.at = "capacity"]
    BY Zenon, <1>2 DEF CallAllocate, Types
  <2>2. pc'[c].at = "capacity" BY Zenon, <2>1 DEF Away
  <2>3. OnlyThread(c) BY Zenon, <1>2 DEF CallAllocate, OnlyThread, Types
  <2>4. Unnoticed(c) BY Zenon, <2>1, <2>2 DEF Unnoticed, Guarding
  <2> QED BY Zenon, <1>2, <2>3, <2>4, MoveStep DEF CallAllocate
<1>3. ASSUME NEW c \in Clients, LoggedChange(c), NEW f, f = pc[c].frame PROVE Residency'
  <2>1. f \in Frames /\ Home(f) /\ Change(f, changes + 1, TRUE) /\ changes + 1 \in Nat
    <3>1. pc[c].at = "pinned" /\ f \in Frames /\ Change(f, changes + 1, TRUE)
      BY Zenon, <1>3, LoggedEffect
    <3>2. Home(f) BY Zenon, <1>3, <3>1, GuardHome
    <3>3. changes + 1 \in Nat BY DEF Types
    <3> QED BY ZenonT(30), <3>1, <3>2, <3>3
  <2>2. /\ \A g \in Frames : SamePage(g) /\ frames'[g].pins = frames[g].pins
        /\ \A g \in Frames : frames'[g].dirty \/ frames'[g].writing => Home(g)
    BY ZenonT(30), <2>1, ChangeEffect, OneFrame
  <2>3. Unnoticed(c) /\ OnlyThread(c) BY Zenon, <1>3, LoggedEffect DEF Unnoticed, OnlyThread, Types
  <2> QED BY Zenon, <1>3, <2>2, <2>3, LoggedEffect, ThreadStep
<1>4. ASSUME NEW c \in Clients, UnloggedChange(c), NEW f, f = pc[c].frame PROVE Residency'
  <2>1. /\ f \in Frames /\ Home(f) /\ Change(f, frames[f].lsn, frames[f].dirty)
        /\ frames[f].lsn \in Nat /\ frames[f].dirty \in BOOLEAN
    BY ZenonT(30), <1>4, UnloggedEffect, GuardHome, PinnedTyping
  <2>2. /\ \A g \in Frames : SamePage(g) /\ frames'[g].pins = frames[g].pins
        /\ \A g \in Frames : frames'[g].dirty \/ frames'[g].writing => Home(g)
    BY SMTT(30), <2>1, ChangeEffect, OneFrame
  <2>3. Unnoticed(c) /\ OnlyThread(c) BY Zenon, <1>4, UnloggedEffect DEF Unnoticed, Moves
  <2> QED BY ZenonT(30), <1>4, <2>2, <2>3, UnloggedEffect, ThreadStep
<1>5. ASSUME NEW c \in Clients, NEW p \in Pages, CallPin(c, p) PROVE Residency'
  BY Zenon, <1>5, LookupStep DEF CallPin, Guarding
<1>6. ASSUME NEW c \in Threads, FlushStep(c), NEW f, f = pc[c].frame PROVE Residency'
  <2>a. ASSUME FlushOver(c), pc[c].at \notin Guarding PROVE OnlyThread(c) /\ (c \in Clients => Unnoticed(c))
    BY ZenonT(30), <2>a DEF FlushOver, Moves, Unnoticed, Guarding
  <2>1. CASE FlushCopy(c)
    <3>0. f \in Frames /\ pc[c].at \notin Guarding BY Zenon, <1>6, <2>1, CopyEffect DEF Guarding
    <3>1. CASE UNCHANGED frames /\ FlushOver(c)
      BY Zenon, <2>1, <2>a, <3>0, <3>1, CopyEffect, MoveStep
    <3>2. CASE /\ frames[f].dirty
               /\ OnlyFrame(f) /\ SamePage(f) /\ frames'[f].pins = frames[f].pins
               /\ Moves(c, "write", pc[c].page, f)
      <4>1. Home(f) BY Zenon, <3>0, <3>2 DEF Residency, DirtyFrames
      <4>2. /\ \A g \in Frames : SamePage(g) /\ frames'[g].pins = frames[g].pins
            /\ \A g \in Frames : frames'[g].dirty \/ frames'[g].writing => Home(g)
        BY Zenon, <3>0, <3>2, <4>1, OneFrame
      <4>3. Unnoticed(c) /\ OnlyThread(c) BY Zenon, <3>0, <3>2 DEF Moves, Unnoticed, Guarding
      <4> QED BY Zenon, <2>1, <4>2, <4>3, CopyEffect, ThreadStep
    <3> QED BY <1>6, <2>1, <3>1, <3>2, CopyEffect
  <2>2. CASE FlushWrite(c)
    <3>1. Unnoticed(c) /\ OnlyThread(c) BY Zenon, <2>2, WriteEffect DEF Moves, Unnoticed, Guarding
    <3> QED BY Zenon, <2>2, <3>1, WriteEffect, MoveStep
  <2>3. CASE FlushDone(c)
    <3>0. f \in Frames /\ pc[c].at \notin Guarding BY ZenonT(30), <1>6, <2>3, DoneEffect DEF Guarding
    <3>1. frames'[f].dirty \/ frames'[f].writing => Home(f)
      BY Zenon, <1>6, <2>3, <3>0, DoneEffect DEF Residency, DirtyFrames
    <3>2. /\ \A g \in Frames : SamePage(g) /\ frames'[g].pins = frames[g].pins
          /\ \A g \in Frames : frames'[g].dirty \/ frames'[g].writing => Home(g)
      BY Zenon, <1>6, <2>3, <3>0, <3>1, DoneEffect, OneFrame
    <3> QED BY Zenon, <2>3, <2>a, <3>0, <3>2, DoneEffect, ThreadStep
  <2>4. CASE FlushFails(c)
    <3>0. f \in Frames /\ pc[c].at \notin Guarding BY Zenon, <1>6, <2>4, WriteFailsEffect DEF Guarding
    <3>1. frames'[f].dirty \/ frames'[f].writing => Home(f)
      BY Zenon, <1>6, <2>4, <3>0, WriteFailsEffect DEF Residency, DirtyFrames
    <3>2. /\ \A g \in Frames : SamePage(g) /\ frames'[g].pins = frames[g].pins
          /\ \A g \in Frames : frames'[g].dirty \/ frames'[g].writing => Home(g)
      BY Zenon, <1>6, <2>4, <3>0, <3>1, WriteFailsEffect, OneFrame
    <3>3. Unnoticed(c) /\ OnlyThread(c) BY Zenon, <2>4, <3>0, WriteFailsEffect DEF Moves, Unnoticed, Guarding
    <3> QED BY Zenon, <2>4, <3>2, <3>3, WriteFailsEffect, ThreadStep
  <2> QED BY Zenon, <1>6, <2>1, <2>2, <2>3, <2>4 DEF FlushStep
<1>7. ASSUME NEW f \in Frames, FlushPick(f) PROVE Residency'
  BY Zenon, <1>7, PickEffect, MoveStep DEF Moves
<1>8. CASE Sync
  <2>1. OnlyThread(Flusher) BY Zenon, <1>8 DEF Sync, OnlyThread, Types
  <2> QED BY Zenon, <1>8, <2>1, MoveStep DEF Sync
<1> QED BY Zenon, <1>1, <1>2, <1>3, <1>4, <1>5, <1>6, <1>7, <1>8 DEF Next, Threads

\* An empty pool maps no page and pins no frame.
LEMMA ResidencyInit == Init => Residency
<1> SUFFICES ASSUME Init PROVE Residency OBVIOUS
<1>1. \A c \in Clients : pc[c].at = "away" BY Zenon, AwayType DEF Init
<1>2. (\A p \in Pages : map[p] = 0) /\ (\A f \in Frames : frames[f] = Free) BY Zenon DEF Init
<1>3. MappedFrames BY Zenon, <1>2, PoolAssumption DEF MappedFrames
<1>4. GuardedFrames BY Zenon, <1>1 DEF GuardedFrames, Guarding
<1>5. AwaitedFrames BY Zenon, <1>1 DEF AwaitedFrames
<1>6. DirtyFrames BY Zenon, <1>2, FreeType DEF DirtyFrames
<1>7. MappedPages = {} BY Zenon, <1>2 DEF MappedPages
<1>8. resident = Cardinality(MappedPages) BY Zenon, <1>7, FS_EmptySet DEF Init
<1>9. Counts BY Zenon, <1>2, <1>8, PoolAssumption DEF Counts
<1> QED BY Zenon, <1>3, <1>4, <1>5, <1>6, <1>9 DEF Residency

\* The eviction mutex is held only by a client that is evicting.
MutexHeld ==
  ev.by # 0 => pc[ev.by].at \in {"visit", "evictflush", "write", "written", "remove"}

\* The mutex is released when the eviction ends, on every path.
LEMMA MutexStep ==
  ASSUME Types, Places, MutexHeld, Next
  PROVE  MutexHeld'
<1> USE ClientsAreThreads DEF MutexHeld
<1>0. ev.by # 0 => ev.by \in Threads /\ ev.by # Flusher BY Zenon DEF Types, EvictionType
<1>1. ASSUME NEW c \in Clients, ClientStep(c) PROVE MutexHeld'
  <2>1. CASE Retry(c)
    <3>1. OnlyThread(c) /\ UNCHANGED ev /\ pc[c].at = "lookup"
      BY ZenonT(30), <2>1, ClientTyping, LookupEffect DEF Retry, WithPage, Moves
    <3> QED BY Zenon, <1>0, <3>1 DEF OnlyThread
  <2>2. CASE Attach(c) BY SMTT(30), <1>0, <2>2, AttachEffect DEF Moves, OnlyThread
  <2>3. CASE InsertLoading(c) BY SMTT(30), <1>0, <2>3, InsertEffect DEF Moves, OnlyThread
  <2>4. CASE ReadPage(c) BY <1>0, <2>4, ReadEffect DEF Moves, OnlyThread
  <2>5. CASE ReadFails(c) BY SMTT(30), <1>0, <2>5, ReadFailsEffect DEF Moves, OnlyThread
  <2>6. CASE AllocateFrame(c) BY <1>0, <2>6, AllocateEffect DEF Moves, OnlyThread
  <2>7. CASE AllocateGivesUp(c)
    BY Zenon, <1>0, <2>7, AwayMove DEF AllocateGivesUp, Moves, OnlyThread
  <2>8. CASE EnsureCapacity(c) BY <1>0, <2>8, CapacityEffect DEF Moves, OnlyThread
  <2>9. CASE Visit(c) BY <1>0, <2>9, VisitEffect DEF Moves, OnlyThread
  <2>10. CASE Remove(c) BY SMTT(30), <1>0, <2>10, RemoveEffect DEF Moves, OnlyThread
  <2>11. CASE EvictFails(c) BY ZenonT(30), <2>11, NoEvictionType DEF EvictFails
  <2>12. CASE MarkDirty(c) BY SMTT(30), <1>0, <2>12, MarkEffect DEF Moves, OnlyThread
  <2>13. CASE Unpin(c) BY SMTT(30), <1>0, <2>13, UnpinEffect DEF Moves, OnlyThread
  <2> QED BY ZenonT(30), <1>1, <2>1, <2>2, <2>3, <2>4, <2>5, <2>6, <2>7, <2>8, <2>9, <2>10, <2>11, <2>12, <2>13
          DEF ClientStep
<1>2. ASSUME NEW c \in Clients, CallAllocate(c) PROVE MutexHeld'
  BY Zenon, <1>0, <1>2 DEF CallAllocate, Types
<1>3. ASSUME NEW c \in Clients, LoggedChange(c) PROVE MutexHeld'
  BY ZenonT(30), <1>3, LoggedEffect
<1>4. ASSUME NEW c \in Clients, UnloggedChange(c) PROVE MutexHeld'
  BY <1>0, <1>4, UnloggedEffect DEF Moves, OnlyThread
<1>5. ASSUME NEW c \in Clients, NEW p \in Pages, CallPin(c, p) PROVE MutexHeld'
  BY <1>0, <1>5, LookupEffect DEF CallPin, Moves, OnlyThread
<1>6. ASSUME NEW c \in Threads, FlushStep(c) PROVE MutexHeld'
  <2>1. CASE FlushCopy(c) BY SMTT(30), <1>0, <2>1, CopyEffect DEF FlushOver, Moves, OnlyThread
  <2>2. CASE FlushWrite(c) BY SMTT(30), <1>0, <2>2, WriteEffect DEF Moves, OnlyThread
  <2>3. CASE FlushDone(c) BY SMTT(30), <1>0, <2>3, DoneEffect DEF FlushOver, Moves, OnlyThread
  <2>4. CASE FlushFails(c) BY <1>0, <2>4, WriteFailsEffect DEF Moves, OnlyThread
  <2> QED BY Zenon, <1>6, <2>1, <2>2, <2>3, <2>4 DEF FlushStep
<1>7. ASSUME NEW f \in Frames, FlushPick(f) PROVE MutexHeld'
  BY Zenon, <1>0, <1>7, PickEffect DEF Moves, OnlyThread
<1>8. CASE Sync BY Zenon, <1>8 DEF Sync
<1> QED BY Zenon, <1>1, <1>2, <1>3, <1>4, <1>5, <1>6, <1>7, <1>8 DEF Next, Threads

\* The inductive invariant of a pool whose frames are not evicted between a
\* client's look-up and its pin.
PoolInv == Types /\ Places /\ Residency /\ MutexHeld

\* The pool's bookkeeping is right whatever the interleaving of pins, reads,
\* evictions and flushes: a frame is never evicted under a guard, and the
\* resident counter and the pin counts are what they claim to be.
THEOREM PoolSafety == "pin" \notin Hazards => (Spec => []PoolInv)
<1> SUFFICES ASSUME "pin" \notin Hazards PROVE Spec => []PoolInv OBVIOUS
<1>1. Init => PoolInv
  BY Zenon, PlacesInit, ResidencyInit, NoEvictionType DEF PoolInv, MutexHeld, Init
<1>2. PoolInv /\ [Next]_vars => PoolInv'
  <2> SUFFICES ASSUME PoolInv, [Next]_vars PROVE PoolInv' OBVIOUS
  <2>1. CASE Next BY Zenon, <2>1, PlacesStep, ResidencyStep, MutexStep DEF PoolInv
  <2>2. CASE UNCHANGED vars
    <3>1. Types' /\ Places' BY Zenon, <2>2 DEF PoolInv, vars, Types, Places
    <3>2. MutexHeld' BY Zenon, <2>2 DEF PoolInv, vars, MutexHeld
    <3>3. MappedFrames' /\ GuardedFrames' /\ AwaitedFrames'
      BY SMTT(30), <2>2 DEF PoolInv, vars, Residency, MappedFrames, GuardedFrames, AwaitedFrames
    <3>4. DirtyFrames' BY Zenon, <2>2 DEF PoolInv, vars, Residency, DirtyFrames, Home
    <3>5. Counts' BY Zenon, <2>2 DEF PoolInv, vars, Residency, Counts, Pinners, MappedPages
    <3> QED BY Zenon, <3>1, <3>2, <3>3, <3>4, <3>5 DEF PoolInv, Residency
  <2> QED BY Zenon, <2>1, <2>2
<1> QED BY <1>1, <1>2, PTL DEF Spec

\* Two guards on one page are guards on one frame, the one in the shard:
\* remove_frame_if_unpinned never takes a frame that a PageGuard is on.
THEOREM GuardsAreOnTheMappedFrame ==
  "pin" \notin Hazards => (Spec => []PinnedIsResident)
<1>1. PoolInv => PinnedIsResident
  BY Zenon DEF PoolInv, Residency, GuardedFrames, Guarding, PinnedIsResident, Holds
<1> QED BY <1>1, PoolSafety, PTL

\* The counters agree with what they count: resident_frames with the shards,
\* and each frame's pin count with its guards and its reader.
THEOREM CountersAreRight == "pin" \notin Hazards => (Spec => []TypeOK)
<1>1. PoolInv => TypeOK
  <2> SUFFICES ASSUME PoolInv PROVE TypeOK OBVIOUS
  <2>1. 0 \notin Frames /\ map \in [Pages -> Frames \cup {0}] /\ resident = Cardinality(MappedPages)
        /\ durable <= changes /\ nextPage \in OldPages + 1..MaxPages + 1
    BY Zenon, PoolAssumption DEF PoolInv, Types, Residency, Counts
  <2>2. \A f \in Loaded : frames[f].pins =
          Cardinality({c \in Clients : (Holds(c) \/ pc[c].at = "read") /\ pc[c].frame = f})
    <3> SUFFICES ASSUME NEW f \in Loaded
                 PROVE  frames[f].pins = Cardinality({c \in Clients :
                          (Holds(c) \/ pc[c].at = "read") /\ pc[c].frame = f})
      OBVIOUS
    <3>1. PICK p \in Pages : map[p] = f /\ f \in Frames BY Zenon, <2>1 DEF Loaded
    <3>2. {c \in Clients : (Holds(c) \/ pc[c].at = "read") /\ pc[c].frame = f} = Pinners(f)
      BY Zenon DEF Pinners, Holds, Guarding
    <3> QED BY Zenon, <3>1, <3>2 DEF PoolInv, Residency, Counts
  <2>3. \A p \in Pages : map[p] # 0 => frames[map[p]].page = p
    BY <2>1 DEF PoolInv, Residency, MappedFrames
  <2> QED BY Zenon, <2>1, <2>2, <2>3 DEF TypeOK, MappedPages
<1> QED BY <1>1, PoolSafety, PTL

\* Nobody waits in vain: the frame a client waits for in attach is loaded, has
\* failed, or is being read; and the eviction mutex is held by an evictor.
THEOREM WaitingEnds == "pin" \notin Hazards => (Spec => []WaitersAreServed)
<1>1. PoolInv => WaitersAreServed
  <2> SUFFICES ASSUME PoolInv PROVE WaitersAreServed OBVIOUS
  <2>1. ASSUME NEW c \in Clients, pc[c].at = "attach"
        PROVE  \/ frames[pc[c].frame].loaded \/ frames[pc[c].frame].failed
               \/ \E d \in Clients : pc[d].at = "read" /\ pc[d].frame = pc[c].frame
    <3>1. pc[c].frame \in Frames /\ pc[c].page \in Pages
      BY Zenon, <2>1, ClientTyping, ClientsAreThreads DEF PoolInv, WithFrame, WithPage
    <3> QED BY <2>1, <3>1 DEF PoolInv, Residency, AwaitedFrames, MappedFrames
  <2> QED BY Zenon, <2>1 DEF PoolInv, MutexHeld, WaitersAreServed
<1> QED BY <1>1, PoolSafety, PTL

\* No change to a page is lost, through any interleaving of changes, flushes,
\* evictions, re-reads, and failures of reads and writes: the newest state is
\* in the resident frame or, if there is none, in the page file; and a clean
\* frame holds what the file holds, so evicting it is safe.
THEOREM ChangesSurviveEviction ==
  "pin" \notin Hazards /\ "flush" \notin Hazards => (Spec => []NoChangeLost)
<1> SUFFICES ASSUME "pin" \notin Hazards, "flush" \notin Hazards PROVE Spec => []NoChangeLost
  OBVIOUS
<1>1. Init => ContentInv
  <2> SUFFICES ASSUME Init PROVE ContentInv OBVIOUS
  <2>1. Writes BY Zenon, AwayType DEF Init, Writes, Threads, Flushing
  <2>2. NewPages BY Zenon DEF Init, NewPages
  <2>3. Newest BY Zenon, PoolAssumption DEF Init, Newest
  <2> QED BY Zenon, <2>1, <2>2, <2>3 DEF ContentInv
<1>2. PoolInv /\ PoolInv' /\ ContentInv /\ [Next]_vars => ContentInv'
  <2> SUFFICES ASSUME PoolInv, PoolInv', ContentInv, [Next]_vars PROVE ContentInv' OBVIOUS
  <2>1. CASE Next BY Zenon, <2>1, ContentStep, CountsTell DEF PoolInv, Residency
  <2>2. CASE UNCHANGED vars
    <3>1. Writes' /\ NewPages' BY Zenon, <2>2 DEF ContentInv, vars, Writes, NewPages
    <3>2. Newest' BY Zenon, <2>2 DEF ContentInv, vars, Newest, FrameIsNewest, Marking
    <3> QED BY Zenon, <3>1, <3>2 DEF ContentInv
  <2> QED BY Zenon, <2>1, <2>2
<1>3. PoolInv /\ ContentInv => NoChangeLost
  <2> SUFFICES ASSUME PoolInv, ContentInv, NEW p \in Pages, NEW f, f = map[p]
               PROVE  IF f # 0 /\ frames[f].loaded
                      THEN /\ frames[f].ver = latest[p]
                           /\ frames[f].dirty \/ Marking(f) \/ disk[p].ver = frames[f].ver
                      ELSE disk[p].ver = latest[p]
    BY Zenon DEF NoChangeLost, Marking
  <2>1. f \in Frames \cup {0} BY Zenon DEF PoolInv, Types
  <2> QED BY Zenon, <2>1 DEF ContentInv, Newest, FrameIsNewest
<1>4. Spec => []PoolInv BY Zenon, PoolSafety
<1> QED BY <1>1, <1>2, <1>3, <1>4, PTL DEF Spec
=============================================================================
