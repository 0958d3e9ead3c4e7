------------------------- MODULE BufferPoolProofs --------------------------
(***************************************************************************)
(* The buffer pool for any number of frames, pages and clients, as long as *)
(* callers delete only pages that are not in memory (deleting a cached     *)
(* page leaves its frame in the replacer, and then a pinned page can be    *)
(* evicted).                                                               *)
(*                                                                         *)
(* That a held page stays in its frame follows from the pin counts being   *)
(* right, those from the table being right, and that nothing is lost by an *)
(* eviction from is_dirty_.  A holder marks a page dirty only when it      *)
(* unpins it, so the statement about clean frames that the steps keep also *)
(* speaks of what the holders are going to say (CleanUnlessHeldDirty).     *)
(*                                                                         *)
(* The steps of the pool are taken together in PoolStep, where NewPage may *)
(* be given any page that is not allocated: both BufferPool's own choice   *)
(* of it and the disk manager's are covered.                               *)
(***************************************************************************)
EXTENDS BufferPool, FiniteSetTheorems, TLAPS

Frame == [id : Pages \cup {NoPage}, pin : Nat, dirty : BOOLEAN, data : Values]

PoolTypeOK ==
  /\ pageTable \in [Pages -> Frames \cup {NoFrame}]
  /\ pages \in [Frames -> Frame]
  /\ freeList \subseteq Frames
  /\ disk \in [Pages -> Values]
  /\ allocated \subseteq Pages
  /\ handle \in [Clients -> Handle \cup {NoHandle}]

OnlyAllocated == \A p \in Pages : Resident(p) => p \in allocated

CleanUnlessHeldDirty ==
  \A f \in Frames :
    pages[f].id \in Pages /\ ~pages[f].dirty /\ (\A c \in Holders(f) : ~handle[c].dirty)
      => pages[f].data = disk[pages[f].id]

PoolInv ==
  /\ PoolTypeOK
  /\ HeldPageStays
  /\ TableMatchesFrames
  /\ PinsAccounted
  /\ OnlyAllocated
  /\ CleanUnlessHeldDirty

PoolStep ==
  \/ \E c \in Clients, p \in Pages : FetchHit(c, p) \/ \E f \in Frames : FetchMiss(c, p, f)
  \/ \E c \in Clients, f \in Frames, p \in Pages \ allocated : NewPage(c, f, p)
  \/ \E p \in Pages : DeletePage(p) \/ FlushPage(p)
  \/ \E c \in Clients : UnpinPage(c) \/ \E v \in Values : WriteData(c, v)
  \/ Restart

\* What is assumed of the callers of DeletePage.
OnlyAbsentDeleted == Deletable \subseteq {"absent"}

-----------------------------------------------------------------------------
\* The clients that hold a frame are finitely many, and none exactly if they are 0.
LEMMA HoldersFinite ==
  ASSUME NEW f
  PROVE  /\ IsFiniteSet(Holders(f))
         /\ Cardinality(Holders(f)) \in Nat
         /\ Cardinality(Holders(f)) = 0 <=> Holders(f) = {}
<1>1. IsFiniteSet(Holders(f))
  BY Zenon, ClientsAssumption, FS_Subset DEF Holders
<1> QED
  BY Zenon, <1>1, FS_CardinalityType, FS_EmptySet

\* A client that takes a frame is one holder more of that frame and of no other.
LEMMA OneHolderMore ==
  ASSUME PoolTypeOK, NEW c \in Clients, Idle(c), NEW h \in Handle,
         handle' = [handle EXCEPT ![c] = h]
  PROVE  /\ Holders(h.frame)' = Holders(h.frame) \cup {c}
         /\ c \notin Holders(h.frame)
         /\ Cardinality(Holders(h.frame)') = Cardinality(Holders(h.frame)) + 1
         /\ \A f \in Frames : f # h.frame => Holders(f)' = Holders(f)
<1>1. handle'[c] = h /\ h # NoHandle
  BY Zenon, HandleAssumption DEF PoolTypeOK
<1>2. \A d \in Clients : d # c => handle'[d] = handle[d]
  BY Zenon DEF PoolTypeOK
<1>3. Holders(h.frame)' = Holders(h.frame) \cup {c}
  BY Zenon, <1>1, <1>2 DEF Holders, Idle
<1>4. c \notin Holders(h.frame)
  BY Zenon DEF Holders, Idle
<1>5. \A f \in Frames : f # h.frame => Holders(f)' = Holders(f)
  BY Zenon, <1>1, <1>2 DEF Holders, Idle
<1>6. Cardinality(Holders(h.frame) \cup {c}) = Cardinality(Holders(h.frame)) + 1
  BY Zenon, <1>4, HoldersFinite, FS_AddElement
<1> QED
  BY Zenon, <1>3, <1>4, <1>5, <1>6

\* A client that lets go is one holder less of its frame and of no other.
LEMMA OneHolderLess ==
  ASSUME PoolTypeOK, NEW c \in Clients, ~Idle(c), NEW g, g = handle[c].frame,
         handle' = [handle EXCEPT ![c] = NoHandle]
  PROVE  /\ Holders(g)' = Holders(g) \ {c}
         /\ c \in Holders(g)
         /\ Cardinality(Holders(g)') = Cardinality(Holders(g)) - 1
         /\ \A f \in Frames : f # g => Holders(f)' = Holders(f)
<1>1. handle'[c] = NoHandle /\ \A d \in Clients : d # c => handle'[d] = handle[d]
  BY Zenon DEF PoolTypeOK
<1>2. Holders(g)' = Holders(g) \ {c}
  BY Zenon, <1>1 DEF Holders, Idle
<1>3. c \in Holders(g)
  BY Zenon DEF Holders
<1>4. \A f \in Frames : f # g => Holders(f)' = Holders(f)
  BY Zenon, <1>1 DEF Holders, Idle
<1>5. Cardinality(Holders(g) \ {c}) = Cardinality(Holders(g)) - 1
  BY Zenon, <1>3, HoldersFinite, FS_RemoveElement
<1> QED
  BY Zenon, <1>2, <1>3, <1>4, <1>5

\* What the parts of the invariant say of one frame: its page, its holders and whether
\* it is free, evictable or pinned.
LEMMA FrameFacts ==
  ASSUME PoolInv, NEW f \in Frames
  PROVE  /\ pages[f] \in Frame
         /\ pages[f].pin = 0 <=> Holders(f) = {}
         /\ f \in evictable <=> f \notin freeList /\ Holders(f) = {}
         /\ f \in freeList => Holders(f) = {}
<1>1. pages[f] \in Frame /\ pages[f].pin = Cardinality(Holders(f))
  BY Zenon DEF PoolInv, PoolTypeOK, PinsAccounted
<1>2. pages[f].pin = 0 <=> Holders(f) = {}
  BY Zenon, <1>1, HoldersFinite
<1>3. f \in freeList => Holders(f) = {}
  <2> SUFFICES ASSUME f \in freeList, NEW c \in Holders(f) PROVE FALSE
    BY Zenon
  <2>1. c \in Clients /\ ~Idle(c) /\ handle[c].frame = f /\ handle[c].page \in Pages
    BY Zenon DEF Holders, PoolInv, PoolTypeOK, Idle, Handle
  <2>2. pages[f].id = handle[c].page /\ pages[f].id = NoPage
    BY Zenon, <2>1 DEF PoolInv, HeldPageStays, TableMatchesFrames
  <2> QED
    BY Zenon, <2>1, <2>2, NumPagesAssumption DEF Pages
<1> QED
  BY Zenon, <1>1, <1>2, <1>3 DEF PoolInv, PinsAccounted

\* A client that holds a page holds the frame page_table_ has for it.
LEMMA HandleFacts ==
  ASSUME PoolInv, NEW c \in Clients, ~Idle(c)
  PROVE  /\ handle[c] \in Handle
         /\ handle[c].page \in Pages /\ handle[c].frame \in Frames
         /\ pages[handle[c].frame].id = handle[c].page
         /\ pageTable[handle[c].page] = handle[c].frame
         /\ handle[c].page \in allocated
         /\ c \in Holders(handle[c].frame)
<1>1. handle[c] \in Handle
  BY Zenon DEF PoolInv, PoolTypeOK, Idle
<1>2. handle[c].page \in Pages /\ handle[c].frame \in Frames
  BY Zenon, <1>1 DEF Handle
<1>3. pages[handle[c].frame].id = handle[c].page
  BY Zenon DEF PoolInv, HeldPageStays
<1>4. pageTable[handle[c].page] = handle[c].frame
  BY <1>2, <1>3 DEF PoolInv, TableMatchesFrames
<1>5. handle[c].page \in allocated
  BY Zenon, <1>2, <1>4, FramesAssumption DEF PoolInv, OnlyAllocated, Resident
<1> QED
  BY Zenon, <1>1, <1>2, <1>3, <1>4, <1>5 DEF Holders

\* The frame page_table_ has for a page in memory holds that page.
LEMMA TableFacts ==
  ASSUME PoolInv, NEW p \in Pages, Resident(p)
  PROVE  /\ pageTable[p] \in Frames
         /\ pages[pageTable[p]].id = p
         /\ pageTable[p] \notin freeList
         /\ p \in allocated
<1>1. pageTable[p] \in Frames
  BY Zenon DEF PoolInv, PoolTypeOK, Resident
<1>2. pages[pageTable[p]].id = p
  BY Zenon, <1>1 DEF PoolInv, TableMatchesFrames
<1>3. p # NoPage
  BY Zenon, NumPagesAssumption DEF Pages
<1> QED
  BY Zenon, <1>1, <1>2, <1>3 DEF PoolInv, TableMatchesFrames, OnlyAllocated

-----------------------------------------------------------------------------
\* FetchPage of a page in memory: its frame has a holder more and is not evictable.
LEMMA FetchHitKeeps ==
  ASSUME PoolInv, NEW c \in Clients, NEW p \in Pages, FetchHit(c, p)
  PROVE  PoolInv'
<1>1. PICK f \in Frames : f = pageTable[p] /\ pages[f].id = p /\ f \notin freeList
  BY Zenon, TableFacts DEF FetchHit
<1> DEFINE h == [page |-> p, frame |-> f, dirty |-> FALSE]
<1>2. /\ Idle(c)
      /\ pages' = [pages EXCEPT ![f].pin = @ + 1]
      /\ evictable' = evictable \ {f}
      /\ handle' = [handle EXCEPT ![c] = h]
      /\ UNCHANGED <<pageTable, freeList, disk, allocated>>
  BY Zenon, <1>1 DEF FetchHit
<1>3. h \in Handle /\ h.frame = f /\ h.page = p
  BY ZenonT(30) DEF Handle
<1>4. PoolTypeOK
  BY Zenon DEF PoolInv
<1> HIDE DEF h
<1>5. /\ Holders(f)' = Holders(f) \cup {c}
      /\ Cardinality(Holders(f)') = Cardinality(Holders(f)) + 1
      /\ \A g \in Frames : g # f => Holders(g)' = Holders(g)
  BY Zenon, <1>2, <1>3, <1>4, OneHolderMore
<1>6. handle'[c] = h /\ \A d \in Clients : d # c => handle'[d] = handle[d]
  BY Zenon, <1>2, <1>4 DEF PoolTypeOK
<1>7. /\ \A g \in Frames :
           /\ pages'[g] \in Frame
           /\ pages'[g].id = pages[g].id
           /\ pages'[g].data = pages[g].data
           /\ g # f => pages'[g].pin = pages[g].pin
      /\ pages'[f].pin = pages[f].pin + 1
      /\ pages' \in [Frames -> Frame]
  BY <1>2, <1>4, SMTT(30) DEF PoolTypeOK, Frame
<1>8. PoolTypeOK'
  BY Zenon, <1>2, <1>3, <1>4, <1>7 DEF PoolTypeOK
<1>9. HeldPageStays'
  <2> SUFFICES ASSUME NEW d \in Clients, ~Idle(d)'
               PROVE  pages'[handle'[d].frame].id = handle'[d].page
    BY Zenon DEF HeldPageStays
  <2>1. CASE d = c
    BY ZenonT(30), <1>1, <1>3, <1>6, <1>7, <2>1
  <2>2. CASE d # c
    <3>1. ~Idle(d) /\ handle'[d] = handle[d]
      BY Zenon, <1>6, <2>2 DEF Idle
    <3> QED
      BY <1>7, <3>1, HandleFacts
  <2> QED
    BY Zenon, <2>1, <2>2
<1>10. TableMatchesFrames' /\ OnlyAllocated'
  BY <1>2, <1>7 DEF PoolInv, TableMatchesFrames, OnlyAllocated, Resident
<1>11. PinsAccounted'
  <2>1. \A g \in Frames : pages'[g].pin = Cardinality(Holders(g))'
    <3>1. \A g \in Frames : pages[g].pin = Cardinality(Holders(g))
      BY Zenon DEF PoolInv, PinsAccounted
    <3> QED
      BY <1>5, <1>7, <3>1, ZenonT(30)
  <2>2. pages'[f].pin # 0
    BY <1>4, <1>7 DEF PoolTypeOK, Frame
  <2>3. evictable' = {g \in Frames \ freeList' : pages'[g].pin = 0}
    BY Zenon, <1>2, <1>7, <2>2 DEF PoolInv, PinsAccounted
  <2> QED
    BY Zenon, <2>1, <2>3 DEF PinsAccounted
<1>12. CleanUnlessHeldDirty'
  <2> SUFFICES ASSUME NEW g \in Frames, pages[g].id \in Pages, ~pages[g].dirty,
                      \A d \in Holders(g)' : ~handle'[d].dirty
               PROVE  pages[g].data = disk[pages[g].id]
    BY <1>2, <1>7 DEF CleanUnlessHeldDirty
  <2>1. ASSUME NEW d \in Holders(g) PROVE ~handle[d].dirty
    <3>1. d # c /\ d \in Clients
      BY Zenon, <1>2 DEF Holders
    <3>2. d \in Holders(g)'
      BY Zenon, <1>5, <2>1
    <3> QED
      BY Zenon, <1>6, <3>1, <3>2
  <2> QED
    BY Zenon, <2>1 DEF PoolInv, CleanUnlessHeldDirty
<1> QED
  BY Zenon, <1>8, <1>9, <1>10, <1>11, <1>12 DEF PoolInv

\* UnpinPage: the frame has a holder less, becomes evictable with the last one, and
\* is marked dirty if its holder says so.
LEMMA UnpinPageKeeps ==
  ASSUME PoolInv, NEW c \in Clients, UnpinPage(c)
  PROVE  PoolInv' /\ \A g \in Frames : pages'[g].data = pages[g].data
<1>1. PICK f \in Frames, p \in Pages :
        /\ f = handle[c].frame /\ p = handle[c].page /\ pageTable[p] = f /\ pages[f].id = p
        /\ c \in Holders(f) /\ ~Idle(c)
  BY Zenon, HandleFacts DEF UnpinPage
<1>2. pages[f].pin > 0 /\ f # NoFrame /\ f \notin freeList /\ pages[f] \in Frame
  BY <1>1, FrameFacts, FramesAssumption DEF Frame
<1>3. /\ pages' = [pages EXCEPT ![f].pin = @ - 1, ![f].dirty = @ \/ handle[c].dirty]
      /\ evictable' = IF pages[f].pin = 1 THEN evictable \cup {f} ELSE evictable
      /\ handle' = [handle EXCEPT ![c] = NoHandle]
      /\ UNCHANGED <<pageTable, freeList, disk, allocated>>
  BY Zenon, <1>1, <1>2 DEF UnpinPage
<1>4. PoolTypeOK
  BY Zenon DEF PoolInv
<1>5. /\ Holders(f)' = Holders(f) \ {c}
      /\ Cardinality(Holders(f)') = Cardinality(Holders(f)) - 1
      /\ \A g \in Frames : g # f => Holders(g)' = Holders(g)
  BY Zenon, <1>1, <1>3, <1>4, OneHolderLess
<1>6. handle'[c] = NoHandle /\ \A d \in Clients : d # c => handle'[d] = handle[d]
  BY Zenon, <1>3, <1>4 DEF PoolTypeOK
<1>7. handle[c].dirty \in BOOLEAN /\ pages[f].dirty \in BOOLEAN
  BY Zenon, <1>1, <1>2, HandleFacts DEF Handle, Frame
<1>8. /\ \A g \in Frames :
           /\ pages'[g].id = pages[g].id
           /\ pages'[g].data = pages[g].data
           /\ g # f => pages'[g] = pages[g]
      /\ pages'[f].pin = pages[f].pin - 1
      /\ pages'[f].dirty <=> pages[f].dirty \/ handle[c].dirty
      /\ pages' \in [Frames -> Frame]
  <2>1. \A g \in Frames : g # f => pages'[g] = pages[g]
    BY Zenon, <1>3, <1>4 DEF PoolTypeOK
  <2>2. pages'[f].id = pages[f].id /\ pages'[f].data = pages[f].data
    BY Zenon, <1>2, <1>3, <1>4 DEF PoolTypeOK, Frame
  <2>3. pages'[f].pin = pages[f].pin - 1
    BY Zenon, <1>2, <1>3, <1>4 DEF PoolTypeOK, Frame
  <2>4. pages'[f].dirty <=> pages[f].dirty \/ handle[c].dirty
    BY Zenon, <1>2, <1>3, <1>4, <1>7 DEF PoolTypeOK, Frame
  <2>5. pages'[f] \in Frame
    <3> DEFINE n == pages[f].pin - 1
               d == pages[f].dirty \/ handle[c].dirty
    <3>1. n \in Nat
      BY <1>2 DEF Frame
    <3>2. d \in BOOLEAN
      BY Zenon, <1>7
    <3>3. pages' = [pages EXCEPT ![f] = [pages[f] EXCEPT !.pin = n, !.dirty = d]]
      BY <1>3, <1>4, ZenonT(30) DEF PoolTypeOK
    <3> HIDE DEF n, d
    <3>4. [pages[f] EXCEPT !.pin = n, !.dirty = d] \in Frame
      BY <1>2, <3>1, <3>2, ZenonT(30) DEF Frame
    <3> QED
      BY Zenon, <1>4, <3>3, <3>4 DEF PoolTypeOK
  <2>6. pages' \in [Frames -> Frame]
    BY Zenon, <1>3, <1>4, <2>1, <2>5 DEF PoolTypeOK
  <2> QED
    BY Zenon, <2>1, <2>2, <2>3, <2>4, <2>6
<1>9. PoolTypeOK'
  BY Zenon, <1>3, <1>4, <1>8 DEF PoolTypeOK
<1>10. HeldPageStays'
  <2> SUFFICES ASSUME NEW d \in Clients, ~Idle(d)'
               PROVE  pages'[handle'[d].frame].id = handle'[d].page
    BY Zenon DEF HeldPageStays
  <2>1. ~Idle(d) /\ handle'[d] = handle[d]
    BY Zenon, <1>6 DEF Idle
  <2> QED
    BY <1>8, <2>1, HandleFacts
<1>11. TableMatchesFrames' /\ OnlyAllocated'
  BY <1>3, <1>8 DEF PoolInv, TableMatchesFrames, OnlyAllocated, Resident
<1>12. PinsAccounted'
  <2>1. \A g \in Frames : pages'[g].pin = Cardinality(Holders(g))'
    <3>1. \A g \in Frames : pages[g].pin = Cardinality(Holders(g))
      BY Zenon DEF PoolInv, PinsAccounted
    <3> QED
      BY <1>5, <1>8, <3>1, ZenonT(30)
  <2>2. pages'[f].pin = 0 <=> pages[f].pin = 1
    BY <1>2, <1>8 DEF Frame
  <2>3. evictable' = {g \in Frames \ freeList' : pages'[g].pin = 0}
    BY <1>2, <1>3, <1>8, <2>2 DEF PoolInv, PinsAccounted
  <2> QED
    BY Zenon, <2>1, <2>3 DEF PinsAccounted
<1>13. CleanUnlessHeldDirty'
  <2> SUFFICES ASSUME NEW g \in Frames, pages[g].id \in Pages, ~pages'[g].dirty,
                      \A d \in Holders(g)' : ~handle'[d].dirty
               PROVE  pages[g].data = disk[pages[g].id]
    BY <1>3, <1>8 DEF CleanUnlessHeldDirty
  <2>1. ~pages[g].dirty
    BY Zenon, <1>7, <1>8
  <2>2. ASSUME NEW d \in Holders(g) PROVE ~handle[d].dirty
    <3>1. CASE d = c
      BY Zenon, <1>1, <1>7, <1>8, <2>2, <3>1 DEF Holders
    <3>2. CASE d # c
      BY Zenon, <1>5, <1>6, <2>2, <3>2 DEF Holders
    <3> QED
      BY Zenon, <3>1, <3>2
  <2> QED
    BY Zenon, <2>1, <2>2 DEF PoolInv, CleanUnlessHeldDirty
<1> QED
  BY ZenonT(30), <1>8, <1>9, <1>10, <1>11, <1>12, <1>13 DEF PoolInv

\* A write through the pointer reaches the frame of the page the client holds, and the
\* client will say so when it unpins it.
LEMMA WriteDataKeeps ==
  ASSUME PoolInv, NEW c \in Clients, NEW v \in Values, WriteData(c, v)
  PROVE  /\ PoolInv'
         /\ \A g \in Frames :
              pages'[g].data = IF g = handle[c].frame THEN v ELSE pages[g].data
<1>1. PICK f \in Frames : f = handle[c].frame /\ ~Idle(c) /\ c \in Holders(f)
  BY Zenon, HandleFacts DEF WriteData
<1>2. /\ pages' = [pages EXCEPT ![f].data = v]
      /\ handle' = [handle EXCEPT ![c].dirty = TRUE]
      /\ UNCHANGED <<pageTable, freeList, evictable, disk, allocated>>
  BY Zenon, <1>1 DEF WriteData
<1>3. PoolTypeOK /\ handle[c] \in Handle
  BY Zenon, <1>1, HandleFacts DEF PoolInv
<1>4. /\ \A g \in Frames :
           /\ pages'[g].id = pages[g].id
           /\ pages'[g].pin = pages[g].pin
           /\ g # f => pages'[g] = pages[g]
      /\ pages'[f].data = v
  BY ZenonT(30), <1>2, <1>3, SMTT(30) DEF PoolTypeOK, Frame
<1>5. pages' \in [Frames -> Frame]
  <2>1. pages' = [pages EXCEPT ![f] = [pages[f] EXCEPT !.data = v]]
    BY <1>2, <1>3, ZenonT(30) DEF PoolTypeOK
  <2>2. [pages[f] EXCEPT !.data = v] \in Frame
    BY <1>3, ZenonT(30) DEF PoolTypeOK, Frame
  <2> QED
    BY Zenon, <1>3, <2>1, <2>2 DEF PoolTypeOK
<1>6. /\ handle'[c] \in Handle
      /\ handle'[c].page = handle[c].page /\ handle'[c].frame = handle[c].frame
      /\ handle'[c].dirty
      /\ \A d \in Clients : d # c => handle'[d] = handle[d]
  <2>1. handle' = [handle EXCEPT ![c] = [handle[c] EXCEPT !.dirty = TRUE]]
    BY <1>2, <1>3, ZenonT(30) DEF PoolTypeOK
  <2>2. handle'[c] = [handle[c] EXCEPT !.dirty = TRUE]
        /\ \A d \in Clients : d # c => handle'[d] = handle[d]
    BY <1>3, <2>1, ZenonT(30) DEF PoolTypeOK
  <2>3. [handle[c] EXCEPT !.dirty = TRUE] \in Handle
    BY <1>3, ZenonT(30) DEF Handle
  <2>4. [handle[c] EXCEPT !.dirty = TRUE].dirty
        /\ [handle[c] EXCEPT !.dirty = TRUE].page = handle[c].page
        /\ [handle[c] EXCEPT !.dirty = TRUE].frame = handle[c].frame
    BY <1>3, ZenonT(30) DEF Handle
  <2> QED
    BY <2>2, <2>3, <2>4, ZenonT(30)
<1>7. \A d \in Clients : Idle(d)' <=> Idle(d)
  BY ZenonT(30), <1>1, <1>6, HandleAssumption DEF Idle
<1>8. \A g \in Frames : Holders(g)' = Holders(g)
  BY ZenonT(30), <1>6, <1>7 DEF Holders
<1>9. PoolTypeOK'
  <2>1. handle' \in [Clients -> Handle \cup {NoHandle}]
    BY Zenon, <1>2, <1>3, <1>6 DEF PoolTypeOK
  <2> QED
    BY Zenon, <1>2, <1>3, <1>5, <2>1 DEF PoolTypeOK
<1>10. HeldPageStays'
  <2> SUFFICES ASSUME NEW d \in Clients, ~Idle(d)'
               PROVE  pages'[handle'[d].frame].id = handle'[d].page
    BY Zenon DEF HeldPageStays
  <2>1. ~Idle(d) /\ handle'[d].frame = handle[d].frame /\ handle'[d].page = handle[d].page
    BY Zenon, <1>6, <1>7
  <2> QED
    BY <1>4, <2>1, HandleFacts
<1>11. TableMatchesFrames' /\ OnlyAllocated'
  BY <1>2, <1>4 DEF PoolInv, TableMatchesFrames, OnlyAllocated, Resident
<1>12. PinsAccounted'
  BY ZenonT(30), <1>2, <1>4, <1>8 DEF PoolInv, PinsAccounted
<1>13. CleanUnlessHeldDirty'
  <2> SUFFICES ASSUME NEW g \in Frames, pages'[g].id \in Pages, ~pages'[g].dirty,
                      \A d \in Holders(g)' : ~handle'[d].dirty
               PROVE  pages'[g].data = disk'[pages'[g].id]
    BY Zenon DEF CleanUnlessHeldDirty
  <2>1. g # f
    BY Zenon, <1>1, <1>6, <1>8
  <2>2. pages'[g] = pages[g] /\ disk' = disk
    BY Zenon, <1>2, <1>4, <2>1
  <2>3. \A d \in Holders(g) : ~handle[d].dirty
    BY Zenon, <1>1, <1>6, <1>8, <2>1 DEF Holders
  <2> QED
    BY Zenon, <2>2, <2>3 DEF PoolInv, CleanUnlessHeldDirty
<1> QED
  BY ZenonT(30), <1>1, <1>4, <1>9, <1>10, <1>11, <1>12, <1>13 DEF PoolInv

\* FlushPage makes the file agree with the frame, so the frame is clean whoever holds it.
LEMMA FlushPageKeeps ==
  ASSUME PoolInv, NEW p \in Pages, FlushPage(p)
  PROVE  PoolInv' /\ \A g \in Frames : pages'[g].data = pages[g].data
<1>1. PICK f \in Frames : f = pageTable[p] /\ pages[f].id = p
  BY Zenon, TableFacts DEF FlushPage
<1>2. /\ disk' = [disk EXCEPT ![p] = pages[f].data]
      /\ pages' = [pages EXCEPT ![f].dirty = FALSE]
      /\ UNCHANGED <<pageTable, freeList, evictable, allocated, handle>>
  BY Zenon, <1>1 DEF FlushPage
<1>3. PoolTypeOK
  BY Zenon DEF PoolInv
<1>4. \A g \in Frames :
        /\ pages'[g].id = pages[g].id
        /\ pages'[g].pin = pages[g].pin
        /\ pages'[g].data = pages[g].data
        /\ g # f => pages'[g] = pages[g]
  BY ZenonT(30), <1>2, <1>3, SMTT(30) DEF PoolTypeOK, Frame
<1>5. pages' \in [Frames -> Frame]
  <2>1. pages' = [pages EXCEPT ![f] = [pages[f] EXCEPT !.dirty = FALSE]]
    BY <1>2, <1>3, ZenonT(30) DEF PoolTypeOK
  <2>2. [pages[f] EXCEPT !.dirty = FALSE] \in Frame
    BY <1>3, ZenonT(30) DEF PoolTypeOK, Frame
  <2> QED
    BY Zenon, <1>3, <2>1, <2>2 DEF PoolTypeOK
<1>6. \A g \in Frames : Holders(g)' = Holders(g)
  BY Zenon, <1>2 DEF Holders, Idle
<1>7. PoolTypeOK'
  <2>1. pages[f].data \in Values
    BY Zenon, <1>3 DEF PoolTypeOK, Frame
  <2>2. disk' \in [Pages -> Values]
    BY Zenon, <1>2, <1>3, <2>1 DEF PoolTypeOK
  <2> QED
    BY Zenon, <1>2, <1>3, <1>5, <2>2 DEF PoolTypeOK
<1>8. HeldPageStays'
  BY <1>2, <1>4, HandleFacts DEF HeldPageStays, Idle
<1>9. TableMatchesFrames' /\ OnlyAllocated'
  BY <1>2, <1>4 DEF PoolInv, TableMatchesFrames, OnlyAllocated, Resident
<1>10. PinsAccounted'
  BY ZenonT(30), <1>2, <1>4, <1>6 DEF PoolInv, PinsAccounted
<1>11. CleanUnlessHeldDirty'
  <2> SUFFICES ASSUME NEW g \in Frames, pages'[g].id \in Pages, ~pages'[g].dirty,
                      \A d \in Holders(g)' : ~handle'[d].dirty
               PROVE  pages'[g].data = disk'[pages'[g].id]
    BY Zenon DEF CleanUnlessHeldDirty
  <2>1. CASE g = f
    BY <1>1, <1>2, <1>3, <1>4, <2>1 DEF PoolTypeOK
  <2>2. CASE g # f
    <3>1. pages'[g] = pages[g] /\ pages[g].id # p
      BY <1>1, <1>4, <2>2 DEF PoolInv, TableMatchesFrames
    <3>2. disk'[pages[g].id] = disk[pages[g].id]
      BY Zenon, <1>2, <1>3, <3>1 DEF PoolTypeOK
    <3>3. \A d \in Holders(g) : ~handle[d].dirty
      BY Zenon, <1>2, <1>6
    <3> QED
      BY Zenon, <3>1, <3>2, <3>3 DEF PoolInv, CleanUnlessHeldDirty
  <2> QED
    BY Zenon, <2>1, <2>2
<1> QED
  BY Zenon, <1>4, <1>7, <1>8, <1>9, <1>10, <1>11 DEF PoolInv

\* DeletePage of a page that is not in memory touches nothing but the disk manager.
LEMMA AbsentDeleted ==
  ASSUME OnlyAbsentDeleted, NEW p \in Pages, DeletePage(p)
  PROVE  /\ ~Resident(p) /\ p \in allocated
         /\ allocated' = allocated \ {p}
         /\ UNCHANGED <<pageTable, pages, freeList, evictable, disk, handle>>
<1>1. Standing(p) = "absent"
  BY Zenon DEF DeletePage, OnlyAbsentDeleted
<1>2. ~Resident(p)
  BY Zenon, <1>1 DEF Standing
<1> QED
  BY Zenon, <1>2 DEF DeletePage

\* DeletePage keeps the pool's invariant when it is called on pages no frame holds.
LEMMA DeletePageKeeps ==
  ASSUME PoolInv, OnlyAbsentDeleted, NEW p \in Pages, DeletePage(p)
  PROVE  PoolInv'
<1>1. /\ ~Resident(p) /\ allocated' = allocated \ {p}
      /\ UNCHANGED <<pageTable, pages, freeList, evictable, disk, handle>>
  BY Zenon, AbsentDeleted
<1>2. PoolTypeOK' /\ HeldPageStays' /\ TableMatchesFrames' /\ PinsAccounted' /\ CleanUnlessHeldDirty'
  BY <1>1 DEF PoolInv, PoolTypeOK, HeldPageStays, TableMatchesFrames, PinsAccounted,
              CleanUnlessHeldDirty, Holders, Idle
<1>3. OnlyAllocated'
  BY Zenon, <1>1 DEF PoolInv, OnlyAllocated, Resident
<1> QED
  BY Zenon, <1>2, <1>3 DEF PoolInv

\* The pool a file is opened with is empty, and nobody holds a page.
Emptied ==
  /\ pageTable = NoMapping /\ pages = EmptyFrames /\ freeList = Frames /\ evictable = {}
  /\ \A c \in Clients : Idle(c)
  /\ handle \in [Clients -> Handle \cup {NoHandle}]
  /\ disk \in [Pages -> Values]
  /\ allocated \subseteq Pages

\* Such a pool satisfies the invariant, whatever the file holds.
LEMMA EmptyPool == Emptied => PoolInv
<1> SUFFICES ASSUME Emptied PROVE PoolInv
  BY Zenon
<1> USE DEF Emptied
<1>1. EmptyPage \in Frame /\ EmptyPage.id = NoPage /\ EmptyPage.pin = 0
  BY ValuesAssumption, ZenonT(30) DEF EmptyPage, Frame
<1>2. \A f \in Frames : pages[f] = EmptyPage
  BY Zenon DEF EmptyFrames
<1>3. NoPage \notin Pages
  BY Zenon, NumPagesAssumption DEF Pages
<1>4. PoolTypeOK
  BY Zenon, <1>1 DEF PoolTypeOK, NoMapping, EmptyFrames
<1>5. \A f \in Frames : Holders(f) = {}
  BY Zenon DEF Holders
<1>6. HeldPageStays /\ OnlyAllocated
  BY Zenon DEF HeldPageStays, OnlyAllocated, Resident, NoMapping
<1>7. TableMatchesFrames
  BY ZenonT(30), <1>1, <1>2, <1>3, FramesAssumption DEF TableMatchesFrames, NoMapping
<1>8. PinsAccounted
  BY ZenonT(30), <1>1, <1>2, <1>5, HoldersFinite DEF PinsAccounted
<1>9. CleanUnlessHeldDirty
  BY Zenon, <1>1, <1>2, <1>3 DEF CleanUnlessHeldDirty
<1> QED
  BY Zenon, <1>4, <1>6, <1>7, <1>8, <1>9 DEF PoolInv

\* A restart flushes every resident page and starts from empty frames: the invariant stays.
LEMMA RestartKeeps == ASSUME PoolInv, Restart PROVE PoolInv'
<1>1. \A p \in Pages : Resident(p) => pages[pageTable[p]].data \in Values
  BY Zenon, TableFacts DEF PoolInv, PoolTypeOK, Frame
<1>2. disk' \in [Pages -> Values]
  BY Zenon, <1>1 DEF Restart, PoolInv, PoolTypeOK
<1>3. Emptied'
  BY Zenon, <1>2 DEF Emptied, Restart, PoolInv, PoolTypeOK, Idle
<1> QED
  BY <1>3, EmptyPool, PTL

\* The initial state satisfies the invariant.
LEMMA PoolInit == Init => PoolInv
<1> SUFFICES ASSUME Init PROVE PoolInv
  BY Zenon
<1>1. Emptied
  BY Zenon, ValuesAssumption DEF Emptied, Init, Idle
<1> QED
  BY Zenon, <1>1, EmptyPool

-----------------------------------------------------------------------------
\* TryToFindFreePage finds a frame no one holds.
LEMMA ReplacementUnheld ==
  ASSUME PoolInv, NEW f \in Frames, f \in Replacement
  PROVE  Holders(f) = {} /\ pages[f].pin = 0
BY Zenon, FrameFacts DEF Replacement

\* FetchPage and NewPage put a page into a frame that no one holds: the page that was in
\* it is in the file then, and the new page has one holder.
LEMMA InstallKeeps ==
  ASSUME PoolInv, NEW c \in Clients, NEW p \in Pages, NEW f \in Frames,
         NEW v \in Values, NEW b \in BOOLEAN,
         Idle(c), ~Resident(p), f \in Replacement, Take(f), WriteBack(f),
         pageTable' = Remap(f, p),
         pages' = [pages EXCEPT ![f] = [id |-> p, pin |-> 1, dirty |-> FALSE, data |-> v]],
         handle' = [handle EXCEPT ![c] = [page |-> p, frame |-> f, dirty |-> b]],
         b \/ v = disk'[p],
         allocated' = allocated \cup {p}
  PROVE  PoolInv'
<1> DEFINE h == [page |-> p, frame |-> f, dirty |-> b]
           new == [id |-> p, pin |-> 1, dirty |-> FALSE, data |-> v]
<1>1. PoolTypeOK
  BY Zenon DEF PoolInv
<1>2. h \in Handle /\ h.frame = f /\ h.page = p
  BY ZenonT(30) DEF Handle
<1>0. h.dirty = b
  BY Zenon
<1>3. new \in Frame /\ new.id = p /\ new.pin = 1 /\ new.data = v
  <2>1. 1 \in Nat
    BY Zenon
  <2> QED
    BY <2>1, ZenonT(30) DEF Frame
<1>4. pages' = [pages EXCEPT ![f] = new] /\ handle' = [handle EXCEPT ![c] = h]
  BY Zenon
<1> HIDE DEF h, new
<1>5. pages'[f] = new /\ (\A g \in Frames : g # f => pages'[g] = pages[g]) /\ pages' \in [Frames -> Frame]
  BY ZenonT(30), <1>1, <1>3, <1>4 DEF PoolTypeOK
<1>6. handle'[c] = h /\ \A d \in Clients : d # c => handle'[d] = handle[d]
  BY Zenon, <1>1, <1>4 DEF PoolTypeOK
<1>7. Holders(f) = {} /\ pages[f].pin = 0
  BY Zenon, ReplacementUnheld
<1>8. /\ Holders(f)' = Holders(f) \cup {c}
      /\ Cardinality(Holders(f)') = Cardinality(Holders(f)) + 1
      /\ \A g \in Frames : g # f => Holders(g)' = Holders(g)
  <2>1. /\ Holders(h.frame)' = Holders(h.frame) \cup {c}
        /\ Cardinality(Holders(h.frame)') = Cardinality(Holders(h.frame)) + 1
        /\ \A g \in Frames : g # h.frame => Holders(g)' = Holders(g)
    BY <1>1, <1>2, <1>4, OneHolderMore, ZenonT(30)
  <2> QED
    BY <1>2, <2>1, ZenonT(30)
<1>9. /\ freeList' = freeList \ {f}
      /\ evictable' = evictable \ {f}
  BY Zenon, FrameFacts DEF Take, Replacement, PoolInv, PinsAccounted
<1>10. \A q \in Pages : pageTable'[q] = IF q = p THEN f ELSE IF q = pages[f].id THEN NoFrame ELSE pageTable[q]
  BY Zenon DEF Remap
<1>11. disk' \in [Pages -> Values]
       /\ \A q \in Pages : q # pages[f].id => disk'[q] = disk[q]
  <2>1. pages[f].data \in Values
    BY Zenon, <1>1 DEF PoolTypeOK, Frame
  <2> QED
    BY Zenon, <1>1, <2>1 DEF WriteBack, PoolTypeOK
<1>12. PoolTypeOK'
  <2>1. handle' \in [Clients -> Handle \cup {NoHandle}]
    BY <1>1, <1>2, <1>4 DEF PoolTypeOK
  <2>2. pageTable' \in [Pages -> Frames \cup {NoFrame}]
    BY Zenon, <1>1 DEF PoolTypeOK, Remap
  <2> QED
    BY Zenon, <1>1, <1>5, <1>9, <1>11, <2>1, <2>2 DEF PoolTypeOK
<1>13. HeldPageStays'
  <2> SUFFICES ASSUME NEW d \in Clients, ~Idle(d)'
               PROVE  pages'[handle'[d].frame].id = handle'[d].page
    BY Zenon DEF HeldPageStays
  <2>1. CASE d = c
    BY <1>2, <1>3, <1>5, <1>6, <2>1
  <2>2. CASE d # c
    <3>1. ~Idle(d) /\ handle'[d] = handle[d]
      BY Zenon, <1>6, <2>2 DEF Idle
    <3>2. handle[d].frame # f /\ handle[d].frame \in Frames
      BY Zenon, <1>7, <3>1, HandleFacts
    <3> QED
      BY <1>5, <3>1, <3>2, HandleFacts
  <2> QED
    BY Zenon, <2>1, <2>2
<1>14. TableMatchesFrames'
  <2>1. \A g \in Frames : pages[g].id # p
    BY FramesAssumption DEF PoolInv, TableMatchesFrames, Resident
  <2>2. ASSUME NEW q \in Pages, NEW g \in Frames PROVE pageTable'[q] = g <=> pages'[g].id = q
    <3>1. CASE q = p
      BY ZenonT(30), <1>3, <1>5, <1>10, <2>1, <3>1
    <3>2. CASE q # p /\ g = f
      <4>1. pages'[g].id # q
        BY Zenon, <1>3, <1>5, <3>2
      <4>2. pageTable[q] = f <=> pages[f].id = q
        BY Zenon DEF PoolInv, TableMatchesFrames
      <4> QED
        BY ZenonT(30), <1>10, <3>2, <4>1, <4>2, FramesAssumption
    <3>3. CASE q # p /\ g # f
      <4>1. pageTable[q] = g <=> pages[g].id = q
        BY Zenon DEF PoolInv, TableMatchesFrames
      <4>2. pageTable[q] = f <=> pages[f].id = q
        BY Zenon DEF PoolInv, TableMatchesFrames
      <4> QED
        BY <1>5, <1>10, <3>3, <4>1, <4>2, FramesAssumption
    <3> QED
      BY Zenon, <3>1, <3>2, <3>3
  <2>3. \A g \in Frames : g \in freeList' <=> pages'[g].id = NoPage
    <3>1. p # NoPage
      BY Zenon, NumPagesAssumption DEF Pages
    <3> QED
      BY ZenonT(30), <1>3, <1>5, <1>9, <3>1 DEF PoolInv, TableMatchesFrames
  <2> QED
    BY Zenon, <2>2, <2>3 DEF TableMatchesFrames
<1>15. OnlyAllocated'
  BY Zenon, <1>10 DEF PoolInv, OnlyAllocated, Resident
<1>16. PinsAccounted'
  <2>1. ASSUME NEW g \in Frames PROVE pages'[g].pin = Cardinality(Holders(g))'
    <3>1. pages[g].pin = Cardinality(Holders(g))
      BY Zenon DEF PoolInv, PinsAccounted
    <3>2. CASE g = f
      <4>1. Cardinality(Holders(f)') = 1
        BY <1>7, <1>8, <3>1, <3>2
      <4> QED
        BY <1>3, <1>5, <3>2, <4>1, ZenonT(30)
    <3>3. CASE g # f
      BY Zenon, <1>5, <1>8, <3>1, <3>3
    <3> QED
      BY Zenon, <3>2, <3>3
  <2>2. evictable' = {g \in Frames \ freeList' : pages'[g].pin = 0}
    BY <1>3, <1>5, <1>9 DEF PoolInv, PinsAccounted
  <2> QED
    BY Zenon, <2>1, <2>2 DEF PinsAccounted
<1>17. CleanUnlessHeldDirty'
  <2> SUFFICES ASSUME NEW g \in Frames, pages'[g].id \in Pages, ~pages'[g].dirty,
                      \A d \in Holders(g)' : ~handle'[d].dirty
               PROVE  pages'[g].data = disk'[pages'[g].id]
    BY Zenon DEF CleanUnlessHeldDirty
  <2>1. CASE g = f
    <3>1. c \in Holders(f)'
      BY Zenon, <1>8
    <3>2. ~b
      BY <1>0, <1>6, <2>1, <3>1, ZenonT(30)
    <3> QED
      BY Zenon, <1>3, <1>5, <2>1, <3>2
  <2>2. CASE g # f
    <3>1. pages'[g] = pages[g] /\ pages[g].id # pages[f].id
      BY <1>5, <2>2 DEF PoolInv, TableMatchesFrames
    <3>2. disk'[pages[g].id] = disk[pages[g].id]
      BY Zenon, <1>11, <3>1
    <3>3. \A d \in Holders(g) : ~handle[d].dirty
      BY Zenon, <1>6, <1>8, <2>2 DEF Holders
    <3> QED
      BY Zenon, <3>1, <3>2, <3>3 DEF PoolInv, CleanUnlessHeldDirty
  <2> QED
    BY Zenon, <2>1, <2>2
<1> QED
  BY ZenonT(30), <1>12, <1>13, <1>14, <1>15, <1>16, <1>17 DEF PoolInv

\* FetchPage of a page that is not in memory reads it from the file.
LEMMA FetchMissKeeps ==
  ASSUME PoolInv, NEW c \in Clients, NEW p \in Pages, NEW f \in Frames, FetchMiss(c, p, f)
  PROVE  PoolInv' /\ p \in allocated /\ disk'[p] = disk[p]
<1>1. pages[f].id # p /\ p \in allocated
  BY Zenon, FramesAssumption DEF PoolInv, TableMatchesFrames, FetchMiss, Resident
<1>2. pages[f].data \in Values
  BY Zenon DEF PoolInv, PoolTypeOK, Frame
<1>3. disk'[p] = disk[p] /\ disk'[p] \in Values
  BY Zenon, <1>1, <1>2 DEF FetchMiss, WriteBack, PoolInv, PoolTypeOK
<1>4. allocated' = allocated \cup {p}
  BY Zenon, <1>1 DEF FetchMiss
<1>5. PoolInv'
  BY <1>3, <1>4, InstallKeeps, ZenonT(60) DEF FetchMiss
<1> QED
  BY Zenon, <1>1, <1>3, <1>5

\* NewPage installs a page of zeros, for a page id that is not in use.
LEMMA NewPageKeeps ==
  ASSUME PoolInv, NEW c \in Clients, NEW f \in Frames, NEW p \in Pages \ allocated,
         NewPage(c, f, p)
  PROVE  PoolInv' /\ ~Resident(p)
<1>1. ~Resident(p)
  BY Zenon DEF PoolInv, OnlyAllocated
<1>2. PoolInv'
  BY <1>1, ValuesAssumption, InstallKeeps, ZenonT(60) DEF NewPage
<1> QED
  BY ZenonT(30), <1>1, <1>2

\* Every step of the pool keeps its invariant.
LEMMA PoolStepKeeps == PoolInv /\ OnlyAbsentDeleted /\ PoolStep => PoolInv'
<1> SUFFICES ASSUME PoolInv, OnlyAbsentDeleted, PoolStep PROVE PoolInv'
  BY Zenon
<1>1. ASSUME NEW c \in Clients, NEW p \in Pages, FetchHit(c, p) PROVE PoolInv'
  BY Zenon, <1>1, FetchHitKeeps
<1>2. ASSUME NEW c \in Clients, NEW p \in Pages, NEW f \in Frames, FetchMiss(c, p, f) PROVE PoolInv'
  BY Zenon, <1>2, FetchMissKeeps
<1>3. ASSUME NEW c \in Clients, NEW f \in Frames, NEW p \in Pages \ allocated, NewPage(c, f, p)
      PROVE  PoolInv'
  BY Zenon, <1>3, NewPageKeeps
<1>4. ASSUME NEW p \in Pages, DeletePage(p) \/ FlushPage(p) PROVE PoolInv'
  BY Zenon, <1>4, DeletePageKeeps, FlushPageKeeps
<1>5. ASSUME NEW c \in Clients, UnpinPage(c) PROVE PoolInv'
  BY Zenon, <1>5, UnpinPageKeeps
<1>6. ASSUME NEW c \in Clients, NEW v \in Values, WriteData(c, v) PROVE PoolInv'
  BY Zenon, <1>6, WriteDataKeeps
<1>7. CASE Restart
  BY Zenon, <1>7, RestartKeeps
<1> QED
  BY ZenonT(30), <1>1, <1>2, <1>3, <1>4, <1>5, <1>6, <1>7 DEF PoolStep

\* A step that leaves the pool's variables alone keeps it too.
LEMMA PoolStutters == PoolInv /\ UNCHANGED vars => PoolInv'
BY DEF vars, PoolInv, PoolTypeOK, HeldPageStays, TableMatchesFrames, PinsAccounted,
       OnlyAllocated, CleanUnlessHeldDirty, Holders, Idle, Resident

\* A frame without a holder is clean, as FramesAccounted has it.
LEMMA PoolInvImplies == PoolInv => HeldPageStays /\ FramesAccounted
<1> SUFFICES ASSUME PoolInv PROVE HeldPageStays /\ FramesAccounted
  BY Zenon
<1>1. CleanMatchesDisk
  BY Zenon, FrameFacts DEF CleanMatchesDisk, PoolInv, CleanUnlessHeldDirty
<1> QED
  BY Zenon, <1>1 DEF PoolInv, FramesAccounted

-----------------------------------------------------------------------------
\* The content of an allocated page is that of its frame, or else what is in the file.
LEMMA ContentFacts ==
  ASSUME PoolInv, NEW p \in Pages
  PROVE  /\ p \notin allocated => Content[p] = NoPage
         /\ p \in allocated => Content[p] \in Values /\ Content[p] # NoPage
         /\ p \in allocated /\ ~Resident(p) => Content[p] = disk[p]
         /\ p \in allocated /\ Resident(p) => Content[p] = pages[pageTable[p]].data
<1>1. Resident(p) => pages[pageTable[p]].data \in Values
  BY Zenon, TableFacts DEF PoolInv, PoolTypeOK, Frame
<1>2. disk[p] \in Values
  BY Zenon DEF PoolInv, PoolTypeOK
<1> QED
  BY ZenonT(30), <1>1, <1>2, ValuesAssumption DEF Content

\* Evicting a page and putting another into its frame leaves the content of all pages
\* but the new one: the evicted page is written back, or was clean.
LEMMA InstallContent ==
  ASSUME PoolInv, NEW p \in Pages, NEW f \in Frames, NEW v,
         ~Resident(p), f \in Replacement, WriteBack(f),
         pageTable' = Remap(f, p),
         pages' = [pages EXCEPT ![f] = [id |-> p, pin |-> 1, dirty |-> FALSE, data |-> v]],
         allocated' = allocated \cup {p}
  PROVE  /\ Content'[p] = v
         /\ \A q \in Pages : q # p => Content'[q] = Content[q]
<1>1. pages'[f].data = v /\ \A g \in Frames : g # f => pages'[g] = pages[g]
  BY Zenon DEF PoolInv, PoolTypeOK
<1>2. \A q \in Pages : pageTable'[q] = IF q = p THEN f ELSE IF q = pages[f].id THEN NoFrame ELSE pageTable[q]
  BY Zenon DEF Remap
<1>3. Content'[p] = v
  BY <1>1, <1>2, FramesAssumption DEF Content, Resident
<1>4. ASSUME NEW q \in Pages, q # p PROVE Content'[q] = Content[q]
  <2>1. pages[f].id = q <=> pageTable[q] = f
    BY ZenonT(30) DEF PoolInv, TableMatchesFrames
  <2>2. CASE pages[f].id = q
    <3>1. pageTable'[q] = NoFrame /\ pageTable[q] = f
      BY ZenonT(30), <1>2, <1>4, <2>1, <2>2
    <3>2. disk'[q] = pages[f].data
      <4>1. CASE pages[f].dirty
        BY ZenonT(30), <2>2, <4>1 DEF WriteBack, PoolInv, PoolTypeOK
      <4>2. CASE ~pages[f].dirty
        <5>1. Holders(f) = {}
          BY Zenon, ReplacementUnheld
        <5>2. pages[f].data = disk[q]
          BY Zenon, <2>2, <4>2, <5>1 DEF PoolInv, CleanUnlessHeldDirty
        <5> QED
          BY Zenon, <4>2, <5>2 DEF WriteBack
      <4> QED
        BY Zenon, <4>1, <4>2
    <3> QED
      BY ZenonT(30), <1>4, <3>1, <3>2, FramesAssumption DEF Content, Resident
  <2>3. CASE pages[f].id # q
    <3>1. pageTable'[q] = pageTable[q] /\ pageTable[q] # f
      BY Zenon, <1>2, <1>4, <2>1, <2>3
    <3>2. disk'[q] = disk[q]
      BY Zenon, <2>3 DEF WriteBack, PoolInv, PoolTypeOK
    <3>3. Resident(q) => pages'[pageTable[q]] = pages[pageTable[q]]
      BY Zenon, <1>1, <3>1, TableFacts
    <3> QED
      BY <1>4, <3>1, <3>2, <3>3 DEF Content, Resident
  <2> QED
    BY Zenon, <2>2, <2>3
<1> QED
  BY Zenon, <1>3, <1>4

\* Contents that agree on every page are the same.
LEMMA SameContent ==
  ASSUME \A q \in Pages : Content'[q] = Content[q]
  PROVE  Content' = Content
<1>1. Content = [q \in Pages |-> Content[q]] /\ Content' = [q \in Pages |-> Content'[q]]
  BY Zenon DEF Content
<1> QED
  BY Zenon, <1>1

\* Contents that agree on every page but one differ by a write to that page.
LEMMA OneContent ==
  ASSUME NEW p \in Pages, NEW v, Content'[p] = v,
         \A q \in Pages : q # p => Content'[q] = Content[q]
  PROVE  Content' = [Content EXCEPT ![p] = v]
<1>1. Content = [q \in Pages |-> Content[q]] /\ Content' = [q \in Pages |-> Content'[q]]
  BY Zenon DEF Content
<1>2. [Content EXCEPT ![p] = v] = [q \in Pages |-> IF q = p THEN v ELSE Content[q]]
  BY Zenon, <1>1
<1> QED
  BY Zenon, <1>1, <1>2

\* A step that keeps the data of every frame and what the table, the file and the disk
\* manager say is invisible.
LEMMA InvisibleStep ==
  ASSUME PoolInv, \A g \in Frames : pages'[g].data = pages[g].data,
         pageTable' = pageTable, allocated' = allocated,
         \A q \in Pages : ~Resident(q) => disk'[q] = disk[q]
  PROVE  Content' = Content
<1>1. ASSUME NEW q \in Pages PROVE Content'[q] = Content[q]
  <2>1. Resident(q) => pages'[pageTable[q]].data = pages[pageTable[q]].data
    BY Zenon, TableFacts
  <2> QED
    BY Zenon, <2>1 DEF Content, Resident
<1> QED
  BY Zenon, <1>1, SameContent

\* Every step of the pool is a step of PageStore, or changes nothing a caller can see.
LEMMA PoolStepRefines ==
  PoolInv /\ OnlyAbsentDeleted /\ PoolStep => Store!Next \/ Content' = Content
<1> SUFFICES ASSUME PoolInv, OnlyAbsentDeleted, PoolStep
             PROVE  Store!Next \/ Content' = Content
  BY Zenon
<1>1. ASSUME NEW c \in Clients, NEW p \in Pages, FetchHit(c, p) PROVE Content' = Content
  <2>1. pageTable[p] \in Frames
    BY Zenon, <1>1, TableFacts DEF FetchHit
  <2>2. \A g \in Frames : pages'[g].data = pages[g].data
    BY <1>1, <2>1, SMTT(30) DEF FetchHit, PoolInv, PoolTypeOK, Frame
  <2> QED
    BY ZenonT(30), <1>1, <2>2, InvisibleStep DEF FetchHit
<1>2. ASSUME NEW c \in Clients, NEW p \in Pages, NEW f \in Frames, FetchMiss(c, p, f)
      PROVE  Content' = Content
  <2>1. p \in allocated /\ ~Resident(p) /\ disk'[p] = disk[p] /\ allocated' = allocated \cup {p}
    BY Zenon, <1>2, FetchMissKeeps DEF FetchMiss
  <2>2. /\ Content'[p] = disk'[p]
        /\ \A q \in Pages : q # p => Content'[q] = Content[q]
    BY <1>2, <2>1, InstallContent, ZenonT(60) DEF FetchMiss
  <2>3. Content[p] = disk[p]
    BY Zenon, <2>1, ContentFacts
  <2> QED
    BY Zenon, <2>1, <2>2, <2>3, SameContent
<1>3. ASSUME NEW c \in Clients, NEW f \in Frames, NEW p \in Pages \ allocated, NewPage(c, f, p)
      PROVE  Store!Next
  <2>1. ~Resident(p)
    BY Zenon, <1>3, NewPageKeeps
  <2>2. /\ Content'[p] = Zero
        /\ \A q \in Pages : q # p => Content'[q] = Content[q]
    BY <1>3, <2>1, InstallContent, ZenonT(60) DEF NewPage
  <2>3. Content' = [Content EXCEPT ![p] = Zero]
    BY Zenon, <2>2, OneContent
  <2>4. Content[p] = NoPage
    BY Zenon, ContentFacts
  <2> QED
    BY Zenon, <2>3, <2>4 DEF Store!Create, Store!Next
<1>4. ASSUME NEW p \in Pages, DeletePage(p) PROVE Store!Next
  <2>1. /\ p \in allocated /\ allocated' = allocated \ {p}
        /\ UNCHANGED <<pageTable, pages, disk>>
    BY Zenon, <1>4, AbsentDeleted
  <2>2. Content'[p] = NoPage /\ \A q \in Pages : q # p => Content'[q] = Content[q]
    BY Zenon, <2>1 DEF Content, Resident
  <2>3. Content' = [Content EXCEPT ![p] = NoPage]
    BY Zenon, <2>2, OneContent
  <2>4. Content[p] # NoPage
    BY Zenon, <2>1, ContentFacts
  <2> QED
    BY Zenon, <2>3, <2>4 DEF Store!Delete, Store!Next
<1>5. ASSUME NEW p \in Pages, FlushPage(p) PROVE Content' = Content
  <2>1. \A q \in Pages : ~Resident(q) => disk'[q] = disk[q]
    BY Zenon, <1>5 DEF FlushPage, PoolInv, PoolTypeOK
  <2> QED
    BY Zenon, <1>5, <2>1, FlushPageKeeps, InvisibleStep DEF FlushPage
<1>6. ASSUME NEW c \in Clients, UnpinPage(c) PROVE Content' = Content
  BY Zenon, <1>6, UnpinPageKeeps, InvisibleStep DEF UnpinPage
<1>7. ASSUME NEW c \in Clients, NEW v \in Values, WriteData(c, v) PROVE Store!Next
  <2>1. PICK p \in Pages : /\ p \in allocated
                           /\ pageTable[p] = handle[c].frame
                           /\ pageTable[p] \in Frames
    BY Zenon, <1>7, HandleFacts DEF WriteData
  <2>2. \A g \in Frames : pages'[g].data = IF g = handle[c].frame THEN v ELSE pages[g].data
    BY <1>7, WriteDataKeeps
  <2>3. UNCHANGED <<pageTable, disk, allocated>>
    BY Zenon, <1>7 DEF WriteData
  <2>4. Content'[p] = v
    BY Zenon, <2>1, <2>2, <2>3, FramesAssumption DEF Content, Resident
  <2>5. ASSUME NEW q \in Pages, q # p PROVE Content'[q] = Content[q]
    <3>1. Resident(q) => pageTable[q] \in Frames /\ pageTable[q] # pageTable[p]
      BY <2>1, <2>5, TableFacts DEF Resident, PoolInv, TableMatchesFrames
    <3>2. Resident(q) => pages'[pageTable[q]].data = pages[pageTable[q]].data
      BY Zenon, <2>1, <2>2, <3>1
    <3> QED
      BY Zenon, <2>3, <3>2 DEF Content, Resident
  <2>6. Content' = [Content EXCEPT ![p] = v]
    BY Zenon, <2>1, <2>4, <2>5, OneContent
  <2>7. Content[p] # NoPage
    BY Zenon, <2>1, ContentFacts
  <2> QED
    BY Zenon, <2>1, <2>6, <2>7 DEF Store!Write, Store!Next
<1>8. ASSUME Restart PROVE Content' = Content
  <2>1. ASSUME NEW q \in Pages PROVE Content'[q] = Content[q]
    BY Zenon, <1>8 DEF Restart, Content, Resident, NoMapping
  <2> QED
    BY Zenon, <2>1, SameContent
<1> QED
  BY <1>1, <1>2, <1>3, <1>4, <1>5, <1>6, <1>7, <1>8 DEF PoolStep

\* No page exists in the beginning.
LEMMA PoolInitRefines == Init => Store!Init
BY Zenon DEF Init, Content, Store!Init

-----------------------------------------------------------------------------
\* BufferPool's own choice of a new page is one that is not in use.
LEMMA NextIsPoolStep == Next => PoolStep
BY Zenon DEF Next, PoolStep

\* The pool's invariant holds of every reachable state.
THEOREM PoolInvariant == ASSUME OnlyAbsentDeleted PROVE Spec => []PoolInv
<1>1. PoolInv /\ [Next]_vars => PoolInv'
  BY Zenon, OnlyAbsentDeleted, NextIsPoolStep, PoolStepKeeps, PoolStutters
<1> QED
  BY <1>1, PoolInit, PTL DEF Spec

\* A page stays in its frame as long as someone holds it, and page_table_, pin counts,
\* free list, replacer and is_dirty_ agree with each other and with the file.
THEOREM PoolCorrect ==
  ASSUME OnlyAbsentDeleted PROVE Spec => [](HeldPageStays /\ FramesAccounted)
<1>1. Spec => []PoolInv
  BY Zenon, PoolInvariant
<1> QED
  BY <1>1, PoolInvImplies, PTL

\* The pool implements PageStore: no write is lost, and no page shows another's bytes.
THEOREM PoolIsPageStore == ASSUME OnlyAbsentDeleted PROVE Spec => ImplementsPageStore
<1>1. PoolInv /\ [Next]_vars => [Store!Next]_Content
  <2>1. UNCHANGED vars => Content' = Content
    BY Zenon DEF vars, Content, Resident
  <2> QED
    BY Zenon, <2>1, OnlyAbsentDeleted, NextIsPoolStep, PoolStepRefines
<1>2. Spec => []PoolInv
  BY Zenon, PoolInvariant
<1> QED
  BY <1>1, <1>2, PoolInitRefines, PTL DEF Spec, ImplementsPageStore, Store!Spec

=============================================================================
