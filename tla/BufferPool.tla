----------------------------- MODULE BufferPool -----------------------------
(***************************************************************************)
(* The buffer pool (buffer_pool_manager.cpp, page.h) and the code that     *)
(* calls it.  Every call holds latch_ and is one step; between calls a     *)
(* caller works on the frame it was handed, without the latch.             *)
(*                                                                         *)
(* The replacer is what module Replacer promises: a set of frames any of   *)
(* which may be the victim.  The disk manager, here, gives out the lowest  *)
(* free page id; module Storage puts the real one in its place.            *)
(***************************************************************************)
EXTENDS Integers, FiniteSets, FiniteSetsExt

CONSTANTS
  Frames,        \* pool_size_ frames
  NumPages,      \* bound on the page ids of the file
  Clients,       \* holders of one page pointer each
  Values, Zero,  \* page contents; Zero is a page of zeros
  NoPage,        \* INVALID_PAGE_ID
  NoFrame,       \* INVALID_FRAME_ID, and "not in page_table_"
  NoHandle,      \* a client that holds no page
  Deletable      \* which pages callers delete: "absent" from memory, "cached"
                 \* and unpinned, "pinned" by someone

ASSUME FramesAssumption == IsFiniteSet(Frames) /\ NoFrame \notin Frames
ASSUME ClientsAssumption == IsFiniteSet(Clients)
ASSUME NumPagesAssumption == NumPages \in Nat /\ NoPage \notin 0 .. NumPages - 1
ASSUME ValuesAssumption == Zero \in Values /\ NoPage \notin Values
ASSUME DeletableAssumption == Deletable \subseteq {"absent", "cached", "pinned"}

Pages == 0 .. NumPages - 1
Handle == [page : Pages, frame : Frames, dirty : BOOLEAN]
ASSUME HandleAssumption == NoHandle \notin Handle

VARIABLES
  pageTable,  \* page_table_
  pages,      \* pages_[f]: page_id_, pin_count_, is_dirty_, data_
  freeList,   \* free_list_
  evictable,  \* the frames in replacer_
  disk,       \* contents of the pages in the file
  allocated,  \* the disk manager's allocated pages
  handle      \* what each client holds, and whether it will unpin it as dirty

vars == <<pageTable, pages, freeList, evictable, disk, allocated, handle>>

EmptyPage == [id |-> NoPage, pin |-> 0, dirty |-> FALSE, data |-> Zero]

NoMapping == [p \in Pages |-> NoFrame]
EmptyFrames == [f \in Frames |-> EmptyPage]

Init ==
  /\ pageTable = NoMapping
  /\ pages = EmptyFrames
  /\ freeList = Frames
  /\ evictable = {}
  /\ handle = [c \in Clients |-> NoHandle]
  /\ disk = [p \in Pages |-> Zero]
  /\ allocated = {}

-----------------------------------------------------------------------------
Resident(p) == pageTable[p] # NoFrame
Idle(c)     == handle[c] = NoHandle
Standing(p) == CASE ~Resident(p) -> "absent"
                 [] Resident(p) /\ pages[pageTable[p]].pin = 0 -> "cached"
                 [] OTHER -> "pinned"

\* TryToFindFreePage: the free list first, then the replacer's victim.
ReplacementAny == IF freeList # {} THEN freeList ELSE Frames
Replacement == IF freeList # {} THEN freeList ELSE evictable
Take(f) == IF freeList # {} THEN freeList' = freeList \ {f} /\ UNCHANGED evictable
           ELSE evictable' = evictable \ {f} /\ UNCHANGED freeList

\* The evicted page goes to disk if it is dirty, and its mapping goes.
WriteBackNever(f) == UNCHANGED disk
WriteBack(f) ==
  disk' = IF pages[f].dirty THEN [disk EXCEPT ![pages[f].id] = pages[f].data] ELSE disk
Remap(f, p) ==
  [q \in Pages |-> IF q = p THEN f ELSE IF q = pages[f].id THEN NoFrame ELSE pageTable[q]]

FetchHit(c, p) ==
  /\ Idle(c) /\ p \in allocated /\ Resident(p)
  /\ LET f == pageTable[p] IN
     /\ pages' = [pages EXCEPT ![f].pin = @ + 1]
     /\ evictable' = evictable \ {f}
     /\ handle' = [handle EXCEPT ![c] = [page |-> p, frame |-> f, dirty |-> FALSE]]
  /\ UNCHANGED <<pageTable, freeList, disk, allocated>>

FetchMiss(c, p, f) ==
  /\ Idle(c) /\ p \in allocated /\ ~Resident(p)
  /\ f \in Replacement /\ Take(f)
  /\ WriteBack(f)
  /\ pageTable' = Remap(f, p)
  /\ pages' = [pages EXCEPT ![f] = [id |-> p, pin |-> 1, dirty |-> FALSE, data |-> disk'[p]]]
  /\ handle' = [handle EXCEPT ![c] = [page |-> p, frame |-> f, dirty |-> FALSE]]
  /\ UNCHANGED allocated

\* The frame is found first, so a full pool allocates nothing; p is what
\* AllocatePage answers.  The page is zeroed in memory only; its creator unpins it
\* as dirty (the two static pages of a new file aside, which reads as zeros anyway).
NewPage(c, f, p) ==
  /\ Idle(c)
  /\ f \in Replacement /\ Take(f)
  /\ WriteBack(f)
  /\ allocated' = allocated \cup {p}
  /\ pageTable' = Remap(f, p)
  /\ pages' = [pages EXCEPT ![f] = [id |-> p, pin |-> 1, dirty |-> FALSE, data |-> Zero]]
  /\ handle' = [handle EXCEPT ![c] = [page |-> p, frame |-> f, dirty |-> TRUE]]

\* DeallocatePage comes first, whatever the answer.  A page in memory is dropped
\* only if no one has it pinned; its frame goes to the free list and is not
\* taken out of the replacer.
DeletePage(p) ==
  /\ p \in allocated /\ Standing(p) \in Deletable
  /\ allocated' = allocated \ {p}
  /\ LET f == pageTable[p] IN
     IF Resident(p) /\ pages[f].pin = 0
     THEN /\ pageTable' = [pageTable EXCEPT ![p] = NoFrame]
          /\ pages' = [pages EXCEPT ![f] = EmptyPage]
          /\ freeList' = freeList \cup {f}
     ELSE UNCHANGED <<pageTable, pages, freeList>>
  /\ UNCHANGED <<evictable, disk, handle>>

\* A page that is not in memory, or not pinned, is left alone.
UnpinEarly(c) ==
  /\ ~Idle(c)
  /\ handle' = [handle EXCEPT ![c] = NoHandle]
  /\ LET f == pageTable[handle[c].page] IN
     IF f # NoFrame /\ pages[f].pin > 0
     THEN /\ pages' = [pages EXCEPT ![f].pin = @ - 1, ![f].dirty = @ \/ handle[c].dirty]
          /\ evictable' = evictable \cup {f}
     ELSE UNCHANGED <<pages, evictable>>
  /\ UNCHANGED <<pageTable, freeList, disk, allocated>>
UnpinPage(c) ==
  /\ ~Idle(c)
  /\ handle' = [handle EXCEPT ![c] = NoHandle]
  /\ LET f == pageTable[handle[c].page] IN
     IF f # NoFrame /\ pages[f].pin > 0
     THEN /\ pages' = [pages EXCEPT ![f].pin = @ - 1, ![f].dirty = @ \/ handle[c].dirty]
          /\ evictable' = IF pages[f].pin = 1 THEN evictable \cup {f} ELSE evictable
     ELSE UNCHANGED <<pages, evictable>>
  /\ UNCHANGED <<pageTable, freeList, disk, allocated>>

FlushPage(p) ==
  /\ Resident(p)
  /\ disk' = [disk EXCEPT ![p] = pages[pageTable[p]].data]
  /\ pages' = [pages EXCEPT ![pageTable[p]].dirty = FALSE]
  /\ UNCHANGED <<pageTable, freeList, evictable, allocated, handle>>

\* A client changes the page it holds, through the pointer it was given.
WriteData(c, v) ==
  /\ ~Idle(c)
  /\ pages' = [pages EXCEPT ![handle[c].frame].data = v]
  /\ handle' = [handle EXCEPT ![c].dirty = TRUE]
  /\ UNCHANGED <<pageTable, freeList, evictable, disk, allocated>>

\* The destructor flushes every page of page_table_; then a new pool starts on
\* the same file.  Callers are done by then.
Restart ==
  /\ \A c \in Clients : Idle(c)
  /\ disk' = [p \in Pages |-> IF Resident(p) THEN pages[pageTable[p]].data ELSE disk[p]]
  /\ pageTable' = NoMapping
  /\ pages' = EmptyFrames
  /\ freeList' = Frames
  /\ evictable' = {}
  /\ UNCHANGED <<allocated, handle>>

Next ==
  \/ \E c \in Clients, p \in Pages : FetchHit(c, p) \/ \E f \in Frames : FetchMiss(c, p, f)
  \/ \E c \in Clients, f \in Frames, p \in Pages \ allocated :
       p = Min(Pages \ allocated) /\ NewPage(c, f, p)
  \/ \E p \in Pages : DeletePage(p) \/ FlushPage(p)
  \/ \E c \in Clients : UnpinPage(c) \/ \E v \in Values : WriteData(c, v)
  \/ Restart

Spec == Init /\ [][Next]_vars

-----------------------------------------------------------------------------
Holders(f) == {c \in Clients : ~Idle(c) /\ handle[c].frame = f}

\* "Pin a frame ... so it cannot be victimized": as long as a client holds a page
\* its frame holds that page and no other, however the others fetch, create and
\* unpin meanwhile.
HeldPageStays ==
  \A c \in Clients : ~Idle(c) => pages[handle[c].frame].id = handle[c].page

\* page_table_ and the frames' page ids are inverse to each other, and the free
\* list is the frames that hold no page.
TableMatchesFrames ==
  /\ \A p \in Pages, f \in Frames : pageTable[p] = f <=> pages[f].id = p
  /\ \A f \in Frames : f \in freeList <=> pages[f].id = NoPage

\* A frame's pin count is the number of clients that hold it, and the frames in
\* the replacer are exactly the unpinned ones in use.
PinsAccounted ==
  /\ \A f \in Frames : pages[f].pin = Cardinality(Holders(f))
  /\ evictable = {f \in Frames \ freeList : pages[f].pin = 0}

\* is_dirty_: "it is different from its corresponding page on disk".  A page no
\* one holds that is not marked dirty can be dropped without losing anything.
CleanMatchesDisk ==
  \A f \in Frames :
    pages[f].id \in Pages /\ pages[f].pin = 0 /\ ~pages[f].dirty
      => pages[f].data = disk[pages[f].id]

\* The pool's own records agree with each other and with its callers: page_table_
\* with the frames, pin counts with who holds what, the replacer and the free list
\* with the pin counts (a caller is refused a frame only when every frame really is
\* pinned, and no frame is lost), and is_dirty_ with the file.
FramesAccounted == TableMatchesFrames /\ PinsAccounted /\ CleanMatchesDisk

\* The pool as its callers see it.
Content == [p \in Pages |-> IF p \notin allocated THEN NoPage
                            ELSE IF Resident(p) THEN pages[pageTable[p]].data
                            ELSE disk[p]]

Store == INSTANCE PageStore WITH content <- Content, Absent <- NoPage

\* The pool implements PageStore: eviction, write-back, flush, re-fetching and
\* restart never lose a write and never show one page's bytes as another's.
ImplementsPageStore == Store!Spec

=============================================================================
