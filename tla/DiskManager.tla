---------------------------- MODULE DiskManager ----------------------------
(***************************************************************************)
(* Page allocation in the database file (disk_manager.cpp, bitmap_page.cpp,*)
(* disk_file_meta_page.h).  The file is a meta page followed by extents of *)
(* one bitmap page and Capacity data pages.  Bitmap pages are written as   *)
(* they change; the meta page lives in meta_data_ and is written by Close  *)
(* only.  Every operation holds db_io_latch_ and is one step.              *)
(***************************************************************************)
EXTENDS Integers, FiniteSets, FiniteSetsExt

CONSTANTS
  Capacity,     \* BITMAP_SIZE: data pages of an extent
  MaxExtents,   \* bound on the extents of the file
  WordSize      \* stands for 2^32, the range of the counters

VARIABLES
  bitmap,    \* the bitmap pages in the file
  meta,      \* meta_data_
  metaDisk,  \* the meta page in the file
  open,      \* the file is open
  owned      \* pages handed out by AllocatePage and not given back

vars == <<bitmap, meta, metaDisk, open, owned>>

Extents == 0 .. MaxExtents - 1
Offsets == 0 .. Capacity - 1
PageIds == 0 .. MaxExtents * Capacity - 1

\* A page past the end of the file reads as zeros.
EmptyBitmap == [used |-> {}, allocated |-> 0, next |-> 0]
EmptyMeta   == [allocated |-> 0, extents |-> 0, usedPages |-> [e \in Extents |-> 0]]

Init ==
  /\ bitmap = [e \in Extents |-> EmptyBitmap]
  /\ meta = EmptyMeta
  /\ metaDisk = EmptyMeta
  /\ open = TRUE
  /\ owned = {}

-----------------------------------------------------------------------------
(***************************************************************************)
(* Where a page is: MapPageId, and the page of an extent's bitmap.         *)
(***************************************************************************)

ExtentOf(p) == p \div Capacity
OffsetOf(p) == p % Capacity
MapPageId(p) == 2 + ExtentOf(p) * (Capacity + 1) + OffsetOf(p)
BitmapPageId(e) == 1 + e * (Capacity + 1)

(***************************************************************************)
(* BitmapPage: next is a hint below which no page is free.                 *)
(***************************************************************************)

FreeFrom(b, i) == {o \in Offsets : o >= i /\ o \notin b.used}
HasFree(b)     == b.allocated < Capacity /\ FreeFrom(b, b.next) # {}

BitmapAllocate(b) ==
  LET o == Min(FreeFrom(b, b.next)) IN
  [used |-> b.used \cup {o}, allocated |-> b.allocated + 1,
   next |-> Min(FreeFrom(b, o + 1) \cup {Capacity})]

BitmapDeAllocateKeepsHint(b, o) ==
  [used |-> b.used \ {o}, allocated |-> b.allocated - 1, next |-> b.next]
BitmapDeAllocate(b, o) ==
  [used |-> b.used \ {o}, allocated |-> b.allocated - 1,
   next |-> IF o < b.next THEN o ELSE b.next]

-----------------------------------------------------------------------------
\* The extents AllocatePage finds a page in: not full by the meta page, and the
\* bitmap has a free page.
Usable == {e \in 0 .. meta.extents - 1 : meta.usedPages[e] < Capacity /\ HasFree(bitmap[e])}

\* The first of them, or else a new one (as far as MaxExtents goes).
Room == Usable # {} \/ meta.extents < MaxExtents
Chosen == IF Usable # {} THEN Min(Usable) ELSE meta.extents
ChosenBitmap == IF Usable # {} THEN bitmap[Chosen] ELSE EmptyBitmap
NextPage == Chosen * Capacity + Min(FreeFrom(ChosenBitmap, ChosenBitmap.next))

AllocatePage ==
  /\ open /\ Room
  /\ bitmap' = [bitmap EXCEPT ![Chosen] = BitmapAllocate(ChosenBitmap)]
  /\ meta' = [meta EXCEPT
       !.allocated = (@ + 1) % WordSize,
       !.extents = IF Usable # {} THEN @ ELSE @ + 1,
       !.usedPages[Chosen] = IF Usable # {} THEN (@ + 1) % WordSize ELSE 1]
  /\ owned' = owned \cup {NextPage}
  /\ UNCHANGED <<metaDisk, open>>

\* A page of no extent, or one that is free already, is left alone.
DeAllocatePage(p) ==
  LET e == ExtentOf(p)
      o == OffsetOf(p) IN
  /\ open
  /\ IF e < meta.extents /\ o \in bitmap[e].used
     THEN /\ bitmap' = [bitmap EXCEPT ![e] = BitmapDeAllocate(@, o)]
          /\ meta' = [meta EXCEPT !.allocated = (@ - 1) % WordSize,
                                  !.usedPages[e] = (@ - 1) % WordSize]
     ELSE UNCHANGED <<bitmap, meta>>
  /\ owned' = owned \ {p}
  /\ UNCHANGED <<metaDisk, open>>

CloseForgetsMeta ==
  /\ open
  /\ open' = FALSE
  /\ UNCHANGED <<bitmap, meta, metaDisk, owned>>
Close ==
  /\ open
  /\ metaDisk' = meta
  /\ open' = FALSE
  /\ UNCHANGED <<bitmap, meta, owned>>

\* The constructor on an existing file.
Open ==
  /\ ~open
  /\ meta' = metaDisk
  /\ open' = TRUE
  /\ UNCHANGED <<bitmap, metaDisk, owned>>

\* The process dies without Close.
Crash ==
  /\ open
  /\ open' = FALSE
  /\ UNCHANGED <<bitmap, meta, metaDisk, owned>>

Next == AllocatePage \/ Close \/ Open \/ \E p \in PageIds : DeAllocatePage(p)

Spec == Init /\ [][Next]_vars
CrashSpec == Init /\ [][Next \/ Crash]_vars

-----------------------------------------------------------------------------
\* IsPageFree, the observer.
IsPageFree(p) ==
  ExtentOf(p) >= meta.extents \/ OffsetOf(p) \notin bitmap[ExtentOf(p)].used

\* "Get next free page from disk": AllocatePage never returns a page that has
\* been handed out and not given back.
AllocatedWasFree == [][AllocatePage => owned' # owned]_vars

=============================================================================
