------------------------------ MODULE Storage ------------------------------
(***************************************************************************)
(* The buffer pool on its disk manager, as DBStorageEngine puts them       *)
(* together (instance.cpp): NewPage asks AllocatePage for the page,        *)
(* DeletePage gives it back, the destructor flushes the pool and closes    *)
(* the file, and the next engine opens it.  One latch is held over both    *)
(* halves of a call.                                                       *)
(***************************************************************************)
EXTENDS BufferPool

CONSTANTS Capacity, MaxExtents, WordSize   \* of DiskManager

ASSUME ExtentsAssumption == Capacity \in Nat \ {0} /\ MaxExtents \in Nat \ {0}
ASSUME FileAssumption == NumPages <= Capacity * MaxExtents
ASSUME WordSizeAssumption == WordSize \in Nat /\ Capacity * MaxExtents < WordSize

VARIABLES bitmap, meta, metaDisk, open    \* of DiskManager

poolVars == vars
diskVars == <<bitmap, meta, metaDisk, open>>
allVars == <<poolVars, diskVars>>

Disk == INSTANCE DiskManager WITH owned <- allocated

StorageInit == Init /\ Disk!Init

\* Calls that stay within the pool, or read and write pages in the file.
InPool ==
  /\ open
  /\ \/ \E c \in Clients, p \in Pages : FetchHit(c, p) \/ \E f \in Frames : FetchMiss(c, p, f)
     \/ \E c \in Clients : UnpinPage(c) \/ \E v \in Values : WriteData(c, v)
     \/ \E p \in Pages : FlushPage(p)
  /\ UNCHANGED diskVars

\* As far as MaxExtents and NumPages, the bounds on the file, go.
CreatePage(c, f) ==
  Disk!Room /\ Disk!NextPage \in Pages /\ NewPage(c, f, Disk!NextPage) /\ Disk!AllocatePage
GiveBack(p) == DeletePage(p) /\ Disk!DeAllocatePage(p)

Shutdown == Restart /\ Disk!Close
Startup  == Disk!Open /\ UNCHANGED poolVars

StorageNext ==
  \/ InPool
  \/ \E c \in Clients, f \in Frames : CreatePage(c, f)
  \/ \E p \in Pages : GiveBack(p)
  \/ Shutdown
  \/ Startup

StorageSpec == StorageInit /\ [][StorageNext]_allVars

-----------------------------------------------------------------------------
\* The same fact is recorded four times: the bits, the bitmap's count, the meta
\* page's count per extent and its total.  They agree with the pages the callers of
\* the pool really have, also after the file has been closed and opened again.
BooksBalance ==
  open =>
    /\ meta.allocated = Cardinality(allocated)
    /\ \A p \in Pages : Disk!IsPageFree(p) <=> p \notin allocated
    /\ \A e \in 0 .. MaxExtents - 1 :
         /\ bitmap[e].allocated = Cardinality(bitmap[e].used)
         /\ meta.usedPages[e] = Cardinality(bitmap[e].used)

\* AllocatePage hands out the lowest page that is not in use: never one that is,
\* and it opens a new extent only when every page before it is taken (a hint
\* that is too high would lose pages for good).
LowestFreeFirst ==
  [][\A p \in allocated' \ allocated : p = Min(Pages \ allocated)]_allVars

=============================================================================
