--------------------------- MODULE StorageProofs ---------------------------
(***************************************************************************)
(* The buffer pool on its disk manager, for any number of frames, pages,   *)
(* clients and extents, as long as callers delete only pages that are not  *)
(* in memory.                                                              *)
(*                                                                         *)
(* BitmapsInv says of every bitmap page that its count is that of its bits *)
(* and that no page below next is free, and that the bits are the pages    *)
(* the pool's callers have.  CountsInv says the same of the meta page: the *)
(* one in memory while the file is open, the one in the file after Close.  *)
(* From them AllocatePage gives out a page that is not in use, the lowest  *)
(* one, so each step of Storage is a step of the pool (PoolStep of         *)
(* BufferPoolProofs) or leaves the pool alone.                             *)
(***************************************************************************)
EXTENDS Storage, BufferPoolProofs, WellFoundedInduction

Bitmap == [used : SUBSET Disk!Offsets, allocated : Nat, next : 0 .. Capacity]

\* The count is right, and next is a hint below which no page is free.
BitmapOK(b) ==
  /\ b \in Bitmap
  /\ b.allocated = Cardinality(b.used)
  /\ \A o \in Disk!Offsets : o < b.next => o \in b.used

BitmapsInv ==
  /\ bitmap \in [Disk!Extents -> Bitmap]
  /\ \A e \in Disk!Extents : BitmapOK(bitmap[e])
  /\ \A e \in Disk!Extents, o \in Disk!Offsets :
       o \in bitmap[e].used <=> e * Capacity + o \in allocated

Meta == [allocated : Nat, extents : 0 .. MaxExtents, usedPages : [Disk!Extents -> Nat]]

CountsInv(m) ==
  /\ m \in Meta
  /\ m.allocated = Cardinality(allocated)
  /\ \A e \in Disk!Extents : m.usedPages[e] = Cardinality(bitmap[e].used)
  /\ \A e \in Disk!Extents : e >= m.extents => bitmap[e].used = {}

DiskInv == BitmapsInv /\ CountsInv(IF open THEN meta ELSE metaDisk)

StorageInv == PoolInv /\ DiskInv

-----------------------------------------------------------------------------
(* Arithmetic and finite sets *)

\* A set of naturals that is not empty has a least element, and Min is it.
LEMMA MinOfNats ==
  ASSUME NEW S, S \subseteq Nat, S # {}
  PROVE  Min(S) \in S /\ \A y \in S : Min(S) <= y
<1> DEFINE Less == {ss \in Nat \X Nat : ss[1] < ss[2]}
<1>1. IsWellFoundedOn(Less, Nat)
  BY Zenon, NatLessThanWellFounded DEF OpToRel
<1> HIDE DEF Less
<1>2. PICK x \in S : \A y \in S : ~ (<<y, x>> \in Less)
  BY ZenonT(30), <1>1, WFMin
<1>3. ASSUME NEW y \in S PROVE x <= y
  <2>1. x \in Nat /\ y \in Nat
    BY Zenon
  <2>2. y < x => <<y, x>> \in Less
    BY Zenon, <2>1 DEF Less
  <2> QED
    BY <1>2, <2>1, <2>2
<1> QED
  BY ZenonT(30), <1>3 DEF Min

\* What is in the set and not above any of its elements is its Min.
LEMMA MinIs ==
  ASSUME NEW S, S \subseteq Nat, NEW x \in S, \A y \in S : x <= y
  PROVE  Min(S) = x
<1>1. Min(S) \in S /\ \A y \in S : Min(S) <= y
  BY ZenonT(30), MinOfNats
<1>2. Min(S) <= x /\ x <= Min(S) /\ Min(S) \in Nat /\ x \in Nat
  BY ZenonT(30), <1>1
<1> QED
  BY <1>2

\* The Min the disk manager uses is the same.
LEMMA DiskMin == ASSUME NEW S PROVE Disk!Min(S) = Min(S)
BY Zenon DEF Disk!Min, Min

\* The pages of an extent come before those of the next one.
LEMMA ExtentsInOrder ==
  ASSUME NEW d \in Nat, NEW e \in Nat, d < e
  PROVE  d * Capacity \in Nat /\ e * Capacity \in Nat /\ d * Capacity + Capacity <= e * Capacity
<1>1. PICK k \in Nat : e = d + 1 + k
  <2>1. e - d - 1 \in Nat /\ e = d + 1 + (e - d - 1)
    OBVIOUS
  <2> QED
    BY Zenon, <2>1
<1>2. e * Capacity = d * Capacity + Capacity + k * Capacity
  BY <1>1, ExtentsAssumption
<1>3. k * Capacity \in Nat /\ d * Capacity \in Nat
  BY ExtentsAssumption
<1> QED
  BY <1>2, <1>3, ExtentsAssumption

\* A page is at one offset of one extent only.
LEMMA OnePlace ==
  ASSUME NEW d \in Disk!Extents, NEW e \in Disk!Extents,
         NEW i \in Disk!Offsets, NEW o \in Disk!Offsets
  PROVE  /\ e * Capacity + o \in Nat
         /\ d * Capacity + i = e * Capacity + o => d = e /\ i = o
         /\ d < e => d * Capacity + i < e * Capacity + o
<1>1. d \in Nat /\ e \in Nat /\ i \in Nat /\ o \in Nat /\ i < Capacity /\ o < Capacity
  BY ExtentsAssumption DEF Disk!Extents, Disk!Offsets
<1>2. d * Capacity \in Nat /\ e * Capacity \in Nat
  BY <1>1, ExtentsAssumption
<1>3. d < e => d * Capacity + Capacity <= e * Capacity
  BY ZenonT(30), <1>1, ExtentsInOrder
<1>4. e < d => e * Capacity + Capacity <= d * Capacity
  BY Zenon, <1>1, ExtentsInOrder
<1> QED
  BY <1>1, <1>2, <1>3, <1>4, ExtentsAssumption

\* MapPageId's extent and offset of a page of the file.
LEMMA PlaceOfPage ==
  ASSUME NEW p \in Pages
  PROVE  /\ Disk!ExtentOf(p) \in Disk!Extents
         /\ Disk!OffsetOf(p) \in Disk!Offsets
         /\ p = Disk!ExtentOf(p) * Capacity + Disk!OffsetOf(p)
<1>1. p \in Nat /\ p < Capacity * MaxExtents
  BY NumPagesAssumption, FileAssumption, ExtentsAssumption DEF Pages
<1> DEFINE e == Disk!ExtentOf(p)
           o == Disk!OffsetOf(p)
<1>2. e \in Nat /\ o \in 0 .. Capacity - 1 /\ p = Capacity * e + o
  BY <1>1, ExtentsAssumption DEF Disk!ExtentOf, Disk!OffsetOf
<1> HIDE DEF e, o
<1>3. Capacity * e = e * Capacity /\ e * Capacity \in Nat
  BY <1>2, ExtentsAssumption
<1>4. e < MaxExtents
  <2> SUFFICES ASSUME MaxExtents <= e PROVE FALSE
    BY <1>2, ExtentsAssumption
  <2>1. MaxExtents * Capacity <= e * Capacity
    <3>1. CASE MaxExtents = e
      BY <1>3, <3>1
    <3>2. CASE MaxExtents < e
      <4>1. MaxExtents * Capacity \in Nat /\ MaxExtents * Capacity + Capacity <= e * Capacity
        BY ZenonT(30), <1>2, <3>2, ExtentsAssumption, ExtentsInOrder
      <4> QED
        BY <1>3, <4>1, ExtentsAssumption
    <3> QED
      BY <1>2, <3>1, <3>2, ExtentsAssumption
  <2>2. MaxExtents * Capacity = Capacity * MaxExtents
    BY ExtentsAssumption
  <2>3. e * Capacity < Capacity * MaxExtents
    <3>1. o \in Nat /\ p = e * Capacity + o
      BY <1>2, <1>3
    <3> QED
      BY <1>1, <1>2, <1>3, <3>1, ExtentsAssumption
  <2>4. Capacity * MaxExtents \in Nat
    BY ExtentsAssumption
  <2> QED
    BY <1>3, <2>1, <2>2, <2>3, <2>4
<1> QED
  BY <1>2, <1>3, <1>4, ExtentsAssumption DEF Disk!Extents, Disk!Offsets, e, o

\* Counting a set of offsets, or of pages.
LEMMA OffsetsFinite ==
  ASSUME NEW S, S \subseteq Disk!Offsets
  PROVE  IsFiniteSet(S) /\ Cardinality(S) \in 0 .. Capacity
<1>1. 0 \in Int /\ Capacity - 1 \in Int
  BY ExtentsAssumption
<1>2. IsFiniteSet(Disk!Offsets) /\ Cardinality(Disk!Offsets) = Capacity
  BY <1>1, FS_Interval, ExtentsAssumption DEF Disk!Offsets
<1>3. IsFiniteSet(S) /\ Cardinality(S) <= Cardinality(Disk!Offsets)
  BY Zenon, <1>2, FS_Subset
<1> QED
  BY <1>2, <1>3, FS_CardinalityType, ExtentsAssumption

\* The same for pages.
LEMMA PagesFinite ==
  ASSUME NEW S, S \subseteq Pages
  PROVE  IsFiniteSet(S) /\ Cardinality(S) \in 0 .. NumPages
<1>1. 0 \in Int /\ NumPages - 1 \in Int
  BY NumPagesAssumption
<1>2. IsFiniteSet(Pages) /\ Cardinality(Pages) = NumPages
  BY <1>1, FS_Interval, NumPagesAssumption DEF Pages
<1>3. IsFiniteSet(S) /\ Cardinality(S) <= Cardinality(Pages)
  BY Zenon, <1>2, FS_Subset
<1> QED
  BY <1>2, <1>3, FS_CardinalityType, NumPagesAssumption

-----------------------------------------------------------------------------
(* Where pages lie in the file *)

\* A page id splits into the extent and the offset that MapPageId computes.
LEMMA PageSplits ==
  ASSUME NEW p \in Nat
  PROVE  /\ Disk!ExtentOf(p) \in Nat
         /\ Disk!OffsetOf(p) \in 0 .. Capacity - 1
         /\ p = Capacity * Disk!ExtentOf(p) + Disk!OffsetOf(p)
BY ExtentsAssumption DEF Disk!ExtentOf, Disk!OffsetOf

\* Extents do not reach into each other: the bitmap page of a later extent, and
\* with it everything behind it, starts after the last page of the earlier one.
LEMMA ExtentsApart ==
  ASSUME NEW d \in Nat, NEW e \in Nat, d < e
  PROVE  Disk!BitmapPageId(d) + Capacity < Disk!BitmapPageId(e)
<1>c. Capacity \in Nat \ {0}
  BY Zenon, ExtentsAssumption
<1>1. d * Capacity \in Nat /\ e * Capacity \in Nat /\ d * Capacity + Capacity <= e * Capacity
  BY Zenon, ExtentsInOrder
<1>2. d * (Capacity + 1) = d * Capacity + d /\ e * (Capacity + 1) = e * Capacity + e
  BY <1>c
<1> QED
  BY <1>c, <1>1, <1>2 DEF Disk!BitmapPageId

\* MapPageId puts a page right behind the bitmap page of its extent, at its offset.
LEMMA PageInExtent ==
  ASSUME NEW p \in Nat
  PROVE  /\ Disk!BitmapPageId(Disk!ExtentOf(p)) \in Nat \ {0}
         /\ Disk!MapPageId(p) = Disk!BitmapPageId(Disk!ExtentOf(p)) + 1 + Disk!OffsetOf(p)
<1>c. Capacity \in Nat \ {0}
  BY Zenon, ExtentsAssumption
<1>1. Disk!ExtentOf(p) \in Nat /\ Disk!OffsetOf(p) \in Nat
  BY <1>c, PageSplits
<1>2. Disk!ExtentOf(p) * (Capacity + 1) \in Nat
  BY <1>c, <1>1
<1> QED
  BY <1>c, <1>1, <1>2 DEF Disk!BitmapPageId, Disk!MapPageId

\* No two pages share a place in the file (MapPageId, disk_manager.cpp): the map
\* from page ids is one-to-one, and it never hits the meta page or the bitmap page
\* of any extent.
THEOREM LayoutIsDisjoint ==
  \A p \in Nat :
    /\ Disk!MapPageId(p) # 0
    /\ \A e \in Nat : Disk!MapPageId(p) # Disk!BitmapPageId(e)
    /\ \A q \in Nat : Disk!MapPageId(p) = Disk!MapPageId(q) => p = q
<1> SUFFICES ASSUME NEW p \in Nat
             PROVE  /\ Disk!MapPageId(p) # 0
                    /\ \A e \in Nat : Disk!MapPageId(p) # Disk!BitmapPageId(e)
                    /\ \A q \in Nat : Disk!MapPageId(p) = Disk!MapPageId(q) => p = q
  BY ZenonT(30)
<1>c. Capacity \in Nat \ {0}
  BY Zenon, ExtentsAssumption
<1> DEFINE d == Disk!ExtentOf(p)
<1>1. /\ d \in Nat /\ Disk!OffsetOf(p) \in 0 .. Capacity - 1
      /\ Disk!BitmapPageId(d) \in Nat \ {0}
      /\ Disk!MapPageId(p) = Disk!BitmapPageId(d) + 1 + Disk!OffsetOf(p)
  BY ZenonT(30), <1>c, PageSplits, PageInExtent
<1>2. Disk!MapPageId(p) # 0
  BY <1>c, <1>1
<1>3. ASSUME NEW e \in Nat
      PROVE  Disk!MapPageId(p) # Disk!BitmapPageId(e)
  <2>1. Disk!BitmapPageId(e) \in Nat
    BY <1>c DEF Disk!BitmapPageId
  <2>2. CASE e = d
    BY <1>c, <1>1, <2>1, <2>2
  <2>3. CASE d < e
    BY <1>c, <1>1, <2>1, <2>3, ExtentsApart
  <2>4. CASE e < d
    BY <1>c, <1>1, <2>1, <2>4, ExtentsApart
  <2> QED
    BY <1>c, <1>1, <2>2, <2>3, <2>4
<1>4. ASSUME NEW q \in Nat, Disk!MapPageId(p) = Disk!MapPageId(q)
      PROVE  p = q
  <2>1. /\ Disk!ExtentOf(q) \in Nat /\ Disk!OffsetOf(q) \in 0 .. Capacity - 1
        /\ Disk!BitmapPageId(Disk!ExtentOf(q)) \in Nat \ {0}
        /\ Disk!MapPageId(q) = Disk!BitmapPageId(Disk!ExtentOf(q)) + 1 + Disk!OffsetOf(q)
    BY ZenonT(30), <1>c, PageSplits, PageInExtent
  <2>2. ~ d < Disk!ExtentOf(q)
    BY <1>c, <1>1, <1>4, <2>1, ExtentsApart
  <2>3. ~ Disk!ExtentOf(q) < d
    BY <1>c, <1>1, <1>4, <2>1, ExtentsApart
  <2>4. Disk!ExtentOf(q) = d
    BY <1>c, <1>1, <2>1, <2>2, <2>3
  <2>5. Disk!OffsetOf(q) = Disk!OffsetOf(p)
    BY <1>c, <1>1, <1>4, <2>1, <2>4
  <2> QED
    BY ZenonT(30), <2>4, <2>5, PageSplits
<1> QED
  BY Zenon, <1>2, <1>3, <1>4

-----------------------------------------------------------------------------
(* One bitmap page *)

\* The first offset AllocatePage finds from the hint on is the lowest free one.
LEMMA FirstFree ==
  ASSUME NEW b, BitmapOK(b), NEW o, o = Disk!Min(Disk!FreeFrom(b, b.next)),
         Disk!FreeFrom(b, b.next) # {}
  PROVE  /\ o \in Disk!Offsets /\ o \notin b.used
         /\ \A i \in Disk!Offsets : i < o => i \in b.used
<1> DEFINE F == Disk!FreeFrom(b, b.next)
<1>1. F \subseteq Nat
  BY ExtentsAssumption DEF Disk!FreeFrom, Disk!Offsets
<1>2. o = Min(F)
  BY Zenon, DiskMin
<1>3. o \in F /\ \A i \in F : o <= i
  BY Zenon, <1>1, <1>2, MinOfNats
<1>4. b.next \in Nat
  BY ExtentsAssumption DEF BitmapOK, Bitmap
<1>5. ASSUME NEW i \in Disk!Offsets, i < o, i \notin b.used PROVE FALSE
  <2>1. i \in Nat
    BY ExtentsAssumption DEF Disk!Offsets
  <2>2. i >= b.next
    BY <1>4, <1>5, <2>1 DEF BitmapOK
  <2>3. i \in F
    BY Zenon, <1>5, <2>2 DEF Disk!FreeFrom
  <2> QED
    BY <1>1, <1>3, <1>5, <2>1, <2>3
<1> QED
  BY ZenonT(30), <1>3, <1>5 DEF Disk!FreeFrom

\* Setting its bit keeps the bitmap page in order, and so does clearing one.
LEMMA BitmapAllocates ==
  ASSUME NEW b, BitmapOK(b), NEW o, o = Disk!Min(Disk!FreeFrom(b, b.next)),
         Disk!FreeFrom(b, b.next) # {}
  PROVE  /\ BitmapOK(Disk!BitmapAllocate(b))
         /\ Disk!BitmapAllocate(b).used = b.used \cup {o}
         /\ Cardinality(b.used \cup {o}) = Cardinality(b.used) + 1
<1>1. o \in Disk!Offsets /\ o \notin b.used /\ \A i \in Disk!Offsets : i < o => i \in b.used
  BY Zenon, FirstFree
<1> DEFINE F == Disk!FreeFrom(b, o + 1) \cup {Capacity}
           n == Disk!Min(F)
           new == [used |-> b.used \cup {o}, allocated |-> b.allocated + 1, next |-> n]
<1>2. Disk!BitmapAllocate(b) = new
  BY Zenon DEF Disk!BitmapAllocate
<1>3. F \subseteq 0 .. Capacity /\ F \subseteq Nat /\ F # {}
  BY ExtentsAssumption DEF Disk!FreeFrom, Disk!Offsets
<1>4. n = Min(F)
  BY Zenon, DiskMin
<1>5. n \in F /\ \A i \in F : n <= i
  BY <1>3, <1>4, MinOfNats
<1>6. b.used \subseteq Disk!Offsets /\ b.used \cup {o} \subseteq Disk!Offsets
  BY Zenon, <1>1 DEF BitmapOK, Bitmap
<1>7. Cardinality(b.used \cup {o}) = Cardinality(b.used) + 1
  BY ZenonT(30), <1>1, <1>6, OffsetsFinite, FS_AddElement
<1>8. b.allocated + 1 = Cardinality(b.used \cup {o}) /\ b.allocated + 1 \in Nat
  BY <1>6, <1>7, OffsetsFinite DEF BitmapOK
<1>9. \A i \in Disk!Offsets : i < n => i \in b.used \cup {o}
  <2> SUFFICES ASSUME NEW i \in Disk!Offsets, i < n, i \notin b.used, i # o PROVE FALSE
    BY Zenon
  <2>1. i \in Nat /\ o \in Nat /\ n \in Nat
    BY <1>1, <1>3, <1>5, ExtentsAssumption DEF Disk!Offsets
  <2>2. i >= o + 1
    BY <1>1, <2>1
  <2>3. i \in F
    BY ZenonT(30), <2>2 DEF Disk!FreeFrom
  <2> QED
    BY <1>5, <2>1, <2>3
<1> HIDE DEF n, F
<1>10. new \in Bitmap /\ new.used = b.used \cup {o} /\ new.allocated = b.allocated + 1 /\ new.next = n
  BY ZenonT(30), <1>3, <1>5, <1>6, <1>8 DEF Bitmap
<1> QED
  BY ZenonT(30), <1>2, <1>7, <1>8, <1>9, <1>10 DEF BitmapOK

\* DeAllocatePage of a page in use clears its bit and moves the hint down to it.
LEMMA BitmapDeAllocates ==
  ASSUME NEW b, BitmapOK(b), NEW o \in b.used
  PROVE  /\ BitmapOK(Disk!BitmapDeAllocate(b, o))
         /\ Disk!BitmapDeAllocate(b, o).used = b.used \ {o}
         /\ Cardinality(b.used \ {o}) = Cardinality(b.used) - 1
<1> DEFINE n == IF o < b.next THEN o ELSE b.next
           new == [used |-> b.used \ {o}, allocated |-> b.allocated - 1, next |-> n]
<1>1. Disk!BitmapDeAllocate(b, o) = new
  BY Zenon DEF Disk!BitmapDeAllocate
<1>2. b.used \subseteq Disk!Offsets /\ b.used \ {o} \subseteq Disk!Offsets /\ o \in Disk!Offsets
  BY Zenon DEF BitmapOK, Bitmap
<1>3. Cardinality(b.used \ {o}) = Cardinality(b.used) - 1
  BY ZenonT(30), <1>2, OffsetsFinite, FS_RemoveElement
<1>4. b.allocated - 1 = Cardinality(b.used \ {o}) /\ b.allocated - 1 \in Nat
  BY <1>2, <1>3, OffsetsFinite DEF BitmapOK
<1>5. b.next \in 0 .. Capacity /\ o \in Nat /\ o < Capacity
  BY <1>2, ExtentsAssumption DEF BitmapOK, Bitmap, Disk!Offsets
<1>6. n \in 0 .. Capacity
  BY <1>5, ExtentsAssumption
<1>7. \A i \in Disk!Offsets : i < n => i \in b.used \ {o}
  <2> SUFFICES ASSUME NEW i \in Disk!Offsets, i < n PROVE i \in b.used /\ i # o
    BY Zenon
  <2>1. i \in Nat
    BY ExtentsAssumption DEF Disk!Offsets
  <2>2. i < b.next /\ i # o
    BY <1>5, <2>1, ExtentsAssumption
  <2> QED
    BY ZenonT(30), <2>2 DEF BitmapOK
<1> HIDE DEF n
<1>8. new \in Bitmap /\ new.used = b.used \ {o} /\ new.allocated = b.allocated - 1 /\ new.next = n
  BY ZenonT(30), <1>2, <1>4, <1>6 DEF Bitmap
<1> QED
  BY <1>1, <1>3, <1>4, <1>7, <1>8 DEF BitmapOK

-----------------------------------------------------------------------------
(* AllocatePage and DeAllocatePage *)

\* An extent with a free page that the meta page counts is usable.
LEMMA FreeIsUsable ==
  ASSUME DiskInv, open, NEW e \in Disk!Extents, e < meta.extents,
         NEW o \in Disk!Offsets, o \notin bitmap[e].used
  PROVE  e \in Disk!Usable
<1> DEFINE b == bitmap[e]
<1>1. BitmapOK(b) /\ meta.usedPages[e] = Cardinality(b.used) /\ meta \in Meta
  BY Zenon DEF DiskInv, BitmapsInv, CountsInv
<1>2. b.used \subseteq Disk!Offsets /\ b.next \in Nat
  BY <1>1, ExtentsAssumption DEF BitmapOK, Bitmap
<1>3. Cardinality(b.used) < Capacity
  <2>1. b.used \cup {o} \subseteq Disk!Offsets
    BY Zenon, <1>2
  <2>2. Cardinality(b.used \cup {o}) = Cardinality(b.used) + 1
    BY ZenonT(30), <1>2, OffsetsFinite, FS_AddElement
  <2>3. Cardinality(b.used \cup {o}) \in 0 .. Capacity /\ Cardinality(b.used) \in 0 .. Capacity
    BY ZenonT(30), <1>2, <2>1, OffsetsFinite
  <2> QED
    BY <2>2, <2>3, ExtentsAssumption
<1>4. o \in Disk!FreeFrom(b, b.next)
  <2>1. o \in Nat
    BY ExtentsAssumption DEF Disk!Offsets
  <2>2. o >= b.next
    BY <1>1, <1>2, <2>1 DEF BitmapOK
  <2> QED
    BY ZenonT(30), <2>2 DEF Disk!FreeFrom
<1>5. Disk!HasFree(b)
  BY ZenonT(30), <1>1, <1>3, <1>4 DEF Disk!HasFree, BitmapOK
<1>6. e \in 0 .. meta.extents - 1
  BY <1>1, ExtentsAssumption DEF Meta, Disk!Extents
<1> QED
  BY ZenonT(30), <1>1, <1>3, <1>5, <1>6 DEF Disk!Usable

\* The page AllocatePage answers: the lowest free one of an extent that all full extents
\* come before.
LEMMA ChosenFacts ==
  ASSUME DiskInv, open, Disk!Room
  PROVE  \E e \in Disk!Extents, o \in Disk!Offsets :
           /\ e = Disk!Chosen /\ Disk!NextPage = e * Capacity + o
           /\ o = Disk!Min(Disk!FreeFrom(Disk!ChosenBitmap, Disk!ChosenBitmap.next))
           /\ Disk!FreeFrom(Disk!ChosenBitmap, Disk!ChosenBitmap.next) # {}
           /\ BitmapOK(Disk!ChosenBitmap) /\ Disk!ChosenBitmap.used = bitmap[e].used
           /\ o \notin bitmap[e].used
           /\ \A i \in Disk!Offsets : i < o => i \in bitmap[e].used
           /\ \A d \in Disk!Extents, i \in Disk!Offsets : d < e => i \in bitmap[d].used
           /\ IF Disk!Usable # {} THEN e < meta.extents
              ELSE e = meta.extents /\ bitmap[e].used = {}
<1> DEFINE b == Disk!ChosenBitmap
           e == Disk!Chosen
           o == Disk!Min(Disk!FreeFrom(b, b.next))
<1>1. /\ BitmapsInv /\ meta \in Meta
      /\ \A d \in Disk!Extents : d >= meta.extents => bitmap[d].used = {}
  BY ZenonT(30) DEF DiskInv, CountsInv
<1>2. meta.extents \in 0 .. MaxExtents
  BY Zenon, <1>1 DEF Meta
<1>3. Disk!Usable \subseteq Disk!Extents /\ Disk!Usable \subseteq Nat
  BY <1>2, ExtentsAssumption DEF Disk!Usable, Disk!Extents
<1>4. /\ e \in Disk!Extents
      /\ BitmapOK(b) /\ b.used = bitmap[e].used
      /\ Disk!FreeFrom(b, b.next) # {}
      /\ IF Disk!Usable # {} THEN e < meta.extents /\ \A d \in Disk!Usable : e <= d
         ELSE e = meta.extents /\ bitmap[e].used = {}
  <2>1. CASE Disk!Usable # {}
    <3>1. e = Min(Disk!Usable) /\ b = bitmap[e]
      BY ZenonT(30), <2>1, DiskMin DEF Disk!Chosen, Disk!ChosenBitmap
    <3>2. e \in Disk!Usable /\ \A d \in Disk!Usable : e <= d
      BY ZenonT(30), <1>3, <2>1, <3>1, MinOfNats
    <3>3. e < meta.extents /\ Disk!FreeFrom(b, b.next) # {}
      <4>1. \A d \in Disk!Usable : d < meta.extents /\ Disk!HasFree(bitmap[d])
        BY <1>2, ExtentsAssumption DEF Disk!Usable
      <4>2. e < meta.extents /\ Disk!HasFree(b)
        <5> HIDE DEF e, b
        <5> QED
          BY ZenonT(30), <3>1, <3>2, <4>1
      <4> QED
        BY ZenonT(30), <4>2 DEF Disk!HasFree
    <3> QED
      <4>1. e \in Disk!Extents
        BY ZenonT(30), <1>3, <3>2
      <4>2. BitmapOK(b)
        BY ZenonT(30), <1>1, <3>1, <4>1 DEF BitmapsInv
      <4> QED
        BY <2>1, <3>1, <3>2, <3>3, <4>1, <4>2
  <2>2. CASE Disk!Usable = {}
    <3>1. e = meta.extents /\ b = Disk!EmptyBitmap /\ e < MaxExtents
      BY ZenonT(30), <2>2 DEF Disk!Chosen, Disk!ChosenBitmap, Disk!Room
    <3>2. e \in Disk!Extents
      BY <1>2, <3>1, ExtentsAssumption DEF Disk!Extents
    <3>3. b.used = {} /\ b.allocated = 0 /\ b.next = 0 /\ b \in Bitmap
      BY <3>1, ExtentsAssumption DEF Disk!EmptyBitmap, Bitmap
    <3>4. BitmapOK(b)
      BY <3>3, FS_EmptySet, ExtentsAssumption DEF BitmapOK, Disk!Offsets
    <3>5. bitmap[e].used = {}
      BY <1>1, <1>2, <3>1, <3>2
    <3>6. 0 \in Disk!FreeFrom(b, b.next)
      BY <3>3, ExtentsAssumption DEF Disk!FreeFrom, Disk!Offsets
    <3> QED
      BY <2>2, <3>1, <3>2, <3>3, <3>4, <3>5, <3>6
  <2> QED
    BY ZenonT(30), <2>1, <2>2
<1>5. o \in Disk!Offsets /\ o \notin b.used /\ \A i \in Disk!Offsets : i < o => i \in b.used
  BY Zenon, <1>4, FirstFree
<1>6. ASSUME NEW d \in Disk!Extents, NEW i \in Disk!Offsets, d < e PROVE i \in bitmap[d].used
  <2>1. d \in Nat /\ e \in Nat
    BY <1>4, ExtentsAssumption DEF Disk!Extents
  <2>2. d < meta.extents /\ d \notin Disk!Usable
    BY <1>2, <1>4, <1>6, <2>1
  <2> QED
    BY Zenon, <2>2, FreeIsUsable
<1>7. Disk!NextPage = e * Capacity + o
  BY Zenon DEF Disk!NextPage
<1> HIDE DEF b, e, o
<1> QED
  BY <1>4, <1>5, <1>6, <1>7 DEF b, e, o

\* A counter that stays below its range does not wrap.
LEMMA NoWrap == ASSUME NEW n \in Nat, n < WordSize PROVE n % WordSize = n
BY WordSizeAssumption

\* Counts of pages, and of an extent's pages, stay below the range of the counters.
LEMMA CountsFit ==
  /\ \A S : S \subseteq Pages => Cardinality(S) \in Nat /\ Cardinality(S) < WordSize
  /\ \A S : S \subseteq Disk!Offsets => Cardinality(S) \in Nat /\ Cardinality(S) < WordSize
<1>1. Capacity <= Capacity * MaxExtents /\ Capacity * MaxExtents \in Nat
  BY ExtentsAssumption
<1>2. ASSUME NEW S, S \subseteq Pages PROVE Cardinality(S) \in Nat /\ Cardinality(S) < WordSize
  <2>1. Cardinality(S) \in 0 .. NumPages
    BY ZenonT(30), <1>2, PagesFinite
  <2> QED
    BY <1>1, <2>1, NumPagesAssumption, FileAssumption, WordSizeAssumption
<1>3. ASSUME NEW S, S \subseteq Disk!Offsets PROVE Cardinality(S) \in Nat /\ Cardinality(S) < WordSize
  <2>1. Cardinality(S) \in 0 .. Capacity
    BY Zenon, <1>3, OffsetsFinite
  <2> QED
    BY <1>1, <2>1, ExtentsAssumption, WordSizeAssumption
<1> QED
  BY ZenonT(30), <1>2, <1>3

\* The page AllocatePage answers is not in use, and no free page is lower.
LEMMA NextIsLowestFree ==
  ASSUME DiskInv, open, Disk!Room, Disk!NextPage \in Pages, allocated \subseteq Pages
  PROVE  Disk!NextPage \notin allocated /\ Disk!NextPage = Min(Pages \ allocated)
<1>1. PICK e \in Disk!Extents, o \in Disk!Offsets :
        /\ Disk!NextPage = e * Capacity + o
        /\ o \notin bitmap[e].used
        /\ \A i \in Disk!Offsets : i < o => i \in bitmap[e].used
        /\ \A d \in Disk!Extents, i \in Disk!Offsets : d < e => i \in bitmap[d].used
  BY Zenon, ChosenFacts
<1>2. Disk!NextPage \notin allocated
  BY ZenonT(30), <1>1 DEF DiskInv, BitmapsInv
<1>3. ASSUME NEW q \in Pages \ allocated PROVE Disk!NextPage <= q
  <2>1. PICK d \in Disk!Extents, i \in Disk!Offsets : q = d * Capacity + i
    BY ZenonT(30), PlaceOfPage
  <2>2. i \notin bitmap[d].used
    BY ZenonT(30), <2>1 DEF DiskInv, BitmapsInv
  <2>3. d \in Nat /\ e \in Nat /\ i \in Nat /\ o \in Nat
    BY ExtentsAssumption DEF Disk!Extents, Disk!Offsets
  <2>4. ~(d < e) /\ (d = e => ~(i < o))
    BY Zenon, <1>1, <2>2
  <2>5. CASE d = e
    <3>1. e * Capacity \in Nat
      BY <2>3, ExtentsAssumption
    <3> QED
      BY <1>1, <2>1, <2>3, <2>4, <2>5, <3>1
  <2>6. CASE e < d
    <3>1. e * Capacity + o < d * Capacity + i
      BY ZenonT(30), <2>6, OnePlace
    <3>2. e * Capacity + o \in Nat /\ d * Capacity + i \in Nat
      BY ZenonT(30), OnePlace
    <3> QED
      BY <1>1, <2>1, <3>1, <3>2
  <2> QED
    BY <2>3, <2>4, <2>5, <2>6
<1>4. Pages \ allocated \subseteq Nat
  BY NumPagesAssumption DEF Pages
<1> QED
  BY ZenonT(30), <1>2, <1>3, <1>4, MinIs

\* One bit of one bitmap page changes together with the pages in use.
LEMMA OneBitChanges ==
  ASSUME BitmapsInv, NEW e \in Disk!Extents, NEW o \in Disk!Offsets,
         NEW b, BitmapOK(b), bitmap' = [bitmap EXCEPT ![e] = b],
         \/ b.used = bitmap[e].used \cup {o} /\ allocated' = allocated \cup {e * Capacity + o}
         \/ b.used = bitmap[e].used \ {o} /\ allocated' = allocated \ {e * Capacity + o}
  PROVE  BitmapsInv'
<1>1. bitmap \in [Disk!Extents -> Bitmap] /\ b \in Bitmap
  BY Zenon DEF BitmapsInv, BitmapOK
<1>2. bitmap' \in [Disk!Extents -> Bitmap]
  BY ZenonT(30), <1>1
<1>3. bitmap'[e] = b /\ \A d \in Disk!Extents : d # e => bitmap'[d] = bitmap[d]
  BY ZenonT(30), <1>1
<1>4. \A d \in Disk!Extents : BitmapOK(bitmap'[d])
  BY Zenon, <1>3 DEF BitmapsInv
<1>5. ASSUME NEW d \in Disk!Extents, NEW i \in Disk!Offsets
      PROVE  i \in bitmap'[d].used <=> d * Capacity + i \in allocated'
  <2>1. d * Capacity + i = e * Capacity + o <=> d = e /\ i = o
    BY OnePlace
  <2>2. i \in bitmap[d].used <=> d * Capacity + i \in allocated
    BY Zenon DEF BitmapsInv
  <2>3. CASE d = e
    BY Zenon, <1>3, <2>1, <2>2, <2>3
  <2>4. CASE d # e
    BY ZenonT(30), <1>3, <2>1, <2>2, <2>4
  <2> QED
    BY ZenonT(30), <2>3, <2>4
<1> QED
  BY ZenonT(30), <1>2, <1>4, <1>5 DEF BitmapsInv

\* AllocatePage keeps the books.
LEMMA AllocateKeeps ==
  ASSUME DiskInv, Disk!AllocatePage, Disk!NextPage \in Pages, allocated \subseteq Pages
  PROVE  DiskInv'
<1>1. open /\ Disk!Room /\ open'
  BY Zenon DEF Disk!AllocatePage
<1>2. PICK e \in Disk!Extents, o \in Disk!Offsets :
        /\ e = Disk!Chosen /\ Disk!NextPage = e * Capacity + o
        /\ o = Disk!Min(Disk!FreeFrom(Disk!ChosenBitmap, Disk!ChosenBitmap.next))
        /\ Disk!FreeFrom(Disk!ChosenBitmap, Disk!ChosenBitmap.next) # {}
        /\ BitmapOK(Disk!ChosenBitmap) /\ Disk!ChosenBitmap.used = bitmap[e].used
        /\ o \notin bitmap[e].used
        /\ IF Disk!Usable # {} THEN e < meta.extents
           ELSE e = meta.extents /\ bitmap[e].used = {}
  BY ZenonT(30), <1>1, ChosenFacts
<1>3. PICK b : b = Disk!BitmapAllocate(Disk!ChosenBitmap)
  BY Zenon
<1>4. /\ BitmapOK(b) /\ b.used = bitmap[e].used \cup {o}
      /\ Cardinality(b.used) = Cardinality(bitmap[e].used) + 1
  <2>1. PICK c : c = Disk!ChosenBitmap
    BY Zenon
  <2>2. /\ BitmapOK(c) /\ o = Disk!Min(Disk!FreeFrom(c, c.next))
        /\ Disk!FreeFrom(c, c.next) # {} /\ c.used = bitmap[e].used
    BY ZenonT(30), <1>2, <2>1
  <2>3. b = Disk!BitmapAllocate(c)
    BY ZenonT(30), <1>3, <2>1
  <2>4. /\ BitmapOK(Disk!BitmapAllocate(c)) /\ Disk!BitmapAllocate(c).used = c.used \cup {o}
        /\ Cardinality(c.used \cup {o}) = Cardinality(c.used) + 1
    BY ZenonT(30), <2>2, BitmapAllocates
  <2> QED
    BY ZenonT(30), <2>2, <2>3, <2>4
<1>5. bitmap' = [bitmap EXCEPT ![e] = b] /\ allocated' = allocated \cup {e * Capacity + o}
  BY ZenonT(30), <1>2, <1>3 DEF Disk!AllocatePage
<1>6. BitmapsInv /\ CountsInv(meta)
  BY ZenonT(30), <1>1 DEF DiskInv
<1>7. BitmapsInv'
  BY ZenonT(30), <1>4, <1>5, <1>6, OneBitChanges
<1>8. meta \in Meta /\ bitmap \in [Disk!Extents -> Bitmap]
  BY ZenonT(30), <1>6 DEF CountsInv, BitmapsInv
<1>9. /\ bitmap'[e] = b /\ \A d \in Disk!Extents : d # e => bitmap'[d] = bitmap[d]
  BY ZenonT(30), <1>5, <1>8
<1>10. meta' = [meta EXCEPT
         !.allocated = (@ + 1) % WordSize,
         !.extents = IF Disk!Usable # {} THEN @ ELSE @ + 1,
         !.usedPages[e] = IF Disk!Usable # {} THEN (@ + 1) % WordSize ELSE 1]
  BY ZenonT(30), <1>2 DEF Disk!AllocatePage
<1>11. (meta.allocated + 1) % WordSize = Cardinality(allocated')
  <2>1. IsFiniteSet(allocated) /\ e * Capacity + o \notin allocated
    BY ZenonT(30), <1>1, <1>2, PagesFinite, NextIsLowestFree
  <2>2. Cardinality(allocated') = Cardinality(allocated) + 1
    BY ZenonT(30), <1>5, <2>1, FS_AddElement
  <2>3. allocated' \subseteq Pages
    BY ZenonT(30), <1>2, <1>5
  <2>4. Cardinality(allocated') \in Nat /\ Cardinality(allocated') < WordSize
    BY ZenonT(30), <2>3, CountsFit
  <2>5. meta.allocated = Cardinality(allocated)
    BY ZenonT(30), <1>6 DEF CountsInv
  <2> QED
    BY ZenonT(30), <2>2, <2>4, <2>5, NoWrap
<1>12. (IF Disk!Usable # {} THEN (meta.usedPages[e] + 1) % WordSize ELSE 1) = Cardinality(b.used)
  <2>1. meta.usedPages[e] = Cardinality(bitmap[e].used)
    BY ZenonT(30), <1>6 DEF CountsInv
  <2>2. b.used \subseteq Disk!Offsets
    BY ZenonT(30), <1>4 DEF BitmapOK, Bitmap
  <2>3. Cardinality(b.used) \in Nat /\ Cardinality(b.used) < WordSize
    BY ZenonT(30), <2>2, CountsFit
  <2>4. CASE Disk!Usable # {}
    BY <1>4, <2>1, <2>3, <2>4, NoWrap
  <2>5. CASE Disk!Usable = {}
    <3>1. bitmap[e].used = {}
      BY ZenonT(30), <1>2, <2>5
    <3>2. Cardinality(bitmap[e].used) = 0
      BY ZenonT(30), <3>1, FS_EmptySet
    <3> QED
      BY <1>4, <2>5, <3>2
  <2> QED
    BY ZenonT(30), <2>4, <2>5
<1>13. meta' = [allocated |-> Cardinality(allocated'),
                extents |-> IF Disk!Usable # {} THEN meta.extents ELSE meta.extents + 1,
                usedPages |-> [meta.usedPages EXCEPT ![e] = Cardinality(b.used)]]
  BY ZenonT(30), <1>8, <1>10, <1>11, <1>12 DEF Meta
<1>14. CountsInv(meta)'
  <2>1. e < meta'.extents /\ meta.extents <= meta'.extents /\ meta'.extents \in 0 .. MaxExtents
    BY <1>2, <1>8, <1>13, ExtentsAssumption DEF Meta, Disk!Extents
  <2>2. Cardinality(b.used) \in Nat /\ Cardinality(allocated') \in Nat
    <3>1. b.used \subseteq Disk!Offsets /\ allocated' \subseteq Pages
      BY ZenonT(30), <1>2, <1>4, <1>5 DEF BitmapOK, Bitmap
    <3> QED
      BY Zenon, <3>1, CountsFit
  <2>3. meta.usedPages \in [Disk!Extents -> Nat] /\ meta'.usedPages \in [Disk!Extents -> Nat]
    BY ZenonT(30), <1>8, <1>13, <2>2 DEF Meta
  <2>4. meta' \in Meta
    BY <1>13, <2>1, <2>2, <2>3 DEF Meta
  <2>5. \A d \in Disk!Extents : meta'.usedPages[d] = Cardinality(bitmap'[d].used)
    BY <1>6, <1>9, <1>13, <2>3 DEF CountsInv
  <2>6. ASSUME NEW d \in Disk!Extents, d >= meta'.extents PROVE bitmap'[d].used = {}
    <3>1. d # e /\ d >= meta.extents
      BY <1>8, <2>1, <2>6, ExtentsAssumption DEF Meta, Disk!Extents
    <3> QED
      BY ZenonT(30), <1>6, <1>9, <3>1 DEF CountsInv
  <2> QED
    BY <1>13, <2>4, <2>5, <2>6 DEF CountsInv
<1> QED
  BY <1>1, <1>7, <1>14 DEF DiskInv

\* DeAllocatePage of a page in use keeps them as well.
LEMMA DeAllocateKeeps ==
  ASSUME DiskInv, NEW p \in Pages, Disk!DeAllocatePage(p), p \in allocated, allocated \subseteq Pages
  PROVE  DiskInv'
<1> DEFINE e == Disk!ExtentOf(p)
           o == Disk!OffsetOf(p)
<1>1. e \in Disk!Extents /\ o \in Disk!Offsets /\ p = e * Capacity + o
  BY ZenonT(30), PlaceOfPage
<1>2. open /\ open' /\ BitmapsInv /\ CountsInv(meta)
  BY Zenon DEF Disk!DeAllocatePage, DiskInv
<1>3. o \in bitmap[e].used
  BY ZenonT(30), <1>1, <1>2 DEF BitmapsInv
<1>4. meta \in Meta /\ bitmap \in [Disk!Extents -> Bitmap]
  BY Zenon, <1>2 DEF CountsInv, BitmapsInv
<1>5. e < meta.extents
  BY <1>1, <1>2, <1>3, <1>4, ExtentsAssumption DEF CountsInv, Meta, Disk!Extents
<1>6. PICK b : b = Disk!BitmapDeAllocate(bitmap[e], o)
  BY Zenon
<1>7. /\ BitmapOK(b) /\ b.used = bitmap[e].used \ {o}
      /\ Cardinality(b.used) = Cardinality(bitmap[e].used) - 1
  <2>1. BitmapOK(bitmap[e])
    BY ZenonT(30), <1>1, <1>2 DEF BitmapsInv
  <2> HIDE DEF e, o
  <2> QED
    BY ZenonT(30), <1>3, <1>6, <2>1, BitmapDeAllocates
<1>8. /\ bitmap' = [bitmap EXCEPT ![e] = b] /\ allocated' = allocated \ {p}
      /\ meta' = [meta EXCEPT !.allocated = (@ - 1) % WordSize,
                              !.usedPages[e] = (@ - 1) % WordSize]
  BY ZenonT(30), <1>3, <1>5, <1>6 DEF Disk!DeAllocatePage
<1> HIDE DEF e, o
<1>9. BitmapsInv'
  BY ZenonT(30), <1>1, <1>2, <1>7, <1>8, OneBitChanges
<1>10. /\ bitmap'[e] = b /\ \A d \in Disk!Extents : d # e => bitmap'[d] = bitmap[d]
  BY ZenonT(30), <1>1, <1>4, <1>8
<1>11. (meta.allocated - 1) % WordSize = Cardinality(allocated')
  <2>1. IsFiniteSet(allocated)
    BY ZenonT(30), PagesFinite
  <2>2. Cardinality(allocated') = Cardinality(allocated) - 1
    BY ZenonT(30), <1>8, <2>1, FS_RemoveElement
  <2>3. Cardinality(allocated') \in Nat /\ Cardinality(allocated') < WordSize
    BY ZenonT(30), <1>8, CountsFit
  <2>4. meta.allocated = Cardinality(allocated)
    BY ZenonT(30), <1>2 DEF CountsInv
  <2> QED
    BY <2>2, <2>3, <2>4, NoWrap
<1>12. (meta.usedPages[e] - 1) % WordSize = Cardinality(b.used)
  <2>1. meta.usedPages[e] = Cardinality(bitmap[e].used)
    BY ZenonT(30), <1>1, <1>2 DEF CountsInv
  <2>2. b.used \subseteq Disk!Offsets
    BY Zenon, <1>7 DEF BitmapOK, Bitmap
  <2>3. Cardinality(b.used) \in Nat /\ Cardinality(b.used) < WordSize
    BY ZenonT(30), <2>2, CountsFit
  <2> QED
    BY <1>7, <2>1, <2>3, NoWrap
<1>13. meta' = [allocated |-> Cardinality(allocated'), extents |-> meta.extents,
                usedPages |-> [meta.usedPages EXCEPT ![e] = Cardinality(b.used)]]
  BY ZenonT(30), <1>4, <1>8, <1>11, <1>12 DEF Meta
<1>14. CountsInv(meta)'
  <2>1. Cardinality(b.used) \in Nat /\ Cardinality(allocated') \in Nat
    <3>1. b.used \subseteq Disk!Offsets /\ allocated' \subseteq Pages
      BY ZenonT(30), <1>7, <1>8 DEF BitmapOK, Bitmap
    <3> QED
      BY ZenonT(30), <3>1, CountsFit
  <2>2. meta.usedPages \in [Disk!Extents -> Nat] /\ meta'.usedPages \in [Disk!Extents -> Nat]
    BY ZenonT(30), <1>4, <1>13, <2>1 DEF Meta
  <2>3. meta' \in Meta
    BY ZenonT(30), <1>4, <1>13, <2>1, <2>2 DEF Meta
  <2>4. \A d \in Disk!Extents : meta'.usedPages[d] = Cardinality(bitmap'[d].used)
    BY ZenonT(30), <1>2, <1>10, <1>13, <2>2 DEF CountsInv
  <2>5. \A d \in Disk!Extents : d >= meta'.extents => bitmap'[d].used = {}
    BY ZenonT(30), <1>2, <1>7, <1>10, <1>13 DEF CountsInv
  <2> QED
    BY ZenonT(30), <1>13, <2>3, <2>4, <2>5 DEF CountsInv
<1> QED
  BY ZenonT(30), <1>2, <1>9, <1>14 DEF DiskInv

-----------------------------------------------------------------------------
(* The steps of Storage *)

\* The books balance in a new file.
LEMMA DiskInitKeeps == StorageInit => DiskInv
<1> SUFFICES ASSUME StorageInit PROVE DiskInv
  BY Zenon
<1>1. /\ bitmap = [e \in Disk!Extents |-> Disk!EmptyBitmap]
      /\ meta = Disk!EmptyMeta /\ open /\ allocated = {}
  BY Zenon DEF StorageInit, Disk!Init
<1>2. Cardinality({}) = 0
  BY ZenonT(30), FS_EmptySet
<1>3. BitmapOK(Disk!EmptyBitmap)
  BY <1>2, ExtentsAssumption DEF BitmapOK, Bitmap, Disk!EmptyBitmap, Disk!Offsets
<1>4. BitmapsInv
  BY ZenonT(30), <1>1, <1>3 DEF BitmapsInv, BitmapOK, Disk!EmptyBitmap
<1>5. CountsInv(meta)
  <2>1. meta \in Meta
    BY <1>1, ExtentsAssumption DEF Meta, Disk!EmptyMeta
  <2>2. \A e \in Disk!Extents : bitmap[e].used = {} /\ meta.usedPages[e] = 0
    BY ZenonT(30), <1>1 DEF Disk!EmptyBitmap, Disk!EmptyMeta
  <2>3. meta.allocated = 0
    BY Zenon, <1>1 DEF Disk!EmptyMeta
  <2> QED
    BY ZenonT(30), <1>1, <1>2, <2>1, <2>2, <2>3 DEF CountsInv
<1> QED
  BY ZenonT(30), <1>1, <1>4, <1>5 DEF DiskInv

\* Steps that leave the bitmap pages, the meta page in force and the pages in use alone.
LEMMA SameBooks ==
  ASSUME DiskInv, UNCHANGED <<bitmap, allocated>>,
         (IF open' THEN meta' ELSE metaDisk') = (IF open THEN meta ELSE metaDisk)
  PROVE  DiskInv'
<1>1. PICK m : m = (IF open THEN meta ELSE metaDisk)
  BY Zenon
<1>2. BitmapsInv /\ CountsInv(m)
  BY Zenon, <1>1 DEF DiskInv
<1>3. BitmapsInv'
  BY ZenonT(30), <1>2 DEF BitmapsInv
<1>4. CountsInv(m)'
  BY Zenon, <1>2 DEF CountsInv
<1> QED
  BY ZenonT(30), <1>1, <1>3, <1>4 DEF DiskInv

\* AllocatePage answers with a page that is not in use, so a step of Storage is one of
\* the pool or leaves the pool alone.
LEMMA StorageStep ==
  StorageInv /\ [StorageNext]_allVars => PoolStep \/ UNCHANGED vars
<1> SUFFICES ASSUME StorageInv, [StorageNext]_allVars PROVE PoolStep \/ UNCHANGED vars
  BY Zenon
<1>1. CASE InPool
  BY ZenonT(30), <1>1 DEF InPool, PoolStep
<1>2. ASSUME NEW c \in Clients, NEW f \in Frames, CreatePage(c, f) PROVE PoolStep
  <2>1. Disk!NextPage \in Pages /\ Disk!Room /\ open /\ NewPage(c, f, Disk!NextPage)
    BY ZenonT(30), <1>2 DEF CreatePage, Disk!AllocatePage
  <2>2. Disk!NextPage \notin allocated
    BY ZenonT(30), <2>1, NextIsLowestFree DEF StorageInv, PoolInv, PoolTypeOK
  <2> QED
    BY ZenonT(30), <2>1, <2>2 DEF PoolStep
<1>3. ASSUME NEW p \in Pages, GiveBack(p) PROVE PoolStep
  BY Zenon, <1>3 DEF GiveBack, PoolStep
<1>4. CASE Shutdown
  BY Zenon, <1>4 DEF Shutdown, PoolStep
<1>5. CASE Startup
  BY ZenonT(30), <1>5 DEF Startup, poolVars
<1>6. CASE UNCHANGED allVars
  BY Zenon, <1>6 DEF allVars, poolVars
<1> QED
  BY <1>1, <1>2, <1>3, <1>4, <1>5, <1>6 DEF StorageNext

\* The books balance after every step.
LEMMA DiskStepKeeps == StorageInv /\ [StorageNext]_allVars => DiskInv'
<1> SUFFICES ASSUME StorageInv, [StorageNext]_allVars PROVE DiskInv'
  BY Zenon
<1>1. DiskInv /\ allocated \subseteq Pages
  BY Zenon DEF StorageInv, PoolInv, PoolTypeOK
<1>2. CASE InPool
  <2>1. UNCHANGED diskVars /\ UNCHANGED allocated
    BY ZenonT(30), <1>2 DEF InPool, FetchHit, FetchMiss, UnpinPage, WriteData, FlushPage
  <2> QED
    BY <1>1, <2>1, SameBooks DEF diskVars
<1>3. ASSUME NEW c \in Clients, NEW f \in Frames, CreatePage(c, f) PROVE DiskInv'
  BY ZenonT(30), <1>1, <1>3, AllocateKeeps DEF CreatePage
<1>4. ASSUME NEW p \in Pages, GiveBack(p) PROVE DiskInv'
  <2>1. p \in allocated /\ Disk!DeAllocatePage(p)
    BY ZenonT(30), <1>4 DEF GiveBack, DeletePage
  <2> QED
    BY ZenonT(30), <1>1, <2>1, DeAllocateKeeps
<1>5. CASE Shutdown
  BY ZenonT(30), <1>1, <1>5, SameBooks DEF Shutdown, Disk!Close
<1>6. CASE Startup
  BY ZenonT(30), <1>1, <1>6, SameBooks DEF Startup, Disk!Open
<1>7. CASE UNCHANGED allVars
  BY ZenonT(30), <1>1, <1>7, SameBooks DEF allVars, poolVars, diskVars, vars
<1> QED
  BY <1>2, <1>3, <1>4, <1>5, <1>6, <1>7 DEF StorageNext

\* The books as BooksBalance reads them: IsPageFree looks at the bit of the page.
LEMMA BooksFollow == DiskInv => BooksBalance
<1> SUFFICES ASSUME DiskInv, open PROVE BooksBalance
  BY Zenon DEF BooksBalance
<1>1. BitmapsInv /\ CountsInv(meta)
  BY Zenon DEF DiskInv
<1>2. ASSUME NEW p \in Pages PROVE Disk!IsPageFree(p) <=> p \notin allocated
  <2>1. PICK e \in Disk!Extents, o \in Disk!Offsets :
          e = Disk!ExtentOf(p) /\ o = Disk!OffsetOf(p) /\ p = e * Capacity + o
    BY ZenonT(30), PlaceOfPage
  <2>2. o \in bitmap[e].used <=> p \in allocated
    BY ZenonT(30), <1>1, <2>1 DEF BitmapsInv
  <2>3. e >= meta.extents => o \notin bitmap[e].used
    BY ZenonT(30), <1>1 DEF CountsInv
  <2> QED
    BY ZenonT(30), <2>1, <2>2, <2>3 DEF Disk!IsPageFree
<1>3. \A e \in Disk!Extents : /\ bitmap[e].allocated = Cardinality(bitmap[e].used)
                             /\ meta.usedPages[e] = Cardinality(bitmap[e].used)
  BY ZenonT(30), <1>1 DEF BitmapsInv, BitmapOK, CountsInv
<1>4. meta.allocated = Cardinality(allocated)
  BY ZenonT(30), <1>1 DEF CountsInv
<1> QED
  BY ZenonT(30), <1>2, <1>3, <1>4 DEF BooksBalance, Disk!Extents

-----------------------------------------------------------------------------
(* The theorems *)

\* The invariant of the pool and the disk manager together.
THEOREM StorageInvariant == ASSUME OnlyAbsentDeleted PROVE StorageSpec => []StorageInv
<1>1. StorageInit => StorageInv
  BY ZenonT(30), PoolInit, DiskInitKeeps DEF StorageInit, StorageInv
<1>2. StorageInv /\ [StorageNext]_allVars => StorageInv'
  <2>1. StorageInv /\ [StorageNext]_allVars => PoolInv'
    BY ZenonT(30), OnlyAbsentDeleted, StorageStep, PoolStepKeeps, PoolStutters DEF StorageInv
  <2> QED
    BY ZenonT(30), <2>1, DiskStepKeeps DEF StorageInv
<1> QED
  BY <1>1, <1>2, PTL DEF StorageSpec

\* The frame a caller holds keeps the page the caller fetched, whatever FetchPage,
\* NewPage and eviction do meanwhile, when the pages come from the real disk manager.
THEOREM HeldPageStaysHolds == ASSUME OnlyAbsentDeleted PROVE StorageSpec => []HeldPageStays
<1>1. StorageInv => HeldPageStays
  BY PoolInvImplies DEF StorageInv
<1> QED
  BY <1>1, StorageInvariant, PTL

\* page_table_, pin counts, free list, replacer and is_dirty_ agree about every frame, when
\* the pages come from the real disk manager.
THEOREM FramesAccountedHolds == ASSUME OnlyAbsentDeleted PROVE StorageSpec => []FramesAccounted
<1>1. StorageInv => FramesAccounted
  BY ZenonT(30), PoolInvImplies DEF StorageInv
<1> QED
  BY <1>1, StorageInvariant, PTL

\* Bits, bitmap counts, extent counts and total agree with the pages in use, through any
\* sequence of calls, Close and reopening.
THEOREM BooksBalanceHolds == ASSUME OnlyAbsentDeleted PROVE StorageSpec => []BooksBalance
<1>1. StorageInv => BooksBalance
  BY Zenon, BooksFollow DEF StorageInv
<1> QED
  BY <1>1, StorageInvariant, PTL

\* Pool and disk manager together implement PageStore: no write is lost across eviction,
\* flush, deletion of other pages and restart.
THEOREM StorageIsPageStore == ASSUME OnlyAbsentDeleted PROVE StorageSpec => ImplementsPageStore
<1>1. StorageInit => Store!Init
  BY Zenon, PoolInitRefines DEF StorageInit
<1>2. StorageInv /\ [StorageNext]_allVars => [Store!Next]_Content
  <2>1. UNCHANGED vars => Content' = Content
    BY Zenon DEF vars, Content, Resident
  <2> QED
    BY <2>1, OnlyAbsentDeleted, StorageStep, PoolStepRefines DEF StorageInv
<1> QED
  BY <1>1, <1>2, StorageInvariant, PTL DEF StorageSpec, ImplementsPageStore, Store!Spec

\* AllocatePage hands out the lowest free page, so a new extent is opened only when every
\* page before it is in use.
THEOREM LowestFreeFirstHolds == ASSUME OnlyAbsentDeleted PROVE StorageSpec => LowestFreeFirst
<1> DEFINE Lowest == \A p \in allocated' \ allocated : p = Min(Pages \ allocated)
<1>1. StorageInv /\ [StorageNext]_allVars => [Lowest]_allVars
  <2> SUFFICES ASSUME StorageInv, StorageNext, NEW p \in allocated' \ allocated
               PROVE  p = Min(Pages \ allocated)
    BY Zenon
  <2>1. CASE InPool
    BY ZenonT(30), <2>1 DEF InPool, FetchHit, FetchMiss, UnpinPage, WriteData, FlushPage
  <2>2. ASSUME NEW c \in Clients, NEW f \in Frames, CreatePage(c, f) PROVE p = Min(Pages \ allocated)
    <3>1. /\ Disk!NextPage \in Pages /\ Disk!Room /\ open
          /\ allocated' = allocated \cup {Disk!NextPage}
      BY ZenonT(30), <2>2 DEF CreatePage, Disk!AllocatePage
    <3> QED
      BY ZenonT(30), <3>1, NextIsLowestFree DEF StorageInv, PoolInv, PoolTypeOK
  <2>3. ASSUME NEW q \in Pages, GiveBack(q) PROVE FALSE
    BY ZenonT(30), <2>3 DEF GiveBack, DeletePage
  <2>4. ~Shutdown /\ ~Startup
    BY Zenon DEF Shutdown, Restart, Startup, poolVars, vars
  <2> QED
    BY <2>1, <2>2, <2>3, <2>4 DEF StorageNext
<1> QED
  BY <1>1, StorageInvariant, PTL DEF StorageSpec, LowestFreeFirst

=============================================================================
