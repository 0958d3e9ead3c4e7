----------------------------- MODULE TableHeap -----------------------------
(***************************************************************************)
(* The table heap: a chain of slotted pages, the list of the pages that    *)
(* can take a tuple, and the iterator that scans them.                     *)
(*                                                                         *)
(* A page is its header, its slot directory and its bytes.  Offsets count  *)
(* from the end of the page header.  A byte is <<r, i>>, the i-th byte of  *)
(* row r; what lies below the free space pointer is Junk: InsertTuple and  *)
(* UpdateTuple write it before anything reads it.  Slot number s is the    *)
(* slot at index s + 1.  Pages are numbered in the order NewPage gave them *)
(* out; 0 is INVALID_PAGE_ID.  The heap's caller is one thread             *)
(* (execute_engine.cpp:162), so that an operation is one step.             *)
(***************************************************************************)
EXTENDS Integers, Sequences, FiniteSets

CONSTANTS
    Rows,           \* the rows a caller may write
    SizeOf,         \* their serialized sizes
    PageBytes,      \* bytes of a page after its header
    SlotBytes,      \* SIZE_TUPLE
    SlotCapacity,   \* BITMAP_SLOT_CAPACITY
    MaxPages,       \* bound: NewPage finds no frame for a page beyond it
    MaxRows,        \* bound: rows the table may hold at once
    ScanPages       \* bound: a scan begins on a table of at most that many pages

ASSUME HeapAssumption ==
    /\ SizeOf \in [Rows -> Nat \ {0}]
    /\ {PageBytes, SlotBytes, SlotCapacity, MaxPages, MaxRows, ScanPages} \subseteq Nat \ {0}

VARIABLES
    pages,          \* page id -> page
    head,           \* insertable_head_page_id_
    last,           \* last_page_id_
    built,          \* heap_metadata_built_
    open,           \* there is a table; FALSE after DeleteTable
    at,             \* row id a scan stands on, or End
    sought,         \* history: a row there since the scan began and not returned, or End
    stored          \* history: row id -> row and mark, as the callers know them

vars == <<pages, head, last, built, open, at, sought, stored>>
heapVars == <<pages, head, last, built, open, stored>>

Invalid == 0
Junk == <<>>
End == <<>>
Rids == (1..MaxPages) \X (1..SlotCapacity)
SizeMaxRow == PageBytes - SlotBytes
MinOf(S) == CHOOSE x \in S : \A y \in S : x <= y

-----------------------------------------------------------------------------
(* Table pages. *)

EmptySlot == [off |-> 0, size |-> 0, flag |-> FALSE, occupied |-> FALSE, deleted |-> FALSE]

\* A page after TablePage::Init.
InitPage(prev) ==
    [prev |-> prev, next |-> Invalid, prevIns |-> Invalid, nextIns |-> Invalid,
     free |-> PageBytes, live |-> 0, slots |-> <<>>,
     bytes |-> [x \in 0..(PageBytes - 1) |-> Junk]]

FreeSpaceRemaining(p) == p.free - SlotBytes * Len(p.slots)

\* The lowest slot that is not occupied, or the next new one.
FindReusableSlot(p) ==
    MinOf({i \in 1..Len(p.slots) : ~p.slots[i].occupied} \cup {Len(p.slots) + 1})

IsLive(s) == s.occupied /\ ~s.deleted

\* The first live slot from start on, 0 if there is none.
FindLiveSlot(p, start) ==
    LET live == {i \in start..Len(p.slots) : IsLive(p.slots[i])}
    IN  IF live = {} THEN 0 ELSE MinOf(live)

CanHostAnyTuple(p) ==
    FreeSpaceRemaining(p) >= IF FindReusableSlot(p) <= Len(p.slots) THEN 1 ELSE SlotBytes + 1

MemMove(bytes, dst, src, n) ==
    [x \in DOMAIN bytes |-> IF x \in dst..(dst + n - 1) THEN bytes[x - dst + src] ELSE bytes[x]]

SerializeTo(bytes, off, r) ==
    [x \in DOMAIN bytes |-> IF x \in off..(off + SizeOf[r] - 1) THEN <<r, x - off>> ELSE bytes[x]]

\* Bytes below the free space pointer are forgotten.
Forget(bytes, free) == [x \in DOMAIN bytes |-> IF x < free THEN Junk ELSE bytes[x]]

\* TablePage::InsertTuple returns true.
Fits(p, r) ==
    LET new == FindReusableSlot(p) > Len(p.slots)
    IN  /\ FreeSpaceRemaining(p) >= SizeOf[r] + IF new THEN SlotBytes ELSE 0
        /\ new => Len(p.slots) < SlotCapacity

PageInsert(p, r) ==
    LET i    == FindReusableSlot(p)
        free == p.free - SizeOf[r]
        slot == [off |-> free, size |-> SizeOf[r], flag |-> FALSE, occupied |-> TRUE,
                 deleted |-> FALSE]
    IN  [p EXCEPT !.free = free,
                  !.live = @ + 1,
                  !.bytes = SerializeTo(@, free, r),
                  !.slots = IF i > Len(@) THEN Append(@, slot) ELSE [@ EXCEPT ![i] = slot]]

\* MarkDelete, UpdateTuple and GetTuple go on past their first checks.
CanTouch(p, i) == i <= Len(p.slots) /\ IsLive(p.slots[i]) /\ ~p.slots[i].flag

PageMarkDelete(p, i) ==
    [p EXCEPT !.live = @ - 1, !.slots[i].flag = TRUE, !.slots[i].deleted = TRUE]

\* Mutant: every occupied slot moves.
ShiftAllSlots(slots, limit, d) ==
    [j \in DOMAIN slots |-> IF slots[j].occupied THEN [slots[j] EXCEPT !.off = @ + d] ELSE slots[j]]

\* The occupied slots below limit move by d bytes.
ShiftSlots(slots, limit, d) ==
    [j \in DOMAIN slots |->
        IF slots[j].occupied /\ slots[j].off < limit
        THEN [slots[j] EXCEPT !.off = @ + d] ELSE slots[j]]

PageUpdate(p, i, r) ==
    LET s     == p.slots[i]
        d     == s.size - SizeOf[r]
        moved == MemMove(p.bytes, p.free + d, p.free, s.off - p.free)
    IN  [p EXCEPT !.free = @ + d,
                  !.bytes = Forget(SerializeTo(moved, s.off + d, r), p.free + d),
                  !.slots = ShiftSlots([@ EXCEPT ![i].size = SizeOf[r]], s.off + s.size, d)]

PageApplyDelete(p, i) ==
    LET s     == p.slots[i]
        moved == MemMove(p.bytes, p.free + s.size, p.free, s.off - p.free)
    IN  [p EXCEPT !.free = @ + s.size,
                  !.bytes = Forget(moved, p.free + s.size),
                  !.live = IF s.flag THEN @ ELSE @ - 1,
                  !.slots = ShiftSlots([@ EXCEPT ![i] = EmptySlot], s.off, s.size)]

\* Mutant: the live count is not restored.
PageRollbackUncounted(p, i) ==
    [p EXCEPT !.slots[i].flag = FALSE, !.slots[i].deleted = FALSE]

PageRollbackDelete(p, i) ==
    LET s == p.slots[i]
    IN  IF ~(s.flag \/ s.deleted) THEN p
        ELSE [p EXCEPT !.slots[i].flag = FALSE,
                       !.slots[i].deleted = FALSE,
                       !.live = IF s.deleted THEN @ + 1 ELSE @]

\* What Row::DeserializeFrom makes of the bytes at a slot's offset.
ReadRow(p, s) ==
    LET at_ == {r \in Rows : /\ SizeOf[r] = s.size
                             /\ s.off + s.size <= PageBytes
                             /\ \A k \in 0..(s.size - 1) : p.bytes[s.off + k] = <<r, k>>}
    IN  IF at_ = {} THEN Junk ELSE CHOOSE r \in at_ : TRUE

GetFirstTuple(p) == IF p.live = 0 THEN 0 ELSE FindLiveSlot(p, 1)

-----------------------------------------------------------------------------
(* The list of insertable pages.  h is the part of the heap it touches.    *)

Heap == [pages |-> pages, head |-> head, last |-> last]

\* Mutant: a page alone on the list is taken for one that is not on it.
TrackedByLinks(h, id) == h.pages[id].prevIns # Invalid \/ h.pages[id].nextIns # Invalid

IsInsertablePageTracked(h, id) ==
    id = h.head \/ h.pages[id].prevIns # Invalid \/ h.pages[id].nextIns # Invalid

LinkInsertablePage(h, id) ==
    LET linked == [h.pages EXCEPT ![id].prevIns = Invalid, ![id].nextIns = h.head]
    IN  [h EXCEPT !.head = id,
                  !.pages = IF h.head = Invalid THEN linked
                            ELSE [linked EXCEPT ![h.head].prevIns = id]]

UnlinkInsertablePage(h, id) ==
    LET prev == h.pages[id].prevIns
        next == h.pages[id].nextIns
    IN  [h EXCEPT !.head = IF @ = id THEN next ELSE @,
                  !.pages = [j \in DOMAIN @ |->
                      CASE j = id   -> [@[j] EXCEPT !.prevIns = Invalid, !.nextIns = Invalid]
                        [] j = prev -> [@[j] EXCEPT !.nextIns = next]
                        [] j = next -> [@[j] EXCEPT !.prevIns = prev]
                        [] OTHER    -> @[j]]]

RefreshInsertablePage(h, id) ==
    LET should  == CanHostAnyTuple(h.pages[id])
        tracked == IsInsertablePageTracked(h, id)
    IN  IF should /\ ~tracked THEN LinkInsertablePage(h, id)
        ELSE IF ~should /\ tracked THEN UnlinkInsertablePage(h, id)
        ELSE h

\* The loop of EnsureHeapMetadata: page s.at of the chain, s.tail the last
\* insertable page so far.
EnsureStep(s) ==
    LET id     == s.at
        hosts  == CanHostAnyTuple(s.pages[id])
        reset  == [s.pages EXCEPT ![id].prevIns = IF hosts THEN s.tail ELSE Invalid,
                                  ![id].nextIns = Invalid]
    IN  IF id = Invalid THEN s
        ELSE [pages |-> IF hosts /\ s.tail # Invalid
                        THEN [reset EXCEPT ![s.tail].nextIns = id] ELSE reset,
              head  |-> IF hosts /\ s.tail = Invalid THEN id ELSE s.head,
              tail  |-> IF hosts THEN id ELSE s.tail,
              last  |-> id,
              at    |-> s.pages[id].next]

EnsureHeapMetadata(h) ==
    LET loop[n \in 0..Len(h.pages)] ==
            IF n = 0 THEN [pages |-> h.pages, head |-> Invalid, tail |-> Invalid,
                           last |-> Invalid, at |-> 1]
            ELSE EnsureStep(loop[n - 1])
        s == loop[Len(h.pages)]
    IN  IF built THEN h ELSE [pages |-> s.pages, head |-> s.head, last |-> s.last]

\* Mutant: only the first page of the list is tried.
WalkFirstOnly(s, r) ==
    LET id == s.at
        ok == Fits(s.h.pages[id], r)
        h  == IF ok THEN [s.h EXCEPT !.pages[id] = PageInsert(@, r)] ELSE s.h
    IN  IF s.ok \/ id = Invalid THEN s
        ELSE [h |-> RefreshInsertablePage(h, id), at |-> Invalid, ok |-> ok,
              rid |-> <<id, FindReusableSlot(s.h.pages[id])>>]

\* One round of InsertTuple's walk along the insertable list.
WalkStep(s, r) ==
    LET id == s.at
        ok == Fits(s.h.pages[id], r)
        h  == IF ok THEN [s.h EXCEPT !.pages[id] = PageInsert(@, r)] ELSE s.h
    IN  IF s.ok \/ id = Invalid THEN s
        ELSE [h |-> RefreshInsertablePage(h, id), at |-> s.h.pages[id].nextIns, ok |-> ok,
              rid |-> <<id, FindReusableSlot(s.h.pages[id])>>]

Walk(h, r) ==
    LET loop[n \in 0..Len(h.pages)] ==
            IF n = 0 THEN [h |-> h, at |-> h.head, ok |-> FALSE, rid |-> End]
            ELSE WalkStep(loop[n - 1], r)
    IN  loop[Len(h.pages)]

\* InsertTuple after the walk found no page: a new last page.
ExtendHeap(h, r) ==
    LET id    == Len(h.pages) + 1
        fresh == Append(h.pages, PageInsert(InitPage(h.last), r))
    IN  RefreshInsertablePage([h EXCEPT !.pages = [fresh EXCEPT ![h.last].next = id],
                                        !.last = id], id)

-----------------------------------------------------------------------------
(* Row ids, scans and the operations of the heap. *)

Slot(ps, rid) == ps[rid[1]].slots[rid[2]]

OccupiedRids(ps) ==
    {rid \in Rids : /\ rid[1] \in DOMAIN ps
                    /\ rid[2] \in DOMAIN ps[rid[1]].slots
                    /\ Slot(ps, rid).occupied}

LiveRids(ps) == {rid \in OccupiedRids(ps) : IsLive(Slot(ps, rid))}

\* Mutant: a page without rows ends the scan.
FirstOnPage(ps, id) ==
    IF id = Invalid \/ GetFirstTuple(ps[id]) = 0 THEN End ELSE <<id, GetFirstTuple(ps[id])>>

\* Begin and operator++ from page id on: the first row of the first page with one.
FirstFrom(ps, id) ==
    LET loop[n \in 0..Len(ps)] ==
            IF n = 0 THEN <<id, 0>>
            ELSE LET s == loop[n - 1]
                 IN  IF s[1] = Invalid \/ s[2] # 0 THEN s
                     ELSE IF GetFirstTuple(ps[s[1]]) # 0 THEN <<s[1], GetFirstTuple(ps[s[1]])>>
                     ELSE <<ps[s[1]].next, 0>>
        found == loop[Len(ps)]
    IN  IF found[2] = 0 THEN End ELSE found

\* TableIterator::operator++.
Advance(ps, rid) ==
    LET slot == FindLiveSlot(ps[rid[1]], rid[2] + 1)
    IN  IF slot # 0 THEN <<rid[1], slot>> ELSE FirstFrom(ps, ps[rid[1]].next)

\* Row id rid, returned by InsertTuple, is new to the callers; were it the
\* id of a row they know, that row is the one they would look for.
Learn(known, rid, e) ==
    [x \in DOMAIN known \cup {rid} |-> IF x \in DOMAIN known THEN known[x] ELSE e]

\* An operation that leaves the heap as h, with its metadata built or not,
\* and the callers knowing the rows of known.
Becomes(h, b, known) ==
    /\ pages' = h.pages
    /\ head' = h.head
    /\ last' = h.last
    /\ built' = b
    /\ stored' = known
    /\ sought' = IF sought \in LiveRids(h.pages) THEN sought ELSE End
    /\ UNCHANGED <<open, at>>

Init ==
    /\ pages = <<InitPage(Invalid)>>
    /\ head = 1 /\ last = 1 /\ built = TRUE /\ open = TRUE
    /\ at = End /\ sought = End /\ stored = <<>>

\* What the callers know of a row they wrote.
Written(r) == [row |-> r, marked |-> FALSE]

\* A row of more than SizeMaxRow bytes is refused before anything changes.
\* When the walk finds no page, NewPage may find no frame.
InsertTuple(r) ==
    LET w     == Walk(EnsureHeapMetadata(Heap), r)
        id    == Len(pages) + 1
    IN  /\ open /\ SizeOf[r] <= SizeMaxRow /\ Cardinality(OccupiedRids(pages)) < MaxRows
        /\ \/ Becomes(w.h, TRUE, IF w.ok THEN Learn(stored, w.rid, Written(r)) ELSE stored)
           \/ /\ ~w.ok /\ id <= MaxPages
              /\ Becomes(ExtendHeap(w.h, r), TRUE, Learn(stored, <<id, 1>>, Written(r)))

MarkDelete(rid) ==
    /\ open /\ rid \in OccupiedRids(pages) /\ CanTouch(pages[rid[1]], rid[2])
    /\ Becomes([Heap EXCEPT !.pages[rid[1]] = PageMarkDelete(@, rid[2])], built,
               [stored EXCEPT ![rid].marked = TRUE])

\* An update that does not fit leaves the metadata built.
UpdateTuple(rid, r) ==
    LET h    == EnsureHeapMetadata(Heap)
        p    == h.pages[rid[1]]
        ok   == /\ CanTouch(p, rid[2])
                /\ FreeSpaceRemaining(p) + p.slots[rid[2]].size >= SizeOf[r]
        done == [h EXCEPT !.pages[rid[1]] = PageUpdate(@, rid[2], r)]
    IN  /\ open /\ rid \in OccupiedRids(pages)
        /\ \/ ok /\ Becomes(RefreshInsertablePage(done, rid[1]), TRUE,
                            [stored EXCEPT ![rid] = Written(r)])
           \/ ~ok /\ Becomes(h, TRUE, stored)

ApplyDelete(rid) ==
    LET h == EnsureHeapMetadata(Heap)
    IN  /\ open /\ rid \in OccupiedRids(pages)
        /\ Becomes(RefreshInsertablePage(
                       [h EXCEPT !.pages[rid[1]] = PageApplyDelete(@, rid[2])], rid[1]),
                   TRUE, [x \in DOMAIN stored \ {rid} |-> stored[x]])

RollbackDelete(rid) ==
    /\ open /\ rid \in OccupiedRids(pages)
    /\ Becomes([Heap EXCEPT !.pages[rid[1]] = PageRollbackDelete(@, rid[2])], built,
               [stored EXCEPT ![rid].marked = FALSE])

\* A new TableHeap object over the same pages (LoadTable); its fields have
\* their default values and no iterator survives.
Reopen ==
    /\ open
    /\ head' = Invalid /\ last' = Invalid /\ built' = FALSE
    /\ at' = End /\ sought' = End
    /\ UNCHANGED <<pages, open, stored>>

ScanBegin ==
    /\ open /\ at = End /\ Len(pages) <= ScanPages
    /\ at' = FirstFrom(pages, 1)
    /\ sought' \in LiveRids(pages) \cup {End}
    /\ UNCHANGED heapVars

\* The scan returns its row and moves on.
ScanNext ==
    /\ at # End
    /\ at' = Advance(pages, at)
    /\ sought' = IF sought = at THEN End ELSE sought
    /\ UNCHANGED heapVars

\* DeleteTable follows the chain of the pages.
ChainOf(ps) ==
    LET loop[n \in 0..Len(ps)] ==
            IF n = 0 THEN <<1>>
            ELSE LET s == loop[n - 1]
                 IN  IF ps[s[Len(s)]].next = Invalid THEN s ELSE Append(s, ps[s[Len(s)]].next)
    IN  loop[Len(ps)]

DeleteTable ==
    /\ open
    /\ open' = FALSE
    /\ pages' = [i \in 1..(Len(pages) - Cardinality({ChainOf(pages)[k] : k \in DOMAIN ChainOf(pages)}))
                   |-> InitPage(Invalid)]
    /\ at' = End /\ sought' = End /\ stored' = <<>>
    /\ UNCHANGED <<head, last, built>>

\* CatalogManager::CreateTable makes a new heap.
Create ==
    /\ ~open /\ pages = <<>>
    /\ open' = TRUE
    /\ pages' = <<InitPage(Invalid)>>
    /\ head' = 1 /\ last' = 1 /\ built' = TRUE
    /\ UNCHANGED <<at, sought, stored>>

Next ==
    \/ \E r \in Rows : InsertTuple(r)
    \/ \E rid \in Rids : MarkDelete(rid) \/ ApplyDelete(rid) \/ RollbackDelete(rid)
    \/ \E rid \in Rids, r \in Rows : UpdateTuple(rid, r)
    \/ Reopen \/ ScanBegin \/ ScanNext \/ DeleteTable \/ Create

Spec == Init /\ [][Next]_vars

-----------------------------------------------------------------------------
(* Properties. *)

\* Every row the callers wrote reads back under the id they were given, as
\* they last wrote it and with their mark, and there is no other row: no
\* operation on one row moves, cuts or overwrites another (memmove and the
\* offset loops of UpdateTuple and ApplyDelete, slot reuse of InsertTuple).
RowsReadBack ==
    stored = [rid \in OccupiedRids(pages) |->
                 [row    |-> ReadRow(pages[rid[1]], Slot(pages, rid)),
                  marked |-> ~IsLive(Slot(pages, rid))]]

\* The pages from insertable_head_page_id_ on, up to the end of the list.
ListOf ==
    LET loop[n \in 0..Len(pages)] ==
            IF n = 0 THEN <<head>>
            ELSE LET s == loop[n - 1]
                 IN  IF s[Len(s)] = Invalid THEN s ELSE Append(s, pages[s[Len(s)]].nextIns)
    IN  loop[Len(pages)]

\* Once the metadata is built, the insertable list is a doubly linked list,
\* without repetition, of exactly the pages that can host a tuple: after any
\* sequence of operations and restarts InsertTuple finds every free byte.
InsertableListExact ==
    open /\ built =>
        LET l == ListOf
            n == Len(l) - 1
        IN  /\ l[n + 1] = Invalid
            /\ {l[i] : i \in 1..n} = {id \in DOMAIN pages : CanHostAnyTuple(pages[id])}
            /\ \A i \in 1..n : pages[l[i]].prevIns = IF i = 1 THEN Invalid ELSE l[i - 1]

\* The tuples of a page lie side by side from the free space pointer to the
\* end of the page and stay clear of the slot directory; the live count
\* GetFirstTupleRid trusts is the number of live slots.
PagesPacked ==
    \A id \in DOMAIN pages :
        LET p   == pages[id]
            occ == {i \in DOMAIN p.slots : p.slots[i].occupied}
        IN  /\ FreeSpaceRemaining(p) >= 0
            /\ p.live = Cardinality({i \in DOMAIN p.slots : IsLive(p.slots[i])})
            /\ \A x \in 0..(PageBytes - 1) :
                 Cardinality({i \in occ : x \in p.slots[i].off..(p.slots[i].off + p.slots[i].size - 1)})
                     = IF x >= p.free THEN 1 ELSE 0

\* Pages are in one chain, in the order they were added, which ends at
\* last_page_id_: a scan, a reopening and DeleteTable reach all of them.
ChainWhole ==
    /\ open => /\ ChainOf(pages) = [i \in DOMAIN pages |-> i]
               /\ \A i \in DOMAIN pages : pages[i].prev = i - 1
               /\ built => last = Len(pages)
    /\ ~open => pages = <<>>

\* The pages are well-formed: each one is packed, and together they are one chain.
\* RollbackDelete, slot reuse, UpdateTuple's shift and the growth of the chain all
\* have to keep it, and every other operation reads the pages on the strength of it.
HeapShape == PagesPacked /\ ChainWhole

\* A scan during which rows are inserted, updated, marked, rolled back and
\* removed still returns every row that was there all the time: as long as
\* it has not returned it, the row is at or after its position.
ScanReachesAll ==
    sought # End => /\ at # End
                    /\ sought[1] > at[1] \/ (sought[1] = at[1] /\ sought[2] >= at[2])

\* The table grows by a page only for a row that fits in none of its pages,
\* although InsertTuple looks only at the pages of the insertable list.
GrowsOnlyWhenFull ==
    [][Len(pages') > Len(pages) /\ open =>
         LET p == pages'[Len(pages')]
         IN  \A id \in DOMAIN pages : ~Fits(pages[id], ReadRow(p, p.slots[1]))]_vars

=============================================================================
