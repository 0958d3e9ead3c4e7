----------------------------- MODULE BPlusTree -----------------------------
(***************************************************************************)
(* A B+ tree index: the tree's pages, its entry in the index roots page    *)
(* and the scans of the index.                                             *)
(*                                                                         *)
(* t is the tree object and what it uses of the pool and the disk: t.root  *)
(* is root_page_id_, t.pages maps the page ids the pool can return to      *)
(* pages, t.pin is their pin counts, t.disk the page ids allocated on disk *)
(* and t.roots the index roots page.  t.surplus records that some call of  *)
(* UnpinPage found nothing to unpin.  Arrays are sequences from 1.  The    *)
(* first key of an internal page is never valid                            *)
(* (b_plus_tree_internal_page.cpp:70) and is kept as NoKey.  Each          *)
(* operation runs to its end without another one of the tree in between:   *)
(* statements are executed one at a time.  The pool always has a frame for *)
(* the few pages an operation pins at once.                                *)
(***************************************************************************)
EXTENDS Integers, SequencesExt

CONSTANTS
    Keys,           \* the keys of the index, integers
    LeafMaxes,      \* values of leaf_max_size_ to consider
    InternalMax,    \* internal_max_size_
    MaxPages        \* bound: page ids of the tree, more than it ever needs

ASSUME TreeAssumption ==
    /\ Keys \subseteq Nat \ {0} /\ MaxPages \in Nat
    /\ LeafMaxes \subseteq Nat \ {0, 1} /\ InternalMax \in Nat /\ InternalMax >= 4

VARIABLES
    leafMax,        \* leaf_max_size_ of the tree
    tree,           \* the tree and the index roots page
    entries,        \* history: key -> row id, as the callers know them
    otherRoot       \* history: the root that another index has recorded

vars == <<leafMax, tree, entries, otherRoot>>

PageIds == 1..MaxPages
Invalid == 0
NoKey == 0
ThisIndex == 1
OtherIndex == 2
RootsPage == MaxPages + 1       \* INDEX_ROOTS_PAGE_ID
OtherRoot == MaxPages + 2       \* a page of the other index
Duplicate == 0      \* the row id of a second row with the same key

-----------------------------------------------------------------------------
(* The buffer pool, as the tree uses it, and the index roots page.         *)

FetchPage(t, id) == [t EXCEPT !.pin[id] = @ + 1]

UnpinPage(t, id) ==
    IF t.pin[id] = 0 THEN [t EXCEPT !.surplus = TRUE] ELSE [t EXCEPT !.pin[id] = @ - 1]

\* The page is deallocated on disk in any case; the pool keeps it if it is
\* pinned.
DeletePage(t, id) ==
    [t EXCEPT !.disk = @ \ {id},
              !.pages = IF t.pin[id] > 0 THEN @ ELSE [x \in DOMAIN @ \ {id} |-> @[x]]]

FreePage(t) == Min(PageIds \ t.disk)

\* The page that NewPage and Init make, pinned.
AddPage(t, leaf, parent, keys, vals, next) ==
    LET id == FreePage(t)
    IN  [t EXCEPT !.disk = @ \cup {id}, !.pin[id] = 1,
                  !.pages = (id :> [leaf |-> leaf, parent |-> parent,
                                    keys |-> keys, vals |-> vals, next |-> next]) @@ @]

RootIndices(roots, index) == {i \in DOMAIN roots : roots[i][1] = index}

\* UpdateRootPageId, with either value of its argument.
PutRoot(roots, index, root) ==
    IF RootIndices(roots, index) = {} THEN Append(roots, <<index, root>>)
    ELSE [roots EXCEPT ![Min(RootIndices(roots, index))][2] = root]

\* Mutant: the entries behind it do not move up.
DeleteWithoutShift(roots, index) ==
    IF RootIndices(roots, index) = {} THEN roots ELSE Front(roots)

DeleteRoot(roots, index) ==
    IF RootIndices(roots, index) = {} THEN roots
    ELSE RemoveAt(roots, Min(RootIndices(roots, index)))

GetRootId(roots, index) ==
    IF RootIndices(roots, index) = {} THEN Invalid ELSE roots[Min(RootIndices(roots, index))][2]

WriteRoots(t, roots) == UnpinPage([FetchPage(t, RootsPage) EXCEPT !.roots = roots], RootsPage)

SetRoot(t, id) == WriteRoots([t EXCEPT !.root = id], PutRoot(t.roots, ThisIndex, id))
ClearRoot(t) == WriteRoots([t EXCEPT !.root = Invalid], DeleteRoot(t.roots, ThisIndex))

-----------------------------------------------------------------------------
(* Pages. *)

Size(p) == Len(p.vals)
MaxSize(p) == IF p.leaf THEN leafMax ELSE InternalMax
IsRootPage(p) == p.parent = Invalid
MinSize(p) == IF IsRootPage(p) THEN (IF p.leaf THEN 1 ELSE 2) ELSE MaxSize(p) \div 2
ValueIndex(p, id) == CHOOSE i \in DOMAIN p.vals : p.vals[i] = id

\* What the binary searches find in a page whose keys ascend.
KeyIndex(p, k) == Cardinality({i \in DOMAIN p.keys : p.keys[i] < k}) + 1
Lookup(p, k) == p.vals[1 + Cardinality({i \in 2..Size(p) : p.keys[i] <= k})]
LeafHas(p, k) == KeyIndex(p, k) <= Size(p) /\ p.keys[KeyIndex(p, k)] = k

InsertPair(p, i, k, v) == [p EXCEPT !.keys = InsertAt(@, i, k), !.vals = InsertAt(@, i, v)]
RemovePair(p, i) == [p EXCEPT !.keys = RemoveAt(@, i), !.vals = RemoveAt(@, i)]

SetParent(t, id, parent) == [t EXCEPT !.pages[id].parent = parent]

\* A page that has moved to another parent is fetched for it, and unpinned.
AdoptOne(t, id, parent) == UnpinPage(SetParent(FetchPage(t, id), id, parent), id)
Adopt(t, ids, parent) == FoldLeft(LAMBDA u, id : AdoptOne(u, id, parent), t, ids)

\* The walk down from page id, which is pinned, to the leaf for key k, or to
\* the leftmost leaf if k is NoKey: one page is pinned at a time.
RECURSIVE Descend(_, _, _)
Descend(t, id, k) ==
    LET p    == t.pages[id]
        next == IF k = NoKey THEN p.vals[1] ELSE Lookup(p, k)
    IN  IF p.leaf THEN [tree |-> t, leaf |-> id]
        ELSE Descend(FetchPage(UnpinPage(t, id), next), next, k)

\* The leaf it returns is pinned.
FindLeafPage(t, k) == Descend(FetchPage(t, t.root), t.root, k)

-----------------------------------------------------------------------------
(* Insertion. *)

\* The upper half of the pairs of page id goes to page new.
MoveHalf(t, id, new) ==
    LET p     == t.pages[id]
        start == Size(p) \div 2
    IN  [t EXCEPT !.pages[new].keys = SubSeq(p.keys, start + 1, Size(p)),
                  !.pages[new].vals = SubSeq(p.vals, start + 1, Size(p)),
                  !.pages[id].keys = SubSeq(@, 1, start),
                  !.pages[id].vals = SubSeq(@, 1, start)]

LeafMoveHalfTo(t, id, new) ==
    [MoveHalf(t, id, new) EXCEPT !.pages[new].next = t.pages[id].next, !.pages[id].next = new]

InternalMoveHalfTo(t, id, new) ==
    LET t1 == MoveHalf(t, id, new) IN Adopt(t1, t1.pages[new].vals, new)

Split(t, id) ==
    LET p   == t.pages[id]
        new == FreePage(t)
        t1  == AddPage(t, p.leaf, p.parent, <<>>, <<>>, Invalid)
    IN  IF p.leaf THEN LeafMoveHalfTo(t1, id, new) ELSE InternalMoveHalfTo(t1, id, new)

\* The first key of an internal page is forgotten once it has moved up.
ForgetFirst(t, id) == IF t.pages[id].leaf THEN t ELSE [t EXCEPT !.pages[id].keys[1] = NoKey]

\* A new root with the pages old and new, still pinned.
PopulateNewRoot(t, old, key, new) ==
    LET t1 == AddPage(t, FALSE, Invalid, <<NoKey, key>>, <<old, new>>, Invalid)
    IN  SetParent(SetParent(t1, old, FreePage(t)), new, FreePage(t))

InsertNodeAfter(p, old, key, new) == InsertPair(p, ValueIndex(p, old) + 1, key, new)

RECURSIVE InsertIntoParent(_, _, _)
InsertIntoParent(t, old, new) ==
    LET key == t.pages[new].keys[1]
        t1  == ForgetFirst(t, new)
        pid == t.pages[old].parent
        t2  == SetParent([FetchPage(t1, pid) EXCEPT
                             !.pages[pid] = InsertNodeAfter(@, old, key, new)], new, pid)
        rid == FreePage(t)
    IN  IF pid = Invalid THEN SetRoot(UnpinPage(PopulateNewRoot(t1, old, key, new), rid), rid)
        ELSE IF Size(t2.pages[pid]) <= InternalMax THEN UnpinPage(t2, pid)
        ELSE UnpinPage(UnpinPage(InsertIntoParent(Split(t2, pid), pid, FreePage(t2)), pid),
                       FreePage(t2))

StartNewTree(t, k, v) ==
    SetRoot(UnpinPage(AddPage(t, TRUE, Invalid, <<k>>, <<v>>, Invalid), FreePage(t)), FreePage(t))

InsertIntoLeaf(t, k, v) ==
    LET found == FindLeafPage(t, k)
        id    == found.leaf
        p     == found.tree.pages[id]
        t1    == [found.tree EXCEPT !.pages[id] = InsertPair(@, KeyIndex(p, k), k, v)]
        new   == FreePage(t1)
    IN  IF LeafHas(p, k) THEN UnpinPage(found.tree, id)
        ELSE IF Size(t1.pages[id]) <= leafMax THEN UnpinPage(t1, id)
        ELSE UnpinPage(UnpinPage(InsertIntoParent(Split(t1, id), id, new), id), new)

Insert(t, k, v) == IF t.root = Invalid THEN StartNewTree(t, k, v) ELSE InsertIntoLeaf(t, k, v)

-----------------------------------------------------------------------------
(* Removal. *)

\* The first pair of page nid moves to the end of page id.
LeafMoveFirstToEndOf(t, nid, id) ==
    LET n == t.pages[nid]
    IN  [t EXCEPT !.pages[id] = InsertPair(@, Size(@) + 1, n.keys[1], n.vals[1]),
                  !.pages[nid] = RemovePair(@, 1)]

InternalMoveFirstToEndOf(t, nid, id, middle) ==
    LET n == t.pages[nid]
    IN  Adopt([t EXCEPT !.pages[id] = InsertPair(@, Size(@) + 1, middle, n.vals[1]),
                        !.pages[nid] = RemovePair(@, 1)], <<n.vals[1]>>, id)

\* The last pair of page nid moves to the front of page id.
LeafMoveLastToFrontOf(t, nid, id) ==
    LET n == t.pages[nid]
    IN  [t EXCEPT !.pages[id] = InsertPair(@, 1, Last(n.keys), Last(n.vals)),
                  !.pages[nid] = RemovePair(@, Size(@))]

InternalMoveLastToFrontOf(t, nid, id, middle) ==
    LET child == Last(t.pages[nid].vals)
    IN  Adopt([t EXCEPT !.pages[id] = InsertPair([@ EXCEPT !.keys[1] = middle], 1, NoKey, child),
                        !.pages[nid] = RemovePair(@, Size(@))], <<child>>, id)

\* Page id is the i-th child of pid; its neighbour is on the right if i = 1.
RedistributeLeaf(t, id, nid, pid, i) ==
    LET t1 == IF i = 1 THEN LeafMoveFirstToEndOf(t, nid, id) ELSE LeafMoveLastToFrontOf(t, nid, id)
    IN  IF i = 1 THEN [t1 EXCEPT !.pages[pid].keys[2] = t1.pages[nid].keys[1]]
        ELSE [t1 EXCEPT !.pages[pid].keys[i] = t1.pages[id].keys[1]]

RedistributeInternal(t, id, nid, pid, i) ==
    LET keys == t.pages[pid].keys
        n    == t.pages[nid]
    IN  IF i = 1
        THEN ForgetFirst([InternalMoveFirstToEndOf(t, nid, id, keys[2]) EXCEPT
                             !.pages[pid].keys[2] = n.keys[2]], nid)
        ELSE [InternalMoveLastToFrontOf(t, nid, id, keys[i]) EXCEPT !.pages[pid].keys[i] = Last(n.keys)]

\* Either one fetches the parent, which its caller has pinned already.
Redistribute(t, id, nid, pid, i) ==
    LET t1 == FetchPage(t, pid)
    IN  UnpinPage(IF t.pages[id].leaf THEN RedistributeLeaf(t1, id, nid, pid, i)
                  ELSE RedistributeInternal(t1, id, nid, pid, i), pid)

\* All pairs of page right go to the end of page left.
LeafMoveAllTo(t, right, left) ==
    LET r == t.pages[right]
    IN  [t EXCEPT !.pages[left].keys = @ \o r.keys, !.pages[left].vals = @ \o r.vals,
                  !.pages[left].next = r.next,
                  !.pages[right].keys = <<>>, !.pages[right].vals = <<>>]

InternalMoveAllTo(t, right, left, middle) ==
    LET r == t.pages[right]
    IN  Adopt([t EXCEPT !.pages[left].keys = @ \o [r.keys EXCEPT ![1] = middle],
                        !.pages[left].vals = @ \o r.vals,
                        !.pages[right].keys = <<>>, !.pages[right].vals = <<>>],
              r.vals, left)

\* Page right, the i-th child of pid, joins page left.
MoveAll(t, left, right, pid, i) ==
    [IF t.pages[right].leaf THEN LeafMoveAllTo(t, right, left)
     ELSE InternalMoveAllTo(t, right, left, t.pages[pid].keys[i])
        EXCEPT !.pages[pid] = RemovePair(@, i)]

\* Mutant: the page is deleted before it is unpinned.
DeleteThenUnpin(t, left, right, pid, i) ==
    UnpinPage(DeletePage(UnpinPage(MoveAll(t, left, right, pid, i), left), right), right)

\* Coalesce up to its last test.
Coalesce(t, left, right, pid, i) ==
    DeletePage(UnpinPage(UnpinPage(MoveAll(t, left, right, pid, i), left), right), right)

\* AdjustRoot returns that the old root is to be deleted.
RootIsObsolete(p) == IF p.leaf THEN Size(p) = 0 ELSE Size(p) = 1

RemoveOnlyChild(t, id) == [t EXCEPT !.pages[id].keys = <<>>, !.pages[id].vals = <<>>]

\* Mutant: the new root keeps its parent.
AdjustRootKeepsParent(t, id) ==
    IF t.pages[id].leaf THEN ClearRoot(t) ELSE SetRoot(RemoveOnlyChild(t, id), t.pages[id].vals[1])

AdjustRoot(t, id) ==
    LET child == t.pages[id].vals[1]
    IN  IF t.pages[id].leaf THEN ClearRoot(t)
        ELSE SetRoot(AdoptOne(RemoveOnlyChild(t, id), child, Invalid), child)

RECURSIVE CoalesceOrRedistribute(_, _)
CoalesceOrRedistribute(t, id) ==
    LET p   == t.pages[id]
        pid == p.parent
        i   == ValueIndex(t.pages[pid], id)
        nid == t.pages[pid].vals[IF i = 1 THEN 2 ELSE i - 1]
        t1  == FetchPage(FetchPage(t, pid), nid)
        t2  == IF i = 1 THEN Coalesce(t1, id, nid, pid, 2) ELSE Coalesce(t1, nid, id, pid, i)
    IN  IF IsRootPage(p)
        THEN IF RootIsObsolete(p) THEN DeletePage(UnpinPage(AdjustRoot(t, id), id), id)
             ELSE UnpinPage(t, id)
        ELSE IF Size(p) >= MinSize(p) THEN UnpinPage(t, id)
        ELSE IF Size(t.pages[nid]) + Size(p) > MaxSize(p)
        THEN UnpinPage(UnpinPage(UnpinPage(Redistribute(t1, id, nid, pid, i), nid), id), pid)
        ELSE IF IsRootPage(t2.pages[pid]) \/ Size(t2.pages[pid]) < MinSize(t2.pages[pid])
        THEN CoalesceOrRedistribute(t2, pid)
        ELSE UnpinPage(t2, pid)

RemoveAndDeleteRecord(p, k) == IF LeafHas(p, k) THEN RemovePair(p, KeyIndex(p, k)) ELSE p

RemoveKey(t, k) ==
    LET found == FindLeafPage(t, k)
        id    == found.leaf
        p     == RemoveAndDeleteRecord(found.tree.pages[id], k)
    IN  IF t.root = Invalid THEN t
        ELSE IF Size(p) = Size(found.tree.pages[id]) THEN UnpinPage(found.tree, id)
        ELSE CoalesceOrRedistribute([found.tree EXCEPT !.pages[id] = p], id)

RECURSIVE DestroyFrom(_, _)
DestroyFrom(t, id) ==
    LET p  == t.pages[id]
        t1 == IF p.leaf THEN FetchPage(t, id)
              ELSE FoldLeft(DestroyFrom, FetchPage(t, id), p.vals)
        t2 == DeletePage(UnpinPage(t1, id), id)
    IN  IF id = t.root THEN ClearRoot(t2) ELSE t2

-----------------------------------------------------------------------------
(* Iterators and ScanKey.  An iterator is a page, which it keeps pinned,   *)
(* and an index in it; the end iterator has no page.                       *)

EndIterator == <<Invalid, 1>>

\* The first pair at or after index i of leaf id, which is pinned: the leaf of
\* the pair is pinned instead.
RECURSIVE SkipToPair(_, _, _)
SkipToPair(t, id, i) ==
    LET t1   == UnpinPage(t, id)
        next == t.pages[id].next
    IN  IF i <= Size(t.pages[id]) THEN [tree |-> t, it |-> <<id, i>>]
        ELSE IF next = Invalid THEN [tree |-> t1, it |-> EndIterator]
        ELSE SkipToPair(FetchPage(t1, next), next, 1)

\* The constructor fetches the page that Begin has just unpinned.
MakeIterator(s) ==
    IF s.it = EndIterator THEN s
    ELSE [s EXCEPT !.tree = FetchPage(UnpinPage(@, s.it[1]), s.it[1])]

\* The destructor.
DropIterator(t, it) == IF it = EndIterator THEN t ELSE UnpinPage(t, it[1])

Begin(t) ==
    LET found == FindLeafPage(t, NoKey)
    IN  IF t.root = Invalid THEN [tree |-> t, it |-> EndIterator]
        ELSE MakeIterator(SkipToPair(found.tree, found.leaf, 1))

\* Mutant: a key beyond the keys of its leaf is beyond all keys.
BeginInLeaf(t, k) ==
    LET found == FindLeafPage(t, k)
        p     == found.tree.pages[found.leaf]
    IN  IF t.root = Invalid THEN [tree |-> t, it |-> EndIterator]
        ELSE IF KeyIndex(p, k) > Size(p)
        THEN [tree |-> UnpinPage(found.tree, found.leaf), it |-> EndIterator]
        ELSE [tree |-> found.tree, it |-> <<found.leaf, KeyIndex(p, k)>>]

BeginAt(t, k) ==
    LET found == FindLeafPage(t, k)
    IN  IF t.root = Invalid THEN [tree |-> t, it |-> EndIterator]
        ELSE MakeIterator(SkipToPair(found.tree, found.leaf,
                                     KeyIndex(found.tree.pages[found.leaf], k)))

Advance(t, it) ==
    IF it = EndIterator THEN [tree |-> t, it |-> it] ELSE SkipToPair(t, it[1], it[2] + 1)

\* The loop from an iterator to another, and the first one's destructor.
RECURSIVE Collect(_, _, _)
Collect(t, from, to) ==
    LET next == Advance(t, from)
        rest == Collect(next.tree, next.it, to)
    IN  IF from = to THEN [tree |-> DropIterator(t, from), rows |-> <<>>]
        ELSE [tree |-> rest.tree, rows |-> <<t.pages[from[1]].vals[from[2]]>> \o rest.rows]

GetValue(t, k) ==
    LET found == FindLeafPage(t, k)
        p     == found.tree.pages[found.leaf]
    IN  IF t.root = Invalid THEN [tree |-> t, rows |-> <<>>]
        ELSE [tree |-> UnpinPage(found.tree, found.leaf),
              rows |-> IF LeafHas(p, k) THEN <<p.vals[KeyIndex(p, k)]>> ELSE <<>>]

CollectAll(t) == LET first == Begin(t) IN Collect(first.tree, first.it, EndIterator)

\* The rows below k; the iterator at k is still there.
CollectBelow(t, at) == LET first == Begin(t) IN Collect(first.tree, first.it, at)

ScanKey(t, k, op) ==
    LET at    == BeginAt(t, k)
        value == GetValue(at.tree, k)
        from  == IF value.rows # <<>> THEN Advance(value.tree, at.it)
                 ELSE [tree |-> value.tree, it |-> at.it]
        below == CollectBelow(at.tree, at.it)
        equal == GetValue(below.tree, k)
        all   == CollectAll(t)
        found == GetValue(all.tree, k)
    IN  CASE op = "="  -> GetValue(t, k)
          [] op = ">"  -> Collect(from.tree, from.it, EndIterator)
          [] op = ">=" -> Collect(at.tree, at.it, EndIterator)
          [] op = "<"  -> [tree |-> DropIterator(below.tree, at.it), rows |-> below.rows]
          [] op = "<=" -> [tree |-> DropIterator(equal.tree, at.it),
                           rows |-> below.rows \o equal.rows]
          [] op = "<>" -> [tree |-> found.tree,
                           rows |-> IF found.rows = <<>> THEN all.rows
                                    ELSE RemoveFirst(all.rows, found.rows[1])]

-----------------------------------------------------------------------------
(* The system: one index, another one that shares the roots page, and      *)
(* reopening of the database.                                              *)

RECURSIVE Preorder(_, _)
Preorder(t, id) ==
    IF t.pages[id].leaf THEN <<id>>
    ELSE FoldLeft(LAMBDA ids, c : ids \o Preorder(t, c), <<id>>, t.pages[id].vals)

\* Which free page NewPage returns is of no consequence to the tree, which
\* only compares page ids for equality.  Each operation ends with a
\* permutation of the page ids that numbers the pages in the order of the
\* tree, so that trees that differ in their page ids only are one state.
Renumbered(t) ==
    LET order == IF t.root = Invalid THEN <<>> ELSE Preorder(t, t.root)
        used  == Range(order)
        old   == order \o SelectSeq([n \in PageIds |-> n], LAMBDA id : id \notin used)
        num   == [id \in PageIds \cup {Invalid} |->
                     IF id = Invalid THEN Invalid ELSE CHOOSE n \in PageIds : old[n] = id]
    IN  [t EXCEPT
            !.root  = num[@],
            !.pages = [n \in {num[id] : id \in DOMAIN @} |->
                          LET p == t.pages[old[n]]
                          IN  [p EXCEPT !.parent = num[@], !.next = num[@],
                                        !.vals = IF p.leaf THEN @ ELSE [j \in DOMAIN @ |-> num[@[j]]]]],
            !.pin   = [n \in DOMAIN @ |-> IF n = RootsPage THEN @[n] ELSE @[old[n]]],
            !.disk  = {num[id] : id \in @},
            !.roots = [i \in DOMAIN @ |->
                          IF @[i][1] = ThisIndex THEN <<ThisIndex, num[@[i][2]]>> ELSE @[i]]]

Init ==
    /\ leafMax \in LeafMaxes
    /\ tree = [root |-> Invalid, pages |-> <<>>, pin |-> [id \in PageIds \cup {RootsPage} |-> 0],
               disk |-> {}, roots |-> <<>>, surplus |-> FALSE]
    /\ entries = <<>>
    /\ otherRoot = Invalid

\* A row with a new key, or another row with a key that is there.
InsertEntry(k) ==
    /\ tree' = Renumbered(Insert(tree, k, IF k \in DOMAIN entries THEN Duplicate ELSE k))
    /\ entries' = [x \in DOMAIN entries \cup {k} |-> x]
    /\ UNCHANGED <<leafMax, otherRoot>>

RemoveEntry(k) ==
    /\ tree' = Renumbered(RemoveKey(tree, k))
    /\ entries' = [x \in DOMAIN entries \ {k} |-> x]
    /\ UNCHANGED <<leafMax, otherRoot>>

Destroy ==
    /\ tree.root # Invalid
    /\ tree' = DestroyFrom(tree, tree.root)
    /\ entries' = <<>>
    /\ UNCHANGED <<leafMax, otherRoot>>

\* The constructor of a tree over the same pages.
Reopen ==
    /\ tree' = UnpinPage([FetchPage(tree, RootsPage) EXCEPT
                             !.root = GetRootId(tree.roots, ThisIndex)], RootsPage)
    /\ UNCHANGED <<leafMax, entries, otherRoot>>

\* Another index gets its first root, or loses its last one.
OtherIndexRoot ==
    /\ otherRoot' \in {OtherRoot, Invalid}
    /\ tree' = WriteRoots(tree, IF otherRoot' = Invalid THEN DeleteRoot(tree.roots, OtherIndex)
                                ELSE PutRoot(tree.roots, OtherIndex, otherRoot'))
    /\ UNCHANGED <<leafMax, entries>>

Next ==
    \/ \E k \in Keys : InsertEntry(k) \/ RemoveEntry(k)
    \/ Destroy \/ Reopen \/ OtherIndexRoot

Spec == Init /\ [][Next]_vars

-----------------------------------------------------------------------------
(* Properties. *)

Children(t, id) == IF t.pages[id].leaf THEN {} ELSE Range(t.pages[id].vals)

RECURSIVE Below(_, _)
Below(t, id) == {id} \cup UNION {Below(t, c) : c \in Children(t, id)}

\* Leaves in the order of the tree, with their depths.
RECURSIVE LeavesOf(_, _, _)
LeavesOf(t, id, d) ==
    IF t.pages[id].leaf THEN <<<<id, d>>>>
    ELSE FlattenSeq([i \in DOMAIN t.pages[id].vals |-> LeavesOf(t, t.pages[id].vals[i], d + 1)])

\* Keys ascend below page id and lie in lo..hi-1, separators included.
RECURSIVE KeysBetween(_, _, _, _)
KeysBetween(t, id, lo, hi) ==
    LET p     == t.pages[id]
        first == IF p.leaf THEN 1 ELSE 2
        bound == [i \in 1..(Size(p) + 1) |->
                     IF i = 1 THEN lo ELSE IF i > Size(p) THEN hi ELSE p.keys[i]]
    IN  /\ \A i \in first..Size(p) : lo <= p.keys[i] /\ p.keys[i] < hi
        /\ \A i \in first..(Size(p) - 1) : p.keys[i] < p.keys[i + 1]
        /\ ~p.leaf => \A i \in DOMAIN p.vals : KeysBetween(t, p.vals[i], bound[i], bound[i + 1])

\* Every page but the root is filled between its minimum and its maximum,
\* knows its parent, and its keys lie between the separators around it; the
\* leaves are at one depth and chained in order (Split, InsertIntoParent,
\* Redistribute, Coalesce, AdjustRoot).
TreeShape ==
    tree.root # Invalid =>
        LET leaves == LeavesOf(tree, tree.root, 0)
            n      == Len(leaves)
        IN  /\ KeysBetween(tree, tree.root, NoKey, Max(Keys) + 1)
            /\ IsRootPage(tree.pages[tree.root])
            /\ \A id \in Below(tree, tree.root) :
                 /\ Size(tree.pages[id]) \in MinSize(tree.pages[id])..MaxSize(tree.pages[id])
                 /\ \A c \in Children(tree, id) : tree.pages[c].parent = id
            /\ \A i \in 1..n : leaves[i][2] = leaves[1][2]
            /\ \A i \in 1..n : tree.pages[leaves[i][1]].next = IF i = n THEN Invalid ELSE leaves[i + 1][1]

Holds(x, op, k) ==
    CASE op = "="  -> x = k [] op = ">" -> x > k [] op = ">=" -> x >= k
      [] op = "<"  -> x < k [] op = "<=" -> x <= k [] op = "<>" -> x # k

\* Whatever was inserted and removed, in any order, and however often the
\* database was reopened: a scan with any of the six operators returns the
\* rows of the keys it asks for, in key order, each once, and its iterators
\* leave no page pinned that was not, and unpin none twice.  A scan does not
\* look at the roots page, and the other index may give up its root whatever
\* the tree is: every tree is met while the other index has none.
ScansExact ==
    LET rows == SelectSeq([n \in 1..Max(Keys) |-> n], LAMBDA n : n \in DOMAIN entries)
    IN  otherRoot = Invalid =>
            \A k \in Keys, op \in {"=", ">", ">=", "<", "<=", "<>"} :
                LET s == ScanKey(tree, k, op)
                IN  s.rows = SelectSeq(rows, LAMBDA x : Holds(x, op, k)) /\ s.tree = tree

\* Between operations no page is pinned, none was ever unpinned by somebody
\* who had not pinned it, and the pages of the pool and of the disk are those
\* of the tree: inserts, splits, merges and redistributions at every level
\* return what they took, duplicates and absent keys included.
PagesAccounted ==
    /\ \A id \in DOMAIN tree.pin : tree.pin[id] = 0
    /\ ~tree.surplus
    /\ DOMAIN tree.pages = IF tree.root = Invalid THEN {} ELSE Below(tree, tree.root)
    /\ tree.disk = DOMAIN tree.pages

Entry(index, root) == IF root = Invalid THEN {} ELSE {<<index, root>>}

\* Through every change of root of either index, the roots page holds the
\* roots of the two, each once and under its own id, and nothing else
\* (UpdateRootPageId, AdjustRoot, Destroy, IndexRootsPage::Delete).
RootRecorded ==
    /\ Range(tree.roots) = Entry(ThisIndex, tree.root) \cup Entry(OtherIndex, otherRoot)
    /\ Len(tree.roots) = Cardinality(Range(tree.roots))

=============================================================================
