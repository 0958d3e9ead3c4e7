------------------------------ MODULE Planner ------------------------------
(***************************************************************************)
(* How the rows of a WHERE clause are found: MakePredicate, the choice of  *)
(* a plan (planner.cpp) and the two scan executors.  A clause is a         *)
(* sequence of [conn, col, op, val]; the parser knows no precedence and no *)
(* parentheses (minisql.y:225), so that it is read from the left and the   *)
(* last connector is the root of the predicate.  Without a clause it is    *)
(* empty.  No field is NULL.                                               *)
(***************************************************************************)
EXTENDS Catalog

PerformComparison(op, x, y) ==
    CASE op = "="  -> x = y
      [] op = "<>" -> x # y
      [] op = "<"  -> x < y
      [] op = "<=" -> x <= y
      [] op = ">"  -> x > y
      [] op = ">=" -> x >= y
      [] op = "is" -> FALSE         \* IS NULL
      [] op = "not" -> TRUE         \* IS NOT NULL

Evaluate(where, row) ==
    LET value[k \in 0..Len(where)] ==
            IF k = 0 THEN TRUE
            ELSE LET this == PerformComparison(where[k].op, row[where[k].col], where[k].val)
                 IN  CASE k = 1 -> this
                       [] k > 1 /\ where[k].conn = "and" -> value[k - 1] /\ this
                       [] k > 1 /\ where[k].conn = "or"  -> value[k - 1] \/ this
    IN  value[Len(where)]

\* has_or is handed to the root of the predicate only.
HasOr(where) == Len(where) > 1 /\ Last(where).conn = "or"

ColumnsInCondition(where) == {where[k].col : k \in DOMAIN where}

\* The single-column indexes on a column of the clause.
AvailableIndexes(d, t, where) ==
    {i \in GetTableIndexes(d, t) :
        Len(d.indexes[i].cols) = 1 /\ d.indexes[i].cols[1] \in ColumnsInCondition(where)}

\* The indexes among them on column c, and the columns that have one.
IndexesOn(d, t, where, c) == {i \in AvailableIndexes(d, t, where) : d.indexes[i].cols[1] = c}
IndexedColumns(d, t, where) == {d.indexes[i].cols[1] : i \in AvailableIndexes(d, t, where)}

\* They come in the order of an unordered_map: a comparison uses the first one on
\* its column, and that may be any of them.
FirstIndexes(d, t, where) ==
    {first \in [IndexedColumns(d, t, where) -> AvailableIndexes(d, t, where)] :
        \A c \in DOMAIN first : first[c] \in IndexesOn(d, t, where, c)}

UsesIndexAlways(d, t, where) == AvailableIndexes(d, t, where) # {}
UsesIndex(d, t, where) == AvailableIndexes(d, t, where) # {} /\ ~HasOr(where)

\* With as many indexes as columns every column is taken to have one.
NeedFilter(d, t, where) ==
    Cardinality(AvailableIndexes(d, t, where)) # Cardinality(ColumnsInCondition(where))

-----------------------------------------------------------------------------
\* Row ids in the order in which an executor returns them.
ByRowId(rids) == SetToSortSeq(rids, <)

SeqScan(d, t, where) ==
    ByRowId({r \in LiveRids(HeapOf(d, t)) : Evaluate(where, HeapOf(d, t)[r].row)})

\* BPlusTreeIndex::ScanKey knows six operators, and returns rows by their keys.
ScanKey(tree, op, val) ==
    LET keys == {k \in DOMAIN tree : op \notin {"is", "not"} /\ PerformComparison(op, k[1], val)}
        ordered == SetToSortSeq(keys, LAMBDA j, k : j[1] < k[1])
    IN  [n \in DOMAIN ordered |-> tree[ordered[n]]]

\* IndexScanExecutor::IndexScan on the first k comparisons.
IndexScan(d, t, where, first) ==
    LET Comparison(c) ==
            IF c.col \in DOMAIN first THEN ScanKey(Tree(d, first[c.col]), c.op, c.val) ELSE <<>>
        rids[k \in DOMAIN where] ==
            IF k = 1 THEN Comparison(where[1])
            ELSE LET lhs == rids[k - 1]
                     rhs == Comparison(where[k])
                 IN  IF NeedFilter(d, t, where) /\ lhs = <<>> THEN rhs
                     ELSE IF NeedFilter(d, t, where) /\ rhs = <<>> THEN lhs
                     ELSE ByRowId(Range(lhs) \cap Range(rhs))
    IN  rids[Len(where)]

\* The row ids a statement works on, in order.
Scan(d, t, where, first) ==
    IF ~UsesIndex(d, t, where) THEN SeqScan(d, t, where)
    ELSE SelectSeq(IndexScan(d, t, where, first),
                   LAMBDA r : NeedFilter(d, t, where) => Evaluate(where, HeapOf(d, t)[r].row))

=============================================================================
