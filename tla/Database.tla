------------------------------ MODULE Database -----------------------------
(***************************************************************************)
(* The SQL statements (execute_engine.cpp and the executors), each run to  *)
(* its end on the database in use; there are no transactions around them   *)
(* (ExecuteTrxBegin and the like do nothing) and nothing is undone when a  *)
(* row of a statement fails.  An INSERT of several rows is several steps:  *)
(* it stops at the first row that is refused and keeps the rows before it. *)
(* An execfile is its statements one after the other.                      *)
(***************************************************************************)
EXTENDS Planner

CONSTANTS
    Databases,      \* database names
    NoDatabase,     \* current_db_ is empty
    Tables,         \* table names
    Schemas,        \* CREATE TABLE: [pk, uk], the PRIMARY KEY and the UNIQUE columns
    UserIndexes,    \* names a CREATE INDEX may use
    KeyLists,       \* column lists a CREATE INDEX may use
    Values,         \* field values; a larger one takes more room in a row
    Wheres,         \* the WHERE clauses of DELETE and UPDATE
    Queries,        \* the WHERE clauses of SELECT
    MaxTables, MaxIndexes,  \* bounds: ids given out without a restart, in all databases
    MaxSlots        \* bound: slots of all heaps

ASSUME DatabaseAssumption ==
    /\ Values \subseteq Nat /\ {MaxTables, MaxIndexes, MaxSlots} \subseteq Nat
    /\ Wheres \subseteq Queries /\ NoDatabase \notin Databases

VARIABLES
    dbs,            \* dbs_: the open databases, by name
    current,        \* current_db_
    clashed         \* history: <<database, table id>> in which an UPDATE ran into a key

vars == <<dbs, current, clashed>>

\* The database that Execute makes its context from; it must be open.
db == dbs[current]
Known == DOMAIN db.tableNames
Rows == [Columns -> Values]

Total(Of(_)) == MapThenSumSet(Of, DOMAIN dbs)
TablesMade == Total(LAMBDA n : dbs[n].nextTable)
IndexesMade == Total(LAMBDA n : dbs[n].nextIndex)
Slots == Total(LAMBDA n : MapThenSumSet(LAMBDA i : Len(dbs[n].heaps[i]), DOMAIN dbs[n].heaps))

\* The statement leaves d as the database in use.
Becomes(d) == dbs' = [dbs EXCEPT ![current] = d] /\ UNCHANGED current

Init == dbs = <<>> /\ current = NoDatabase /\ clashed = {}

-----------------------------------------------------------------------------
(* Databases. *)

ExecuteCreateDatabase(n) ==
    /\ n \notin DOMAIN dbs
    /\ dbs' = dbs @@ (n :> NewDatabase)
    /\ UNCHANGED <<current, clashed>>

ExecuteDropDatabase(n) ==
    /\ n \in DOMAIN dbs
    /\ dbs' = Restrict(dbs, DOMAIN dbs \ {n})
    /\ current' = IF n = current THEN NoDatabase ELSE current
    /\ clashed' = {c \in clashed : c[1] # n}

ExecuteUseDatabase(n) ==
    /\ n \in DOMAIN dbs
    /\ current' = n
    /\ UNCHANGED <<dbs, clashed>>

\* The engine is destroyed, with all its databases, and made anew on their files.
Restart ==
    /\ dbs' = [n \in DOMAIN dbs |-> Load(dbs[n])]
    /\ current' = NoDatabase
    /\ UNCHANGED clashed

-----------------------------------------------------------------------------
(* Data definition. *)

\* A primary key column gets a unique index of its own, and so does a UNIQUE one.
\* (The names begin with the table's; an index is always looked up with its table.)
PkIndex(c) == <<c, "pk">>
UkIndex(c) == <<c, "uk">>

ExecuteCreateTable(t, pk, uk) ==
    /\ TablesMade < MaxTables
    /\ IndexesMade + Cardinality(pk \cup uk) <= MaxIndexes
    /\ LET AddPk(c, d) == CreateIndex(d, t, PkIndex(c), <<c>>)
           AddUk(c, d) == CreateIndex(d, t, UkIndex(c), <<c>>)
       IN  Becomes(IF t \in Known THEN db
                   ELSE FoldSet(AddUk, FoldSet(AddPk, CreateTable(db, t), pk), uk \ pk))
    /\ UNCHANGED clashed

ExecuteDropTable(t) ==
    /\ t \in Known
    /\ Becomes(DropTable(db, t))
    /\ clashed' = clashed \ {<<current, db.tableNames[t]>>}

ExecuteCreateIndex(t, n, cols) ==
    /\ IndexesMade < MaxIndexes
    /\ Becomes(CreateIndex(db, t, n, cols))
    /\ UNCHANGED clashed

\* The first table that has an index of that name, in no order one could rely on.
ExecuteDropIndex ==
    /\ \E t \in Known : \E n \in DOMAIN IndexNamesOf(db, t) : Becomes(DropIndex(db, t, n))
    /\ UNCHANGED clashed

-----------------------------------------------------------------------------
(* Rows. *)

\* Entry by entry: index i of the table gets the tree trees[i].
SetTrees(d, trees) == FoldSet(LAMBDA i, acc : SetTree(acc, i, trees[i]), d, DOMAIN trees)

Refused(t, row) ==
    \E i \in GetTableIndexes(db, t) : Key(row, db.indexes[i].cols) \in DOMAIN Tree(db, i)

Insert(t, row) ==
    LET rid == Len(HeapOf(db, t)) + 1
        stored == [db EXCEPT !.heaps[db.tableNames[t]] = Append(@, [row |-> row, live |-> TRUE])]
    IN  /\ Slots < MaxSlots
        /\ ~Refused(t, row)
        /\ Becomes(SetTrees(stored, [i \in GetTableIndexes(db, t) |->
                       InsertEntry(Tree(db, i), Key(row, db.indexes[i].cols), rid)]))
        /\ UNCHANGED clashed

DeleteRowOnly(d, t, rid) == [d EXCEPT !.heaps[d.tableNames[t]][rid].live = FALSE]
DeleteRow(d, t, rid) ==
    LET heap == HeapOf(d, t)
        marked == [d EXCEPT !.heaps[d.tableNames[t]][rid].live = FALSE]
    IN  SetTrees(marked, [i \in GetTableIndexes(d, t) |->
            RemoveEntry(Tree(d, i), Key(heap[rid].row, d.indexes[i].cols))])

Delete(t, rids) ==
    /\ Becomes(FoldLeft(LAMBDA d, rid : DeleteRow(d, t, rid), db, rids))
    /\ UNCHANGED clashed

\* The row takes more room than before.
Grows(d, t, rid, col, val) == val > HeapOf(d, t)[rid].row[col]

\* One row of an UPDATE.  s.stopped: UpdateTuple returned false, as the row no
\* longer fits into its page, and the statement ended.  A key that another row
\* has is not entered, and no one looks.
UpdateRow(s, t, rid, col, val, fits) ==
    LET old == HeapOf(s.db, t)[rid].row
        new == [old EXCEPT ![col] = val]
        stored == [s.db EXCEPT !.heaps[s.db.tableNames[t]][rid].row = new]
        indexes == GetTableIndexes(s.db, t)
        Cols(i) == s.db.indexes[i].cols
        without == [i \in indexes |-> RemoveEntry(Tree(s.db, i), Key(old, Cols(i)))]
    IN  IF s.stopped \/ (Grows(s.db, t, rid, col, val) /\ rid \notin fits)
        THEN [s EXCEPT !.stopped = TRUE]
        ELSE [s EXCEPT !.db = SetTrees(stored, [i \in indexes |->
                                  InsertEntry(without[i], Key(new, Cols(i)), rid)]),
                       !.clash = @ \/ \E i \in indexes : Key(new, Cols(i)) \in DOMAIN without[i]]

\* fits: the rows that grow and still fit into their pages.
Update(t, col, val, rids, fits) ==
    LET done == FoldLeft(LAMBDA s, rid : UpdateRow(s, t, rid, col, val, fits),
                         [db |-> db, stopped |-> FALSE, clash |-> FALSE], rids)
    IN  /\ Becomes(done.db)
        /\ clashed' = IF done.clash THEN clashed \cup {<<current, db.tableNames[t]>>} ELSE clashed

\* A statement of a session that has chosen its database.
Statement ==
    \/ \E t \in Tables, s \in Schemas : ExecuteCreateTable(t, s.pk, s.uk)
    \/ \E t \in Tables : ExecuteDropTable(t)
    \/ \E t \in Tables, n \in UserIndexes, cols \in KeyLists : ExecuteCreateIndex(t, n, cols)
    \/ ExecuteDropIndex
    \/ \E t \in Known :
         \/ \E row \in Rows : Insert(t, row)
         \/ \E where \in Wheres : \E first \in FirstIndexes(db, t, where) :
              LET rids == Scan(db, t, where, first)
              IN  \/ Delete(t, rids)
                  \/ \E col \in Columns, val \in Values :
                       \E fits \in SUBSET {rid \in Range(rids) : Grows(db, t, rid, col, val)} :
                         Update(t, col, val, rids, fits)

Next ==
    \/ \E n \in Databases :
         ExecuteCreateDatabase(n) \/ ExecuteDropDatabase(n) \/ ExecuteUseDatabase(n)
    \/ Restart
    \/ current # NoDatabase /\ Statement

Spec == Init /\ [][Next]_vars

-----------------------------------------------------------------------------
\* "This ensures indexes created after inserts are populated", "update the index":
\* each index of a table has an entry for every row, under the row's key, and no
\* other.  Where an UPDATE has run into a key that was there, entries are missing
\* (update_executor.cpp:32 ignores that InsertEntry fails), but none is wrong.
IndexesExact ==
    \A n \in DOMAIN dbs : LET d == dbs[n] IN
        \A t \in DOMAIN d.tableNames : \A i \in GetTableIndexes(d, t) :
            LET tree == {<<k, Tree(d, i)[k]>> : k \in DOMAIN Tree(d, i)}
                rows == EntriesOf(HeapOf(d, t), d.indexes[i].cols)
            IN  /\ tree \subseteq rows
                /\ <<n, d.tableNames[t]>> \notin clashed => tree = rows

\* A restart finds the catalog that was: every table with its heap, every index
\* with its table, under the same names and ids; and a tree for no id that is
\* not in use, so that an id given out again starts with an empty tree.
CatalogReloads ==
    \A name \in DOMAIN dbs :
        LET d == dbs[name]
            reloaded == Load(d)
            named == {t \in DOMAIN d.indexNames : DOMAIN d.indexNames[t] # {}}
        IN  /\ \A i \in DOMAIN d.indexMeta : d.indexMeta[i].table \in DOMAIN d.tableMeta
            /\ reloaded.tableNames = d.tableNames /\ reloaded.tables = d.tables
            /\ reloaded.indexes = d.indexes
            /\ reloaded.indexNames = [t \in named |-> d.indexNames[t]]
            /\ reloaded.nextTable <= d.nextTable /\ reloaded.nextIndex <= d.nextIndex
            /\ DOMAIN d.roots \subseteq DOMAIN d.indexes
            /\ DOMAIN d.heaps = DOMAIN d.tables

\* Clauses the index scan is right about: OR only as the last connector, and no
\* test for NULL.
Plain(where) ==
    \A k \in DOMAIN where :
        /\ where[k].op \notin {"is", "not"}
        /\ k < Len(where) /\ k > 1 => where[k].conn = "and"

\* The plan thinks every column of the clause has an index when there are as many
\* indexes as columns, which is wrong if one has two and another has none.
CountedRight(t, where) ==
    ~NeedFilter(db, t, where) => IndexedColumns(db, t, where) = ColumnsInCondition(where)

\* "Check for indexes that can accelerate the WHERE condition": the scan that the
\* planner chooses finds the rows that satisfy the clause and no others, each once,
\* whichever of several indexes on a column comes first, and also when an index
\* has no row for a comparison (index_scan_executor.cpp:54-57).
ScansRight ==
    current # NoDatabase =>
        \A t \in Known : <<current, db.tableNames[t]>> \notin clashed =>
            \A where \in Queries : Plain(where) /\ CountedRight(t, where) =>
                \A first \in FirstIndexes(db, t, where) :
                    SortSeq(Scan(db, t, where, first), <) = SeqScan(db, t, where)

=============================================================================
