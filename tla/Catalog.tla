------------------------------ MODULE Catalog ------------------------------
(***************************************************************************)
(* The catalog manager (catalog.cpp) and what its tables and indexes keep  *)
(* on disk.  d is a database: the maps of CatalogManager, and the pages    *)
(* that outlive it.  A heap is the sequence of its slots, a row id is a    *)
(* position in it: executors never call ApplyDelete, so that a slot is     *)
(* never used again.  A tree is a function from keys to row ids; that a    *)
(* B+ tree is one is what module BPlusTree shows.  Maps are functions on   *)
(* the names or ids they hold.  A statement runs to its end before the     *)
(* next (execute_engine.cpp:162).                                          *)
(***************************************************************************)
EXTENDS Integers, FiniteSets, SequencesExt, FiniteSetsExt

CONSTANT Columns    \* the columns of every table, by position

NewDatabase ==
    [tableNames |-> <<>>,   \* table_names_: name -> table id
     tables     |-> <<>>,   \* tables_: table id -> name
     indexNames |-> <<>>,   \* index_names_: table name -> index name -> index id
     indexes    |-> <<>>,   \* indexes_: index id -> [name, table, cols]
     nextTable  |-> 0,      \* next_table_id_
     nextIndex  |-> 0,      \* next_index_id_
     tableMeta  |-> <<>>,   \* table_meta_pages_ and the pages it names
     indexMeta  |-> <<>>,   \* index_meta_pages_ and the pages it names
     heaps      |-> <<>>,   \* table id -> slots
     roots      |-> <<>>]   \* the index roots page: index id -> tree, if not empty

Without(f, x) == [y \in DOMAIN f \ {x} |-> f[y]]

-----------------------------------------------------------------------------
(* Indexes: a tree is found by the id of its index in the roots page, and  *)
(* has no entry there while it is empty.                                   *)

Tree(d, i) == IF i \in DOMAIN d.roots THEN d.roots[i] ELSE <<>>

SetTree(d, i, tree) ==
    [d EXCEPT !.roots = IF DOMAIN tree = {} THEN Without(@, i) ELSE (i :> tree) @@ @]

Key(row, cols) == [k \in DOMAIN cols |-> row[cols[k]]]

\* A key that is there already is refused.
InsertEntry(tree, key, rid) == IF key \in DOMAIN tree THEN tree ELSE (key :> rid) @@ tree

RemoveEntry(tree, key) == Without(tree, key)

-----------------------------------------------------------------------------
(* Tables and indexes by name. *)

HeapOf(d, t) == d.heaps[d.tableNames[t]]

LiveRids(heap) == {r \in DOMAIN heap : heap[r].live}

IndexNamesOf(d, t) == IF t \in DOMAIN d.indexNames THEN d.indexNames[t] ELSE <<>>

GetTableIndexes(d, t) == Range(IndexNamesOf(d, t))

CreateTable(d, t) ==
    IF t \in DOMAIN d.tableNames THEN d
    ELSE LET id == d.nextTable
         IN  [d EXCEPT !.nextTable = id + 1,
                       !.tableNames = (t :> id) @@ @,
                       !.tables = (id :> t) @@ @,
                       !.tableMeta = (id :> t) @@ @,
                       !.heaps = (id :> <<>>) @@ @]

\* The entries of the rows of a heap: what the scan of CreateIndex inserts.
EntriesOf(heap, cols) == {<<Key(heap[r].row, cols), r>> : r \in LiveRids(heap)}

KeysOf(entries) == {e[1] : e \in entries}

\* The tree is the one the roots page has for the new id.  A key found twice
\* destroys it again; the id is used up, and the table stays in index_names_.
CreateIndex(d, t, n, cols) ==
    LET names == IndexNamesOf(d, t)
        i == d.nextIndex
        noted == [d EXCEPT !.indexNames = (t :> names) @@ @]
        numbered == [noted EXCEPT !.nextIndex = i + 1]
        entries == EntriesOf(HeapOf(d, t), cols)
        keys == KeysOf(entries)
        tree == [k \in keys |-> (CHOOSE e \in entries : e[1] = k)[2]] @@ Tree(d, i)
        info == [name |-> n, table |-> d.tableNames[t], cols |-> cols]
    IN  IF t \notin DOMAIN d.tableNames \/ n \in DOMAIN names THEN d
        ELSE IF ~(Range(cols) \subseteq Columns) THEN noted
        ELSE IF Cardinality(keys) < Cardinality(entries) \/ keys \cap DOMAIN Tree(d, i) # {}
        THEN SetTree(numbered, i, <<>>)
        ELSE [SetTree(numbered, i, tree) EXCEPT
                 !.indexes = (i :> info) @@ @,
                 !.indexMeta = (i :> info) @@ @,
                 !.indexNames[t] = (n :> i) @@ @]

DropIndexKeepsTree(d, t, n) ==
    IF n \notin DOMAIN IndexNamesOf(d, t) THEN d
    ELSE LET i == d.indexNames[t][n]
             left == Without(d.indexNames[t], n)
         IN  [d EXCEPT !.indexes = Without(@, i),
                       !.indexMeta = Without(@, i),
                       !.indexNames = IF DOMAIN left = {} THEN Without(@, t) ELSE (t :> left) @@ @]
DropIndex(d, t, n) ==
    IF n \notin DOMAIN IndexNamesOf(d, t) THEN d
    ELSE LET i == d.indexNames[t][n]
             left == Without(d.indexNames[t], n)
         IN  [SetTree(d, i, <<>>) EXCEPT
                 !.indexes = Without(@, i),
                 !.indexMeta = Without(@, i),
                 !.indexNames = IF DOMAIN left = {} THEN Without(@, t) ELSE (t :> left) @@ @]

DropTable(d, t) ==
    IF t \notin DOMAIN d.tableNames THEN d
    ELSE LET id == d.tableNames[t]
             names == DOMAIN IndexNamesOf(d, t)
             bare == FoldSet(LAMBDA n, acc : DropIndex(acc, t, n), d, names)
         IN  [bare EXCEPT !.heaps = Without(@, id), !.tableMeta = Without(@, id),
                          !.tableNames = Without(@, t), !.tables = Without(@, id)]

-----------------------------------------------------------------------------
(* A new CatalogManager on an existing file: LoadTable for every table of  *)
(* the catalog meta page, then LoadIndex for every index, by rising ids.   *)

NextId(pages) == IF DOMAIN pages = {} THEN 0 ELSE Max(DOMAIN pages) + 1

\* The name map that loading leaves: of two ids with one name, the later.
ByName(names) == [n \in Range(names) |-> Max({i \in DOMAIN names : names[i] = n})]

LoadTables(d) == [d EXCEPT !.tables = d.tableMeta, !.tableNames = ByName(d.tableMeta)]

LoadIndexes(d) ==
    LET ids == DOMAIN d.indexMeta
        TableName(i) == d.tables[d.indexMeta[i].table]
        Names(t) == [i \in {x \in ids : TableName(x) = t} |-> d.indexMeta[i].name]
    IN  [d EXCEPT !.indexes = d.indexMeta,
                  !.indexNames = [t \in {TableName(i) : i \in ids} |-> ByName(Names(t))]]

Load(d) == LoadIndexes(LoadTables([d EXCEPT !.nextTable = NextId(d.tableMeta),
                                            !.nextIndex = NextId(d.indexMeta)]))

=============================================================================
