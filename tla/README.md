# MiniSQL: a TLA+ verification project

MiniSQL (`src/minisql-master`) is a small single-node database engine: a SQL
front end, a planner and iterator-style executors on top of a catalog, B+ tree
indexes and table heaps, which live in the pages of a buffer pool (LRU or clock
replacement) over one database file. Beside this stack stand a row lock manager
with deadlock detection and a log-based recovery manager; both are complete
components that the tests drive, and the executors do not call them yet.

This project models the parts that keep state, checks the models with TLC on
small instances and proves the central ones with TLAPS for all sizes. Paths below
are relative to `src/minisql-master/src`.

## Inventory

| Part | State | Operations | Hard behaviour | Module |
|---|---|---|---|---|
| Lock and transaction manager (`concurrency/`) | a request queue per row (`lock_mode_`, `granted_`, `sharing_cnt_`, `is_writing_`, `is_upgrading_`), lock sets and a state per transaction | `LockShared`, `LockExclusive`, `LockUpgrade`, `Unlock`, `CheckAbort`, `Begin`, `Commit`, `Abort` | threads on condition variables, aborts by other threads, two copies of who holds what | `LockManager`, `LockTable` |
| Deadlock detector (`RunCycleDetection`, `HasCycle`) | `waits_for_` | build the graph, search, abort a victim, notify | races with the transactions, missing or stale edges, termination | `LockManager`, `WaitsForGraph`, `CycleDetection` |
| Buffer pool (`buffer/buffer_pool_manager.cpp`) | `page_table_`, `pages_`, `free_list_`, `replacer_` | `FetchPage`, `NewPage`, `DeletePage`, `UnpinPage`, `FlushPage`, destructor | frames reused while callers hold pointers, write-back order, stale replacer entries | `BufferPool`, `PageStore` |
| Replacers (`buffer/*_replacer.cpp`) | list and map; ring, reference bits, hand, size | `Victim`, `Pin`, `Unpin` | the two structures drifting apart, the unbounded loop of the clock | `Replacer`, `LRUReplacer`, `ClockReplacer`, `Replacers` |
| Disk manager and bitmap pages (`storage/disk_manager.cpp`, `page/bitmap_page.cpp`) | meta page in memory and in the file, bitmap pages | `AllocatePage`, `DeAllocatePage`, `IsPageFree`, `MapPageId`, `Close`, open | four records of one fact, the free-page hint, a crash before `Close` | `DiskManager`; with the pool, `Storage` |
| Page latch (`include/common/rwlatch.h`) | reader count, writer flag, two condition variables | `WLock`, `WUnlock`, `RLock`, `RUnlock` | lost notifications, writers starved by readers | `RWLatch` |
| Log and recovery (`include/recovery/`) | log, LSN chains, checkpoint, table of active transactions | `Create...Log`, `Init`, `RedoPhase`, `UndoPhase`, `UndoTxn` | checkpoints with uncommitted data, a crash during recovery, reused transaction ids | `Recovery` |
| Table heap, pages and iterator (`storage/table_*.cpp`, `page/table_page.cpp`) | slots and bytes, page chain, list of insertable pages | `InsertTuple`, `MarkDelete`, `RollbackDelete`, `ApplyDelete`, `UpdateTuple`, `DeleteTable`, scan, restart | the list of insertable pages, tuples moved under a scan, updates that do not fit | `TableHeap` |
| B+ tree, its index and iterator (`index/`, `page/b_plus_tree_*`, `page/index_roots_page.cpp`) | node pages, root id, roots page, pins | `Insert`, `Remove`, `Split`, `Coalesce`, `Redistribute`, `AdjustRoot`, `Destroy`, `ScanKey` | boundaries of node sizes, parent links, the leaf chain, pins | `BPlusTree` |
| Catalog (`catalog/`) | maps of tables and indexes, meta pages | `CreateTable`, `CreateIndex`, `DropIndex`, `DropTable`, load | ids used again after a restart, an index built over existing rows | `Catalog` |
| Planner and executors (`planner/`, `executor/`) | heap and index contents | choice of scan, `SeqScan`, `IndexScan`, `Insert`, `Update`, `Delete` | heap and indexes disagreeing, a filter left out | `Planner`, `Database` |
| Execute engine, storage instance (`executor/execute_engine.cpp`, `common/instance.cpp`) | the open databases, the one in use | `CREATE`/`DROP`/`USE DATABASE`, `CREATE`/`DROP TABLE` and `INDEX`, plan execution, start, shutdown | restart between statements, a dropped database in use | `Database`, `Storage` (partly) |
| Rows, schemas, types; parser; result output | none that outlives a call | serialization, parsing, printing | - | not modelled |

How the parts meet: an executor works on heaps and indexes found through the
catalog; these fetch, change and unpin pages; the pool asks its replacer for a
victim and the disk manager for page ids.

* `Storage` puts `BufferPool` and `DiskManager` together: one call of the pool is a
  joint step of both. The pool relies on its replacer only through `Replacer`, which
  `Replacers` shows both implementations to be.
* `LockManager` relies on the depth-first search only through
  `WaitsForGraph!Victims`; `SearchDelivers` compares the search with it.
* `Catalog` takes an index to be a function from keys to row ids and the scan of an
  index to be a filter of it, which `BPlusTree!ScansExact` shows; and it takes a heap
  to be a sequence of slots that read back what was written, which
  `TableHeap!RowsReadBack` and `ScanReachesAll` show. `Planner` and `Database` stand on
  `Catalog`, one statement at a time, as `execute_engine.cpp:162` runs them.
* `BPlusTree` takes the pool's side to be pin counts and allocated pages; the
  contents are `Storage`'s business.
* `Recovery` assumes of its transactions the strict two-phase locking that
  `LockManager` offers.

The hazards (where this code can go wrong in ways a test would hardly reach) are
listed with their source lines in `PROJECT.json`.

## Modules and the code they model

**`LockManager`.** One thread per transaction and the detector's thread. What a
thread does under `latch_` is one step, up to its return or its `cv_.wait`.
`LockPrepare`, the copying of the lock sets in `ReleaseLocks`, and
`LockExclusive`'s call of `LockUpgrade` all happen without the latch, so they are
steps of their own and others come in between. A queue is four functions of the
row: `mode[r][t]` and `granted[r][t]` are `lock_mode_` and `granted_` of t's request
("None": no request), next to `sharingCnt`, `isWriting` and `isUpgrading`. `woken`
is the set of sleeping threads that have been notified; a thread may also wake
without notification. `ExternalAbort` is `TxnManager::Abort` called by a thread
other than the transaction's own: it sets the state, copies the lock sets
(`ExternalCopy`) and releases row by row what it has copied. `copying` says whether the
owner's thread was past `LockPrepare` when the state changed; it can then change
the sets while they are being copied, and the copy may miss any row. The detector's pass holds `latch_` but changes
transaction states others read without it: it is `BuildGraph`, one `AbortVictim`
per victim and `EndPass`.

**`LockTable`.** What clients may rely on: locks are acquired, upgraded and
released one at a time, and never conflict.

**`WaitsForGraph`, `CycleDetection`.** The promise of `HasCycle` (the youngest
member of a cycle) and the depth-first search itself as a recursive operator, in the
order in which the code visits nodes. The loop that aborts the victims is
`LockManager`'s.

**`BufferPool`, `PageStore`.** Every operation is one step under `latch_`; clients
hold at most one page each, write through the frame they were handed, and unpin as
dirty what they wrote. `Deletable` says which pages callers delete: not in memory,
cached, or still pinned. `PageStore` is a map from pages to contents in which
eviction, flush and restart are invisible.

**`Replacer`, `LRUReplacer`, `ClockReplacer`, `Replacers`.** The clock's loop is one
step per round; `age` and `newer` are history variables that record how long ago, and
in which order, frames were unpinned. `Replacers` is a pool's replacer of either
class. A pool numbers its frames below `capacity_`, so that the checks of `frame_id` in
`Pin` and `Unpin` of the clock never return.

**`DiskManager`.** A bitmap page is its set of used offsets, its count and its hint;
the meta page exists in memory and in the file. The counters wrap at `WordSize`, as
`uint32_t` does. `owned` is a history variable: what callers were given.
`CrashSpec` adds a process that dies without `Close`.

**`Storage`.** `CreatePage` is `NewPage` with its `AllocatePage`, `GiveBack` is
`DeletePage` with its `DeAllocatePage`; `Shutdown` is the destructors of the pool and
of the disk manager, `Startup` the next opening. `owned` becomes the pool's `allocated`.

**`TableHeap`.** Pages down to the byte: a byte is "the i-th byte of row r", so that a
tuple moved wrongly reads back as something else. The list of insertable pages, its
lazy rebuilding after a restart (`built`) and the cached ends are as in the code.
`stored` is what callers were told about each row id; `at` and `sought` are a scan
under way and a row it must not miss. A row that has been returned, removed or marked
is no longer sought.

**`BPlusTree`.** The functions of `b_plus_tree.cpp` and of its two page classes
(`Leaf...`, `Internal...`) as operators from trees to trees, with every `FetchPage`, `UnpinPage`, `NewPage` and
`DeletePage` in the order of the code: in the walk down to a leaf, for each child that
gets another parent, for the roots page, on the ways out for duplicate and absent keys, and
in the constructor, the steps and the destructor of an iterator. `surplus` records an
`UnpinPage` that found nothing to unpin, which the code does not notice. A scan returns the
tree as it leaves it, so that its pins can be compared. `entries` is what callers inserted and did not remove. After each operation pages
are numbered afresh in the order of the tree (`Renumbered`): page ids are compared
for equality only, so that trees which differ in the numbers alone are one state.
`OtherIndexRoot` gives a second index, which shares the roots page, its root or takes it
away; `otherRoot` is what it has recorded.

**`Catalog`.** A database is one record: the maps of `CatalogManager`, and beside
them what is on disk (meta pages, heaps, roots page). `Load` is a restart.

**`Planner`.** A clause is a sequence of comparisons with connectors, read from the
left as the grammar does. `Scan` is the plan the planner chooses, `SeqScan` the plan
without indexes; both give row ids in the order in which the executor returns them. Of
several indexes on a column the first in the order of an `unordered_map` is used, which
may be any of them (`FirstIndexes`).

**`Database`.** `dbs` and `current` are the engine's `dbs_` and `current_db_`; a
statement works on `dbs[current]`, which TLC could not evaluate if `current` named a
database that is not open. `Restart` destroys the engine and makes a new one, which
opens every database and uses none. One action per statement. The rows of an `UPDATE` are folded one
after the other, as its executor takes them; an insert of several rows is several
`Insert` steps. Whether a row that grows still fits in its page is a choice for
each row (`fits`); the first that does not ends the statement. `clashed` records the tables in which an `UPDATE` ran into an existing key.

**`RWLatch`.** Steps are the stretches under `mutex_` between two waits.
`notify_one` wakes any one sleeper.

**`Recovery`.** Transactions log and change the database under strict two-phase
locking; a checkpoint can be taken at any moment, uncommitted data included; a
crash loads it and runs `RedoPhase` record by record, then `UndoPhase`.

`MC...` modules give the constants their values for TLC. Operators that precede a
definition and bear its name with a suffix (`GrantUpgradeKeepsCount` before
`GrantUpgrade`) are faulty variants of it; each property is known to fail with
one of them (`mutants` in `PROJECT.json`).

## Runs

| Run | Instance | What it shows |
|---|---|---|
| `lock` | 3 transactions (2 upgrade), 2 rows, detector; every graph of 4 transactions | Every step is a step of `LockTable`; two-phase locking; no lost wakeup; no upgrade flag without an upgrader; victims are blocked; deadlocks among lock holders are in the graph; the search finds a cycle exactly if there is one and names its youngest member. |
| `lock_live` | 2 upgrading transactions, 2 rows, detector, one of them aborted by another thread at any time, in the middle of a lock call too | No conflicting locks; queues agree with lock sets; no request is queued while an older one of the transaction is there; nothing is left behind by a finished transaction; every wait ends. |
| `lock_deadlock_unseen` | as `lock` | *Violated*: not every deadlock is in the graph (below). |
| `storage` | 2 frames, 3 pages in 2 extents, 3 clients, 2 contents | Pool and disk manager together are a `PageStore`; a held page stays in its frame; page table, pins, free list and replacer account for every frame, and an unpinned clean page equals its copy on disk; the four records of what is allocated agree with what callers have, also after reopening; the lowest free page is given out. |
| `pool_victim` | 2 frames, 3 pages, 2 clients, cached pages deleted | *Violated*: a held page stays (below). |
| `disk_crash` | 2 extents of 2 pages, crashes | *Violated*: an allocated page was free (below). |
| `replacers` | LRU with 5 frames, clock with 4 | Both are a `Replacer`; LRU evicts in order; the clock's loop ends within two rotations and gives each frame its second chance. |
| `latch` | 4 threads | A writer is alone; whoever sleeps can still be woken; a writer that entered gets the latch. |
| `recovery` | 2 transactions, 2 keys, 2 values, 6 log records, 2 crashes | The recovered database is what was committed; undo stays on its own chain; each step of recovery takes it on. |
| `table_heap` | rows of 2 sizes, up to 3 pages of 2 slots, 3 rows at once, a scan | Rows read back as written; pages stay packed and the chain whole; the insertable list is exactly the pages with room; the heap grows only when no page has room; a scan misses no row that was there all along. |
| `b_plus_tree` | 9 keys, leaves of 2 or of 4 pairs, internal pages of 4 children | The tree stays a B+ tree; all six scans return what a filter of the entries would; no page is lost or stays pinned, and none is unpinned twice, by scans neither; the roots page has the roots of both indexes, each once. |
| `database` | a database that may be dropped and created again, 2 tables of 2 columns, with and without keys; up to 2 indexes and 2 rows; 53 clauses | Every index has exactly the rows of its table; a restart finds the catalog as it was; the planned scan finds what a sequential scan finds. |

### Disagreements found

* **A deadlock through a pending upgrade is not seen** (`lock_deadlock_unseen`).
  `LockShared` waits while `is_upgrading_` is set, but the graph has an edge from a
  shared request only to holders of an exclusive lock (`lock_manager.cpp:288`). A
  reader can wait for an upgrader, the upgrader for another holder of the row, and that
  holder for a row the reader has locked, with no cycle in the graph. `HolderDeadlocksAreSeen` states what does hold, and holds in
  run `lock`.
* **A frame on the free list is still in the replacer** (`pool_victim`).
  `DeletePage` does not take the frame of a cached page out of the replacer
  (`buffer_pool_manager.cpp:165`); the frame's next page can be evicted while it is
  pinned. Run `storage` therefore lets callers delete only pages that are not in
  memory.
* **After a crash a page in use is allocated again** (`disk_crash`). Bitmaps are
  written at once, the meta page only by `Close` (`disk_manager.cpp:39`), so the
  extent count is too low after a crash.

Six more are without a run of their own. The models have the behaviour of the code;
the properties say where it stops them, and elsewhere they hold.

* **`Unpin` of the clock is not the no-op its comment calls it.** For a frame that is in
  the clock `clock_replacer.cpp:92-93` says "this is a no-op (it keeps its current reference
  bit and position)"; the code sets the bit again (`clock_replacer.cpp:110-114`), and the
  comment there says why. `SecondChance`, which run `replacers` checks, holds of the code
  and fails for the no-op (`UnpinNoOp`).
* **`UPDATE` ignores a duplicate key** (`update_executor.cpp:32`). The row is changed
  in the heap and loses its index entry. `IndexesExact` asks for all entries only in
  tables where that has not happened (`clashed`); that there is no wrong entry
  holds in all. `RemoveEntry` goes by the key alone (`b_plus_tree_index.cpp:35`), so
  that such a row can later take the entry of another with it.
* **Two indexes on a column hide a missing filter.** The planner compares the
  number of usable indexes with the number of columns in the clause
  (`planner.cpp:54`); with two indexes on one column and none on the other, the
  second comparison is never made. `ScansRight` leaves such clauses out
  (`CountedRight`).
* **An `OR` that is not the last connector is not seen**
  (`abstract_statement.h:105`): in `a OR b AND c` the index scan intersects. Nor does
  `ScanKey` know `IS NULL` and `IS NOT NULL` (`b_plus_tree_index.cpp:44-75`).
  `ScansRight` leaves such clauses out (`Plain`).
* **An update that does not fit ends the statement** (`update_executor.cpp:23`), the
  rows before it stay changed, and success is reported; `table_heap.h:44` says of
  this case "(will delete and insert)". `Database!UpdateRow` does what the code does.
* **`DeletePage` of a pinned page frees it on disk and then refuses**
  (`buffer_pool_manager.cpp:142`). `BufferPool` has the case (`Deletable` with
  `"pinned"`); no caller in the repository deletes a page that it or another holds, and
  `BPlusTree!PagesAccounted` shows it of the tree.

### Bounds

Three transactions and two rows are what it takes for a reader, a writer and an
upgrader to wait for one another in a circle, and for a second upgrader to meet a
pending upgrade. An abort by another thread is checked with two transactions. Four
nodes allow two disjoint cycles, nested cycles, and a cycle reached through a
node outside it. With two frames and three pages every fetch can need an
eviction while another page is pinned; the third client makes a page shared
while the pool is full. Two extents of two pages, of which three are used, give a
full extent, one that is opened and emptied again, and a hint that is behind. Four
latch users are two readers and two writers. Six log records hold two complete
transactions, or one that reuses the id of a committed one and changes what it wrote;
two crashes are one while running and one during recovery.

Three heap pages give the chain and the insertable list a first, a middle and a last
page; a page is full with a short and a long row, so that it can be out of slots, out
of bytes, or have room for the short row only. With two pairs to a leaf nine keys make
a tree of three levels, in which internal pages split, merge and redistribute; with
four to a leaf, leaves redistribute too. No sequence of operations needs more than 12 pages, and `MaxPages` is 13. Two columns,
two indexes and two rows let every clause have an index on both columns, on one or
on none, let a column have two indexes, and let an index be dropped and its id be used
again after a restart. One database name is enough, as databases share nothing but
`current_db_`.

Symmetry is used over rows, over frames and clients, over transactions, keys and
values (recovery) and over table names, in runs without liveness properties only.

`ReadUncommitted` is empty in the runs: a transaction with that isolation level has
its `LockShared` refused and is aborted, which other transactions cannot tell from an
abort of its own; the proofs cover it.

`recovery` switches the deadlock check off, as a finished recovery has nothing left
to do. In all other runs it is on.

### Fairness

`LockManager!FairSpec`: the detector's thread keeps running (a loop with a sleep);
a thread that keeps asking for `latch_` gets it in the end, which needs strong
fairness because the detector takes the latch over and over; a client ends its
transaction sooner or later, as opposed to calling the lock manager for ever;
`LockExclusive` goes on to call `LockUpgrade`, and `Abort` to copy the lock sets. Nothing is assumed of when a client
asks for a lock or of spurious wakeups. `WaitsEnd` is checked for two transactions;
with three it cannot hold, as nothing breaks the unseen deadlock above.

`RWLatch!FairSpec`: who holds the latch lets go of it, and a writer that has been
woken gets the mutex.

That recovery does not go on for ever is shown without fairness: every step takes it on in
an order without infinite descent (`RecoveryAdvances`, also proved).

## Proofs

TLC's runs are small; the theorems below hold for every value of the constants that the
named assumptions allow. In each module the argument is the same: an inductive invariant,
kept by every action, implies the properties the runs check. Each inductive
invariant was also checked with TLC on the instance of its run
(`RecoveryInv` with its h computed from the log).

| Module | Properties of the runs it proves | From |
|---|---|---|
| `LockManagerProofs` | `TwoPhase` | `LockInv` |
| `LockWaitProofs` | `MutualExclusion`, `QueueMatchesLockSets`, `ImplementsLockTable` | `LockInv`, `CountInv` |
| `LockWaitProofs` | `NoLostWakeup`, `NoStuckUpgradeFlag`, `FinishedHoldsNothing`, `HolderDeadlocksAreSeen`, `NoDuplicateRequest`, `VictimIsBlocked` | `WaitInv` |
| `RWLatchProofs` | `Exclusion`, `NobodyForgotten` | `LatchInv` |
| `ReplacersProofs` | `LeastRecentFirst`, `TwoRotations`, `SecondChance`, `ImplementsReplacer` | `ReplacersInv` |
| `BufferPoolProofs`, `StorageProofs` | `HeldPageStays`, `FramesAccounted`, `ImplementsPageStore`, `BooksBalance`, `LowestFreeFirst` | `PoolInv`, `StorageInv` |
| `RecoveryProofs` | `RecoversCommitted`, `UndoOwnChain`, `RecoveryAdvances` | `RecoveryInv` |

**`LockManagerProofs`**, for any finite set of transactions, any set of rows and
any choice of upgraders, isolation levels and aborted transactions.
`LockInv` is the conjunction of `TypeOK` (`TypeCorrect`), `GrantsMatch` and `ThreadInv`.
`GrantsMatch` ties each request's `granted_` to the lock set of its
transaction, as `Unlock` decides by `granted_` which of the two it
undoes. `ThreadInv` says what a thread at each place implies: one that sleeps for a new lock
has none granted on that row, one that sleeps for an upgrade and is not aborted has
the shared lock, and one inside a lock call is not shrinking, nor committed (from
which two-phase locking follows). The lemma `Classify`
sorts every step of `Next` by what it does to the holdings (`HoldStep`: a shared,
exclusive or upgrade grant, a release, or nothing). The proof assumes that
the transactions are a finite set of natural numbers (`WaitsForGraph`), that `NoRow` is no row, and that the
roles are sets of transactions.

**`LockWaitProofs`**, under the same assumptions. `MutualExclusion` is not inductive: a lock
is granted on what the queue's counter and flag say, so the invariant must tie these to the
lock sets. `CountInv` is `MutualExclusion` with `QueueMatchesLockSets`; it and the refinement of
`LockTable` follow from the five cases of `HoldStep`.

Whether a sleeping thread is rightly
asleep depends on the queue, on the counters and on who has been notified, and none of
the properties is inductive alone. `WaitInv` adds to `LockInv`:

* `RequestInv`, what a request says of its thread: one without a grant belongs to a thread
  asleep in that queue, one whose grant is weaker than its mode to an upgrade that waits
  or was aborted, and those of a thread that is releasing are still on its list. `NoDuplicateRequest`
  and `FinishedHoldsNothing` come from it;
* `SleepInv`, the reason of each thread that is asleep and not notified. A step either
  leaves the reason, or notifies the whole queue (`Notifies`);
* `NoStuckUpgradeFlag`, which a shared request's reason rests on;
* `EdgesInv`: while the detector works through its graph without looking at the queues
  again, every edge of its graph still leaves a transaction that waits or has been aborted.
  A waiting thread moves on only under `latch_`, which the detector holds; `VictimIsBlocked` follows.

`HolderDeadlocksAreSeen` is about deadlocks of any size. If everybody in a set waits for
somebody in it, the graph has an edge from each member to a member. Of all sets with such edges take one
whose newest member m is the oldest possible (`WFMin`). If no path through transactions up to
m led from m back to m, what can be reached from m would be such a set too, without m and so with an older
newest member. Hence m is the newest member of a cycle, one of `Victims`.

**`RWLatchProofs`**, for any finite set of threads. The inductive invariant `LatchInv` says that the
reader count is the number of readers, that the writer flag is set exactly while
one thread is draining or writing, that a thread writes only when there are no readers, and
who can be asleep on which condition variable.

**`ReplacersProofs`**, for any finite set of frames and any capacity of the clock of at
least one. `LruInv` says that `lru_list_` has no duplicates, has the members of `lru_map_`, and lies in the
order of the unpins. For the clock, `Ahead(f)` is the number of rounds until the hand is at
f. In a scan, `rounds + Ahead(f)` is at most two capacities for the frames in the clock, and
at most one for those with their bit set; a round takes one from `Ahead(f)`, except at the
frame it reaches, which either is the victim or loses its bit and is a rotation away
again. `AgeInv` bounds `age[f] + Ahead(f)` from below in the same way, for the second chance.

**`BufferPoolProofs`**, for any finite sets of frames and clients and any number of pages.
That a held page stays needs the pin counts, which need page table and frames to be
inverse to each other. `CleanMatchesDisk` speaks of unpinned frames only and is not
inductive: a caller sets `is_dirty_` when it unpins, so `CleanUnlessHeldDirty` also counts
what the holders are going to say. The theorems have the hypothesis
`OnlyAbsentDeleted`: callers delete only pages that are not in memory. Without it they are
false, as `pool_victim` shows. The steps are collected in `PoolStep`, in which
`NewPage` is given any page not in use, so that one proof serves the pool alone
(`PoolIsPageStore`) and the pool on its disk manager.

**`StorageProofs`**, for any number of extents of any size, with the same hypothesis.
`DiskInv` says of each bitmap page that its count is that of its bits, that no page below
its hint is free, and that its bits are the pages callers have; and of the meta page (the one
in memory while the file is open, the one in the file otherwise) that its counts are those
of the bitmaps and that extents it does not know are empty. Hence `AllocatePage` returns
the lowest page that is not in use, and every step of `Storage` is a `PoolStep` or leaves
the pool alone. It assumes that the file has room for the pages and that the counters do
not overflow at that size. `LayoutIsDisjoint` is about `MapPageId`: no two pages have one place in
the file, and none is at the meta page or at a bitmap page. A page is determined by its extent and its
offset in it (`PageSplits`), lies strictly behind its extent's bitmap page and before
the next one (`PageInExtent`), and extents do not overlap (`ExtentsApart`).

**`RecoveryProofs`**, for any finite set of transactions, any keys and values,
logs of any length and any number of crashes. Recovery sees the log and one
checkpoint, not the states the system went through, so the invariant brings these
back: `RecoveryInv` says that there is a function h from LSNs to snapshots (data, last
writers, committed values, running transactions, `last_lsn_`) such that each record of the log takes one
snapshot to the next (`SnapStep`) and every snapshot is `Sound`: a key is held
by a running transaction or has its committed value, `last_lsn_` names a record after which the
transaction changed nothing, and a running transaction keeps what it holds. While the
system runs, h ends in the present; the checkpoint is one of the snapshots. Then:

* in `RedoPhase` after record l, a key the log has named by then is as it was at l, and any other as
  in the checkpoint (`RedoneTo`). Data in the checkpoint that is newer than l does no
  harm, as whatever made it newer is named by a later record;
* in `UndoTxn` at record u, the keys t held at u are as they were at u, and what t took after u
  has its committed value again (`HalfUndone`);
* in `UndoPhase` a key is as at the end of the log, or as committed if its writer has been undone.

At the end this is `committed`. The history is built with the log (`HistoryGrows`) and
not part of the specification. `RecoveryAdvances` needs only bounds from the invariant: a chain of
`prev_lsn_` descends, so that within a transaction the chain gets shorter, and between
transactions the records to redo or the transactions to undo get fewer.

### Only model-checked

* `WaitsEnd` and `WriterGetsIn`: liveness under fairness.
* `SearchDelivers` and the B+ tree's properties: the search and the tree are recursive
  definitions, and what these compute for every input needs induction over data.
* The table heap's properties: the walks along its pages are recursive functions, and the
  claims about bytes are about what many moves add up to. No proof has been attempted.
* The properties of the catalog, the planner and the statements: rows, indexes and clauses are
  folded over, which is induction over data again.

## Plan

1. The table heap. Its loops are functions on `0 .. Len(pages)`, so that an argument by the
   least round that fails (`WFMin`, as in `CycleHasVictim`) can take the place of
   induction. First `ChainWhole` and `PagesPacked`, on which `RowsReadBack` rests, then the insertable list.
2. `RootRecorded` of the B+ tree and `CatalogReloads` depend little on what the recursive
   definitions compute, and may be provable with these left unexpanded.

## Not modelled

* The parser is mostly generated from grammars and has no state. Rows, schemas, types and
  the serialization of metadata are conversions to bytes within one call. Result
  output, tree dumps and `main` are pure input and output.
* Of SQL: `NULL` fields, projections, `SHOW`, how an `EXECFILE` is read (its statements are
  those of `Database`), and the transaction statements, which do nothing. Row statements
  before any `USE`: the planner then has no context (`execute_engine.cpp:121`, `:157`) and
  dereferences it, so that nothing is defined about what follows. Database files that
  fail to load. A statement runs alone; the executors take
  no locks and use no log.
* Of the heap, the tree and the catalog: a pool that has no frame or a disk that has
  no page for them; an index whose key takes more than 248 bytes, for which
  `IndexInfo::CreateIndex` returns `nullptr` (`indexes.cpp:111-113`) and which is registered
  without a tree; the latches `table_heap.cpp` takes around single calls, which nobody
  contends for; `MAX_INDEX_COUNT`, which the code does not check.
* Of the pool: a refused call, as it returns `nullptr` and changes nothing.
* Of the disk manager: the byte offsets of physical pages. Crashes are modelled for
  it alone (`disk_crash`) and for the log; what a crash does to heaps and trees is not,
  as nothing in the code would repair them.
* Of the latch: the branch for `MAX_READERS` (2^32 - 1 readers).
* Of recovery: the early end of `UndoTxn` at an LSN that is not in the log, as the
  whole log is always given to it.
