# TokuFT in TLA+

TokuFT is a transactional key-value store: dictionaries are fractal trees
(buffered B-trees) kept in files of blocks, read and changed through a cachetable,
protected by row locks, versioned for snapshots, logged for recovery and saved by
checkpoints. This directory holds TLA+ specifications of its concurrent and
crash-sensitive parts and of the structures these rest on, TLC configurations that check them on small instances, and
proofs, checked by TLAPS, for any instance. Paths are relative to the root of the
repository (the library interface itself lives in its directory `src/`).

To repeat a check: `tlc -config Logger.cfg Logger`; to repeat the proofs:
`tlapm LoggerProofs.tla`.

## 1. Inventory

### 1.1 The parts and how they interact

A client thread calls the interface (`src/ydb*.cc`). A write takes a row lock
(`src/ydb_row_lock.cc` -> `locktree/`), adds an undo record to the rollback log of
its transaction (`ft/txn/rollback.cc`), an entry to the recovery log
(`ft/logger/logger.cc`) and injects a message into the tree (`ft/ft-ops.cc`). Tree
nodes are pairs of the cachetable (`ft/cachetable/cachetable.cc`), pinned under
`util/frwlock.cc`, written by the evictor or by the checkpoint thread to places that
the block table (`ft/serialize/block_table.cc`) allots. A checkpoint copies the
translation of each file, marks all pairs as pending, writes them, then translation
and header, and logs its end; recovery (`ft/logger/recover.cc`) opens the files as of
the last checkpoint and replays the log.

| Part | State | Operations | Interacts by | Hard behaviour | What makes it correct |
|---|---|---|---|---|---|
| fair lock `util/frwlock.cc` | six counters, a queue of waiters, flags | (try) read/write lock, unlock, cost advice | external mutex, one condition per waiter | no re-check after a wakeup; readers share a queue entry | exclusion; a signal stays good; first come first served; no waiter is stranded |
| reader-writer lock `util/rwlock.h`, `nb_mutex.h` | four counters, conditions, a drain flag | lock, unlock, wait for users | external mutex | barging, draining while users come and go | exclusion; writers before readers; a drain ends |
| lock requests `locktree/lock_request.cc` | pending set, states, generations of the group retry | start, wait, kill, retry all | info mutex, retry mutex, locktree | conflicts read before the lock that guards their use; timeouts; group retry | no missed grant, no leaked lock, no false deadlock |
| locktree `locktree/locktree.cc` | disjoint row locks, buffer of the single-transaction optimization, memory count | acquire, release, escalate | root lock, callbacks into transactions | optimization ended by others; escalation between lock and note | row locks are exclusive, kept until release, gone after it |
| locktree manager `locktree/manager.cc` | map of locktrees, references, memory, escalator | get/release, escalate, kill | manager mutex, escalator condition | reference falls to zero and rises again | a locktree is destroyed once and not in use |
| block table `ft/serialize/block_table.cc`, headers | three translations, free lists, allocated places, two headers | allocate, rewrite, free, both phases of a checkpoint, close, open | table mutex, cachetable callbacks | writes during a checkpoint; crash between any two steps | the last checkpoint is whole; no block lost or used twice |
| logger `ft/logger/logger.cc`, `logfilemgr.cc` | two buffers, LSNs, log files | log, group commit, flush, rotate, trim, restart | input lock, output permission | group commit, rotation, trimming, crash | one sequence of LSNs; acknowledged means durable; recovery has its log |
| cachetable `ft/cachetable/cachetable.cc` | pairs, pending bits, clones, clock, cachefiles | get and pin, put, unpin, evict, checkpoint | pair locks, list locks, thread pools | dependent pairs cut by a checkpoint; flow control | a checkpoint is one point in time; nobody sleeps for ever |
| checkpoint driver `ft/cachetable/checkpoint.cc` | three locks | take a checkpoint | locks shared with clients | lock order | no deadlock; multi-operation atomicity |
| transactions, snapshots `ft/txn/` | live list, snapshot list, referenced xids, rollback logs | begin, commit, prepare, abort, garbage collection info | transaction manager lock | ids, snapshots and ends in any order | a reader keeps the version it is entitled to |
| leaf entries `ft/ule.cc` | stack of versions of a row | apply message, promote, collect | called under node locks | nested commits and aborts | visibility rules of MVCC |
| tree and flusher `ft/ft-ops.cc`, `ft-flusher.cc` | nodes, message buffers | inject, query, flush, split, merge | cachetable pins, kibbutz | queries while messages move | a query sees all messages of its path once, in order |
| recovery `ft/logger/recover.cc` | scan state, opened files, transactions | backward scan, forward replay | log cursor | crash during recovery | committed is there, uncommitted is not |
| hot indexer `src/indexer*.cc` | position, live transactions | build, undo-do | transaction manager, locktree | transactions end while it reads | the new index equals the old table |
| loader `ft/loader/`, `util/queue.cc` | queues between threads | put, extract, merge, write | bounded queues | an error in one thread | it ends, with the first error |
| helpers `util/kibbutz.cc`, `minicron.cc`, `background_job_manager.cc`, `partitioned_counter.cc` | queues, flags | enqueue, change period, shut down | one mutex and condition each | signal at shutdown | work is done, shutdown ends |

Beside these there are the sequential structures the parts are made of: order-maintenance
trees, memory pools, basements, pivot keys, message buffers, the tree of holes and the
tree of row locks. Their operations are modelled as functions and checked against the
sets and sequences they stand for.

Compression and checksums, the upgrade of old logs, statistics, the portability layer,
the tools, the C++ wrapper and the header generator have no behaviour of this kind and
are not modelled. `PROJECT.json` lists every component with its files, and the hazards
with their lines.

### 1.2 What is modelled

| Module | Models | Run | Proofs |
|---|---|---|---|
| `ReadWriteLock` | what any reader-writer lock promises | (abstract) | |
| `FRWLock` | `util/frwlock.cc` | `waiting` | `ReadWriteLockProofs` |
| `RWLock` | `util/rwlock.h`, `nb_mutex.h` | `waiting` | `ReadWriteLockProofs` |
| `LockRequest` | `locktree/lock_request.cc`, the notes of `src/ydb_row_lock.cc` | `lock_request`, `waiting` | `LockRequestProofs` |
| `RowLocks` | what the row locks of a dictionary promise | (abstract) | |
| `LockTree` | `locktree/locktree.cc`, `src/ydb_row_lock.cc`, `src/ydb_txn.cc` | `locktree` | `LockTreeProofs` |
| `LockTreeManager` | `locktree/manager.cc` | `locktree` | `LockTreeProofs` |
| `ConcurrentTree` | `locktree/concurrent_tree.cc`, `treenode.cc` | `containers` | |
| `BlockTable` | `ft/serialize/block_table.cc`, parts of `ft/ft.cc`, `ft-serialize.cc`, `cachetable.cc`, `recover.cc` | `blocktable` | `BlockTableProofs` |
| `MhsRbTree` | `ft/serialize/rbtree_mhs.cc`, `block_allocator.cc` | `containers` | |
| `Logger` | `ft/logger/logger.cc`, `logfilemgr.cc`, the writers generated by `logformat.cc` | `logger` | `LoggerProofs` |
| `Recovery` | `ft/logger/recover.cc`, `ft/txn/roll.cc`, `txn.cc`, `ft/ft.cc` | `recovery` | |
| `TxnManager`, `LeafEntry`, `Mvcc` | `ft/txn/txn_manager.cc`, `txn_child_manager.cc`; `ft/ule.cc`; how they meet in a leaf | `mvcc` | `MvccProofs` (`LeafEntry`: TLC only) |
| `RollbackLog` | `ft/txn/rollback*.cc` | `node` | |
| `CacheTable` | pairs and checkpoint of `ft/cachetable/cachetable.cc` | `cachetable` | `CacheTableProofs`, `CacheTreeProofs` |
| `Evictor` | evictor, flow control, list of cachefiles and `background_job_manager.cc` | `background` | |
| `Dictionary` | what a tree promises | (abstract) | |
| `Tree` | `ft/ft-ops.cc`, `ft-flusher.cc`, `ft-hot-flusher.cc`, `node.cc` | `containers`, `tree_rightmost` | |
| `Index` | `src/indexer*.cc`, `src/ydb_write.cc`, `ft/le-cursor.cc` | `recovery` | |
| `Omt`, `BnData`, `PivotKeys`, `MsgBuffer` | `util/omt.cc`, `util/dmt.cc`, `util/mempool.cc`, `ft/bndata.cc`, `ft/pivotkeys.cc`, `ft/msg_buffer.cc` | `containers`, `node` | |
| `NodeSerialize` | `ft/serialize/ft_node-serialize.cc` | `node` | |
| `Loader`, `Dbufio` | `ft/loader/`, `src/loader.cc`, `util/queue.cc` | `waiting` | |
| `WorkThreads`, `Minicron` | `util/kibbutz.cc`, `threadpool.cc`, `minicron.cc`, `ft/serialize/workset.h` | `background` | |

A run often checks several systems that share a question. Its `MC` module then has a
variable `which` that picks one of them in the initial state and never changes; the state
of the others stands still. So the states of such a run are the union, and not the
product, of the states of its systems.

Each module has a section of faulty variants of its operations (names ending in
`Mut`). They are not part of the specification: replacing the operation by its variant
must violate the property that `PROJECT.json` names with it, which shows that the
property depends on the code.

## 2. The modules

### FRWLock

An action is the code between two points where the external mutex is free: a call
that returns, a call up to `toku_cond_wait`, the part after the wait. `signaled` holds
the waiters whose condition was signalled but who have not run. The state is the
fields of the class, one variable each; the queue holds a thread for a writer's item
and `ReadItem` for the item that all waiting readers share. `try_` calls and blocking
calls that do not block are one action, their effect being the same.

`SpuriousWakeups` says whether a wait may return unsignalled. The code waits outside a
loop (`util/frwlock.cc:152`, `:220`), so with `TRUE` exclusion is lost; runs and
theorems use `FALSE`, which is an assumption about the platform.

### RWLock

The same grain. Here waiters re-check in loops, and a waiter woken by a signal competes
with newcomers. `rwlock_wait_for_users` is modelled for the cachefile close: no new
user comes once it has started. `nb_mutex.h` is the write half of this lock.

### LockRequest

One thread per transaction. An action is one visit to the locktree or one section of
`info->mutex` or `info->retry_mutex`, so the window between the conflict set of
`start` and its insertion into the pending set is there, as is the one between `start`
and `wait`. The retry loop is one action per visited request. The locktree is the
owner of each key. Timeouts and kills may come at any time; lock memory may run out
when `OutOfLocks` is `TRUE`. `aborted` is the failed assertion of `txnid_set::get`.

### LockTree and LockTreeManager

In `LockTree` an action is one visit to the tree with its root locked (`lkr.prepare`), or
one section of `txn_mutex`; escalation holds the root while it calls back one transaction
after another. Ranges are closed intervals of integer keys; memory is counted in records.
Consolidation, the migration of the buffer and the batches of escalation are closed
forms; `MCLockTree` has the loops of the code and the run checks that both agree in
every reachable state. `RowLocks` is the abstract specification, with what each
transaction owns (tree, buffer) as its state; escalation maps to a step in which
transactions that hold something get free keys in addition.

`LockTreeManager` has the map of locktrees, their references and the escalator. The
release of a reference, the second look under the manager's mutex and the destruction
are three steps. A lock and the client's note of it are one record; `kill_waiter` and the
iteration over pending requests only read the map and are left out with the statistics.

### BlockTable

One file with its three translations. A translation is the array `u` of the union
`diskoff`/`next_free_blocknum`, the free set, head and end of the list, and the entry
of the translation itself. Nodes have stamps for contents. A write is the allocation
of a place and, later, the write to it; only an fsync makes it safe. A header under
way reads as the old one, the new one or nothing. `Crash` may come anywhere, drops
what is not synced, and opens the file the way `toku_deserialize_ft_from` and
`create_from_buffer` do, for a dictionary (latest usable header) and for the rollback
file (only one whose checkpoint the log has the end of).

Abstractions: blocks have one size and the first free place is taken (`MhsRbTree` has
the allocator); a free place holds nothing that can be relied on; taking a clone and
allocating its place are one step, since the pair lock and `disk_nb_mutex` keep others
away from the node in between; a client that pinned a node before the checkpoint began
and changes it while it is pending changes it for the checkpoint too; a header given up
at recovery implies that replay makes the rollback file dirty again. The descriptor
block, file size and truncation, and fragmentation statistics are left out; only a
dictionary is closed.

### Logger

Clients and the checkpointer. An entry is its LSN. `inbuf`, `outbuf` and their
`max_lsn_in_buf` are swapped as the code swaps them; `available` is
`output_is_available`, and sections of `output_condition_lock` are single steps.
`toku_logger_make_space_in_inbuf` keeps the input lock while it writes, as the code
does, and `maybe_fsync` does not. A file has its entries, those that are synced, and
the `maxlsn` that `logfilemgr` trims by. `Rotate` sets `fsynced_lsn` without the lock.
A checkpoint is its begin entry, the fsync that each dirty header asks for, its synced
end entry, the note and the trim. `Crash` is a crash of the machine: everything synced
survives, and of the rest what was written up to some point; the log is reopened with a
new file, as `toku_logger_open` and `toku_logger_restart` do. A crash of the process
alone, whose unsynced tail is lost only by a later power failure (`logger.cc:197` opens
the last file without an fsync), is not modelled.

### Mvcc, TxnManager, LeafEntry

`LeafEntry` has the operations of `ule.cc` as functions of the stack of a row's versions.
`TxnManager` has ids, live lists, snapshots and referenced xids, one action per operation
under the manager's mutex. `Mvcc` extends it with the lock of one row, rollback entries,
the buffer above the leaf and the work on the leaf, in which the state of the manager is
read, then used while it changes. Left out: `TXN_COPIES_SNAPSHOT`, transactions of
recovery, non-transactional messages, `FT_COMMIT_BROADCAST_ALL`, row counts.

### CacheTable and Evictor

`CacheTable` has a root and its leaves as pairs, clients that inject, flush, clean and
query, and both phases of a checkpoint: the pending bits that cut a change of several
nodes off from the checkpoint, clones, evictions, fetches, removals and the close. Left
out: reuse of keys, several cachefiles in one checkpoint. `Evictor` has the sizes, changed
without a lock, the clock, partial and full eviction, the sleep of clients while the cache
is too full, the background jobs of a cachefile and its flush and close. Left out there:
the cap `max_diff`, and what `CacheTable` has. The lock order of the checkpoint
driver (`checkpoint.cc:263`) is not modelled: its three locks appear as the atomicity
they give.

### Tree and Dictionary

`Tree` is a small fractal tree: messages are injected at the root or promoted below it,
wait in buffers, are flushed by background threads, the cleaner and hot optimization,
and are applied to basements by queries before they arrive. `Dictionary` is the abstract
map, and `Implements` says that every reader sees it. Internal nodes are always in
memory; a put is one step; sizes are numbers of rows; one background flush runs at a
time. `toku_ft_maybe_insert` (`ft/ft-ops.cc:2440`) passes `FT_INSERT` where its
parameter `type` is meant; the model does what the code does.

### Recovery and Index

`Recovery` runs transactions on files through the operations of `ft.cc`, `txn.cc` and
`roll.cc`, checkpoints, crashes and replays; the same functions serve the running system
and the replay, as in the code. A file holds one row, an LSN is the place of an entry.
Left out: nested transactions, loads, hot indexes and descriptors in the log. `Recovered`
is stated for programs without a rename (section 3).

`Index` has writes to several dictionaries and the hot indexer's undo-do. Left out:
`toku_db_update` and its broadcast, automatic transactions. Taken from how clients must
use the interface: `db_array` lists the source first; `put_multiple` does not overwrite a
row with different secondaries; a client whose `put_multiple` failed aborts, since the
failed call is not logged. `IndexExact` is about readers that see, with a version of a
source row, also those it replaced (`NoGap`), as snapshots under row locks do. Pins of transactions are released per
dictionary, so that with two new dictionaries the assertion at `ft/txn/txn.cc:699` can
fail; the run builds one. On `ENOSPC` the code does not release them at all.

### What a node is made of

`Omt` is the order-maintenance tree in both of its forms; `BnData` has the other one
(`util/dmt.cc`) and puts the rows of a basement into it and a memory pool; `PivotKeys`, `MsgBuffer` and
`MhsRbTree` are what their names say. Each keeps, beside its state, the sequence or set
it should stand for. Sizes are scaled (255 for the largest hole, alignment 4,
`LeastBuffer` for 4096). A split at 0 of pivots of one length reads uninitialized memory,
which is a free choice. `recursive_remove` of the tree of row locks is in `LockTree` as
the removal of everything. `Tree::Predecessor` (`rbtree_mhs.cc:188`) calls
`SuccessorHelper`; nothing calls it. `NodeSerialize` writes, reads, evicts, clones and
upgrades a node by partitions; a block is at offset 0, damaged parts may be met anywhere.
`RollbackLog` has the chains of rollback nodes, spilled, merged and applied.

### Loader, Dbufio and the helpers

`Loader` follows one load from the client's puts through extractor, sorting, merges and
writer, with at most `Faults` failing operations anywhere. A row is its key; sizes are
rows; the constants 15 and 10000 of the writer and of the merge are 3; kinds of failing
allocations are merged; the read of half a row is not modelled (`Dbufio` has short reads).
Kept as the code has them: a duplicate found in `pqueue_pop` hits `invariant(0)` at a
place where the caller is ready for an error; `toku_loader_close` returns 0 after a failed
put; an error on the last pivot or the header is not passed to the callback.

`WorkThreads` (the kibbutz and the thread pool) and `Minicron` are one action per section of their mutex.
A condition signal wakes any one waiter.

## 3. Runs

Every bound is a constant named in its module or in the `MC` module. All passing runs
visit the whole state space under their bounds.

| Run | Systems and bounds | Shows |
|---|---|---|
| `waiting` | `FRWLock` 4 threads; `RWLock` 4 threads; `LockRequest` 3 transactions, one point request each; `Loader` with 2 faults; `Dbufio` | signals stay valid (`WakeupStillValid`), nobody is overtaken (`NoOvertaking`), the advice is right (`ReadCostHonest`), no wakeup is lost (`NoLostWakeup`), both locks implement `ReadWriteLock` (`RWLSpec`, `RwImplements`), a load ends with its rows or its first error and without temporary files (`LoadSound`), every wait ends (`WaitersServed`) |
| `lock_request` | 3 transactions, 2 keys and the range over both, 2 requests each, refusals, timeouts, kills | `NoMissedGrant`, `NoLeakedLock`, `PendingExact`, `NoFalseDeadlock` |
| `locktree` | `LockTree` 2 transactions, 3 keys, 3 locks each, score and buffer limits 1, batches of 2; `LockTreeManager` 3 clients, 1 dictionary, 2 objects, a limit of 2 records | the tree implements `RowLocks` (`RLSpec`), `LocksExact`, `NothingLeaked`, `CallbackSeesOneLock`; loops agree with closed forms and memory is exact (`ClosedFormsExact`); `ManagerSound`; escalation and release end (`LocktreeServes`) |
| `blocktable` | 2 nodes, 8 places, 2 changes, 2 checkpoints, 1 crash | `Recoverable`, `SpaceExact`; free list, headers, what the end of a checkpoint frees and what a read returns (`TableSound`) |
| `logger` | 2 clients and the checkpointer, 4 entries, buffers of 1 entry, files of 2, 1 crash, one thread that flushes | `InOrder`, `CommitDurable`, `RecoveryHasItsLog`, `EveryCallReturns` |
| `mvcc` | 3 transactions, depth 2, 3 workloads with children, deletes, updates and broadcasts | every reader gets the version it is entitled to (`ReadsExact`); the manager keeps just the snapshots and references that are live, and a writer below any id that a node, a flush or a garbage collection knows as the oldest has ended for every snapshot (`CollectionSafe`) |
| `cachetable` | a root and 2 leaves, 2 clients, 1 checkpoint, 1 eviction, 5 workloads | a checkpoint is the state at its begin (`CheckpointIsConsistent`); no node is lost or freed under a user (`NodesKept`); no deadlock |
| `containers` | trees of 2 and 3 levels over 5 keys; `Omt` of 5 keys; `MhsRbTree` with 4 blocks; `ConcurrentTree` with 3 threads | `TreeImplements`, `TreeSound`, `ContainersExact` |
| `recovery` | 5 programs of two transactions, 2 crashes, 1 checkpoint; `Index` with 6 workloads | `RecoveryExact`, `IndexExact`, `AssertsHold` |
| `background` | `WorkThreads` 3 kibbutz workers, 2 clients of the pool; `Minicron`; `Evictor` 4 workloads | `BackgroundSafe`, `BackgroundServes` |
| `node` | `BnData` 3 operations; `PivotKeys`; `MsgBuffer` 4 messages; `NodeSerialize` 2 changes, 1 checkpoint; `RollbackLog` 4 transactions | `NodeHolds`, `NodeStored` |
| `tree_rightmost` | a leaf of several basements and an insertion by the rightmost shortcut | violates `Implements` (below) |

Why the bounds suffice: four threads are a holder, a signalled waiter, a queued writer
and a newcomer, all the roles of a lock; three transactions are a releasing one, a waiter
and a third one that takes the lock in between; three keys and batches of two make a run
of locks cross a batch; three clients of the manager are one that releases the last
reference, one that opens again and one that escalates; two checkpoints and a crash are
enough for both header slots and for a block in all three translations, and the 8 places
are never exhausted; four entries fill two buffers and two files, so that a checkpoint has
a file to trim; a root and two leaves are what a split and a merge change at once; two
crashes are one while recovery runs; five keys take the containers through their
conversions and rebalancings.

Most runs say `CHECK_DEADLOCK FALSE`, because clients may stop or the bounds end a
behaviour; `cachetable` (with a last step after the close) and `logger` check it.
`blocktable`, `lock_request` and the runs of several systems have properties instead that
say who may not be stuck.

### Disagreements of the code with what it says

`tree_rightmost` ends in a violation: `ft_leaf_get_relative_key_pos` takes the last
basement for a key greater than all rows of the leaf, although an empty last basement may
begin after that key (`ft/ft-ops.cc:2098`; its comment promises the child that would
contain the key). The row is then not found. The trees of `containers` do not lose the
last basement of their rightmost leaf before such an insertion.

Others came up while modelling. The modules have the definitions with which they can be
seen, by adding them to the configuration of the run:

* `lock_request.cc:200`: `start` uses a conflict set that it read before it took the mutex;
  two transactions can wait for each other with neither told, until a timeout
  (`lock_request.h:100` promises `DB_LOCK_DEADLOCK`). `NoUndetectedDeadlock`.
* `lock_request.cc:333`: a retry refused for lack of memory reads the first element of an
  empty conflict set, which `txnid_set::get` asserts against. `ConflictNamed`.
* `src/ydb_row_lock.cc:167`: with a hot indexer that locks rows for a transaction
  (`HotIndexer = TRUE`), the escalation callback can meet two locks where the comment says
  there is one. `CallbackSeesOneLock`.
* `ft/serialize/block_table.cc:385`: the link of a free block number is compared with disk
  offsets; in a file of more than 8192 blocks the end of a checkpoint can fail the
  assertion. `EndFreesNothingInUse` with `Offsets` that include block numbers; the run
  keeps them apart, as they are in smaller files.
* `ft/logger/logger.cc:550`: `toku_logger_fsync` reads `max_lsn_in_buf` of a buffer that has
  just been swapped and returns while another thread is still writing entries logged
  before (`src/ydb.cc:1301`, "We just flush everything."). `FlushDurable`.
* `ft/logger/recover.cc:999`: the replay of a rename finds names that a later operation,
  already in the checkpoint, has changed. `ContentsRecovered` with a program that renames.

### Fairness

`FRWLock`, `RWLock`: weak fairness of a signalled thread's wakeup and of the unlock of
each holder: a thread whose condition was signalled gets the mutex back, and code
holds these locks for bounded work. `RWLock` needs strong fairness nowhere, because its
only liveness claim is the drain, during which no newcomer arrives. `LockRequest`:
weak fairness of a thread's own steps inside `start`, `wait` and the retry; nothing is
assumed of timeouts, kills or of a client's decision to release. `LockTree`: weak
fairness of the steps of release and escalation. `Logger`: weak fairness of the steps
of a thread that is inside the logger; waiting for the output is a loop, and that a
waiter is not overtaken for ever follows from the bound on entries (each overtaking
needs an entry), so `EveryCallReturns` shows the absence of lost wakeups and of
deadlock and not freedom from starvation under endless load. `Loader`, `Dbufio`,
`WorkThreads`, `Minicron`: weak fairness of the threads, an owner that has begun to shut
down included; for the loader, whose steps the model orders, that it goes on. `Evictor`:
strong fairness for clients and writers that wait for the evictor's mutex, which the
eviction thread takes again and again but only once in a period; strong fairness of the
decrement of a small pair's count, which the code makes with a probability above 0; time
passes. No fairness is assumed of new calls, faults or crashes.

## 4. Proofs

All theorems hold for every value of the constants that satisfies the named assumption of
the module (`FRWLockAssumption`, `RWLockAssumption`, `LockRequestAssumption`,
`LockTreeAssumption`, `ManagerAssumption`, `LoggerAssumption`, `BlockTableAssumption`,
`HeaderAssumption`, `MvccAssumption`, `CacheTableAssumption`), so for any number of threads,
transactions, keys, files, blocks, nodes and crashes. The assumptions say that the sets are
finite where the code counts, that bounds are numbers and that null values are no members.
Each inductive invariant was first checked by TLC under the bounds of its run.

### ReadWriteLockProofs

The fair lock (`FRWLock`), if waits return only when signalled: `MutualExclusionHolds`, `WakeupStillValidHolds`,
`QueueServed` (an entry at the head implies a holder or a signalled waiter),
`NoOvertakingHolds`, `ReadCostHonestHolds` and `ImplementsReadWriteLock`. Exclusion is not
inductive: a woken thread takes the lock on trust, so the invariant (`Inductive`) says
that each counter equals the number of threads it counts, that the queue has each
waiting writer once and the readers' item exactly when unsignalled readers wait, that
while a writer is signalled nobody has the lock, while readers have it or are signalled
the head of the queue is a writer, and that somebody has the lock or is signalled
whenever the queue is not empty. One lemma per action; counting goes through a few
lemmas about cardinalities. `ReadCostHonest` adds how the flags of the head of the queue
follow from who is expensive.

The reader-writer lock (`RWLock`): `RwInvariantHolds` (`RwInv`: exact counters, exclusion, an exact drain, no lost wakeup),
`NoLostWakeupHolds`, the action property `PendingWritersFirstHolds` and
`RwImplementsReadWriteLock`. Here exclusion is easy, since waiters look again; what needs
the invariant is that the one signal of an unlock is enough although a newcomer may take
the lock before the woken thread: somebody who may run is then awake, or the lock is held
by somebody whose unlock will signal again.

### LockRequestProofs

With refusals: `NoMissedGrantHolds` (whoever sleeps without a conflict will be visited by a
retry that is under way), `PendingExactHolds`, `NoLeakedLockHolds`, and the action property
`NoFalseDeadlockHolds`. The invariant `IInv` (`InvariantHolds`) adds: the state of a
request agrees with the place of its thread (`StatusExact`), each owned key is in the
request or in the notes of its owner (`LocksAccounted`), whenever a group retry is wanted
some thread belongs to the next generation (`Generations`), the loop visits pending
requests only (`LoopExact`), and a stale conflict set names only conflicts that are real
or whose transaction is releasing (`FoundHonest`), which is why a deadlock that is
reported is real although one that is real may not be reported.

### LockTreeProofs

For the tree: `LocksExactHolds`, `NothingLeakedHolds`, `MemoryExactHolds`,
`CallbackSeesOneLockHolds` (without a hot indexer) and `LockTreeImplementsRowLocks`. The
invariant `LockTreeInv` (`LockTreeInvariantHolds`) says that the locks of the tree are
disjoint (`Apart`), that every range a transaction noted or is about to note is covered by
locks or buffered ranges of its own (`AllCovered`) and that every lock is traced to such a range
(`AllTraced`), that the buffer of the optimization belongs to the one transaction while
the tree is empty (`StoExact`), and how far each escalation and release has come
(`PhasesExact`, `CalledHaveLocks`). It is needed because a lock and its note are two steps
with an escalation possibly between them. The main lemmas are about `Overlapping`,
`Merged` and `Escalated`: merging ranges of one owner neither loses a key nor takes one
from somebody else.

For the manager: `ManagerSoundHolds`, from `ManagerInv` (`ManagerInvariantHolds`): a
locktree's references are the handles, transactions and escalations that have it; it is in
the map exactly while it lives, except between the last two steps of a release; whoever
destroys it is the only one; memory beyond the limit is reserved by clients that passed
the check; at most one escalation runs, and nobody waits for one that does not.

### LoggerProofs

`InOrderHolds`, `CommitDurableHolds`, `RecoveryHasItsLogHolds`, from `LoggerInv`
(`LoggerInvariantHolds`):

* `Segments`: files, outbuf and inbuf are, one after the other, consecutive LSNs; outbuf
  holds entries only while the one owner of the output is about to write them;
* `FilesExact`: the files are in order, in each the synced entries are a prefix, and all
  files but the last are synced, with a `maxlsn` not below their entries;
* `OneWriter`: at most one thread is between taking and returning the output, which is then
  not available; the input lock belongs to whoever makes space; outbuf is not empty only
  before that thread's write;
* `Promises`: `fsynced_lsn`, and every thread's copy of what it found synced, are not ahead
  of what is durable, and an acknowledged LSN is not ahead of either;
* `Checkpoints`: ends name begins before them, in order; only the checkpointer logs them
  and trims; what counts as the completed checkpoint has a synced end, and a file goes only
  when the end of a checkpoint begun after it is synced.

`CommitDurable` alone is not inductive: a commit may return because another thread's fsync
covers it, and `Rotate` sets `fsynced_lsn` without the lock; only the uniqueness of the
writer and the order of the segments make those values true. After a crash the surviving
log is what lies between the trimmed part and some point not before anything acknowledged.

### BlockTableProofs

`RecoverableHolds`, `ReadsBackHolds`, `HeadersAlternateHolds` and `FreeListExactHolds` without a
condition; `SpaceExactHolds`, `EndFreesNothingInUseHolds` and, with the four parts put together,
`TableSoundHolds` under `SmallFile`: no block number is also an offset. Offsets begin after the 8192 bytes of the two headers, so this is a file of up
to 8192 blocks. In a larger one a free block's link can look like an offset to
`block_table.cc:385`, and the two statements are false; what stays is that everything in
use is allocated, which is all that recovery needs. All rest on `BlockTableInv`
(`BlockTableInvariantHolds`):

* `TablesSound`: within each translation a place is used once, and any two of them use a
  place for the same block; the place of a translation is nobody else's; the free lists
  have no fork and do not lead back to their heads;
* `SpaceSound`: what a translation uses is allocated (and, in a small file, no more);
* `DirtyBits`: a clean header means that nothing has moved since, and a place common to
  the current translation and the last checkpoint is in the checkpoint in progress too;
* `NodesSound`, `JobsSound`: a clean node is in its place unless it is being written, and a
  write goes to a place that no checkpoint has, other than the one it writes for;
* `SnapSound`: the content that the checkpoint in progress stands for is on disk, under way
  or pending, and a pending node has the same place as at the begin;
* `HeadersSound`: the header of the last checkpoint is alone in its slot and all its blocks
  are on disk; the other slot holds nothing, an older header, one that a rollback file must
  not use (`TooNew`), or the new one.

`FreeListExactHolds` needs more than that the free lists have no fork: a ring of free block
numbers beside the list would pass. `FreeLists`, a second invariant on top of
`BlockTableInv`, says that every free list has an order, a function from 1 .. n onto the free
numbers, each once, that the links go down (`Order`, `IsList`), in the three translations and in those that
a header in the file keeps, as a crash goes back to them. `ListPush` and `ListPop` are the steps
of allocation and release; `ListPushed` is the list that `Optimize` and `FreeUnused` build, by the
least counterexample among the numbers pushed so far; `ListFollow` shows in the same way that the walk
`Follow` is the order read backwards.

`Recoverable` alone is not inductive: it speaks of the headers that can be read now, while a
write at any time may overwrite a place of either. The lemmas that carry the proof are
`KeptPlaces` (a place that another translation uses is not given back when a block moves),
`ObsoleteIsUnused` (what the end of a checkpoint gives back is used by nobody) and
`HeadersRead` (of the pairs of headers that a crash may leave, recovery takes the good
one).

### MvccProofs

`CollectionIsSafe` states what garbage collection and implicit promotion in the leaves go by.
It has two parts. `SnapshotSystem` is what `verify_snapshot_system` asserts: every finished
writer that a snapshot has in its live list has a tuple in `referenced_xids`, whose count
is the number of those snapshots, and `toku_get_youngest_live_list_txnid_for` finds the
youngest of them. `PromotionSafe` is about the ids that nodes remember
(`oldest_referenced_xid_known`), flushes carry and garbage collections cloned: a writer
below any of them has ended, and no snapshot saw it live. The first follows from
`SnapshotInv` (`SnapshotInvariantHolds`):

* `IdsSound`: ids are given out once, the live list names the open roots that may write,
  and the list of snapshots is in the order of their ids;
* `SnapshotsSound`: an open transaction, at each depth that records a snapshot, has one, and
  there is no other;
* `ListsSound`: a snapshot's live list has the open writers of smaller ids, and no reader;
* `ReferencesSound`: a tuple belongs to a finished writer, and the snapshots that have the
  writer in their lists are those taken between its begin and its end.

`SnapshotSystem` alone is not inductive: that the end of a snapshot takes one reference
from just the right tuples needs `ReferencesSound`, and the count at the end of a root
needs the order. `toku_txn_manager_finish_txn` walks from the tail of the list to the first
snapshot that is not younger; `ReferencesCounted` proves that this counts all that are,
whatever snapshots of children were taken in between, because `RemoveSnapshot` and
`AppendSnapshot` keep the list in order.

`PromotionSafe` follows with `PromotionInv` (`PromotionInvariantHolds`): nothing that lives,
has a snapshot or has a tuple is older than the oldest referenced id, and nobody knows a
younger one. It rests on `OldestNeverGoesBack`, which is also why a writer may read the id
before it has locked the node it writes to.

### CacheTableProofs and CacheTreeProofs

`CheckpointsAreConsistent` (`CheckpointIsConsistent`) and `NodesAreKept` (`NodesKept`), for any
root, leaves, clients and workloads, any choice of the nodes that can be cloned, and any
number of checkpoints and evictions. Neither property is inductive: the first speaks of the
instant in which the headers are written, and most of what it depends on happened long
before. Both follow from `CacheTableInvariant` (`PairsInvariant`), which TLC checked in all
states of the run `cachetable` before it was proved. It has three parts, stated at the end
of `CacheTable`:

* `ControlOK` says who may do what. A thread's place in its operation decides which locks it
  has (`LocksOK`: the writer and the readers of a pair are those who believe they are), what
  it may have changed and what it still has to write. A pair that is locked, awaited or
  referred to is in the table or on its way out with the thread that removes it
  (`PairThere`); it has a value unless somebody reads it from disk (`PairValue`), and a
  clone while somebody writes it (`PairClone`). What is owed to a checkpoint (pending bits,
  the pairs a pin has still to write, an eviction that writes for the checkpoint) is in the
  pending list or with the checkpoint thread, and so keeps the checkpoint from its end
  (`PendOK`).
* `TreeOK` is about the contents of the nodes now, in memory or else on disk: the tree is
  whole, each message is in one node or with one thread that moves it, a node that nobody
  has changed equals its clone or its block, and what is in memory is linked in the tree
  but for a leaf that is being split off or has been merged away.
* `ImageOK` is the same about the image of the checkpoint under way: for each node what the
  checkpoint has of it or will have. A pending node counts with its current value, since a
  thread that changes it while it is pending changes it for the checkpoint too; a message in
  flight counts if the leaf it goes to is pending. It says that this image has exactly the
  messages that were in the tree when the checkpoint began, once each.

What makes `ImageOK` inductive is `BitsOK`: nodes that are changed together (a parent with
the leaf it flushes to, splits or merges) have the same pending bit at that moment, since
the pin of the last of them resolved all their bits in one hold of the pending lock
(`BitsOf`); and inside the multi-operation lock, where changes are logged, none of them is
pending, as `begin_checkpoint` takes that lock too. A change of several nodes is then
either all in the image or not at all. The step that has to be looked at most is
`get_checkpoint_pending`: the bits fall, and the image stays only because each dirty pair
among them is now written for the checkpoint by the thread that pinned it, while each clean
one is what its block has. `begin_checkpoint` makes the image the tree of that moment; from
then on the lemmas named after the steps (`...Image`) show that it stays, or, for a flush, a
split and a merge of pending nodes, that it changes by a move of messages among its
own nodes. When the checkpoint is done nothing is pending and there is no clone, so the image is
what it has on disk (`DoneImage`).

`CacheTableProofs` has the lemmas about locks, pins and threads and one lemma per step for
`ControlOK` (`...Keeps`); `CacheTreeProofs` has those for `TreeOK` (`...Tree`), which are about
any tree and any messages in flight, and reuses them for the image.

### Only model-checked

* Every liveness property (`WaitersServed`, `LocktreeServes`, `EveryCallReturns`,
  `BackgroundServes`): fairness is out of the reach of the prover.
* The loops of `MCLockTree` against their closed forms, and the containers, the tree, leaf
  entries, recovery and the indexer: what a recursive definition computes needs induction
  over data.
* `ReadsExact` of `Mvcc`: the right answer depends on what the folds over messages and the
  selection of records to keep compute for a stack of any height. Proved is that they are
  given the right ids (`CollectionSafe`).
* `LoadSound` of `Loader` and the parts of `BackgroundSafe` (`Evictor`, `WorkThreads`):
  provable in kind, not proved.

## 5. Plan

Done: all parts of section 1.1 have a module; the locks, the row locks with their requests
and manager, the log, the block table, the snapshots of transactions and the pairs of the
cachetable with the checkpoint are proved. Next, in order of importance:

1. The safety parts of `BackgroundSafe`: order of a kibbutz, join of a workset, sizes of the
   evictor.
2. `LoadSound`: a load ends with its rows or with its first error.
3. The reuse of keys and several cachefiles in one checkpoint, in `CacheTable`.
