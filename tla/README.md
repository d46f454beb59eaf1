# A TLA+ model of SkipVectorDM and of dLSM's write path

The repository holds several ordered indexes for disaggregated memory. Its own work is
`src/SkipVectorDM`, a fork of DMTree to which a replication layer is being added. Compute
servers run the index code and reach memory servers only by one-sided RDMA verbs (READ,
WRITE, CAS), so every data structure is read and changed remotely, one verb at a time,
while other clients do the same. That is what most of this project models: the index, its locks,
the replica group, and the cluster it runs on. Of the systems the evaluation compares with, one
has concurrency of another kind: `src/dLSM`, a log-structured merge tree whose writers, flush
threads and compactions share memtables almost without locks. Its write path is modelled, too.

File names below are relative to `src/SkipVectorDM` unless they begin with `src/`.

## 1. The system and its parts

| part | files | state it keeps | concurrency and failure | module |
|---|---|---|---|---|
| Leaf tables | `src/SkipVectorDM.cc`, `include/LeafNode.h` | leaf (header, entries) in memory servers; fingerprint table with version and lock in compute servers; local copies of fingerprint tables | every client, one verb at a time; torn entries | `LeafIndex` |
| Inner tree | `src/DMInner.cc`, `include/InnerTree.h` | B-link nodes with CRC and lock, root pointer, global lock | lock-free lookups against locked splits; `update_root` may abort | `InnerTree` |
| Local lock table | `include/LocalLockTable.h` | per node: two ticket queues, two windows, combined value, delegated result | threads of one compute server, on atomics and plain fields | `LocalLock` |
| Replica group | `src/skipvector/ReplicaGroup.cc` and its header | the replicas' words, a completion queue per client | replicas fail, verbs are dropped by fault injection | `ReplicaGroup` |
| Index cache | `src/DMCache.cc`, `include/DMCache.h` | skip list of cached bottom nodes, free pool, eviction queue | threads of one compute server | what it can return is in `InnerTree` and `LeafIndex`; its inside is left out |
| Range scan | `leaf_scan`, `read_table` in `src/SkipVectorDM.cc` | none of its own | walks leaves that are being split | - |
| Slab allocator, handles, contents | `include/skipvector/*.h` | bitmap per pool; 64-bit handle with two versions | a mutex per server; used by unit tests only | the reserved region is in `Allocation`, the handle in `ReplicaGroup` |
| Chunk allocation, directory | `include/DMVerbs.h`, `include/Directory.h`, `src/Directory.cc` | chunks each directory has handed out, two chunks in use per compute server | threads behind one mutex, which is held across a message to another server's directory | `Allocation` |
| Keeper, start-up | `include/Keeper.h`, `include/RdmaKeeper.h`, `src/RdmaKeeper.cc`, `src/DMVerbs.cc`, `test/server.cc` | counters and connection data in memcached | every server, one memcached operation at a time | `Keeper` |
| dLSM write path | `src/dLSM/db/db_impl.cc`, `memtable_list.cc`, `memtable.h`, `version_set.cc` | memtables, the list of immutable ones, level 0 and level 1, works of two thread pools | writers without a lock, flush and compaction threads, a mutex and a condition variable | `MemTables` |
| Verbs, connections | `src/DMVerbs.cc`, `src/rdma/*.cpp`, `src/DMConnect.cc` | queue pairs | tagged verbs and `pollOnce` are in `ReplicaGroup`; a synchronous verb is an atomic step elsewhere; connection set-up is I/O and left out | `ReplicaGroup` |
| Benchmarks, tests | `test/` | - | read for how the code is called | - |

`write` takes the local write lock of its key (`LocalLock`), finds the leaf through the
cache or the tree (`InnerTree`), changes the leaf under its table's lock and may split it
(`LeafIndex`), which calls back into the tree (`inner_insert`). `read` does the same with
the local read lock and `leaf_search`. The replica group is not called by the index yet;
its tests call it. Before any of this the servers meet through the keeper and start their
directories; the index gets its nodes, leaves and tables from `memory_alloc` and `compute_alloc`.
`Cluster` composes `Keeper` and `Allocation`, because the barriers are all that keeps a thread from
asking a directory that does not run.

`src/DMTree` is the code SkipVectorDM was forked from. `src/CHIME`, `src/FPTree`,
`src/ROLEX`, `src/SMART`, `src/Sherman` and the rest of `src/dLSM` are systems the evaluation
compares with; `src/AE` and `src/setup` are scripts. None of these is modelled.

`PROJECT.json` lists the components, the main hazards at the lines where they bite, and for
every definition the source lines it stands for.

## 2. Modules

**`LeafIndex`** (`read`, `write`, `leaf_search`, `leaf_insert`, `leaf_resize`). One action is
one verb with the local code after it, named after the function it is in: `LockTable`,
`ReadTable`, `ProbeEntry`, `WriteEntry`, `WriteTable` and so on. `fpt`, `hdr` and `ent` are the
remote memory, `lfp` the local fingerprint buffers, `index` what a lookup in the tree returns
and `published` the records it ever returned, any of which a cache may still hold. The
clients' locals are functions of the client. A fingerprint table has a CRC, so a torn one is
read again and reading is atomic; entries have none (`ENABLE_ENTRY_CRC` is off), so
`leaf_resize` writes slot by slot and `Straddle` says which fields of a slot lie in a second
cache line. `dict` and `seen` are history variables: the map as of the last write that took
effect, and the values a running read may return.

**`KVStore`** is what the leaf level promises: a map with writes that take effect once, between
call and return, and reads that return a value their key had in between.

**`InnerTree`** (`find_leaf`, `inner_search`, `bottom_search`, `read_bottom_inner`,
`inner_insert`, `inner_write`, `node_split`, `update_root`). `node` is the tree memory, `root`
the root pointer, `glock` the global lock. `leaf` holds the leaves' headers: a range of keys and a
version. A client resizes a leaf only if the record it followed has the leaf's version (`Fresh`), which
is what `leaf_insert` checks. `Resize` splits at any key of the leaf, also at its first: when the cache
is full, `adapt_capacity` makes the sibling the larger one and it gets every key, so that its record
takes the old leaf's place in the tree. `copies` are the contents a bottom node has had, any of which a
cache may hold. The state before the first call is what `init_root_node` leaves.

**`OrderedIndex`** is what the tree promises: a map from first keys to leaves and their versions with
atomic insertions, and lookups that return a record that covered the key at some time while they ran.

**`LocalLock`** is one `LocalLockNode` and the threads whose keys hash to it. The two
queues have the same fields and are indexed by a side. Every access to a field another thread may
touch is a step, including the unlocked test and decrement of a window in the conflict path, the two
reads of `if(!read_window && !write_window)`, and the load and the store of the other side's window
(`LockOther`, `LoadOther`, `SetOtherWindow`), between which that path may come.
A deleted key that is dereferenced may compare as anything (`FreedIs`). The index behind it is a
register per key.

**`ReplicaGroup`** follows one offset through `read_all`, `write_all` and `cas_all`, with the
loop of `wait_quorum_` over tagged verbs. The network card's execution of a verb, the failure of
a replica and an error completion are external actions. A word is its version
and the client that made the contents it stands for: two clients that raise the version of one handle
write the same word. What a `cas_all` expects is a word its client has read, which no replica may
hold any more.

**`Servers`** numbers the servers of a cluster; **`Keeper`** is what each of them does in its
constructor and `main`, one memcached operation per action: `Enter` (`serverEnter`), `Look`
(`serverConnect`), `Publish` and `Fetch` (the two halves of `connectNode`), `Directories`, `Set`, `Add`
and `Pass` (`barrier("DMVerbs-init")`), `SetBarrier` of a memory server, `Arrive` and `Leave` of a
compute server. A server is named by the number `serverEnter` gives it. A get or an increment of a
key that has not been set fails and is tried again, so it is a guard.

**`Allocation`** is `memory_alloc` and `compute_alloc`. `local_memory` and `local_compute` are `cur` of
a server's two `LocalAllocator`s, `bitmap_tail` the directory's, `alloc_lock` the threads that hold the
mutex of their server. An allocation is cut where another server or another thread can come in
between: the message to the directory, its answer, and, in `compute_alloc`, the code after the mutex has
been released (`Place`), where the block is put on the node that is then in turn or given up for one
in a memory server. `alloc_memory_nodes` is never initialized: any memory server may be first.
`blocks` is a history variable.

**`Cluster`** lets the main thread allocate between the two barriers and all threads after the
second, and a directory answer once its server has started it.

**`MemTables`** is dLSM's `Write`: a sequence number (`Assign`), the loop of `PickupTableToWrite` with the
tests it makes without the mutex (`Load`; `Check`, which reads the number of files; `Room`, which reads that
of the memtables and compares both) and with it (`Stall`, `Switch`, `Find`), the insertion
into the skip list and the two halves of `increase_seq_count`. A flush is `StartFlush` to `EndFlush`
(`BackgroundFlush`, `CompactMemTable`, `TryInstallMemtableFlushResults`), with the notification after the
mutex is released. A compaction tests whether there is work (`StartCompaction`), takes all of level 0 under
the mutex unless some of it is being compacted (`PickCompaction`), and moves or merges it
(`EndCompaction`), or fails and leaves its inputs marked, as `NearDataCompaction` does when its request
cannot be sent (`FailCompaction`). A memtable is its
number in the order of creation, an entry its sequence number. `flushes` and `compactions` count the works
that `MaybeScheduleFlushOrCompaction` has put into the pools, so that a work that is not
scheduled is missed.

`MC*.tla` and the `.cfg` files are the instances.

## 3. What the runs show

| run | checks | result |
|---|---|---|
| `leaf_structure` | locking (`LockExclusion`), asserted versions and sizes (`AssertsHold`), versions against the index (`VersionLag`), the leaf chain (`ChainContiguous`), stable slots (`SlotStable`), what a read returns (`ReadsSeen`) | holds |
| `leaf_values` | `Linearizable`: `LeafIndex` implements `KVStore` | holds |
| `leaf_progress` | reads end, table locks are released, the index catches up | holds |
| `leaf_torn` | `ReadsSeen` when entries straddle cache lines | violated |
| `inner_tree` | asserted bounds of a search (`AssertsHold`), every node leads to the right child (`SearchSound`), lookups are never right of their key (`NeverRight`), a stale record is told by its version (`VersionTells`); `Implements`: `InnerTree` implements `OrderedIndex`; every lookup and insertion ends (`OperationsEnd`) | holds |
| `inner_root` | the assertion of `update_root` on the root pointer | violated |
| `lock_queues` | one thread at a time is called (`Exclusive`), its key stays in the node (`KeyHeld`), delegated results are of the reader's key (`DelegatedKey`); every operation completes (`Completes`) | holds |
| `lock_late` | "insert after the remote insert is not handover" | violated |
| `replica_group` | completions belong to the call (`CountsOwn`), one winner (`OneWinner`), a quorum read meets the newest acknowledged write (`ReadSeesWrite`) | holds |
| `replica_hang` | a call returns although a replica fails (`WaitEnds`) | violated |
| `cluster` | servers that connect do not wait for each other in a circle (`NoWaitCycle`), nobody passes a barrier early (`BarriersHold`), nobody asks a directory that does not run or is not connected (`DirectoryRuns`), no two blocks overlap (`Disjoint`), every block is where it may be (`Placed`; on a compute server, where it may begin); all servers start (`AllStart`), every allocation returns (`AllocEnds`) | holds |
| `lsm_writes` | a writer inserts into the memtable of its number and never too late (`WriterHasTable`), a file holds all of its memtable (`FilesComplete`), no newest entry is lost (`NothingLost`) or found behind an older one of another tier (`TiersOrdered`), counters and triggers (`Backlog`), a stalled writer has someone to wake it (`WaiterHasWaker`) | holds |

The runs of the tree and the memtables also check the type invariant `TypeOK`; that of
`LeafIndex`, `LocalLock`, `ReplicaGroup` and `Cluster` is proved for every instance (section 6).

The four violations are disagreements between the code and its own comments and assertions:

- `leaf_torn`: `check_consistent` of an entry is compiled to `true`, and an entry in two cache
  lines can be read with the key of one version and the value of another.
- `inner_root`: an insertion keeps the path it found; after another client's root split its
  topmost node is no root, and splitting it fails `assert(path[0].addr == root_addr)`.
- `lock_late`: `release_local_write_lock` loads the ticket counter after the remote insert, so a
  writer that joined in between is handed over although its value was not written.
- `replica_hang`: `wait_quorum_` counts successes against the number posted; an error completion
  is consumed and not counted.

`LocalLock` also reaches states in which a combined write stores the value of another key of the
same node, because a node's key and its combined value are not changed together. No comment says
what the buffer holds when two keys share a node, so it is listed as a hazard, without a run.

Three results hold under conditions that the code does not enforce:

- `AllStart` is checked for one memory server, as `test/ycsbc.cc` has it. Every memory server sets the
  counter of `barrier("init")` to 0 (`test/server.cc`), so with several of them a late one wipes out
  arrivals, and the compute servers wait for ever for an exact count. That nobody passes early is
  proved for any number.
- `WriterHasTable` needs at most `MEMTABLE_SEQ_SIZE` writers: a writer that creates a memtable
  does not compare its number with the new range.
  A memtable that is freed while a writer has it is not covered.
- `WaiterHasWaker` needs a stop trigger of at least 3 files (4 in the code): a trivial move wakes nobody.
  And it allows for a failed compaction, after which level 0 is not compacted again: a writer
  that is stopped for level 0 then waits for ever.

`TiersOrdered` is about different tiers. Within level 0 a search goes by file number, and numbers are
given when a flush starts to write, so with several flush threads an older memtable can have the higher
number; this is listed as a hazard, since the read path is not modelled.

## 4. Bounds

- Leaves: two clients on two compute servers, two or three keys of which two share a
  fingerprint, capacity 1 growing to 2, three leaves, with the tables' homes on both servers and on
  a memory server. Capacity 1 makes every second write a split; three leaves allow a split of a
  split. A further resize would need a leaf that does not exist and is not taken.
- Tree: two clients, nodes of two records, keys 0 to 4 and five leaves, which reach
  three levels and a second split of a former root. `MaxNodes` is above what five leaves can use, so it
  never binds. `Wanted` limits the keys looked up, not those split at: one key in `inner_tree`, two in
  `inner_root`.
- Lock node: three threads with one operation each, one that reads or writes, one that
  writes and one that reads; two keys, tickets modulo 4 that begin at 3 (so that they wrap), and
  `MAX_HOCL_HANDOVER` 1 (so that it is exceeded). A flag `handover` that the conflict path leaves set
  for a later call needs a thread that comes back, so for `Completes` it is beyond this bound; the
  three invariants are proved for any number of threads and operations.
- Replicas: three with a quorum of two, two clients, two and one calls, at most one failure, at an
  offset that holds a handle and at one that holds contents.
- Cluster: one memory and two compute servers, two threads on one and one on the other, four
  allocations of one or two units in chunks of two, one reserved chunk, and a leaf cache that ends in
  the third chunk, so that blocks fill a chunk exactly, overflow it, and pass the cache's limit.
- Memtables: memtables of two entries, at most five, and five workloads: two threads that write seven
  entries with one flush thread, enough to stop writes for immutable memtables, or five entries with
  two flush threads and two compactors; one thread that writes seven with two flush threads, nine with
  two compactors, or eleven, which stops writes for level 0, on both tests of the file number. The
  triggers keep the order the code's have (2, 1 and 3 for 2, 2 and 4). At most two idle
  compaction works wait.

Deadlock is checked except where the system may stop: the bounds on operations end `LocalLock`,
`ReplicaGroup`, `Cluster` and `MemTables`, and in `InnerTree` the abort of `update_root`
leaves the global lock taken; `OperationsEnd` allows for it.

## 5. Fairness

A client or thread is a loop that is never blocked by the program itself except in a spin loop, so
it is weakly fair: `WF` of the steps of one running operation. Starting an operation is never fair.
Strong fairness is assumed in one place, a thread of `Cluster` that waits for `alloc_lock`: it is a
`std::mutex`, and a thread that finds it free again and again gets it. A server's start-up and a
directory thread are weakly fair. `MemTables` has no fairness: `WaiterHasWaker` is the safety half of
"a stalled writer goes on". A spinning client could therefore starve behind an endless stream of
others; `LockReleased` says only that a lock is released, and `ReadTerminates` and
`OperationsEnd` hold because the number of splits in an instance is finite. The network card
completes what is posted (`WF` of `Network`); lost answers appear as error completions.

## 6. What is proved

For every value of the constants that satisfies the module's assumption:

| theorem | statement | argument |
|---|---|---|
| `LeafIndex_proofs!TypeCorrect` | `Spec => []TypeOK` | inductive with `TypeInv`, which adds that the slot read line by line is a slot, and that the split point of a resize lies within its sorted entries |
| `LeafIndex_proofs!MutualExclusion` | `Spec => []LockExclusion` | inductive with `Fresh`: the sibling a resize is writing is in no record that was ever published, and every client's path was, so writing its table cannot release a lock; steps that touch no lock and no holder's label are dealt with once (`LockQuiet`) |
| `ReplicaGroup_proofs!TypeCorrect` | `Spec => []TypeOK` | inductive as it stands |
| `ReplicaGroup_proofs!NothingLeftOver` | `Spec => []CountsOwn` | `Own`: completions plus outstanding verbs never exceed what was posted, so a wait that ends has nothing left |
| `ReplicaGroup_proofs!CasAllExclusive` | `Spec => []OneWinner` | `Swapped`: versions at a replica only grow, so a replica gives a word away once; `Won`: a winner has swapped at a quorum; two quorums meet |
| `ReplicaGroup_proofs!QuorumRead` | `Spec => []ReadSeesWrite` | `Acked`: every quorum has a replica at the acknowledged version or above; `Reads`: what a read has collected or will collect reaches its floor |
| `LocalLock_proofs!TypeCorrect` | `Spec => []TypeOK` | part of the induction below |
| `LocalLock_proofs!OneCalled` | `Spec => []Exclusive` | `QueueOK`: the tickets outstanding are the consecutive ones from `current`, one for each thread in the queue, so with fewer threads than tickets no two threads have the same, wrapped or not |
| `LocalLock_proofs!KeyStays` | `Spec => []KeyHeld` | only the thread that is called deletes the key, when it ends the epoch, and a key is installed only where there is none |
| `LocalLock_proofs!DelegatedReadOwnKey` | `Spec => []DelegatedKey` | `HandoverKey`: while reads hand over, the result in the node is one for the key in it; `ResultOK` carries this through a release |
| `Cluster_proofs!BlocksDisjoint`, `BlocksPlaced` | `Spec => []Disjoint`, `Spec => []Placed` | `IInv`, see below |
| `Cluster_proofs!NobodyWaitsInACircle` | `Spec => []NoWaitCycle` | `ConnectOK`: a server has published for every server up to the one it waits for; so if s waits for r, and r waits for q, then q < s; in a circle the one with the smallest number would have a smaller one |
| `Cluster_proofs!NobodyPassesEarly` | `Spec => []BarriersHold` | `CountsOK`: a counter never exceeds the number of servers that have arrived; to be reset makes it only smaller |
| `Cluster_proofs!AskedDirectoriesRun` | `Spec => []DirectoryRuns` | `EndsRun`: the servers at both ends of a request have left `serverConnect`, since a thread that allocates runs on a server that is through the first barrier |
| `Cluster_proofs!TypeCorrect` | `Spec => []TypeOK` | `CountsOK` bounds the counters, `IInv` has the types of the allocators |

`Disjoint` is not inductive, because blocks are cut from state it does not mention. `IInv` says
who owns a chunk at each stage: a chunk that was handed out (below `bitmap_tail`) is in one answer
on its way (`RepliesOK`), or at the head of one server's allocator (`HeadsOK`), or has been used up; blocks in
a head's chunk lie below its offset (`MemoryBlocksOK`, `ComputeBlocksOK`); and a piece that a thread holds
between the mutex and `Place` is like a block of which only the node is open (`PiecesOK`). Since all
chunks of compute servers come from one directory, two such blocks are apart in the chunk whatever
nodes they are put on, which is why reading `alloc_compute_nodes` without the mutex does no harm. `RequestsOK`
and `ThreadsOK` tie messages to the threads that wait for them.

Assumptions that carry weight: a quorum is a majority (`kQuorum` of `kReplicas`), contents at an
offset have one writer, and a handle's version is not offered twice, which the code guarantees only
until its 20-bit version wraps.

Only model-checked: liveness and everything that needs `ENABLED`, which this prover does not
do; the two refinements; and the invariants of `InnerTree` and `MemTables`.

## 7. What is left out

- `LeafIndex` takes a lookup and an insertion in the tree as atomic. `InnerTree` shows that the
  tree behaves like that, except that a lookup may return what covered the key a little earlier,
  which `published` allows for.
- Coroutines: the code between two yields is the same as between two verbs.
- Retry limits (`assert(false)` after a million attempts): a spin lock is modelled as waiting.
- Servers that stop while they hold a lock: the code has no recovery.
- Payload contents, statistics, printing, and the layout of buffers.
- Range scans: `leaf_scan` takes no lock, and nothing in the repository says what a scan that races
  with a split returns.
- The inside of `DMCache` (skip list, pools, eviction): the index relies only on getting some copy a
  node has had, which is what the models allow.
- `SlabAllocator` and `LeafContents`: sequential, and not used by the index yet.
- `free_chunk`, `sum` and the `NEW_ROOT` message, which have no caller.
- A directory that runs out of chunks fails an assertion; `Serve` is not enabled then. With the sizes
  of the build (2 GB, leaf cache 4 GB) that comes before the fallback of `compute_alloc`; the instance
  has room for both.
- dLSM apart from its write path: reads and superversions, reference counts and the deletion of
  memtables, levels below 1, shards, log and recovery, a flush of a memtable that is not full, and the
  limit of the works' queue.
- CHIME, FPTree, ROLEX, SMART, Sherman and DMTree. They are most of the repository's lines: the
  definitions here stand for a small share of it, and for most of what changes shared state in
  SkipVectorDM.
