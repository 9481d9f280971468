# A verification project for hashcomp

hashcomp is a collection of concurrent hash tables and the machinery they
share, compared by the benchmarks and tests of the repository: a C++ port of
the FASTER key-value store, three tries of hash tables (`mhash`), level hashing,
the hash and B-tree indexes of a database prototype (`xhash`) and a port of the
BzTree. The repository has no prose documentation; its comments, assertions and
tests say what the code is meant to do.

This directory holds TLA+ modules that model that code, the TLC configurations
that check them on small instances, and TLAPS proofs of the properties that
matter most. `PROJECT.json` lists the components, the runs with the properties
they check, the source lines behind every definition, the hazards of the code
and the theorems.

## 1. Inventory

### Epoch protection

| part | source | state | operations |
|---|---|---|---|
| LightEpoch | `faster/memory/light_epoch.h`, copied in `mhash/epoch/faster` | `current_epoch`, `safe_to_reclaim_epoch`, the epoch table, `drain_list_`, `drain_count_` | Protect, ProtectAndDrain, ReentrantProtect, Unprotect, ReentrantUnprotect, BumpCurrentEpoch, Drain, FinishThreadPhase |
| Thread ids | `faster/misc/thread.h`, `mhash/epoch/faster/thread.h` | `id_used_`, `next_index_` | ReserveEntry, ReleaseEntry |
| MemoryEpoch | `mhash/epoch/memory_epoch.h` | one LightEpoch | EnterEpoch, LeaveEpoch, BumpEpoch |

Everything that reclaims or recycles memory hangs on LightEpoch: a thread
announces the epoch it entered in, `BumpCurrentEpoch(callback, context)`
registers an action for the moment in which nobody is left in the epoch that
just ended. It is correct when no action runs while a thread that could hold
the object is still inside, every action runs once, and every action does run.

### FASTER

| part | source | state | operations |
|---|---|---|---|
| hash index | `faster/core/hash_bucket.h`, `hash_table.h`, `api/faster.h` (FindEntry .. FindOrCreateEntry) | bucket chains of 64-bit entries (address, tag, tentative), overflow buckets | lock-free two-phase insert of a tag, lookup, compare-and-swap of the address, clearing |
| record operations | `api/faster.h` (Read, Upsert, Rmw, Delete and their Internal* parts) | the chains of records, per-thread pending and retry queues | read, upsert, rmw, delete, completion of pending requests |
| hybrid log | `faster/io/persistent_memory_malloc.h` | tail, read-only, safe-read-only, head, safe-head, begin and flushed-until addresses, page frames with flush and close status | Allocate, NewPage, PageAlignedShift*, OnPagesMarkedReadOnly, OnPagesClosed, flush callbacks |
| fixed-page allocator | `faster/memory/malloc_fixed_page_size.h` | pages of overflow buckets, free lists by epoch | Allocate, FreeAtEpoch, checkpoint and recovery of pages |
| CPR state machine | `api/faster.h` (GlobalMoveToNextState, HandleSpecialPhases), `faster/cc/state_transitions.h`, `checkpoint_state.h`, `internal_contexts.h` | `system_state_`, each thread's phase and version, `phase_finished` | Checkpoint, CheckpointIndex, CheckpointHybridLog, ShiftBeginAddress, GrowIndex, Refresh |
| checkpoint locks | `faster/cc/checkpoint_locks.h` | old and new lock counts per hash | try_lock_old, try_lock_new, unlock_* |
| index garbage collection and growth | `api/faster.h` (CleanHashTableBuckets, SplitHashTableBuckets), `gc_state.h`, `grow_state.h` | chunk counters, two table versions | claiming, cleaning and splitting chunks |
| recovery | `api/faster.h` (Recover*) | checkpoint metadata, the log pages | rebuild index and log after a crash |
| file and device layer | `faster/io/*` | file handles, segments, I/O completions | asynchronous reads and writes |

Threads never wait for one another in an operation; they meet through
compare-and-swap on index entries, through the epochs, and through the global
phase that each thread adopts when it refreshes. The hard behaviours are the
races on an index chain, records that move from mutable to read-only to disk
while they are being updated, an operation that has begun in one phase and is
retried in the next, and a thread that joins while a checkpoint is under way.

### mhash

| part | source | state | operations |
|---|---|---|---|
| BasicHashTable | `mhash/basic_hash_table.h` | a trie of arrays and data nodes (sequential) | Insert, Get, Update, Remove |
| ConcurrentHashTable | `mhash/concurrent_hash_table.h` | the trie behind atomic shared pointers | the same, concurrently |
| LockFreeHashTable | `mhash/lock_free_hash_table.h` | the trie behind plain atomics, epoch protection, a per-thread pool of nodes | the same, concurrently |
| UniversalHashTable | `mhash/universal_hash_table.h` | thread registry, stubs | registration of threads |
| hash functions, queues | `mhash/util` | none | pure functions, NodeQueue |

### The other tables

| part | source | state | operations |
|---|---|---|---|
| level hashing | `levelhash/level_hashing.c` | two levels of buckets with tokens, per-slot spin locks | insert, query, update, delete, resize |
| IndexHash | `xhash/index_hash.cpp` | buckets of linked items under a per-bucket latch | insert, read |
| index_btree | `xhash/index_btree.cpp` | B+-tree nodes with latches | insert, read, next |
| BzTree | `bztree/bztree.h`, `bztree.cpp` | nodes with status words changed by multi-word CAS | insert, read, update, upsert, delete, scan, split, recovery; merging is compiled out |
| benchmarks, tests, utilities | `bench`, `tests`, `utils` | counters | drivers of the tables |

## 2. The modules

| module | models | built on |
|---|---|---|
| `SafeReclamation` | what epoch protection promises: readers take references to linked objects, an unlinked object is reclaimed once and under no reader | – |
| `LightEpoch` | `light_epoch.h`, one atomic access per action | implements `SafeReclamation` (`RefinesSafeReclamation`) |
| `LightEpochProofs` | proofs: types, safe reclamation, the refinement of `SafeReclamation`, the drain list and its counter | `LightEpoch`, `CountingProofs` |
| `CountingProofs` | lemmas the proofs share: how a cardinality changes when one element comes or goes; induction, recursion and division over the naturals | the library's theorems on finite sets |
| `HashIndex` | one bucket chain of the FASTER index and what the operations do to its entries | takes from the epochs only that a bucket in use is not recycled |
| `HashIndexProofs` | proofs: all four properties of `HashIndex` | `HashIndex`, `CountingProofs` |
| `SystemPhases` | the state machine of checkpoints, garbage collection and index growth | takes from the epochs the table of acknowledgements |
| `SystemPhasesProofs` | proofs: all seven invariants of `SystemPhases` | `SystemPhases`, TLAPS |
| `RecordOps` | Read, Upsert, Rmw, Delete and CompletePending on the records of one entry, with checkpoint locks and versions, during a log checkpoint | the phases of `SystemPhases`, the entry of `HashIndex`, the drained actions of `LightEpoch`, each by what it promises |
| `RecordOpsProofs` | proofs: immutable records stay; without deletions and checkpoints no lost update and true answers | `RecordOps`, `CountingProofs` |
| `HybridLog` | the addresses and page slots of the log, flushing, closing, checkpoint, crash and reset | the drained actions of `LightEpoch` |
| `HybridLogProofs` | proof: records being filled in or read are out of reach of the device and of the closing of pages | `HybridLog`, `CountingProofs` |
| `LogRecovery` | a full fold-over checkpoint, what it leaves on disk, a crash, and `Recover` | the phases of `SystemPhases`, the log of `HybridLog` |
| `LogRecoveryProofs` | proofs: a checkpoint the host was told of is not refused, and what is recovered is a cut | `LogRecovery`, `CountingProofs` |
| `LevelHash` | the two levels of level hashing with slot locks, movements and resizing | – |
| `LevelHashProofs` | proofs: types, the table is a dictionary, lookups miss only what moves | `LevelHash`, `CountingProofs` |
| `HashTries` | the three tries of `mhash` | `MemoryEpoch` by the promise of `SafeReclamation` |
| `BzTree` | leaves, internal nodes, freezing, splitting, recovery | multi-word compare-and-swap, external |
| `MC...` | the plans, hosts and environments of the runs and the symmetry sets | the module they are named after |

Most modules take a constant set of *plans* (`Hosts`, `Environments`): what a
behaviour starts from and what its host may do. A plan is chosen in `Init` and
never changes, so that one run covers several situations, each with its own
bounds.

### LightEpoch

`table_[i]` is `Entry::local_current_epoch` of entry *i*; `drain_list_` holds an
epoch, which is also the slot's lock (`kFree`, `kLocked`), and the context of its
callback; `drain_count_` wraps modulo `CountMod` (2^32 in the code, any
`CountMod > 1` in the model, so that the wrap-around happens within reach).
Each action is one atomic access of the code together with the thread-local work
up to the next one: entering is a load of `current_epoch` and a store of the
entry, a scan reads one entry per step, `TryPop`, `TryPush` and `TrySwap` are a
compare-and-swap, the accesses under the lock and the releasing store. Thread *t*
writes the entry with index *t*.

The client is part of the model: `Acquire` takes a reference to a linked object
while the thread is inside, `Retire` unlinks one and calls
`BumpCurrentEpoch(callback, context)` with a callback that reclaims it. These are
the uses that FASTER and MemoryEpoch make of the class.

`local_current_epoch` is a plain `uint64_t`. With `BufferDepth = 1` a store may
stay in the thread's store buffer while its later reads go ahead, as on x86, until
`FlushStore` or an atomic read-modify-write (`Fenced`) writes it out;
`BufferDepth = 0` is a program whose stores are immediately visible.

### HashIndex

One chain: bucket 0 and up to `MaxOverflow` overflow buckets of `NumEntries`
entries (tag, tentative bit, address). The scans of `FindEntry`,
`FindTentativeEntry` and `HasConflictingEntry` read one entry per step, and every
compare-and-swap is a step of its own; `FindOrCreateEntry` is the chain
search – (allocate – link) – install – conflict – back off or finalize. Of the
records only addresses matter: `CreateRecord` appends at the tail, writes the
previous address into the record and swaps it in, as `InternalUpsert` and
`InternalRmw` do; `UpdateInPlace` leaves the entry as it is; `DeleteCheck` and
`DeleteStore` are the load-compare and the store of `InternalDelete`;
`CleanLoad/Swap/Next` walk the chain as `CleanHashTableBuckets` does. Keys that
share a tag share an entry, so one key per tag is enough here: which of the keys
a record belongs to is decided in the record chain (`RecordOps`), not in the index.
A behaviour begins with a plan: the operations, tags and concurrent calls of its
threads and the size of the chain.
Two ghosts remember the past: `installed`, every record some swap put into
the index, and `absent`, whether the tag of a running call has been missing at
some moment since the call began.

A losing thread frees its bucket with `FreeAtEpoch`; nobody has seen the
bucket, so the model hands it out again at once.

### SystemPhases

`system_state` is the word of action, phase and version. A thread has the phase
and version of its context, whether the current and the previous context have
pending requests, and its acknowledgement `phase_finished`. `Refresh` is the load
of the system state, then the loop of `HandleSpecialPhases`: one action per case
of the switch (`StepPrepare`, `StepInProgress`, ...), and then `Scan`, the walk of
`FinishThreadPhase` over the other acknowledgements, entry by entry, `MoveCas`,
the compare-and-swap of `GlobalMoveToNextState`, and one `Moved...` action for
what the winner does. `StartAction` is the compare-and-swap at the start of
`Checkpoint`, `ShiftBeginAddress` or `GrowIndex`, `InitAction` the initialisation
up to the store of the first phase. `HeavyEnter` gives operations their share of
collecting and splitting. Chunks are counted, their contents left out.

A host is a record, because the code relies on the program around it: the
`actions` it starts; whether it `waits` until every session has come back to REST
before it starts one; whether an operation may fill its page and then call
`Refresh` in the middle (`page_fills`, `BlockAllocate`); and which `sessions`
start and stop while the system runs. `JoinedAtStart` says that no session starts
in the middle; the properties that need it name it.

### RecordOps

The log is a sequence of records (key, value, version, previous address); the
addresses `head`, `safe_ro` and `ro` divide it into disk, immutable, fuzzy and
mutable regions. `Begin` issues an operation: it reads the entry and the region
addresses, traces the chain for the key and decides by region and phase as
`InternalRead`, `InternalUpsert`, `InternalRmw` and `InternalDelete` do. In-place
updates, `PivotAndRetry`, the second look at the entry, the record's creation and
the compare-and-swap are steps of their own. `HandleOperationStatus` turns the
outcome into a completed, retried, deferred or disk request;
`CallCompletePending` and the steps after it go on with the queues.
`CheckpointLockGuard` is the two counters of one bucket. `applied` is a ghost: the
versions in which an operation has taken effect, `truth` what each key should have.

A Delete whose record is in the mutable region clears the entry; otherwise it appends a
record whose value field holds whatever is there (`Garbage`), and which searches take for
a record like any other. What the key should have then is "absent": `Buried` keys are
exempt from the properties about values (section 4). A Delete that goes pending is cast to
a class it is not of when it is retried (`internal_contexts.h:358`, `faster.h:753`), which is
undefined: plans with a checkpoint have no deletions (`DeletionsAssumption`).

Abstractions: a record's atomic update (`PutAtomic`, `RmwAtomic`) succeeds; the
region addresses are loaded in one step; `Refresh` is one step; a second shift of
the read-only address waits until the first has drained; the flush goes with
`safe_ro`; there is one entry and one lock.

### HybridLog

`Allocate` and `NewPage` step by step, per thread: the reservation, the claim of
the next page, the shifts of the read-only and head addresses, the allocation of
the page after next, the retry after a refresh. `OnPagesMarkedReadOnly` submits
flushes, one per page; a flush reads its page at one moment between submission
and completion; the callback sets the page's status and carries
`flushed_until_address` along (`ShiftFlushedUntilAddress`). `OnPagesClosed`
publishes the safe head and then closes and clears page by page. `Crash` loses
memory, `RecoveryReset` goes on from the checkpoint's final address.

Abstractions: the status compare-and-swap and the clearing of a page are one
step, so are the check and the compare-and-swap in `NewPage`; writes do not fail;
`Truncate` is not modelled. A drained action is run, page by page, by the thread that
drains it, which does nothing else meanwhile (`Free`), while the others go on. An
environment says which threads have a session; the epoch waits for those.

### LogRecovery

The checkpoint writes the table and the overflow buckets at different moments
while threads change both, then the metadata, the contexts and the log up to the
final address. `Crash` may come at any moment, during a recovery too. `Recover` is
the reading of metadata, contexts and index, and then a window of `Capacity` page
buffers through which the pages are read, replayed (records of the later version
are marked invalid and the chains relinked) and written back.

Abstractions: a full fold-over checkpoint, as `Checkpoint` takes it; addresses
count records; a page's flush is atomic; one page of overflow buckets; updates in
place are `RecordOps`'s subject; no I/O errors.

### LevelHash

`buckets` has a token, an item and a value per slot. An item is what one insertion
puts in, told apart by identity, because `level_insert` does not look for its key:
several items may have one key, as in `LH_MicroTest.cpp`. A slot is examined and changed
under its lock, so a visit is one action; a movement holds its slot while it looks for
another, and is several. The hash functions are constants: they are chosen so that
keys collide in all their buckets, in some, or only before a resize. A plan says
which items the host inserts and which kinds of operations it runs side by side:
insertions, queries and updates, as `ycsb_thread_run` and `LH_MicroTest.cpp` do, and deletions beside
queries and updates.

A resize runs alone, and no call starts after it: `level_resize` leaves the array of locks
too short for the second bucket of any key, so that what a call does is undefined.
`b2t_movement`, which is for a table that was resized, is therefore not modelled. A rehash
that finds no room ends the process, and the model has no such step.

### HashTries

An array never goes away, so an array is its path from the root; a slot holds
nothing, a data node or an array. Loads, compare-and-swaps and the expansion of a
slot are one step each; `BasicHashTable`'s calls are one step. LockFreeHashTable's
nodes are taken from a thread's pool or allocated; a node that is replaced waits
until the threads that were inside have left, and goes to the pool of the next
thread that bumps the epoch and so runs the callback.

### BzTree

A leaf is its status word (frozen, record count, block and delete size), metadata
per record (absent, being inserted, visible, deleted) and the records; an internal
node is a sequence of separators and children. `MwCAS` is one atomic step. Insert
reserves, fills, rechecks for duplicates and makes the record visible; a full leaf
is frozen, its records are sorted into two halves, the parent is replaced, up to
the root. After a crash `Recovery` ends what the multi-word operations have left,
and the threads start again.

## 3. What the runs show

| run | environment | properties | states |
|---|---|---|---|
| `epoch_safety` | 2 threads (one reentrant), 3 objects, 4 epochs, 2 slots, stores immediately visible | `TypeOK` `SafeReclaim` `RefinesSafeReclamation` | 624,807 |
| `epoch_live` | 2 threads, 2 objects, 3 epochs, delayed stores, fair refreshing | `ActionInOnePlace` `DrainCountExact` `RetiredIsReclaimed` | 514,979 |
| `index` | 3 threads on 1 tag in up to 2 buckets of 2 entries (read, update, collect); 2 calls at once on 2 tags in buckets of 1 entry, all operations | `OneFinalEntry` `NoRecordLost` `NotFoundIsTrue` `BucketsAccountedFor` | 2,091,113 |
| `phases` | 2 threads, 2 actions, three hosts: one that waits, one whose sessions start and stop, one that starts log checkpoints back to back with pages that fill | `ConsistentCut` `NotifiedIsPersistent` `GrowWaitsForOperations` `TruncateWaits` `AtRestAllDone` `ThreadsAreBeside` `AssertionsHold` | 1,240,800 |
| `phases_live` | 2 threads, any one of the 5 actions, sessions that stay, fair refreshing | `EveryActionEnds` | 76,371 |
| `records` | 2 threads; a key in memory with a checkpoint, with moving regions, on disk | `NoUpdateLost` `AnswersAreTrue` `CutIsConsistent` `ImmutableStays` `RequestsComplete` | 303,383 |
| `records_collide` | two keys of one entry and a checkpoint | `Cut` | violated |
| `hlog` | 5 page slots, a new and a restored log, checkpoint, crash, readers; 2 threads that use every slot for one page, or 1 that uses slots again | `RecordsStay` `EpochGuards` `PagesTurn` | 264,211 |
| `recovery` | 2 threads, 2 keys in one entry or two, up to 2 crashes | `RecoveredIsCut` `NotifiedRecovers` `RecoveryEnds` | 482,786 |
| `levelhash` | 2 threads, up to 5 items of 3 keys, 4 + 2 buckets of 1 slot, a resize; insertions beside queries and updates, deletions beside queries and updates, insertions into full buckets | `TableIsDict` `SteadyIsFound` | 871,675 |
| `bztree` | 2 threads, leaves of 4 records, internal nodes of 3, a crash | `TreeIsDict` `AnswersAreTrue` `CallsReturn` | 156,796 |
| `tries` | 2 threads, 3 keys that share slots, 3 levels | `EveryKeyFound` `ResultsAreTrue` `NodeInOnePlace` `CallsReturn` | 172,006 |

Every property of a passing run is broken by a mutant of the code it is about
(`PROJECT.json`, `mutants`): dropping the check of a compare-and-swap, moving a
wait, leaving out an acknowledgement, refreshing never.

### Bounds

* Epochs: an unsafe reclamation needs an epoch in which the reader enters, the
  bump of the retiring thread and one more for a scan that overtakes; four epochs
  leave room for two retirements to overlap. Three objects with two slots make
  `TrySwap` and a full drain list happen.
* Index: two entries and an overflow bucket give the two free slots of
  different buckets in which an insertion race can end; three threads give two
  inserters and a collector. One-entry buckets make every second tag extend the
  chain. `MaxAddress` bounds the records.
* Phases: two chunks make two threads share the work; two actions make one
  action meet what the previous one has left behind. `MaxVersion` is never the
  limit within `MaxStarts` actions.
* Records: one or two operations per thread, one shift of each address and one
  checkpoint: each is what it takes for an operation to begin in one region or
  phase and end in the next. Other shapes of the log are other plans.
* Log: five slots are the fewest the constructor accepts when `kNumHeadPages` is 3
  (4 in the code). Two threads go up to page 4, the last page with a slot of its own:
  from page 5 on the race of section 4 is there. One thread goes up to pages 5 and 6, so that
  slots are closed, cleared and taken again. A page holds two records, so that a checkpoint ends
  in the middle of one.
* Recovery: pages of two records and a window of one page make every further page
  wait for the slot; the second crash comes in the middle of a recovery.
* Level hashing: with one slot per bucket a key has four slots. Three items of one key and
  two of others fill them, so that the last insertion moves an item; keys `ka` and `kb` share
  all buckets until a resize tells them apart. With deletions three items are enough for
  slots that are freed and filled again; five items of keys that share their buckets are one
  too many, and the last insertion fails after it has tried to move each of the four.
* BzTree: leaves of four and internal nodes of three records make loads of 8 and
  11 keys full in one and in two levels. One freeze retry lets both of two
  splitting threads go past it.
* Tries: two fragments per level and three levels; the keys share the root slot and
  two of them the next. Eight nodes are never used up.

`CHECK_DEADLOCK FALSE` is given where the model may really stop: when every
operation of a plan is done (`bztree`, `tries`, `recovery`), at the bound of
the log (`index`, `hlog`), when all sessions have stopped (`phases`), and in `levelhash`,
where opposite movements do deadlock (section 4). Elsewhere deadlock is checked.

### Fairness

A call that has begun goes on (weak fairness of its steps: the scheduler), a
store buffer drains, a device ends its writes and reads (weak fairness). In
`LightEpoch` and `SystemPhases` `Refresh` and the completion of earlier requests
get strong fairness, because a session is between two calls only from time to
time: FASTER requires its sessions to call both regularly, and the tests and
benchmarks do. `RecordOps` has weak fairness of every step, of `HostRefresh` and of
`CallCompletePending`; `HybridLog` weak fairness of a thread's `Continue` and of the
device, strong fairness of its `Refresh` and of the drained actions, since a thread that
allocates refreshes between two attempts, and who refreshes again and again drains; `LogRecovery` weak fairness of the
steps of `Recover`; `BzTree` and `HashTries` weak fairness of a thread's next step.
Nothing is assumed about operations being started, sessions being stopped or
actions being requested. `CallsReturn` in `HashTries` and `BzTree` is no claim of
wait-freedom: it holds because a plan has finitely many calls, so that
compare-and-swaps are lost only finitely often.

## 4. Where the code and its comments disagree

`records_collide` is the run that shows one: `InternalRmw`, `InternalUpsert` and
`InternalDelete` take `latest_record_version` from the first record of the chain,
of whatever key. When another key of the entry has a record of the new version,
the key's own record of the old version is updated in place, although the comment
says "Update to new version (v+1) requires RCU": the checkpoint then holds an
effect it should not.

The modules show more, outside the environments of the passing runs. Each comes
with what to change to see it.

**Epochs.** Thread ids start at 0 and the scan at entry 1: with `Thread = {0, 1}`,
one object, two epochs and `Reentrant = {}`, `EveryReaderProtected` is violated.
`SafeReclaim` fails with `BufferDepth = 1` (the scan misses an epoch that is
still in a store buffer). `RetiredIsReclaimed` fails with `DrainListSize = 1`:
`BumpCurrentEpoch` with a full list waits for actions that its own published epoch
holds back.

**Index.** `InternalDelete` compares and then stores: with `Plans <- DeleteRace`,
`MaxAddress = 4` and `OneFinalEntry` without its exemption for plans that delete,
two deleters wipe the tentative entry of an inserter and a tag gets two final
entries. `NotFoundIsTrue` is exempt for the same reason: with three calls at once,
one of them a deletion, a tag has two final entries, and a search passes the place
of the one before it is there and reaches the place of the other after it is gone.

**Phases.** The end of the loop in `HandleSpecialPhases` overwrites the REST that a
finished thread has just been given: with `Hosts <- MixingHost` an action started
before the thread refreshes finds it in a phase the new action does not have
(`AssertionsHold`). `StopSession` returns at once in REST although an action the
thread has not seen may wait for it: with `Hosts <- StoppingHost` under `FairSpec`,
`EveryActionEnds` fails. `StartSession` reads the system state before it protects its
epoch: without `JoinedAtStart`, `ThreadsAreBeside` and five more fail for
`SessionsHost`. `GrowWaitsForOperations` fails with `page_fills`, because a refresh in
the middle of an operation acknowledges GROW_PREPARE, and with three threads and a
host that does not wait.

**Records.** A Delete whose record is immutable or on disk appends a record that the next
Read returns with Ok, where `FH_UnitTest.cpp:74` says "assert(rStat == Status::NotFound)" (of a
record that is still mutable): with `Plans <- DeletedPlans`, `ReadsAreTrue` is violated. A Delete
that waits is cast to an upsert's context, which the model leaves out (section 2).
The others need a plan with a checkpoint unless noted. With the record on
disk (`head = ro = 2`): two Rmws never complete, because `RETRY_NOW` tries a request
of version v again as one of v+1, which needs the lock its own mark holds, and
`LocksFreed` fails; an Rmw and an Upsert violate `Cut` and `LocksFreed`, because the
mark is set after the guard's lock is released. In memory: two Rmws of a host that
only refreshes (`drains = FALSE`) are retried through locks that have been freed;
a fuzzy region (`shifts = 1`) violates `assert(!retrying)`. Without a checkpoint: one
Delete of a key that shares its entry drops the other key's records
(`NoUpdateLost`); an Rmw of a key on disk below another key in memory fails the
assertion `address == entry.address()`. `Undisturbed` is what excludes these from the
properties of the run.

**Log.** A new log takes address 0 both for its start and for nothing flushed:
with `Environments <- AnyOrderEnvironments`, `flushed_until_address` passes a page whose write is
under way, and the head address a page that is not on disk (`RecordsStay`).
`OnPagesClosed` publishes the safe head before it clears the pages below it, and meanwhile
`NewPage` of another thread takes the slot: with `Environments <- ReusedEnvironments`,
`PagesInUseStay` is violated, and what the threads have written there is cleared.
`RecoveryReset` opens slots that are not allocated: on a restored log two threads violate
`PagesInUseStay` too. On a new log, two threads that each run a part of the flushes reorder the
writes themselves: `Environment(Thread, 0, "ordered", "runs", 1, 0, FALSE, 3)` violates `RecordsStay`. A
host that goes on during a checkpoint over a device that ends writes in any order violates
`RecordsStay`, in both of its parts. With `MutablePages = 4` of five no page ever becomes read-only and
`PagesTurn` fails.

**Recovery.** A delete in the mutable region clears the entry and logs nothing, so
that recovery brings the key back. `RecoveredIsCut` allows it for deleted keys;
without that disjunct it is violated.

**Level hashing.** `level_query` releases each slot before it takes the next, while
`try_movement` moves items: a lookup misses an item that moves from a slot ahead of it to one
behind. With `Plans <- MovedPlans`, `Item = {b1, x1, x2, x3, x4, z1}` and `Key = {kb, kx, kz}`, `MissingIsTrue`
is violated; with one slot per bucket, as there, a deletion must have freed a slot before,
with more none is needed. What does hold is `SteadyIsFound`. `try_movement`
and `b2t_movement` do not look at the token and can move an item that has just been deleted:
with `Plans <- RevivedPlans` it is back in the table (`DeletedIsGone`). Two movements in
opposite directions deadlock. `level_resize` leaves `level_locks` at its old size, and
ends the process when an item of the bottom level finds no slot.

**Tries.** `Update` and `Remove` do not compare the key they meet: a call for an
absent key replaces another one of the same slot (`EveryKeyFound`). In
LockFreeHashTable they work outside the epoch: with keys `<<0, 1>>`, one thread that
inserts 4 and one that removes 0, updates 1 and inserts 2 (`Key = {0, 1, 2, 4}`,
`MaxNode = 10`), a node that was used again is taken for the old one. With
`FailLimit = 1` ConcurrentHashTable goes on with a null array (`TypeOK`) and
LockFreeHashTable returns a wrong answer (`ResultsAreTrue`). A failed Get, Update or
Remove calls `EnterEpoch` where `LeaveEpoch` is meant, which only keeps memory from
being used again; `ConcurrentHashTable::Remove` returns false when it has removed,
and removals are not counted in the size.

**BzTree.** A call whose recheck meets another insertion of its key hides its own record
and answers Ok, also when it is an upsert, whose value is then nowhere: with `Plan <- PlansHidden`,
`WritesAreKept` is violated. `AnswersAreTrue` takes such an Ok only for the news that the
key was there. `RecheckUnique` looks at record `i` instead of `check_idx[i]`: with load
`<<1>>` and two inserts of 2 both become visible (`TreeIsDict`). A full leaf whose
records were deleted has nothing to separate its halves by: load `<<1, 2, 3>>`, delete
all, insert 4 (`SplitsHaveSeparators`). The iterator looks for its next leaf by the
last key it returned: load 1 to 5, delete 2, scan (`AnswersAreTrue`). A deletion
after a crash repeats until some insertion replaces the frozen leaf; `CallsReturn`
excludes behaviours with a crash.

## 5. What is proved

The theorems hold for every value of the constants: any sets of threads, tags and
objects, any number of entries, slots, buckets, pages and epochs, any counter
width. The hypotheses beyond the `ASSUME`s of the modules are named below.

| theorem | module | states | hypothesis |
|---|---|---|---|
| `TypeCorrect` | `LightEpochProofs` | `TypeOK` | – |
| `Inductive` | `LightEpochProofs` | `IInv` | `BufferDepth = 0` |
| `ReclamationIsSafe` | `LightEpochProofs` | `SafeReclaim` | `BufferDepth = 0` |
| `ImplementsSafeReclamation` | `LightEpochProofs` | `RefinesSafeReclamation` | `BufferDepth = 0` |
| `NoActionLostOrRepeated` | `LightEpochProofs` | `ActionInOnePlace` | – |
| `DrainCountIsExact` | `LightEpochProofs` | `DrainCountExact` | – |
| `IndexInductive` | `HashIndexProofs` | `IInv` of `HashIndex` | – |
| `OneFinalEntryHolds` | `HashIndexProofs` | `OneFinalEntry` | – |
| `NotFoundIsLinearizable` | `HashIndexProofs` | `NotFoundIsTrue` | – |
| `RecordsStayReachable` | `HashIndexProofs` | `NoRecordLost` | – |
| `NoBucketLostOrShared` | `HashIndexProofs` | `BucketsAccountedFor` | – |
| `PhaseInductive` | `SystemPhasesProofs` | `PhaseInv` | `HostWaits` |
| `AssertionsNeverFail` | `SystemPhasesProofs` | `AssertionsHold` | `HostWaits` |
| `NeighbouringPhases` | `SystemPhasesProofs` | `ThreadsAreBeside` | `HostWaits` |
| `CheckpointIsConsistent` | `SystemPhasesProofs` | `ConsistentCut` | `HostWaits` |
| `CallbackIsTrue` | `SystemPhasesProofs` | `NotifiedIsPersistent` | `HostWaits` |
| `TruncationWaits` | `SystemPhasesProofs` | `TruncateWaits` | `HostWaits` |
| `AllChunksDone` | `SystemPhasesProofs` | `AtRestAllDone` | `HostWaits` |
| `GrowthIsExclusive` | `SystemPhasesProofs` | `GrowWaitsForOperations` | `HostWaits`, no `page_fills` |
| `ThreadsAreGuarded` | `HybridLogProofs` | `EpochGuards` | – |
| `NotifiedCheckpointRecovers` | `LogRecoveryProofs` | `NotifiedRecovers` | – |
| `RecoveryYieldsCut` | `LogRecoveryProofs` | `RecoveredIsCut` | no plan deletes |
| `ImmutableRecords` | `RecordOpsProofs` | `ImmutableStays` | – |
| `NoUpdateIsLost` | `RecordOpsProofs` | `NoUpdateLost`, and `Value(k) = truth[k]` | `PlainPlan` |
| `ReadsAnswerTrue` | `RecordOpsProofs` | `AnswersAreTrue`, `ReadsAreTrue` | `PlainPlan` |
| `LevelTypes` | `LevelHashProofs` | `TypeOK` of `LevelHash` | – |
| `LevelTableIsDict` | `LevelHashProofs` | `TableIsDict` | `DeletesApart` |
| `LevelSteadyIsFound` | `LevelHashProofs` | `SteadyIsFound` | – |

`BufferDepth = 0` means that a store of `local_current_epoch` is visible at once;
with delayed stores `SafeReclaim` is false (section 4). `HostWaits` is a condition on
the host, which never changes: it starts an action only when every session has come
back to REST, and no session starts after the first action (sessions may stop at any
moment). Each half is needed: without either one properties fail (section 4). The
properties of `HashIndex` carry the exemption of plans that delete in their statement.
`PlainPlan` is a condition on the plan of a behaviour, which never changes either: no
deletions and no checkpoints. Four of the plans of the run `records` satisfy it; the
others stay with the run. `DeletesApart` says that no plan runs deletions beside
insertions, which is what `TableIsDict` needs (section 4).

### Epochs

`BaseInv` (types, the control state of every call, bounds of the epochs) holds for
every `BufferDepth`; `IInv` adds `Undelayed => ...` the facts about references.
`SafeReclaim` is not inductive: it says nothing of actions that wait. The
strengthening is `Guarded(o, e)`: while a scanned thread *h* holds *o*, whose
action has the trigger epoch *e*, the thread's published epoch is at most *e*,
`safe_to_reclaim_epoch` is below *e*, and every scan under way has either
already seen an epoch no later than *e* or has yet to reach *h*. The last
part is what makes it survive a slow scan that stores an old result
after a faster one: `safe_to_reclaim_epoch` is not monotone, and need not be.
When a drainer has found a slot due, its compare-and-swap may hit a later
action with the same epoch: `Expired` covers every action of that epoch, and is
why the check and the swap need not be atomic.

The refinement maps the holders, the unlinked and the reclaimed objects to those of
`SafeReclamation`: every step of `LightEpoch` is an acquisition, a release, an
unlinking, a reclamation (whose guard is `SafeReclaim` of the next state) or a
stutter. Its fairness-free form is what is proved, as the run checks it.

For the drain list the invariant counts: of every object, the slots and the calls
that hold its action are one or none, and each `TryPush`, `TryPop`, `TrySwap` moves one.
`DrainCountExact` adds up slots and calls modulo `CountMod`; `CountingProofs` says
how a cardinality changes with one element, which is all the induction it needs.

### Index

`BaseInv` is what every plan keeps: types, the scans stay inside the chain, a slot
that a search has returned is one that scans reach, entries hold addresses the log
has handed out. For plans without deletion `IInv` adds

* `OwnerInv`: a tentative entry belongs to one call of `FindOrCreateEntry`, which is
  the only one to finalize or clear it;
* `PairInv`: of two entries with one tag, one is tentative, and its owner has either
  decided to back off or still has the other entry *ahead* of its conflict scan. This
  is the two-phase insert: both install before either scans, so the one who installs
  last meets the other. It holds while the chain grows, because a bucket is linked
  at the end, ahead of every scan;
* `FindInv`: during a search the tag was absent at some moment (`absent`) or its
  final entry is still ahead of the scan;
* `LogInv` and `NoRecordLost`: what a compare-and-swap expects is what the new
  record's previous address holds.

`OneFinalEntry` follows from `PairInv` alone. `Reach` is defined as the least set that
follows `previous_address`, not by recursion, so that the provers can use it: a
record is reachable from a new head when it was reachable from the old one. The
proof of `BucketsAccountedFor` needs no part of this and covers deletion.

### Phases

The seven properties are facts of one barrier, `PhaseInv`. Its core is `AckInv`: a
session that runs has acknowledged every phase the system has left, except INDEX_CHKPT
of a full checkpoint, which nobody acknowledges, and none it has not reached;
at rest it has acknowledged the last phase of the action. Around it

* `VersionInv`: a thread's version is the system's, up to the shift of PREPARE to
  IN_PROGRESS that one of them may still have to make;
* `OutsideInv` and `LoopInv`: the phase a thread works in lies between the one
  it acknowledged and the system's, and so do, during `HandleSpecialPhases`, the states
  its loop goes through, all of one action. If the system has come to rest
  meanwhile the thread is in its last round. `HeavyInv` says the same of work done in
  `HeavyEnter`;
* `MoveInv`: a scan that is still of the system's state has seen only threads that
  acknowledged it, and acknowledgements stay until the system moves; a scan of an
  older state is harmless, because its compare-and-swap fails. For that a
  state must not come back: phases only go forward within an action, and
  a new one starts only when no thread is in a call (`host.waits`);
* `ChunkInv` and `HeldInv`: a claimed chunk is done or in the hands of a thread that
  has not acknowledged yet, so that the last acknowledgement means all are done;
* `PrevInv` and `CheckpointInv`: in which phases old requests may be pending, and what
  `flush`, `guids`, `contexts` and `notified` say about the phase.

The proof takes one lemma per action; the facts of the action's own thread are proved
from the step, those of the others from `OtherThread` (nothing they depend on changed)
and `OtherMoves`. `OpInv`, for growth, says that a thread with an operation is between
calls and in no phase of growth, so that it has not acknowledged GROW_PREPARE
and growth cannot begin.

`TypeOK` bounds versions by `MaxVersion`, a bound of the runs; what is proved is
`PhaseTypeOK`, with versions in `Nat`. The hosts whose sessions start in the middle and
those that start log checkpoints back to back stay with the run `phases`.

### Hybrid log

`EpochGuards` is what the log takes the epoch for: no write that was submitted covers a
record that a thread is still filling in, and no page being closed holds a record that a
thread is still reading. It is proved for every environment, those of section 4 included in
which other properties of `HybridLog` fail: drained actions that are overtaken, writes
that end in any order, checkpoints, crashes. `SessionInv` says that a thread in a call has a
session, so that the epoch waits for it. `LogInv` has four parts:

* `AddressInv`: every address is a number, and `safe_read_only_address` and
  `safe_head_address` do not pass `read_only_address` and `head_address`;
* `ActionInv`: an action that waits for the epoch carries an address its own shift has
  reached;
* `FlushInv`: what `AsyncFlushPages` has still to submit and what it has submitted starts
  below its end and ends at or below `safe_read_only_address`; a slot's `last_flushed` is
  zero or an address of a page of that slot;
* `CallInv`: a thread that fills in or reads an address is at or above the safe address,
  and every waiting action that would pass it still waits for the thread (`Awaited`).
  `CheckReadOnly` establishes this by comparing with `read_only_address`, which no action
  has passed, and a reader by taking an address at or above `head_address`; a refresh
  happens only outside of both.

The numbers need one argument of their own: `ShiftFlushedUntilAddress` walks round the
buffer until an address falls behind. If none did all slots would hold one address, and
since an address belongs to one page it would have to be zero (`FlushedReached`), which the
flush that has just ended excludes: the loop of the code ends.

### Recovery

`NotifiedInv`: the index metadata is on disk from PREPARE on, the log metadata from
WAIT_FLUSH on, and all contexts in PERSISTENCE_CALLBACK; files only grow, so that a
notified checkpoint stays complete through crashes and recoveries.

`RecoveryYieldsCut` rests on `RecoveryInv`, which has one part per stage.

* Before the crash (`RunInv`): the chain of an entry holds the records of its keys in the
  order of their addresses, with versions that do not go down (`ChainInv`); a thread whose record is not in
  its chain yet has not gone past the phases in which that may be (`PendingInv`); a record that is
  on disk is the log's (`DiskInv`); what the index file has of an entry is a record of the cut in its
  chain, at or above every such record below the start address (`IndexInv`). So whatever
  moment an entry was copied at, the log from the start address on holds all the records
  that came after.
* After it (`SavedInv`): what a complete checkpoint has on disk stays fit for a recovery,
  one that died half-way included, because writing a replayed page only marks records that
  are outside the cut.
* During the recovery (`WindowInv`, `ReplayInv`, `EntriesInv`): the pages are replayed in
  order, a page waits for the flush of the one that had its buffer, and each entry has the
  last record of the cut in its chain that was replayed, or what the index file says if
  there was none.
* At the end (`RecoveredInv`): all pages have been, so that each entry has the last
  record of the cut.

### Records

`ImmutableStays` rests on `SnapshotInv`. A thread updates a record in place when the
record lay at or above the `ro` it has loaded, which may be out of date. `Mutable(t, a)`
says that *a* is not below `safe_ro`, and not below `ro` either once *t* has refreshed
since `ro` moved. What a thread in the middle of a call may still change, the record it
found in the mutable region and the one it has appended and may have to
invalidate, is `Mutable` for it, because the call's refreshes come before it loads the
addresses or give up what was loaded. `safe_ro` follows `ro` only when nobody is left in
`unsafe`, and so passes no such record. This needs no hypothesis about the plan.

For the other two theorems the invariant is `OpsInv`. Its parts are

* `ChainInv`: what a search from the entry finds is `truth` of every key (`Match` is the
  search of `TraceBackForKeyMatch` in any log, `Reach` says that an address is on a
  chain; both come with lemmas for a log that grows and an entry that moves on);
* `LookInv`: what a call has looked up is stale in a harmless way only. The address it
  found is what a search finds from the entry it expects, an entry that the present
  one still leads to. A Read in memory and a Read from disk answer the value of a record
  whose value was the key's during the call (`seen`); a response from disk
  holds the address of the key's record in the chain of that entry;
* `RmwInv` and the like clauses of `LookInv` and `SwapInv`: the record an Rmw copies was
  below `safe_ro`, so that nobody updates it in place any more. This is what the fuzzy
  region is for. An in-place update may hit a record that is no longer the
  key's first, but then only a blind Upsert has overtaken it, and the update counts
  as made just before: what the chain yields is the same;
* `SwapInv`: a record not yet swapped in holds the value computed from the chain of the
  entry the compare-and-swap expects, is in no chain, and belongs to one thread;
* `CtxInv`, `Distinct` and `AppliedInv`: a request is in one place, a queue of its
  thread's context or its call, and an operation has taken effect once when it is in
  none of them and has begun, and not at all otherwise. A retry therefore never repeats an
  update.

`OpsInv` was first checked by TLC on the plans of the run that satisfy `PlainPlan`
(28,204 states, with `\E S : s \in Seq(S)` written as `DOMAIN s = 1 .. Len(s)`). The
proof takes one lemma per action; `Onward` collects what every step grants the
calls of the other threads: the log only grows, the new entry leads to the old one,
the addresses move up, and what a Read may answer only becomes more.

With deletions the entry is cleared by a plain store, which drops the records of every
key that shares it, and `NoUpdateLost` is false in general (section 4). With checkpoints a
request of the old version can be pending when its locks are gone. `CutIsConsistent`
and `NoUpdateLost` for such plans are checked where the run's plans allow it.

### Level hashing

The places of a key are the slots of its two buckets in each level. `LevelTypes` is
the arithmetic of the indexes: they stay inside their level, and the indexes in the old
top level are those in the new bottom level, which is why a resize moves only the old bottom
level's items. Over it

* `CallInv`: the locals of a call are in range, calls that run side by side are of one
  group of the plan, and no two insert the same item;
* `DictInv`: an item that was inserted and not deleted is in exactly one slot, a place of its
  key, with the value written last (`Rows`); an insertion has all the slots it has passed
  behind it full (`Full`), so that when it comes to moving an item, there is one in the
  slot. This is what deletions beside insertions break. A movement takes an item from
  one place of its key to another in one step, with both slots locked;
* `InPlace` and `AheadInv`, for lookups, whatever runs beside them: an item is in a place of its
  key, and each item of a lookup's key that was there all through the call and has not moved is in a
  slot ahead of the lookup.

That a rehash places all the items of the bottom level is an induction over their
number, with `Placed` as the iterated function (`Recursion` in `CountingProofs`).

### Only model-checked

Liveness (`RetiredIsReclaimed`, `EveryActionEnds`, `RequestsComplete`, `PagesTurn`,
`RecoveryEnds`, `CallsReturn`) is beyond the prover, and so is `ENABLED`. Induction over
the naturals is not: `CountingProofs` states it for a set instead of a predicate, which the
provers can instantiate, and derives recursion from it.

* `CutIsConsistent` needs the barrier of `SystemPhases` restated for the atomic `Refresh` of
  `RecordOps`, with the checkpoint locks.
* The other properties of `HybridLog` and those of `BzTree` and `HashTries` hold in the environments of
  their runs and fail in others (section 4); theorems would need those environments as
  hypotheses.

## 6. What is not modelled, and the plan

* File and device layer, buffers, allocation wrappers, hash functions, drivers:
  pure I/O or pure functions without a protocol. `HybridLog` and `LogRecovery` model
  the device by when its writes end. I/O errors are left out everywhere; the code
  mostly marks a failed write as done (`persistent_memory_malloc.h:746`,
  `faster.h:2276`) and loses the request of a failed read (`faster.h:1488`).
* `Truncate`, the snapshot-file variant of checkpoint and recovery, the copying of
  entries by `SplitHashTableBuckets` and the contents of a chunk.
* The growth of the page array in `malloc_fixed_page_size.h` and the writing of
  several overflow pages; `Thread::ReserveEntry` and `ReleaseEntry`.
* `UniversalHashTable`: its operations are stubs. `IndexHash`: a list per bucket that
  only grows under a latch. `index_btree`: `ENABLE_LATCH` is false, so that the build
  has a sequential tree without a protocol between threads.
* Level hashing: `b2t_movement`, and calls after a resize (section 2).
* BzTree: merging is compiled out; `RangeScanByKey` and `Dump` only read.
  What is in a cache and what in persistent memory is not modelled.

Theorems worth proving next: `RecordsStay` of `HybridLog` for one thread, the properties
of `SystemPhases` for the host that starts log checkpoints back to back, where a thread
may still be finishing the last round of the checkpoint before, and `NoUpdateLost` with
checkpoints or with deletions of keys that have an entry of their own.
