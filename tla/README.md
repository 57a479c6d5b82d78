# TLA+ for the concurrent B-skiplist

The repository holds a concurrent in-memory ordered map, the *B-skiplist*
(`src/bskiplist/bskip.h`), its locks, its drivers, and the indexes it is
measured against. This directory models the B-skiplist, its reader-writer
locks and two of those indexes - the concurrent B+ tree and the lock-free
no-hot-spot skip list - in TLA+, checks the models with TLC and proves theorems
about all four with TLAPS.

## 1. The system

### What it is made of

| component | source | state | operations | status |
|---|---|---|---|---|
| reader-writer locks | `bskiplist/ParallelTools/ParallelTools/Lock.hpp` | a writer flag; a reader counter, split over 48 cache lines (`ReaderWriterLock`) or a single one (`ReaderWriterLock2`) | `read_lock`, `read_unlock`, `write_lock`, `write_unlock`, `try_upgrade_release_on_fail` | modelled: `RWLock`, `RWLockSpec`; the spin `Lock` of the file is not |
| B-skiplist nodes | `bskiplist/bskip.h` 60-600 | sorted array of at most `MAX_KEYS` keys with values (leaves) or children (internal nodes), `num_elts`, `next`, `next_header` | `find_key_and_check`, `insert_elt_at_rank`, `insert_key_at_rank`, `insert_child_at_rank`, `split_keys`, `move_children`, `blind_write` | modelled: `BSkipNode` |
| B-skiplist map | `bskiplist/bskip.h` 600-2500 | `MAX_HEIGHT` linked lists of nodes, each with a lock; `has_zero` | `insert`, `exists`/`find`, `value`, `map_range`, `map_range_length` | modelled: `BSkip`, `BSkipMap` |
| whole-list reports | `bskiplist/bskip.h` 2520-2841 | none of their own | `validate_structure`, `sum`, `psum`, `get_size_stats` | `validate_structure` became invariants; the rest is not modelled |
| structure of arrays | `bskiplist/StructOfArrays` | the bytes of a leaf | `get`, `map_range` | not modelled: layout only |
| drivers | `bskiplist/test.cpp`, `ycsb.cpp` | key arrays, timings | rounds of `parallel_for` | the rounds are modelled (`NextRound`), the timing is not |
| older variants | `bskip_old.h`, `bskip_copy.h` | as above | as above | not modelled: copies that the results do not use |
| B+ tree, plain | `btree/tlx-plain/container/btree.hpp` | inner nodes and linked leaves with the lock above in each; a lock for the root pointer | `insert`, `exists`, `value`, `map_range`, `map_range_length` (no driver calls `erase` or `bulk_load`) | modelled: `BTree`; `erase`, `bulk_load` and iterators are not |
| B+ tree, leafDS | `btree/tlx-leafds` | the same over buffered leaves | the same | not modelled |
| no-hot-spot operations | `nohotspot-skiplist/nohotspot_ops.cpp`, `skiplist.cpp`, `ycsb.cpp` | a list of nodes with value, `next`, `prev`, `level`; index items over them | `contains`, `insert`, `delete`, the driver's rebuild of the index | modelled: `NoHotSpot`; the scan is not |
| no-hot-spot background thread | `nohotspot-skiplist/background.cpp` | `set->top`, the index items, the levels | removal of deleted nodes, raising, lowering | modelled: `NoHotSpot` |
| epoch reclamation, Masstree, folly and JDK baselines, parlaylib, option parsing | vendored | - | - | not modelled: third-party code |

### How they interact

Client threads call the map; there is no thread of the map's own, no queue, no
persistence and no message. Threads meet only in nodes and node locks. A call
reads its cpu number once and passes it to every `read_lock` and `read_unlock`,
because the counter line it selects must be the same for both. A key's height
is a hash of the key (`flip_coins`), so every attempt to insert a key gives it
the same tower. `insert` allocates and write-locks the nodes of that tower
before it starts its search, links them top-down while it holds the locks of
their neighbours, and fills each one when it gets to its level. All operations
go hand over hand: right along a level while `next_header` is not above the key,
then down.

The B+ tree takes the same locks. Lookups and scans go down hand over hand with
read locks. An insert first tries the same and write-locks only its leaf
(*optimistic*); when the leaf is full it lets it go and tries to upgrade its lock
on the parent, and when that fails or is not enough it starts over with write
locks on the whole path, held until the splits have climbed back up.

The no-hot-spot skip list has no locks. Callers change values and `next` pointers
with compare-and-swap and never remove a node; one background thread removes
nodes and alone maintains the index, which callers read while it changes. A
caller that meets a node half removed finishes the removal.

### What is hard about it

* Splits happen on every level of an insert while other threads walk through
  the same nodes; a search reads `next_header` under one lock and takes the
  next node's lock later.
* A node is locked for reading or for writing by level and promoted level; an
  insert changes mode on its way down, and every release must use the mode the
  node was taken in.
* New nodes are reachable from above before they hold anything.
* `exists` answers from the topmost node that holds the key, at a time when the
  key is not in the leaves yet.
* The lock's writer sums 48 counters one by one while readers come and go.
* An insert of a key that is there releases the node's lock, takes it again
  and goes on with what it had read (a finding, below).
* Scans cross nodes that split ahead of them and behind them.
* An insert into the B+ tree gives up the leaf before it has the parent for
  writing; others may fill or split the leaf meanwhile, or want the same upgrade.
* In the no-hot-spot list a deleted node may get a value again while the
  background thread claims it, its neighbours change while it is unlinked, and
  back pointers are written late.
* The index is changed item by item under searches that are in it.

The list of hazards, each at its line and with the properties that watch it, is
`hazards` in `PROJECT.json`.

### What makes each component correct

* **Lock**: writers are alone; no counter line drifts; a writer with the flag
  gets in.
* **Node**: never more than `MAX_KEYS` elements; keys ascend; keys, values and
  children move together.
* **Map**: headers ascend along a level and never change; `next_header` is the
  neighbour's header; a child has its parent's key as header; every tower is
  whole once its insert has ended; no node and no key is lost; locks are
  accounted for and nobody waits in a cycle; `insert`, `value` and `exists` are
  linearizable up to the early answer of `exists`; scans are ordered and
  complete; calls end.
* **B+ tree**: separators are the largest keys of their subtrees, nodes are
  filled and on their levels (`verify()`, but for the counts it compares with `stats_`); leaves are linked in order; a lock has
  exactly the holders the threads' positions say; the slot kept for an upgrade is
  still right; the map is linearizable, scans see what was there throughout.
* **No-hot-spot list**: the list is in order and whole but for removed nodes;
  removed nodes stay removed; the index is one at every step; every operation is
  linearizable; helping comes to an end; a rebuilt index gets its levels.

## 2. Modules

| module | what it is |
|---|---|
| `RWLockSpec` | what a reader-writer lock promises, in terms of who is inside |
| `RWLock` | `ReaderWriterLock`: one action per atomic access |
| `MCRWLock` | its small instance |
| `RWLock_proofs` | proofs about `RWLock` |
| `BSkipNode` | the arrays of a node and the operations on them, as pure operators |
| `BSkip` | the nodes, their locks and the threads that call the map |
| `BSkipMap` | what the map promises for `insert`, `value` and `exists` |
| `MCBSkip` | the workloads of the runs |
| `BSkip_proofs` | proofs about `BSkip`: types and the arrays of nodes |
| `BSkipLists_proofs` | proofs about its locks, lists, order, towers, and the map |
| `MapSpec` | what a concurrent map promises, for `BTree` and `NoHotSpot` |
| `BTree` | the B+ tree, its locks and the threads that call it |
| `MCBTree` | its workloads |
| `BTreeShape_proofs` | the invariant of `BTree`, proofs of what a step does to the tree, lemmas on keys in order |
| `BTree_proofs` | proofs about its threads, locks, order of keys and the map, and the theorems |
| `NoHotSpot` | the lock-free list, its callers, the background thread and the driver's phases |
| `MCNoHotSpot` | its workloads |
| `NoHotSpotList_proofs` | proofs of what changes of nodes do to the list of `NoHotSpot` |
| `NoHotSpot_proofs` | proofs about its threads and background thread, and the theorems |
| `NoHotSpotMap_proofs` | the proof that it implements `MapSpec` |

`RWLock` implements `RWLockSpec` (`ImplementsLock`), and `BSkip` uses a lock of
that shape per node without the names of the holders: `writer[n]` is set while
`announced` is not empty, `readers[n]` is the number of `readers`. `BSkip`
EXTENDS `BSkipNode`, and implements `BSkipMap` (`ImplementsMap`). `BTree` and
`NoHotSpot` implement `MapSpec`: an operation that changes the map takes effect in
one step, at a moment when the key's state allows it, and any other answers with a
state the key had while the call ran. `BSkip` has an abstract map of its own, because `exists`
may answer before an insert has ended.

A definition marked *(faulty variant)* is not part of any specification. It is
a plausible mistake in the definition that follows it; putting it in that
definition's place breaks the property it is listed with under `mutants` in
`PROJECT.json`. They show that each property can fail.

### RWLock and the code

`writer` is the `atomic_flag`, `counter[i]` the counter on line `i`. A thread's
`pc` is the access it makes next: `add`, `test`, `giveup`, `wait` are the four
of `read_lock`'s loop, `swap`, `sleep`, `sum` those of `write_lock`, `upgrade`
and `drop` the ones after the two outcomes of `test_and_set` in
`try_upgrade_release_on_fail`. `line`, `scan` and `total` are the locals
`cpuid % num_counters`, `i` and `total` of the partitioned counter. With
`NumCounters = 1`, `SumOneLine` and the test of the total are one load, and the
module is `ReaderWriterLock2`. Leaves have a `ReaderWriterLock2` (bskip.h:149),
internal nodes a `ReaderWriterLock` (bskip.h:417). The order of memory accesses is sequentially
consistent: the increments are locked instructions, which on x86 - the machine
the code is built for - order the relaxed load of the flag that follows.

### BSkip and the code

`heap[n]` is a node's record; its `num` is 0 until the node is in a list.
`pc[t]` says where a thread is in the hand-over-hand walk: `lock` (about to lock
`curr`, still holding `prev`), `drain` (the flag is set, readers are inside),
`handover` (both nodes locked, `prev` to be released), `visit` (only `curr`
locked). `phase[t]` is the loop of the operation it is in: `search`, `again`
(the second lock of an insert that found its key), `down` (after the key was
found above the leaves), `scan`.

The actions and the code of `bskip.h`:

| code | actions |
|---|---|
| constructor | `Init`, `EmptyList` |
| entry of `insert`, `value`, `find`, the scans | `StartInsert`, `InsertZero`, `StartRead` |
| lock and unlock along the walk | `ReadLock`, `WriteLock`, `Drain`, `Handover` |
| `while (next_header <= k)` | `MoveRight` |
| going down a level | `Descend`, `ReaderFound`, `Down` |
| `insert`, key found | `InsertFound`, `Again`, `Down`, `Overwrite` |
| `insert`, node has room / left half / right half / promoted split | `InsertHere`, `InsertLeft`, `InsertRight`, `PromoteSplit` |
| ends of `value` and `find` | `ValueHit`, `ValueMiss`, `ExistsHit`, `ExistsMiss` |
| leaf loops of the scans | `ScanOn`, `ScanEnd` |
| `parallel_for` of the drivers | `NextRound` |

**Grain.** A step is one lock operation, or everything a thread does on nodes
it has locked up to its next lock operation that can block. This is sound
because a node is read only under its lock and written only under its writer
lock (`WritesAlone` checks the writer's half), new nodes are locked and reachable only through nodes
that are locked until they are linked, and releasing a lock never blocks: a
release that ends a step could be later, but what other threads may do before
it they may also do after. `InsertRight` and `PromoteSplit` release one of the
two nodes in the same step in which they fill them, for the same reason.
`has_zero` is the one variable used without a lock; its only write is an action.

**Data.** Keys are small naturals, because their order is what the code is
about; `Inf` is the key of the end sentinels. Values are naturals; 0 stands for
`NULL`, which is what `value` returns for a miss and therefore also what a
caller sees of a stored 0 (no workload stores 0). `LevelOf` is `flip_coins`.

**History.** `must` holds the keys that were in the leaves when a call started,
and `known` those `exists` has reported; no guard reads them.

### BTree and the code

`heap[n]` is a node; `root`, `head`, `tail` are `root_`, `head_leaf_`,
`tail_leaf_`, and `Tree` (0) is the name of the lock on `root_`. `mode[t]` is
`read` for lookups and scans, `try` for `insert_start<true>` and `sure` for
`insert_start<false>`. `at[t]` is the node a thread locks or has locked last,
`path[t]` the locks it holds above it with the slot it took in each: one for
`read` and `try`, the whole way for `sure`. `carry[t]` is the new key and node a
split hands to the parent.

| code of `btree.hpp` | actions |
|---|---|
| entry of the operations, `length == 0`, `start == end` | `Start`, `ScanNothing` |
| lock and unlock along the way | `ReadLock`, `WriteLock`, `Drain` |
| at the root pointer | `EnterTree`, `ReadEmpty`, `TryEmpty`, `FirstLeaf` |
| `find_lower` and down | `Descend`, `DescendSure` |
| ends of `exists` and `value` | `Lookup` |
| leaf loops of the scans | `ScanOn`, `ScanEnd` |
| optimistic insert at the leaf | `TryPresent`, `TryInsert`, `TryUpgrade`, `TryRestart` |
| `try_upgrade_release_on_fail` and what follows | `UpgradeWon`, `UpgradeLost`, `UpgradeDrain`, `TurnBack` |
| pessimistic insert at the leaf | `SurePresent`, `SureInsert`, `SureSplit` |
| back up the path, `split_inner_node`, new root | `ClimbPast`, `ClimbInsert`, `ClimbSplit`, `NewRoot` |
| `parallel_for` | `NextRound` |

The grain is that of `BSkip`. One write goes to a node whose lock is not held: the
back link of the leaf behind a split one (`Relinked`). No operation that is
modelled reads back links, so it shows in no answer; `LeavesLinked` checks that
they end up right. `Contents` and `Chained` say what the tree holds; `must` (a scan's keys at its start)
is history. `stats_` (size and node counts) is left out.

### NoHotSpot and the code

`heap[n]` is a node: 0 the head, `1 .. used` in the order they got into the
list, `-n` the marker behind `n`, whose value points to the marker itself. A
value is a number; `NULL` marks a node deleted, `Self` - a pointer to the node -
removed. `idx[i]` are the index items, `top` is `set->top`. `left` and `right` are
`node` and `next` of `sl_do_operation` and `prev` and `node` of the background
thread.

| code | actions |
|---|---|
| index walk of `sl_do_operation` | `Start`, `GoRight`, `LandBefore`, `GoDown`, `LandBelow` |
| its loop over nodes | `StepBack`, `ReadVal`, `ReadNext`, `MeetDead`, `MoveOn` |
| `sl_finish_contains`, `_delete`, `_insert` | `FinishContains`, `FinishVain`, `GoAct`, `Delete`, `DeleteLate`, `Revive`, `Publish`, `Link`, `Retry` |
| `bg_help_remove`, by anyone | `HelpMark`, `HelpUnlink` |
| `bg_trav_nodes`, `bg_remove` | `BgWake`, `BgRemove`, `BgSpare`, `BgCount`, `BgWalk`, `BgTraversed` |
| the array `inodes`, `bg_raise_nlevel`, `bg_raise_ilevel`, new levels | `BgGather`, `BgGathered`, `BgLookAhead`, `BgRaise`, `BgRaised`, `BgClimb`, `BgNextLevel`, `BgClimbed` |
| `bg_lower_ilevel` | `BgLower` |
| phases of `ycsb.cpp` | `NextRound`, `Rebuild` |

**Grain.** A step is one read or compare-and-swap of a field that another thread
may change, with what the thread does alone around it. In `HelpMark` and
`HelpUnlink` a read and the compare-and-swap of the same field that is tried until
it succeeds, or only if the read allows it, are one step. Of the index
only the background thread's writes are steps: it is the only writer, and an
item is complete before the write that links it. The x86 order of the plain
reads and writes is taken as sequentially consistent.

**Memory.** No node, marker or item is used twice: `garbagecoll.cpp` defines
`MINIMAL_GC`, and the allocator it comes with is not modelled. Markers are
named after the node they are behind, since a node gets at most one.

**History.** `saw[t]` collects the states the key of `t`'s call has been in
during the call; no guard reads it.

## 3. Runs

| run | instance | properties | shows |
|---|---|---|---|
| `RWLock` | 3 threads, 2 lines; 90,896 states | `TypeOK`, `MutualExclusion`, `CountersExact`, `SumMissesNobody`, `ImplementsLock`, `AnnouncedEnters` | every interleaving of reads, writes and upgrades |
| `insert` | 3 threads, `MAX_KEYS` 2, 3 levels, keys 1-5; 55,356 states | structure, locks, linearizability (14) | neighbouring inserts that split on every level, next to lookups |
| `scan` | the same sizes, fair; 27,500 states | `ScansOrdered`, `ScansComplete`, `CallsEnd` | two scans past two inserts; no deadlock, no starvation |
| `rounds` | `MAX_KEYS` 3; 35,000 states | `SearchesStayLeft`, `NoStaleMiss`, `ImplementsMap` | insert, override and lookup rounds as in `test.cpp`, with lookups of a key while it is inserted or changed |
| `btree` | 3 threads, 2 slots per leaf and inner node, fair; 39,123 states | `TypeOK`, `TreeVerified`, `LeavesLinked`, `LocksExact`, `SlotsStay`, `ScansWhole`, `ImplementsMap`, `CallsEnd` | an empty, a growing and a full tree; splits of leaves, inner nodes and the root; won and lost upgrades; scans past splits |
| `nohotspot` | 2 threads and the background thread, fair; 43,068 states | `TypeOK`, `ListWhole`, `IndexSound`, `RemovedStays`, `ImplementsMap`, `CallsEnd` | an index of three levels is built, rebuilt and lowered past lookups; nodes are removed while neighbours come and go |
| `absent` | violation of `CallsEnd` | | finding 1 |
| `override` | violation of `KeysAscend` | | finding 2 |
| `range` | violation of `ScansComplete` | | finding 3 |
| `zero` | violation of `ZeroSeparate` | | finding 4 |
| `btreeBeyond` | violation of `ComparesSlots` | | finding 5 |
| `nohotspotLevels` | violation of `LevelsCounted` | | finding 6 |

**Bounds.** Two lines and three threads are the least with which a writer can
have summed a line that a second thread uses while a third uses the other one.
With two slots a node is full after one insert behind its header, so that every
kind of split happens on every level the workload promotes to; the `rounds` run
has three, so that a full node has an uneven half and rank 1 is neither the
first nor the last. Three levels are the least at which a promoted split is
followed by another one and a new node is the child of a new node. Towers of
height 1, 2 and 3 next to each other on both sides meet in the same nodes. `MaxInserts`
is what the workload needs and bounds only the pool of node names; `Work` bounds
the calls. Three threads are two writers that split neighbours and a reader that
passes between them. Where the system stops for good, the run says so: `rounds` and
`absent` run with `CHECK_DEADLOCK FALSE`, since an `exists` that misses keeps
its leaf locked (finding 1) and later inserts may wait for ever; in the other runs
the finished system stutters (`Finished`) and any deadlock would be reported.

The B+ tree is built by the rounds of one run, so that each meets the tree the
last ones left, in all the shapes they may leave it in: an empty tree, full leaves
under a parent with room, full parents. With two slots a node is full after two
inserts; an inner node of two is of even size, which is where `split_inner_node`
moves its middle, and it is split at each of its three slots. In the code a node
has at least eight slots; the number enters only through "full" and the middle. `MaxNodes`
is what the workload needs.

Seven keys are the least of which two loops' worth of items give a second item
over a node and a third level. The keys 4 and 5 come late, next to deleted
nodes without items, where removals meet inserts on both sides, a delete of the same
key, and a second insert of it. `Loops` bounds the loops of the background thread in a round; in the
round in which the driver waits for its index there is no bound. That round has keys enough for
the levels the driver waits for, which it takes from `LOAD_SIZE` and not from the keys that are in the
list: with many equal keys it would wait for levels that are never put on, which no run shows. `MaxNodes` and `MaxItems`
are what the workload needs.

**Fairness.** `AnnouncedEnters` assumes weak fairness of every step of a thread
that is inside a lock operation or inside the lock: the operating system runs every thread, the
holder leaves, and the two waiting loops (`writer.wait`, `while
(readers.get())`) keep looping. Starting a call and upgrading are not fair.
`CallsEnd` assumes weak fairness of each thread's steps. For a thread waiting for a
lock this says no more than that a lock which stays free is taken; that no thread is
overtaken for ever follows in the runs from the finite workload, not from the
lock, which makes no such promise.
`BTree` takes the same assumption. `NoHotSpot` assumes weak fairness of each
caller, of the background thread and of the driver: they are threads of one
process, and none waits for a lock. That a call may be sent round by other calls
is a property of the code; `CallsEnd` holds since these are finitely many. A search
that meets a claimed node must be able to help: its unlinking may lose to an insert in
front of it, and the background thread, which makes finitely many loops here, may not come by
again. The faulty variant that does not help (`MeetDeadOnly`) goes round for ever.

## 4. Findings

1. **`exists` of an absent key keeps its lock** (run `absent`). `find` returns
   `NULL` without the `read_unlock` that its hit and `value` have; the next
   insert into that leaf waits for ever.
2. **Overriding a key races with inserts** (run `override`). An insert that
   finds its key releases the node and writes at the old rank after locking it again;
   an insert in between moves the elements, and another key is overwritten. In an
   internal node the same window leads to another key's child (`Again`), whose first key
   is then overwritten; `KeysAscend` fails there too, for a round of `Put(4, 8)` and `Put(2, 8)` after
   `Put(4, 7)`, where both keys have towers. No passing run overrides keys next to inserts of new ones.
3. **`map_range` skips its lower bound** (run `range`): it tests `found`, which is
   never set, where `map_range_length` tests `found_key`.
4. **`exists(0)` finds the sentinel** (run `zero`): `has_zero` is written, never read.

5. **`value` looks past the slots of a leaf** (run `btreeBeyond`): it compares
   `leaf->key(slot)` without `slot < leaf->slotuse`, the test `exists` has. For a key
   above all others the slot holds no item, and when the last leaf is full it lies
   behind the array.
6. **Lowering the index strands nodes** (run `nohotspotLevels`): nodes that had an
   item on the lowest level only keep level 1 when that level goes. They never
   get an item again, and once deleted are never removed. Only the driver's rebuild
   resets their levels.

The passing runs keep clear of the first five: they do not override a key next to an
insert of a smaller one into the same node, do not start the B-skiplist's `map_range` at a key that is
there, do not look up 0, end with the `exists` that misses, and do not ask the
B+ tree for the `value` of a key above all others. Met on the way, without
a run: an insert that finds its key loses the nodes it allocated, still locked;
the largest key value is not usable, since the end sentinel has it;
`map_range_length` truncates its length to 32 bits; scans are not
snapshots, by design; the no-hot-spot scan returns a sum it never set to 0, and
its operation loop would take a sum of -1 for "try again"; `erase` of the B+ tree leaves the root
lock taken when the tree is empty and changes siblings whose locks it does not hold - no driver
calls it.

## 5. Proofs

The checked instances are small; the theorems hold for every value of the
constants that the named assumptions allow.

**`RWLock_proofs`** assumes a positive number of counter lines
(`CountersAssumption`) and finitely many threads (`ThreadsAssumption`), the
latter because the counters are compared with cardinalities. Its invariant
`IInv` is the conjunction of

* `TypeOK`;
* `FlagOwned`: the flag is set exactly while some thread has announced itself,
  and one thread at most has;
* `CountersExact`: every line counts the readers that counted themselves on it;
* `SumsNatural`: the sum of a writer so far is not negative, so that a line
  cannot cancel another one;
* `SumMissesNobody`: a sum that is still 0 has passed no line of a reader that is inside;
* `MutualExclusion`.

`MutualExclusion` alone is not inductive. When the sum is complete and 0, it
is `SumMissesNobody` that says nobody is inside; to keep that one when a line
is read takes exact counters and natural sums, and to keep it when a reader
enters takes the flag, which is set while anyone sums. The theorems are
`TypeCorrect`, `Inductive`, `Exclusion`, `NoDrift`, `NobodyMissed` and
`Refinement` (`Spec => ImplementsLock`: the initial state and every step map to
the abstract lock's, and `IInv` gives its guards).

**`BSkip_proofs`** assumes what the declarations of `BSkip` and `BSkipNode`
say of the constants: at least two slots, a key above all keys, at least two
levels, a level for every key, workloads of calls, and a pool of node names per
thread. Its invariant `IInv` is the conjunction of

* `TypeOK`;
* `Shaped`: a node has at most `MAX_KEYS` elements, its `next` is a node of its
  level and its children are of the level below;
* `Started`: a thread that inserts has drawn names for its new nodes;
* `Fresh`: names not yet drawn belong to empty nodes, and so do the new nodes
  of an insert on the level it is on and on those below.

That a node fits its arrays does not follow from types: `split_keys` moves a
tail behind what the new node holds, which fits because the new node is empty
(`Fresh`). `Fresh` is kept because an insert fills a new node only when it
leaves that node's level and never comes back to it, for which pointers must
stay on their level (`Shaped`). The argument has one lemma per array operation
(it keeps a node a node and changes `num` by so much), one for each of the four
ways to add a key, and one for each group of steps. The theorems are
`Inductive`, `TypeCorrect` and `Fits` (`Spec => []NodesFit`: the asserts on
`MAX_KEYS` in the code).

**`BSkipLists_proofs`** adds to the assumptions of `BSkip_proofs` nothing about the
constants. Where a theorem needs more than `Spec`, its statement names it, and what
it names is where a finding is:

| hypothesis | says | without it |
|---|---|---|
| `ExistsFinds` | no call of `exists` misses its key | finding 1: a lock stays |
| `OverridesAim` | every override writes where its key is | finding 2: a key is overwritten |
| `RanksKept` | an override that has its node again finds its key at the rank it kept | finding 2, and a search led to another key's child |
| `ZeroUnasked` | no `exists` asks for key 0 | finding 4 |
| `ValuesGiven` | no insert gives the value 0 | 0 stands for `NULL` |
| `InsertsOnce` | no two inserts of the workload have the same key, but for key 0 | with it `RanksKept` is a theorem |

The first three are about behaviours, the others about the workload. `RanksKept` holds in the
runs `rounds` and `insert`; the first of them overrides keys. It implies `OverridesAim`
(`RanksAim`). The converse fails: `insert_elt_at_rank` and `split_keys` leave old keys in the slots
that are no longer live, so an override may hit a slot that still shows its key but is not in the
node any more. That keeps the order of keys, but the value is lost, which is why the map
needs `RanksKept`.

The proof is a chain of invariants, each using the ones before it.

* `LInv` adds to `IInv` the links and the locks. `ListsWhole`, `WriterExact`, `ReadersExact` and
  `WritesAlone` say who holds what; none is inductive alone. A new node is reachable from above
  before it is in its list, and its flag is set by a thread that is not at it: if another thread
  could lock it, or drain it, both counts would be off. So whatever leads to a node leads to one
  that is in its list or has its flag set (`Linked`, `Ready`), the insert's nodes are flagged
  exactly on the levels below the one it is on (`Prepared`), and whoever holds a node holds one
  of a list (`HeldIn`). The end sentinels have no `next`, so no insert may come to one
  (`EndsGuarded`). The slots that are not live count too, since a stale rank may be used.
  Theorems: `LocksInductive`, `WritersExact`, `WritersAlone`, `NodesOnce`, and `ReadersAreExact` under
  `ExistsFinds`.
* `OInv` adds the order, under `OverridesAim`. A search trusts `next_header` and the key above a
  child. The child may not hold anything yet; `HeadIs` says with which key it will begin, which is the
  key of the insert it belongs to, and its flag keeps the search out until it does. `Aligned`
  and `Searching` say that parents and searches rely on it. Theorems: `OrderInductive`, `KeysInOrder`,
  `NextHeadersExact`, and the action properties `HeadersNeverChange` and `KeysRemain`.
* `TInv` adds the towers. A key is on all levels up to its own, unless an insert that is on its way down is
  `Placing` it; then it is on those the insert has left (`Growing`), and no second insert of it is placing
  (`Single`), because the second one meets the key on the topmost level of its tower. Theorems:
  `TowersInductive`, `TowersComplete`.
* `WInv` adds the ways down: a child that is in no list yet is the one its insert will fill next
  (`Filled`), a kept rank leads somewhere (`Resuming`), and a thread waits only for a
  lock behind the one it holds, by level and then by header (`Forward`). Theorems:
  `WaysInductive`, `ChildrenAligned`, `LocksOrdered` - nobody waits in a cycle.
* `DInv`, under `RanksKept`, adds that an override comes down to nodes which begin with its key.
  Theorems: `RanksAim`, `SearchesLeft`.
* `NInv` follows inserts to the call they come from. With `InsertsOnce` it gives `RanksKept`,
  since no insert ever finds its key: `NothingOverridden`, and all of the above without
  hypotheses on behaviours in `WholeWithoutOverrides`.
* `MInv` adds to `DInv` that calls are those of the workload and that the front sentinel has no value.
  `MapRefined` and `MapOfOneInsert` are `ImplementsMap`: an insert takes effect in the step
  that puts its key into a leaf or overwrites its value there, a lookup in the step that answers, and
  every other step is a stutter of `BSkipMap`. A split moves pairs of keys and values and loses none
  (`LeafPut`), and as a key has one place in the leaves (`Apart`), an override changes one pair of the map.
* `SInv` adds that a lookup bound to find its key has not passed below its topmost level before it is found.
  `exists` may report a key that is not in the leaves yet; what a later lookup relies
  on is that the key is on its topmost level by then (`Topped`), where no search misses it.
  Theorems: `NoLookupMisses`, `NoLookupMissesOneInsert` (`NoStaleMiss`).

Every invariant of the chain was checked by TLC on the instances of the runs before it was proved.

**`NoHotSpotList_proofs`, `NoHotSpot_proofs`, `NoHotSpotMap_proofs`** assume that the
background thread is none of the callers, that rounds are made of calls, that inserted
values are positive (`ValuesAssumption`: `sl_add_old` inserts the key itself, and
`NULL` would mark the node deleted), and that the bounds are numbers. The invariant
`IInv` is the conjunction of

* `TypeOK`;
* `NodesOK`: keys ascend along `next` (`Ordered`), `prev` leads to smaller
  keys (`WayBack`), head and markers are what they are for ever (`Fixtures`), and every
  node without a marker behind it is on the list (`StillLinked`);
* `HelpOK`, for callers and background thread between the two halves of
  `bg_help_remove`: the node is removed, and marked before it is unlinked;
* `ThreadOK` and `BgOK`: what each of them knows of the nodes in its
  variables at each place - the keys on either side of its own, that a node it links was the
  next one when it looked;
* `ItemsOK`: an index item is over a node that was in the list, and the top one over the head.

The argument is in two parts. The first knows nothing of threads: a step has one of six effects on
the nodes (`Quiet`, `Valued`, `Published`, `BackLinked`, `Marked`, `Unlinked`), and each
keeps `NodesOK` and undoes no removal. It needs that the list is a line: of two nodes that are linked one comes
first (`LinkedLine`), so no key has two nodes that are not being removed. `Linked` is a
recursive function over `next`; that its equation has a solution is proved from the nodes that are in every set
closed under `next`. The second part
shows that every step has one of the effects, and keeps what the actors know; all they know is
about keys and removal, which no step of another actor changes back. The theorems are
`Inductive`, `TypeCorrect`, `ListIsWhole` (`Spec => []ListWhole`), `RemovedStay`
(`Spec => RemovedStays`, an action property) and `MapRefinement` (`Spec =>
ImplementsMap`). For the last, `IInv` is strengthened by `SawOK`: when a thread is where it may
answer without changing anything, the state it answers with is among those the key had during its call.

**`BTreeShape_proofs`, `BTree_proofs`** assume at least two slots in leaves and inner
nodes, a number for the bound on nodes, rounds made of calls, and finitely many threads
(`ThreadsAssumption`, since `LocksExact` counts them). The invariant `IInv` is the conjunction of

* `TypeOK`;
* `TreeOK`: nodes in their bounds and half filled but for the root, one child more than
  keys, children one level below, leaves linked both ways, unused nodes blank;
* `LocksExact`;
* `Drained`: a lock a writer has and no longer waits for has no readers inside;
* for each thread `PlaceOK` (which modes and locks go with a place of the walk), `PathOK`
  (each node of its path is where the one above leads, the slots are those of the call's key,
  levels fall) and `CarryOK` (a split on its way up has a new node of the right level, and the path begins
  where there is room for it or at the root pointer).

`SlotsStay` alone is not inductive. A slot stays right because nobody else changes the node; that takes
exact locks and `Drained`, so that a writer that works is alone (`Exclusive`). Locks stay exact
only if no thread locks a node it holds already, for which levels must fall along
a path (`Apart`); and a split must never climb past the first lock of its path, which takes
the room the upgrade made sure of (`CarryOK`). The argument
follows these lines: a step changes only the node its thread works on, back links
apart, and never the level of a node (`StepTree`); it moves the
locks of its own thread as the counters say (`StepLocks`, `StepExact`); what it leaves
alone keeps the places of the other threads right (`OthersOK`), and each action
leads its own thread to a right place (`OwnOK`). The theorems are `Inductive`,
`TypeCorrect`, `LocksStayExact`, `SlotsStayRight`, `NodesStayFilled` and `LeavesStayLinked`.
`IInv` was checked on the instance of the run `btree` before it was proved.

The order of keys is a second invariant, `OInv`, which rests on `IInv` and goes around the recursion over the
tree in `TreeVerified`: there is a *span*, a set of keys, for each node, such that

* `TreeOrd`: nodes of a level have disjoint spans; the keys of a node are in its span and ascend; a leaf
  holds the last key of its span if there is one, and spans of leaves ascend along `next`; the child in a
  slot has the piece of its parent's span that `FindLower` sends there - unless a split of that
  child is on its way up to the slot (`CellOK`): then the two halves divide the piece at the carried
  key (`Divides`), for all the steps in which a parent does not know of half of its keys yet;
* `WayOK`: a thread's key is in the span of each node of its path, and a thread that climbs came from the
  slot it kept.

Spans belong to the proof, not to the code: a step that splits a node chooses new ones, with the
carried key as the last of the left half, and every other step keeps them or extends the root's to the new root.
Since spans may be any sets of numbers, TLC cannot evaluate `OInv`; it checks `TreeVerified` and
`LeavesLinked`. With both, `OrderInductive` gives `LeavesInOrder` (`LeavesLinked`) and
`TreeStaysVerified` (`TreeVerified`). The latter speaks only of nodes no split is on its way to
(`Settled`), and of `Below`, a recursive function over the tree: the
proof shows that its equation has a solution (`BelowIs`, the least function that is closed under it)
and that all keys below a node are in its span, by well-founded induction on levels (`FromBelow`).

`MapRefined` is the refinement of `MapSpec`. The pairs of the leaves are the map; as
leaves have disjoint spans and a thread's key is in the span of its leaf, what a thread finds in that leaf is the
state of its key in the whole map. An insert takes effect when its key goes into a leaf, whether the leaf is split
first, after or not at all. The theorem has two hypotheses: `ValuesGiven`, nobody
inserts the value 0, which answers "not there"; and `[]ComparesSlots`, `value` compares
no key beyond the slots of its leaf - finding 5 is that it does, and there it
may answer with whatever is in memory. `SetRefined` has no hypothesis on behaviours: without calls
of `value`, `insert` and `exists` implement the map.

**Only model-checked**: the liveness properties (`AnnouncedEnters`,
`CallsEnd`), since the prover has no rules for fairness; of `BSkip`, the two properties of scans; of `BTree`,
`ScansWhole`; of `NoHotSpot`, `IndexSound`. The properties of scans would need what a scan has collected
in relation to the node it has come to, through the splits behind it. The findings are counterexamples of TLC. Nothing in the
proof modules is left unproved.

## 6. Not modelled

* Inside the modelled files: the key-only variant (`traits::binary`), the
  destructor, the `STATS` counters and comparisons, `find_index_binary`
  (compiled out), the reports that walk the list after all threads joined, weak memory orders.
* B+ tree: `erase`, `bulk_load`, copying, iterators, `psum` and the reports: no
  driver calls the first three while other threads run. `stats_` is not kept.
* No-hot-spot list: the scan (its result is an uninitialised sum), deleting the
  set, `set_size`; the epoch scheme behind `ptst_critical_enter`.
* The leafDS B+ tree: its descent, locks and splits are close to those of
  `tlx-plain`; its leaves (a log of recent items, headers and unsorted blocks)
  would be a module of their own.
* Whole components: the table in section 1. Most of the repository's lines are
  in these: Masstree, parlaylib, tlx, folly's and the JDK's lists, generators and
  workload scripts, and copies of files modelled here.

## 7. What could come next

1. Proofs about scans, of `BSkip` and of `BTree` (`ScansWhole`). They need the sequence of keys a scan has
   collected in relation to the node it has come to.
2. Proofs about `NoHotSpot`: `IndexSound`.
3. The leaves of leafDS: log, headers and blocks against the set they stand for,
   over bounded sequences of inserts; then the tree over them.
4. `BSkipNode` against a reference: `find_index_linear` and `find_index_binary` agree on every
   sorted array, and the array operations on the sequences they stand for, over bounded inputs.
