# A verification project for buntils

buntils is a header library of containers, allocators, concurrency primitives,
parsers and numeric utilities (`src/include/buntils`), with a small compiled part
(`src/buntils`) and tests (`src/test`). It is not one program with one state: it is
some forty components, most of them sequential data structures and functions, and a
concurrent core that they share. This directory holds TLA+ modules for the concurrent
core, for the containers and storage classes, and for the functions that compute
(numbers, vectors, text, geometry, curves), TLC configurations for them, and proofs, for any
numbers of threads and sizes, of the safety of the concurrent core (the lock, the three
allocators, both queues, the pool and the thread) and of four containers: the list in an
array, the ring, the disjoint sets and the counted references.

Contents: [1 Inventory](#1-inventory), [2 Plan](#2-plan),
[3 Modules and code](#3-modules-and-code), [4 Runs](#4-runs),
[5 Fairness](#5-fairness), [6 Proofs](#6-proofs),
[7 What the models found](#7-what-the-models-found),
[8 What is not covered](#8-what-is-not-covered).

## 1 Inventory

### The concurrent core

| Component | State | Operations | Hard behaviour | What makes it correct |
|---|---|---|---|---|
| `RWLock` (RWLock.h) | one 64-bit word: writer flag and reader count | Lock, RLock, their Attempt forms, Upgrade, AttemptUpgrade, Downgrade, unlocks | readers increment first and look afterwards; upgrades compete | exclusion, an exact count, no lost writer, no deadlock between upgraders |
| `LocklessBlockAllocator` (BlockAllocMT.h, lockless.h) | tagged head of a stack of free blocks, chunks, grow flag | alloc, dealloc, Clear | reading a link that is no longer one; two threads that grow | a block has one owner; none is lost; growth on demand |
| `GreedyAlloc` (GreedyAlloc.h) | chunks, an offset, an `RWLock` | Alloc, Clear | offset taken before the chunk is looked up; replacement of the chunk | allocations do not overlap and lie in a live chunk |
| `CacheAlloc`, `CachePolicy` (CacheAlloc.h) | a hash from sizes to tagged stacks, an `RWLock`, the `GreedyAlloc` base | Alloc, Dealloc, reallocation | insertion into the hash against readers of it; shrinking | one owner, capacity at least as asked |
| `LocklessQueue` (LocklessQueue.h) | linked list with a dummy, three pointers, length | Push, Pop, destructor | garbage collection by the producer beside the consumer | first in first out, no freed node used |
| `MicroLockQueue` (LocklessQueue.h) | the same with a spin flag per side | Push, Pop, destructor | look without the flag at a node that may be freed | the same, and no flag left set |
| `ThreadPool` (ThreadPool.h) | `MicroLockQueue` of tasks, semaphore, busy count, worker count | AddTask, AddThreads, Wait, destructor, worker loop | sleeping workers against new tasks; shutdown | tasks executed, Wait means done, shutdown safe |
| `Thread`, `Semaphore` (Thread.h) | thread id | join with timeout, destructor | a join that times out and a later one | joined once; the timeout is kept |

They call each other downwards: ThreadPool pushes into MicroLockQueue, wakes workers
through Semaphore and owns Threads; the queues allocate nodes from a policy
(LocklessBlockPolicy for instance); CacheAlloc derives from GreedyAlloc; both hold an
RWLock. What is shared is memory, not messages: every model in this part has one action
per access to a shared variable.

### Containers and storage

| Component | State | Operations | Hard behaviour | What makes it correct |
|---|---|---|---|---|
| `LinkedArray` | slots chained by indices, a free list in the same slots | insertion before and after, Remove, SetCapacity, Clear | insertion that grows | indices stay valid; each slot in one chain |
| `ArrayCircular` | cells, index of the newest, length | Push, Pop, PopBack, Clear, SetCapacity | windows that wrap; objects constructed in raw memory | constructed exactly in the window |
| `AVLTree` | nodes with balances | Insert, Remove, ReplaceKey, Clear, Get | three results of a recursion interact | order, exact balances, a function |
| `AATree` | nodes with levels, a shared sentinel, two pointers kept by `_remove` | Insert, Remove, Clear | rebalancing touches the sentinel | order, levels, a bag |
| `TRBtree` | nodes with colours in a tree and in a list, duplicates in the list only | Insert, Remove, RemoveNode, Clear, Get, GetNodeNear | replacing a node by its neighbour in the list while others are only linked | colours, list equal to the order, a bag |
| `BinaryHeap`, `PriorityQueue` | array | Insert, Pop, Set, Remove(i), HeapSort | removal in the middle | order, a bag |
| `Scheduler` | BinaryHeap by time, clock | Add, Update | events that add events | runs what is due, in order |
| `DisjointSet` | array of parents and sizes | Union, Find, GetElements, AddSets, Reset, MinSpanningTree | compression while sizes are in the roots | a partition, low trees |
| `RefCounter`, `ref_ptr` | count; pointer | construct, assign, move, destroy | the drop may destroy what the assignment uses | counts equal pointers |
| `Hash` | keys, values and flags of open addressing, counts | Insert, Set, Remove, Get, SetCapacity, Clear, copy, iteration | deleted marks; a rehash inside the arrays it reads | a function, found through any history of marks |
| `ArraySort`, `Map` | sorted array of pairs | Insert, Replace, Remove, Discard, Set, Get, near lookups | searches with and without an exact match | sorted; a bag, a function for Map |
| `StringTable` | one array of characters, index of beginnings | from list, from stream, append | offsets of an appended table | the list of words |
| `Trie` | siblings and children in one array | construction, Get | siblings in order, shared prefixes, case | answers exactly its words |
| `LinkedList`, `LLBase` | ends and links | Add, Insert, Remove, Clear, copy | single-ended and double-ended forms | both directions agree |
| `Array`, `DynArray`, `CompactArray`, `Stack`, `RandomQueue` | elements in raw memory | insertion, removal, growth, ranges, assignment | which elements are alive; self-overlapping moves | a sequence (a bag), alive exactly below the length |
| `DynArray<bool>` | words of bits | the same, across words | shifting across word boundaries | a sequence of bits |
| `Graph` | vertices, edges in two lists each | add and remove, matrices, search, flows | an edge in two intrusive lists | lists agree; a maximum flow |
| INI storage | text, sections and entries in lists, hashes and arrays of instances | load, edit sections and entries, save, discard | one edit changes five structures | memory equals the text |
| `BitStream` | a partial byte for each direction, a stream | Write, Read, Flush, destructor | byte boundaries | reads what was written |
| `BlockAlloc`, `GreedyBlockAlloc`, `LocklessBlockCollection`, `StandardAllocator` | chunks with free lists in the blocks | allocate, deallocate, reallocate, Clear | a block freed into another class | memory has one owner |
| `Animation`, `AniState` | frames by time, an index, an end queue | Add, Remove, Interpolate, SetTime, loops | a step over several frames, or over the end | each frame fires once, each interval begins and ends once |

### Functions

Bits and integers (buntils.h, BitField.h), both builds of the SSE vectors (sseVec.h),
vectors and matrices (vector.h), Rational, FixedPt and Dual, Unicode conversion and the C
helpers, geometry and collision tests, flows on a Graph, algo.h with AliasTable, and the Serializer
with its JSON, TOML and UBJSON engines, which read back what they write. Each
is correct when it gives what its mathematical definition does; what is hard is the
boundary: overflow, the last unit of a buffer, a lane that is signed or not, parallel
lines, the last iteration.

### Everything else

The XML classes, TOML's values of any kind, streams, Logger, Profiler, KDTree, Delegate and
Variant, Str, generators of random numbers, the platform layer, and the vendored khash: see
[8](#8-what-is-not-covered).

## 2 Plan

Order: the lock first, because two allocators rest on it; then the allocators and queues,
because everything concurrent is built from them; the pool and threads; then the
containers, in the order of how much they keep redundantly; then storage (INI, BitStream),
and the functions that only compute, each against its definition. All of these are done.

An abstract specification is stated where a component makes a promise to another one:
RWLockSpec (refined by RWLock, used by both allocators) and FifoQueue (refined by both
queues, whose spurious "empty" ThreadPool has to live with). The sequential classes are
compared with a mathematical value (`want`) instead.

The theorems follow the same order: the lock and its refinement, the allocators over the
lock's specification, both queues and their refinement of FifoQueue, the pool and the
thread; then the four containers whose operations need no recursion over data. Every safety
property of the passing runs `rwlock_safety`, `lba`, `allocators`, `queues`, `threads` and
`containers` is stated by a theorem; what is left to TLC in them is liveness.

Left: of theorems, the structures of MCStructures, whose operations are recursive; of
components, XML, then the profiler's tree of zones.

## 3 Modules and code

The map from each definition to its lines is in `PROJECT.json`. The correspondence in
words:

**RWLockSpec** is what callers may rely on: grants (`held`) and the writer that new
readers yield to (`claim`). **RWLock** is the code. `flag` and `count` are the top bit
and the rest of the word `l`; they are two variables that one action changes together,
because each atomic operation of the code changes the word at once. `pc` names the place
inside an operation or what the thread holds between operations. A poll that finds
nothing changed is a stuttering step, so the action is the poll that succeeds.
**RWLockSnapshot** adds a history variable (`overtaken`: another writer got in since this
thread began to read) without changing any step.

**LocklessBlockAlloc**, **GreedyAlloc**, **CacheAlloc** have an action per access to
shared memory, in the order of the code. A free block's first word is its `link`; in a
block that a client owns the word is `Data`, so that following a stale link is visible.
GreedyAlloc and CacheAlloc use the lock through RWLockSpec, which RWLock is proved to
implement, except that CacheAlloc models the two ways through `Upgrade` explicitly,
because it matters which one is taken. CacheAlloc's `forgotten` is a history of blocks
whose stack was overwritten: after a contended Upgrade the lookup is stale and `Insert`
replaces an entry another thread made, and what was on its stack is never handed out
again. It is a leak until the allocator is destroyed, not a double use; the property
says exactly that.

**FifoQueue** is the promise of both queues. **LocklessQueue** and **MicroLockQueue** are
the code; a freed node goes back to a finite pool and is reused at once, so that a stale
pointer is to a node with another item. In MicroLockQueue the consumer's first look at
the queue is without the flag, as in the code. **MCQueues** runs one or the other and
maps the items behind `_div` to FifoQueue's queue.

**ThreadPool** counts tasks instead of telling them apart. Its queue may answer "empty"
although tasks are queued, in exactly the case in which MicroLockQueue may: another
thread popped since this Pop began (`raced`). A running task may add tasks. **Thread** is
one object, its thread and the clock, in ticks; `PerSec` ticks make a second, and the
deadline is the pair that the code builds. The rule that a deadline with too many
nanoseconds is refused is the system's, and external. **MCThreads** runs a pool or a
thread.

**The containers.** Each module has the fields of the class, an action per public
operation that changes state, with everything the operation calls, and two histories:
`want`, the abstract value by the calls made, and `right`, whether every result so far
was the one the abstract value gives. Where the code follows pointers (Find's way to the
root, a list's links, the drops of `ref_ptr` that fall through members) the model has the
function from a number of steps to the place they lead to, so that it can be proved about.
Trees and the heap follow the code's recursion and
loops as operators on values; AATree keeps its nodes in a memory, because its functions
change nodes through references and one node, the sentinel, is shared. Node addresses
mean nothing in it, so each operation renumbers the nodes in order.

Preconditions taken from the code or its callers, each a guard or a history:

- `BinaryHeap::Remove(i)` only percolates down. When the last item comes from another
  branch and belongs above the gap the heap is out of order afterwards; `misplaced`
  records such a removal and the order property speaks of the others. Scheduler and
  PriorityQueue's Discard only remove index 0.
- `Scheduler::Update` takes whatever is in front after the event returned for the event
  it called, and keeps an event whose result is negative, which the comment above the class
  does not; `want` follows the comment, `astray` records either, and the model ends there.
- `LinkedList` without a last node puts in front what Add is given, against the comment above
  Add; its `want` does as the code, so the property says what order such a list has and not
  that the comment is right. In the other form it appends, as the comment says.
- `BitStream`: a read of whole bytes that ends with the stream peeks past it, so the stream
  fails and closing it does not write what is left in `_buf`; `Agrees` allows for those bits
  alone. Bits that the last byte is filled up with when it is closed are not counted.
- `AATree::_remove` reads `_deleted` before anything set it; `wild` records it and the
  model ends there. After Clear only the destructor may follow.
- `ref_ptr` assignment drops first; `careless` records a call in which nothing but the
  reference being dropped kept the new object, or the pointer itself, alive.
- `DisjointSet::Union` of a set with itself is never called: its users compare first.
- `ArrayCircular::Push` needs a capacity; `LinkedArray` indices are ones it returned.

**MCAllocators** runs one GreedyAlloc or one CacheAlloc; the lock is shared. It extends
GreedyAlloc. As in MCQueues and MCThreads, the theorems are about the specification that
the run checks.
**MCContainers** runs one LinkedArray, ArrayCircular, DisjointSet or family of ref_ptrs per
behaviour; the theorems about them are about its specification. A variable that several
modules declare is one variable; the variables of the other classes are 0. The trees, the
heap and the scheduler run in MCStructures.

**The structures.** The modules below share one shape: a variable `obj` (each module has
its own name for it) that is the object as a record of its fields, the operations as
operators from one value of the record to the next, actions that apply them and keep the
histories `want` and `right`. **MCStructures** runs one object, or one evaluation, per
behaviour, as its `kind` says.

- **Hash**: a cell is Empty, Deleted or a pair. Probing, the marks and the rehash in place
  with what it kicks out are loops of the code as recursive operators; the hash function is
  one with collisions, both in a table of 4 and in one of 8. **SortedArray** has
  ArraySort and Map over the binary searches of algo.h, which are in **Numbers**. **Words** has
  StringTable and Trie; a Trie is built from any list of distinct words and then asked for
  every word.
- **LinkedList** has LLBase's functions on ends and links and the list classes over them;
  **TRBtree** uses its list functions for the thread through the tree. A node's value is its
  number, so where it is allocated is not a choice.
- **DynArray** has Array, DynArray, Stack, CompactArray and RandomQueue over raw memory,
  in which a cell is Raw while no object is in it, and the packed `DynArray<bool>` (its form
  "bool"), whose fresh words hold BitJunk.
- **Graph** has the lists of edges, both constructions from a matrix, the search, and
  push-relabel with the two reductions of a circulation to it. A run that would loop for
  ever is given up at a height no correct run reaches.
- **INI** has the nodes of sections and entries, and the text as a sequence of lines; an
  edit changes both, with the code's search of the text, which compares only as many
  letters as the shorter name has. The property that a saved text reads back as what is in
  memory speaks of names of which none is a prefix of another (`Careful`), in sequences
  that leave out what section 7 lists.
- **BitStream** has bytes of W bits, the writer's and the reader's partial byte.
- **BlockAlloc** has the four allocators of one thread; blocks and chunks have addresses,
  so overlap can be seen. **Animation** has an animation of three tracks and the state that
  plays it, with the end queue as the heap it is.
- **Serialization** has the Serializer with its JSON, TOML and UBJSON engines, as functions from a
  schema and a value to a text and back. A schema stands for what a C++ type hands to the
  engine (a number of some width, a truth value, a string, a list, a fixed array, a tuple, a
  struct, a value of any kind). Readers are given the text and a place and return a value and
  the next place; they are mutually recursive, as in the code. TOML's state (root, header of a
  table or of an array of tables, value) is a parameter of its readers.
- **Numbers** (behind the numbers, algo.h and AliasTable.h) and **Vectors** (behind the vectors,
  the SSE lanes, and the shapes of Geometry.h with the tests of Collision.h) have functions
  only, and **Words** has the conversions of Unicode. Each part has its `Inputs`, the arguments
  that are enumerated, and its `Right`, which compares what the code computes with a definition written independently of it:
  words narrowed to a few bits against arithmetic, SSE lanes of narrowed bytes against each
  lane's number, products and inverses against sums, conversions against the scalar values
  of a text, tests of shapes against the sets of points, splines against their matrices. Where
  the code divides or takes a root, fractions and squares are exact, so rounding is not part
  of these models. Operators in them that bear a function's name follow its statements.

## 4 Runs

| Run | Shows | Bounds |
|---|---|---|
| `rwlock_safety` | exclusion, exact word, refinement of RWLockSpec, readers' snapshots stay valid; the flag's owner gets in and concurrent upgrades do not deadlock | 4 threads: two that compete for the flag, a reader, and one in the middle of a retraction |
| `rwlock_upgrade_comment` | violation: an Upgrade that meets another writer's flag releases the read lock | 2 threads |
| `lba` | one owner per block, growth on demand, every call returns | 3 threads, first chunk of 1 block, 7 blocks (chunks of 1, 2 and 4), 7 tags: a block can be popped, pushed and popped again under another thread's read |
| `allocators` | GreedyAlloc: allocations sound, the upgrade sees a full chunk, none is wasted; its calls return; CacheAlloc: one owner, capacity, no reference outlives a rehash | GreedyAlloc: 3 threads, 3 calls, 1 Clear, sizes 1 and 5 at an initial size of 4: one fits, the other never does at first. CacheAlloc: 2 threads, two cached sizes and one malloc'ed, 3 blocks, 8 tags |
| `cache_assert` | violation: the size given to Dealloc is not the one allocated | 2 threads |
| `queues` | both queues implement FifoQueue, no step but the unlocked look uses a freed node, length, every call returns | 3 items and 4 nodes, the dummy included, so that nodes are reused while others still look at them; 2 threads that push and pop; length modulo 8 so that it wraps below zero |
| `threads` | Wait means done, busy count, no orphaned task, shutdown; joined once, a timed join returns | 2 workers and a third that may be added, 3 tasks in batches of up to 2; 4 ticks a second, timeouts below, at and above a second |
| `thread_timeout` | violation: a timeout fails before it is over | the same, with one worker |
| `containers` | structure and abstract value of the list in an array, the ring and the disjoint sets, and safe counted references, after any sequence of calls | see below |
| `structures` | structure and abstract value of the trees, the heap, the scheduler and twelve more classes after any sequence of calls; a Trie finds its words; the functions compute what their definitions say | see below |
| `scheduler_peek` | violation: Update peeks at an empty heap | the same |
| `convex_comment` | violation: a point on an edge does not count as inside | triangles with corners in a small grid |

`containers`: arrays of up to 4 cells reach a ring that is empty, full, wrapped, and
grown while wrapped, and a list that grows twice; 5 elements give partitions whose trees have
height 2; 3 objects with one member pointer each and 2 local pointers reach chains, cycles and
an object that is destroyed from inside an assignment to its member. The theorems of section 6
say the same for any bounds.

`structures`: 7 keys give AVL trees of height 4 with
all four rotations and removals that rotate twice; up to 10 AA nodes over 3 keys give
trees of level 3 with repeated keys; 6 heap items give three levels and a removal in
another branch; all arrays of up to 5 items are sorted; 3 events on a clock up to 3 may be
due together, late or never; 5 keys with 2 values each, so that an overwritten one shows, over at most 8 buckets, two
of which always collide, fill a table with
pairs and marks until it is rehashed in place; sorted arrays of 4 pairs over 3 keys hold each
key several times; 5 values, each twice, give red-black trees of black height 2 with all
repairs and duplicates in the list; lists of 4 nodes, arrays of 4 cells (2 of them inside
the object for CompactArray), 6 bits in words of 2; graphs of 3 vertices and 3 edges, flows
on 4 vertices with capacities up to 2; INI files of 5 lines with a section and a key that
may each occur several times; 9 bits in bytes of 3; chunks of 2 blocks and 24 bytes in all;
animations of up to 2 frames a track with times up to 2 and steps up to 3, so that one step
may pass frames, the end and the beginning of the next loop. The sets of arguments of the
functions are named after `Inputs` in each module.

All other bounds (`MaxBlock`, `MaxTag`, `MaxItem`, `MaxCalls`, ...) are named in the
modules and stop new calls only, never a call in progress. Deadlock is checked everywhere
but in the runs of MCStructures, in which a behaviour that only evaluates a function ends
after it.

What the properties mean is said above each of them. The ones that took several actors
to think of breaking: `SnapshotStable` and `UpgradeSeesFullChunk` (the caller's knowledge
across an upgrade), `EachBlockOnce` (the tag), `GrowsOnDemand` (second look under the
flag), `NoChunkWasted` (offsets added in vain), `TasksExecuted` (the queue's spurious
"empty"), `ShutdownSafe`, `FifoSpec`, `SafeIfCareful`. In the sequential classes it is
`HoldsWhatItShould` together with `WellFormed` over every sequence of calls: a mark in a
hash, a duplicate in a tree's list or an instance in an INI section shows only several
calls after the one that went wrong.

## 5 Fairness

- `RWLock`: weak fairness of every thread's steps inside an operation, and of releasing
  what it holds: threads are scheduled, and critical sections end. Calls are not fair.
  Both liveness properties assume `KnockingEnds`: AttemptRLock adds to the count without
  regard for the flag, and callers that retry it for ever can keep a writer out.
- `LocklessBlockAlloc`, `GreedyAlloc`, the queues: weak fairness per thread inside
  an operation. Nothing makes a spin or a compare-and-swap fair; operations return
  because the bound on calls ends the competition. A single thread may lose for as long
  as others keep winning, as in any lock-free algorithm, and nothing else is claimed.
- `ThreadPool`: the owner's steps in Wait and the destructor and each worker's steps are
  weakly fair; whether anybody adds a task, waits or closes is not.
- `Thread`: the clock runs, and a join that can return does; the thread itself may never.
- CacheAlloc, the containers and the structures have safety properties only; all but the
  first are sequential.

## 6 Proofs

### The lock

`RWLockProofs` is about RWLock with any finite set of threads (`ThreadAssumption`, which
the runs evaluate).

- `Invariant`: `IInv`, that is `TypeOK /\ CountExact /\ FlagExact /\ MutualExclusion`, is
  inductive. None of its conjuncts is alone: that a writer which reads a count of 0 (or an
  upgrader which reads 1) is alone needs the exact count; that no other writer is at the
  same place needs the single owner of the flag; and that the flag is cleared only by its
  owner needs both.
- `TypeCorrect`, `Exclusion`, `WordAccounts` follow from it. `TypeOK` includes that the
  count never goes below zero, that is, that no `fetch_sub` borrows from the flag.
- `Refinement`: `Spec => AbstractSpec`. The refinement mapping is `held` (what a place
  inside an operation has been granted) and `claim` (the owner of the flag). Each action
  maps to one abstract action or to a stutter; `StepRefines` goes through them.

- `SnapshotsHold`: `SnapshotSpec => SnapshotStable`, an action property of RWLockSnapshot. With
  the invariant, who reads has not been overtaken (`Unspoilt`): a thread comes to read only by
  a step that begins a reading (`ReadingBegins`), and exclusion after a step forbids that
  another one got in with it (`NobodyGetsIn`). This is the sentence that GreedyAlloc relies on.

The lemmas `CountedStep` and `CardinalityStep` carry all reasoning about cardinalities:
one thread's step moves at most that thread in or out of the counted set.

### Lists of blocks

`FreeLists` is about links alone and knows of no allocator. `ListOf(B, null, links, p, F)` says
that from p the links run through each block of F once and end at null. `Popped`,
`PushedOne` and `SameLinks` say what taking the first block off, putting one on top and
changing other links do to a list. `ListIsChain` says that following the links step by step,
as the invariants of the models do with recursive functions, meets exactly the blocks of
the list. It is an induction over the steps, made by `Least`: a first step at which they
differ cannot exist.

### GreedyAlloc

`AllocatorProofs` is in two parts. The first is about GreedyAlloc with any set of threads,
sizes, alignment and bounds on the number of calls (`Assumptions`), over the lock's
specification. With `Refinement` above it holds over the lock's code as well, as far as its
calls go through AcquireRead, Claim, Enter, Leave and ReleaseRead.

- `GreedyInvariant`: `IInv` is inductive. It adds to `AllocationsSound` what the code relies
  on without saying: `LockInv`, that a thread's place tells what it holds of the lock and
  that a writer is alone; `ListInv`, that Clear's loop runs only when nothing is in use;
  `OffsetInv`, that what a thread added to `_curpos` and has not yet used is below `_curpos`
  and apart from what any other thread added; and `LiveInv`, that memory in use in the newest
  chunk is below `_curpos` and apart from all offsets that are held. Without the last two an
  offset that was handed out before the chunk was replaced could be used in the new one.
- `GreedySound` (`AllocationsSound`), `GreedyFullChunk` (`UpgradeSeesFullChunk`) and
  `GreedyTypeCorrect` follow from it.
- `ChunksAreUsed` (`NoChunkWasted`) is an action property and needs one invariant more,
  `WasteInv`: when `_curpos` is not 0 then somebody uses the chunk, or the thread that got
  offset 0 is about to, or it asks for more than the chunk has. So who replaces a chunk that
  nobody uses is serving a request that did not fit. `RootLeft` is that step.

There is one lemma for each part of the invariant (`TypeStep`, `LockStep`, `ListStep`,
`OffsetStep`, `LiveStep`, `WasteStep`), with a step for each action. `WriterAlone` is what they
all use of the lock.

### CacheAlloc

The second part of `AllocatorProofs` is about CacheAlloc with any set of threads, any
sizes, any number of blocks and any bound on tags (`AllocatorAssumption`), over the lock's
specification. `EitherInvariant` says that `EitherInv` is an invariant of what the run checks,
which for a CacheAlloc is `CacheInv`, the inductive conjunction of

- `CacheLockInv`: a place tells what a thread holds of `_cachelock`, and a writer is alone;
- `CallInv`: what a place says of the arguments and results of the call. The stack a call has
  found is still in the hash, and a client never owns less than it asked for;
- `StacksInv`: there are disjoint sets of blocks, one for each size, such that the links below
  each stack's head run through its set; nobody else holds these blocks, and a block of a
  cached size that was not lost by an insertion is in one of them or with one thread;
- `WatchInv`: a head that has the tag a thread has read is the head it has read, and for a
  popping thread the link it read is still that of the top block. This is where the tag
  counts. An insertion sets a stack's tag back to 0; it does no harm because it happens
  under the exclusive lock, so that nobody has an older head in its hands (`InsertAlone`);
- `MadeInv`: blocks are carved in order.

The steps of a stack are lemmas of their own (`StacksCarved`, `StacksFreed`, `StacksInserted`,
`StacksPopped`, `StacksPushed`, and `StacksKept` for every other step). `EitherTypes`,
`CacheBlocksOnce` (`EachBlockOnce`), `CacheReferences` (`ReferencesStable`) and
`CacheCapacity` (`CapacitySuffices`) follow. As in the model a tag is a number without a greatest
value, where the code has 64 bits, and blocks that an insertion forgets are counted as
forgotten: the theorem says that they are never handed out twice, not that they come back.

### LocklessBlockAlloc

`LocklessBlockAllocProofs` is about LocklessBlockAlloc with any finite set of threads, any
sizes of chunks and any bounds (`SizeAssumption`, `NullAssumption`, `ThreadAssumption`, which
the run `lba` evaluates). As in the model a tag is a number without a greatest value, where
the code has 64 bits. It uses `FreeLists`; `Pushed` and `StackIsChain` extend it to runs of
blocks and to the model's `Chain`.

- `StackInvariant`: `IInv` is inductive. `StackInv` has the list below the head and the
  disjoint blocks of clients and of pushes. A pop is right because of `HeadInv`: the tag a
  thread has loaded is never above the head's, equal tags mean that the head is the one
  loaded, and then the link a popping thread has read is still that of the top block. This
  is where the tag counts: the pointer alone may be back with another link below it. A push
  is right because of `PushInv`: what is pushed is linked downwards and ends at the loaded
  head. That these last while others change links needs the blocks to be apart.
- `BlocksOnce` (`EachBlockOnce`) and `TypeCorrect` follow from it.
- `GrownOnDemand` (`GrowsOnDemand`, an action property): only the look under the flag sends a
  thread to the addition (`Decided`). The list it saw was empty, so by `StackInv` each block
  is a client's or being pushed (`AllTaken`), and `FlagInv` has one thread at most behind the
  flag. Blocks freed after that look are not counted: the code does not look again.

### The queues

`QueueProofs` is about MCQueues, that is, both queues, for any finite set of threads, any number
of nodes and items, and any width of the length (`Assumptions` of both modules). `QueueInv`
is inductive. In it a queue is a sequence of distinct nodes `s[0]`, ..., `s[n]`, each linked to
the next one.

- `SpscInv`, of LocklessQueue: the sequence runs from `_first` over `_div` at place d to `_last`;
  the free nodes are all others, but for the one the producer is about to link; a consumer
  that is between its look and its unlinking still has something behind `_div`; and the length
  is n - d, but for a call on either side that has not counted yet.
- `MpmcInv`, of MicroLockQueue: the sequence runs from `_div` to the node linked last. `Flags`
  says which places have which flag; `Hand`, what a thread has in its hands there; `Links`, that
  `_last` is at the end unless the producer with the flag has still to move it; `Apart`, that each
  node is free, in the list or in one thread's hands; `Counted`, that the length differs from
  n by the calls that have taken or linked and not yet counted, modulo the width. No other
  thread appears in `Links` and `Apart` than those at such places, which is what
  makes a consumer's step independent of the producers'.
- `QueueTypes`, `QueueMemoryIsSafe` (`NodesSafe`) and `QueueLengthTracks` follow. `Uses` of
  each queue names the nodes that a thread's next step reads, links, moves to or frees; all of
  them are live. The one step it leaves out is the look without the flag in MicroLockQueue's Pop
  (LocklessQueue.h:182), which does read nodes that are free or reused (`PopLook`); whoever goes
  on from it looks again with the flag, where only live nodes are.
- `QueuesAreFifo`: `Spec => FifoSpec`. With the invariant a step either leaves the items behind
  `_div` alone, appends one, takes the first, or empties the queue (`Moves`): pushing takes
  effect where the node is linked, popping where `_div` moves. The model finds the items by
  following links from `_div`; `WalkIsList`, `WalkEnds` and `WalkMeets` say that
  this meets the sequence.

Lengths are counted modulo a width: `ModAdd`, `ModUnique` and `ModStep` are what that needs, from
`Euclid`, which is proved here, because the provers know no more of `%` than its definition.

### The pool and the thread

`ThreadProofs` is about MCThreads: a pool with any finite set of workers and any bounds on
tasks, or a Thread with any timeouts (`PoolAssumption`, `JoinAssumption`). `ThreadInv` is
inductive.

- For the pool it has the places of the owner and of the workers (`PcInv`), a call of AddTask in
  progress (`CallInv`), the busy count (`BusyInv`) and the worker count (`RunInv`): `_run` is the
  number of workers until it is negated, and then minus the number of those that have not gone;
  and it is negated only when the busy count is 0 and stays there.
- The busy count is a sum over three sets: tasks queued, tasks being executed, and those counted
  by an AddTask that has not pushed them. `Executing` and `Unpushed` are sets of pairs of a thread
  and a number; `CountPairs` and `CountBoth` say what a step of one thread does to their sizes.
- `ThreadTypes`, `BusyCountIsExact` (`BusyExact`), `ShutdownIsSafe` (`ShutdownSafe`) follow, and
  `WaitReturnsWhenDone` (`WaitMeansDone`), an action property: Wait returns only when no task is
  queued, executed or on its way (`NoneLeft`).
- For the thread, `ThreadIsJoinedOnce` (`JoinedOnce`): it is joined when its function is over, and
  once. The clock has to reach a second (`PerSec <= MaxNow`), which the deadline's type needs.

### The containers

`RingListProofs` and `ContainerProofs` are about MCContainers with any values, elements, objects
and references, and any bounds (the `Assumptions` of the four modules, which the run
`containers` evaluates: the bounds are numbers, objects and references are finitely many and
told apart). `ContainerInv` is inductive; it has one part for each class.

- `RingInv`, of ArrayCircular: a cell is judged by how far back it is from the newest one
  (`Back`). If that is less than the length, it holds that item of the abstract queue, and if
  not, no object. Growing a ring that wraps moves its two ends apart; `TwoPieces` says that every
  cell of the new array then is as far back as it should be, and `OnePiece` the same of one that
  does not wrap.
- `ListInv`, of LinkedArray: the entries of the abstract list, each with its slot, are linked in
  both directions in their order, and the free list (`ListOf`, of `FreeLists`) runs through
  exactly the slots no entry has. Without the second part an insertion could reuse a slot that is
  in the list; without the first a removal could not tell which links to change. `LinkKeeps`
  is what both insertions have in common, and `Follow` and `Chain`, which the properties
  use, are shown to meet the entries.
- `SetsInv`, of DisjointSet: there is a rank of each element, which no variable holds. It grows
  from each element to its parent, so a way up ends; each set of the partition has one root, whose
  cell has the size; and 2 to the rank of the root is at most the size. Path compression changes the
  ways but not the ranks (`FlatterForest`), and a union puts the smaller set under the other root
  and may raise that root's rank by one, because the size has at least doubled then
  (`JoinedForest`). Ranks stand for heights because they say that there are no cycles too, and
  because a compression, which changes the heights of many elements at once, leaves them alone;
  `PathLength` gives back what `Weighted` says of the ways in the array.
- `RefsInv`, of RefCounter: unless undefined behaviour has occurred, the count of every object is
  the number of references to it that exist, and an object is alive while that is not 0. A drop
  falls through objects with one reference, each of which holds the next (`DropFalls`); so
  what it destroys is pointed to by the dropped pointer and by destroyed objects only
  (`DropSpares`), and the counts are exact afterwards but for that pointer (`DropKeeps`).
  Nothing that it destroys is kept by the caller's other references (`DropCareless`): if it is
  the owner of that pointer or the object to be assigned, the call was `careless`.

`ContainersTyped` (`TypeOK`), `ContainersWellFormed` (`WellFormed`), `ContainersHold`
(`HoldsWhatItShould`) and `CountedSafe` (`SafeIfCareful`) follow. Inductions over the steps of a
way are made with recursive functions and a least counterexample, as in `FreeLists`.

### What is only model-checked

- All liveness: `OperationEnds` of the allocators and the queues, the lock's `OwnerEnters` and
  `SomeWriterEnters`, `TasksExecuted` and `DestructorReturns` of the pool, `JoinReturns`. It
  rests on fairness and ENABLED.
- The trees, the heap, the scheduler, the hash and the other structures, the storage and the
  functions: the three invariants of `MCStructures`. Most of its modules use recursive
  operators, as the code has recursive functions, and what these compute for every input is an
  induction over data.

## 7 What the models found

By runs that expect a violation:

- The comment above `Upgrade` (RWLock.h:110) says the read lock is not released. It is
  when the flag is set already, be it by another upgrader or, as in TLC's trace, by a thread
  that came through AttemptLock: that one writes before the upgrader does (run
  `rwlock_upgrade_comment`). CacheAlloc relies on the lookup it
  made before: its entry may be overwritten (see `forgotten` above).
- `CachePolicy::allocate` returns memory of a reallocation that shrinks under the new
  size, against the assertion in Dealloc (run `cache_assert`).
- `Thread::join` does not carry nanoseconds into seconds (run `thread_timeout`).
- `Scheduler::Update` peeks at an empty heap (run `scheduler_peek`).
- `ConvexPolygonContainsPoint` compares the side of each edge with that of the closing edge
  in the other direction, so points on edges, and inside, are refused (run
  `convex_comment`).

Met while modelling, and modelled as the code has it. The properties of the other runs
speak of the cases apart from these, and say so where they are stated:

- *Concurrent core.* ThreadPool::AddTask with 0 instances reads `_threads` while AddThreads
  may reallocate it; a pool without workers executes nothing, and Wait spins on its busy
  count for ever; MicroLockQueue's Pop and Peek read the dummy node without the flag, when another
  consumer may have freed it (LocklessQueue.h:182, 205); LocklessBlockAllocator::Clear gives its flag up before the new chunk is
  built, and must not overlap with anything.
- *Against a comment.* The comment above Scheduler (Scheduler.h:11-12) says that an event which
  returns more than 0 is scheduled again; Update keeps all but those that return exactly 0
  (Scheduler.h:44), and one that returns a negative number is due again in the same call.
  LinkedList::Add says it appends to the end (LinkedList.h:197), and Insert the same before a null
  node (LinkedList.h:208); without `useLast`, the default, both put the item in front, and a copy
  is reversed.
- *Scheduler, sets, trees.* An event that adds another one due at the same instant is moved
  from the front of the heap, and Update removes or reschedules the added one in its place;
  adding may also make the heap's array grow while the event's function object is
  executing; DisjointSet's copy constructor copies `size()` bytes, not elements; AVLTree's
  ReplaceKey onto a key that exists drops the old data; AATree::Clear frees the nodes but leaves the root; BinaryHeap's
  constructor from a span heapifies the source; LinkedArray's move constructor assigns to a
  constant; TRBtree's GetNodeNear with `before` false may return a duplicate of a smaller
  value, and the sentinel on an empty tree; the move constructor of TRB_NodeBase sets the root
  where the first node is meant.
- *Arrays.* `DynArray<bool>::_shiftInsert` carries the word it has already moved, so
  inserting is wrong from the third word on; its AddConstruct and Flip treat bits as bytes, and
  its SetCapacity calls itself. CompactArray::SetCapacity below the length cuts the array;
  RandomQueue::Remove leaves a moved-from object; ArbitraryArray::Add checks room for the
  bytes used only.
- *Hash, strings, graphs.* `strccount` with a length tests only the first character, so a
  StringTable from a stream that begins with an empty string has no indices. Graph's ToMatrix
  writes rows by id; its flow fills `seen` by place and reads it by vertex, assigns excess
  where it should add, and relabels backwards only when nothing is left forwards, so it may not
  end or not be maximal where an inner vertex receives more than it can send on.
  BreadthFirstGraph may enqueue a vertex more than once, against its comment on the queue's
  size; BreadthFirstTree's ring treats full as empty.
- *INI.* Names are compared up to the shorter length, so one that begins another is confused
  with it in the text; copies write into the original's array of instances and keep the old
  parent; move assignment of the storage destroys the root it has just taken
  (INIstorage.cpp:445-463); keys of the hashes point into nodes that may be removed; discarding
  keeps the edits in memory; a file that ends right after a section's line is loaded with that
  section twice.
- *Bits and numbers.* bun_Variance divides by the wrong count; bun_Log2 of 64 bits uses a 32-bit
  builtin; `BitLimit` is too small for multiples of 8 that are no power of two;
  `BitField::Set(bits, mask)` is right only when bits are within the mask; Rational's division
  by zero does not crash although a comment says so; FixedPt's reciprocal overflows for the
  smallest values; fWideCompare ignores the sign. BitStream's Read keeps the destination's old
  bits in the last partial byte, and Flush before the destructor writes that byte twice; a read
  that fails the stream loses the bits still in `_buf`.
- *Text.* On Linux the conversions between UTF-8 and UTF-16 open iconv the wrong way round
  (buntils_c.c:147, 165); counting reads one unit past the end;
  UTF32toUTF8 writes surrogates that UTF8toUTF32 refuses; itoa_r overflows for the smallest
  integer.
- *Vectors.* The SSE build rounds in a conversion where the other one truncates. The float
  quaternion rotation lacks terms that the generic one has, and the generic one calls a
  function that does not exist; several operators do not compile when they are used (Matrix
  `~`, unary `-`, Vector `*=` Matrix, `Polygon::AABB`).
- *Geometry.* The intersection of lines and of segments negates both parameters
  (Collision.h:308, 327); RectLineCollide misses horizontal lines,
  and tests the bottom side of an upright segment the wrong way (Collision.h:389): one wholly
  below the rectangle collides, one that begins below and ends above that side does not.
  `RectRight` leaves those that begin below out; LinePointDistance divides a
  square by a length; PolygonCentroid adds to an uninitialised vector.
- *Allocators of one thread.* BlockAlloc::Clear leaves no root when memory runs out;
  GreedyBlockPolicy takes its initial size as bytes; LocklessBlockCollection's reallocation to
  a larger class returns the block and then reallocates it, and does not copy between classes;
  sizes below 5 ask for the logarithm of 0.
- *Animation.* The end queue holds durations where absolute times are compared, so intervals
  end together; an animation whose frames are all at time 0 never fires; a step over several
  loops fires each frame once; a single frame to interpolate from never resolves.

- *Serializer, JSON.* A number in quotes also eats the character behind the closing quote, so
  in an object the comma goes with it and the next member is lost (JSON.h:366-368); a field that
  nothing asks for and whose value is an object ends the outer object early; null writes nothing
  at all; a double without a fraction reads back as an integer; in indented text a truth value at
  the end of an object of any kind reads back as the string `"true\n"`; names are written without
  escapes, and numbers of 8 bits as characters; an array that is read into keeps what it had.
- *UBJSON.* A counted array of truth values or nulls at the end of a stream reads back empty,
  because nothing follows that could be read; fields that nothing asks for are not consumed;
  arrays of unsigned 16-bit or wider numbers, of tuples or of fixed arrays are announced as
  objects and then refused; an unsigned number above the largest signed one is written as a text of
  length -1; bytes are read
  into wider integers as raw memory; a fixed array shorter than what the stream announces leaves
  the rest unread, or never ends.
- *TOML.* ParseArray never eats the closing bracket, so of the lists in a list only the first is
  read; `x = "5"` is no number, because the test for the quote is made in front of the space; an
  array of tables that is read into a fixed array puts each into the first element.
- *XML* (read, not modelled). XMLFile's RemoveNode leaves the numbers in the hash, and
  RemoveAttribute works on the nodes; an end tag that does not match steps back one character too few.

## 8 What is not covered

Across the models:

- Memory orders. All atomics are sequentially consistent in the models.
  AttemptStrictLock, for instance, acquires with `memory_order_release` (RWLock.h:63);
  what weaker hardware does with that is out of reach here.
- Moving of the objects, most copying, serialization of the containers, constructors other
  than those named, and Windows branches.
- Exceptions out of element types, and allocation failure, except where BlockAlloc meets it.
- Counters of full width: tags and reader counts are taken not to wrap (2^63 readers).
- Rounding of floating-point numbers, and what takes a root, an angle or a logarithm.

### Not modelled

- *XML*: a fourth format of text with a parser and a tree of its own; what was met while reading
  it is above. *TOMLValue* and points in time, which TOML's engine reads besides what is modelled.
- *Streams*: thin wrappers of the standard library's stream buffers. *Logger*: formatting and
  output. *HighPrecisionTimer*: reads the clock.
- *Profiler*: a trie of zones and their times; its control is small and its result is a text.
- *KDTree*: boxes over floating-point coordinates; its rebalancing condition
  (only the fourth bound counts, KDTree.h) would need a model of the boxes.
- *Delegate, Variant*: type-level code without control of its own. *Str*: a string class over
  the standard one, whose functions are about characters.
- *XorshiftEngine* and the normal distribution: what they promise is statistical.
- *RingAlloc*: commented out as a whole. *khash*: vendored. *Platform layer*: macros and calls
  of the operating system. *Tests and build files*: read for what they say of the code.
