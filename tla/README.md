# m0dular in TLA+

Models, model-checking runs and proofs for m0dular, a C++ library of utilities
for game modules: a thread pool, allocators, containers, settings storage,
pattern scanning and vector mathematics.  Paths below are relative to the
repository, `src/` being its root.

## 1. The system

| Component | Code | State | Operations | What is hard |
|---|---|---|---|---|
| Thread pool | `utils/threading.h`, `utils/threading.cpp` | the array `threads` (per thread: `jobs`, `jLock`, `shouldQuit`), the main list `jobs` | `QueueJob`, `QueueJobRef`, `InitThreads`, `EndThreads`, `FinishQueue`, `BindThread`, `UnbindThread`, and `ThreadLoop` on every worker | threads, locks and semaphores; shutdown; lists that are exchanged while a worker waits on them |
| Job list | `LList` in `utils/threading.h` | `front`, `back`, `lastID`, entries linked by index, a mutex, a semaphore, `quit` | `Enqueue`, `PopFront`, `TryPopFront`, `IsEmpty` | index links in slots that are recycled |
| Slot heap | `PackedHeapL` in `utils/packed_heap.h` | `buf`, `freeRegions` | `Alloc`, `Free(idx)`, `Free(T*)`, `FreeAll` | regions that join, in a vector that is searched as if sorted |
| Packed allocator | `PackedAllocator`, `PackedHeap` in `utils/packed_heap.h/.cpp` | one buffer with boundary tags, `freeRegionsTree` | `Alloc`, `Free`, `FreeAll`, growth, `New`, `Delete` | alignment holes, stale sizes, growth that copies |
| Free list allocator | `utils/freelistallocator.h`, `utils/allocwraps.h` | `freeList`, `used`, `peak`, `totalSize` | `Allocate`, `Free`, `Reset`, `Reallocate`; first fit and best fit | padding, splitting, coalescing, insertion in address order |
| Synchronisation | `utils/semaphores.*`, `utils/mutex.*`, `utils/shared_mutex.*`, `utils/atomic_lock.*`, `utils/named_semaphores.*` | system objects | wait, post, lock, unlock | time-outs; unlock by a thread that does not hold the lock |
| Settings | `utils/settings.h` | groups: options by hash, `reloadCount`; per option and layer of its chain: the pointer found last | register, reserve, look up, `Serialize`, `Initialize`; `Option` get, set, `+=` | pointers kept while groups are switched and reloaded, sizes in a file that differ from those in memory |
| KD tree | `utils/kd_tree.h` | nodes, a free list through their left pointers | `Insert`, `Find`, `Clear`, `Free` | recycled nodes, equal coordinates |
| History list | `utils/history_list.h` | a ring and a counter | `Push`, `UndoPush`, look back, `Reset` | wrap-around, undo |
| Scheduler | `utils/scheduler.h` | bursts and priorities by index, `cid` | `Sort`, `Run` | time charged across tasks |
| Aimbot | `features/aimbot.cpp` | `data`, one element per queued job, `threadSem` | `RunAimbot` fans `LoopPlayers` out over the pool and waits | elements used again between rounds, jobs that finish in any order |
| Players | `players.h` | one block cut into arrays, two tables of numbers | `Allocate`, `FreeAll`, `Resort` | alignment, tables of different ticks |
| Function hooks | `utils/vfhook.*` | per hook: two tables and the functions by index | hook, unhook, `UpdateBase`, destroy | several hooks on one class in two modes |
| Pattern scan | `utils/pattern_scan.*` | the parser's state | `ParsePattern`, `ProduceScanData`, `ScanPattern`, `RunOp` | what an operation means depends on what came before it |
| Module handles | `utils/handles.*` | `libraries`, `lInfoLock` | `GetModuleHandle`, `GetModuleInfo` | a list read after its lock was left |
| Offset pointers | `utils/allocwraps.h` | the distance from `BASE` | conversions, arithmetic, `allocate`, `deallocate` | wrap-around, the null value, several processes |
| MD5 | `utils/md5.*` | bit counts, the block being filled | `Init`, `Update`, `Final` | carries, padding |
| Vectors | `math/*` | vectors, and several kept dimension by dimension; matrices | sums, products, transforms, inverses | rows and columns, sums in place, SIMD |
| Ray tests, hashes, strings | `utils/intersect*`, `utils/crc32.h`, `utils/stackstring.h` | none | pure functions | floating point |

How they interact: a client thread calls `QueueJob`, which copies the argument
and enqueues a job on the list `jobs`.  The list keeps its entries in a
`PackedHeapL`.  Each worker waits on the semaphore of the list its `JobThread`
points to, pops a job and takes its own `jLock` while it still holds the list,
and releases `jLock` when the job was run.  `FinishQueue` waits for every list
to be empty and then for every `jLock`.  `BindThread` makes one worker read a
different list; `EndThreads` sets flags, posts semaphores and joins.  The
aimbot queues a job by reference for each tick it looks back and waits on a
semaphore of its own; its ticks are `HistoryList`s of `Players`.  Settings may
live in shared memory that several processes map: then they are allocated by
`FreeListAllocator` and linked by offset pointers.  `FindPattern` on a module
asks `GetModuleInfo` where it is.

What makes each component correct:

- thread pool: no job is lost or run twice, no wake-up is lost, `FinishQueue`
  returns, and only when the caller's jobs are done, `EndThreads` returns and
  leaves no worker;
- job list: a deque, whatever slots it is kept in;
- slot heap: a slot is never handed out twice and none is lost;
- allocators: blocks are disjoint, aligned, inside the buffer, and freeing
  everything gives everything back;
- containers and settings: what is stored is found again, and nothing else, and
  no pointer that was kept is used after what it points to has gone;
- aimbot: a job and its owner never use an element of `data` at once, and the
  result is the best aim any job of this call found;
- hooks: a call always reaches the function of the class in the end.

`PROJECT.json` lists the hazards of each at their lines.

## 2. Modules

| Module | Models |
|---|---|
| `PackedHeapL` | `PackedHeapL<T>`: slots and free regions |
| `FreeListAllocator` | `FreeListAllocator`: blocks, the free list inside the buffer, growth |
| `PackedAllocator` | `PackedAllocator` and `PackedHeap<T>`: chunks with boundary tags, holes, the index of free chunks, a buffer that grows |
| `JobDeque` | abstract: a deque of numbered jobs |
| `LList` | `LList<Job>` on top of `PackedHeapL`; `ImplementsDeque` maps it to `JobDeque` |
| `JobPool` | abstract: jobs that are submitted, started, finished or dropped, and clients that wait for theirs |
| `ThreadPool` | workers and clients at the grain of locks and semaphores; `ImplementsJobPool` maps it to `JobPool` |
| `SettingsStore` | abstract: groups of named values, saved and loaded |
| `Settings` | groups in blocks of memory, the file, options with what they remember; `ImplementsStore` maps it to `SettingsStore` |
| `KDTree`, `HistoryList`, `Scheduler`, `Players`, `OffsetPointer` | the classes of these names |
| `Aimbot` | `FindBestTarget`, its jobs and the workers that run them |
| `VFuncHook` | hooks on objects of one class |
| `PatternScan` | the parser, the operations, the scan |
| `Handles` | lookups by several threads while libraries are loaded |
| `MD5` | which blocks `Update` and `Final` hash |
| `Vectors` | points one by one and all at once, and `matrix<3, 4>`, in integers |
| `MCLList`, `MCFreeListAllocator`, `MCPackedAllocator`, `MCThreadPool`, `MCUtilities` | instances for TLC |
| `Recursion` | lemmas: induction over the naturals, functions defined by recursion, folds and sums, quotients and rests |
| `LListProofs` | theorems about the slot heap and the list on top of it |
| `PackedAllocatorProofs`, `FreeListAllocatorProofs` | theorems about the two allocators |
| `ThreadPoolProofs` | theorems about the pool: types, workers, list locks and wake-ups; where jobs are, `FinishQueue`, `UnbindThread`, and that the pool implements `JobPool` |
| `SettingsProofs` | theorems about the settings: pointers that are kept, values that are read, and that groups and files implement `SettingsStore` |
| `AimbotProofs`, `UtilitiesProofs` | theorems about the aimbot; about the history list, the module handles, the offset pointers, the hooks, the players, MD5, the scheduler, the patterns and the vectors |

`ThreadPool` uses lists as sequences with a front and a back: that is what
`JobDeque` states and `LList` is checked to implement, under the lock that
`ThreadPool` models.  `Aimbot` uses the pool as `JobPool` states it.
`MCUtilities` puts the components that share no state side by side: the
variable `unit`, chosen in the initial state, says which one moves, so a run
explores the sum of their state spaces.

### How the state corresponds

`PackedHeapL`: `size` is `buf.size()`, `freeRegions` the vector of the code in
its order.  What a slot holds belongs to `LList` (`slots`).  `std::lower_bound`
is not part of the repository; `LowerBound` is the set of positions a binary
search may end at.  On the vector the code keeps, which is not sorted, the
standard leaves the result open, so the model lets `Free` go on from every such
position.

`FreeListAllocator`: `totalSize`, `used` and `peak` are the fields, `head` is
`freeList.head` and `mem` the nodes and headers inside the buffer, by offset
from `BASE`; a node and a header at one address share `blockSize`.  `blocks`
(what clients hold) and `lost` (bytes no node covers any more) are history.
`reallocatable` is the template parameter, which takes either value at the
start and never changes.  `throw` outside a handler ends the program
(`failed`).  The constants 16 and 8 are the sizes of `Node` and
`AllocationHeader` on 64-bit Linux.

`PackedAllocator`: `bufSize`, `bufCapacity` and `freeRegionsTree` are the
fields, the index as a set of pairs of size and address.  `mem` holds, by
offset in words of 4 bytes, the tags and holes that no client overwrote since.
`typed` chooses between the two classes, which differ in how a buffer that
grows is copied: as it is in `Alloc`, by `WalkBuffer` in `New`.  `blocks` (what
clients hold) and `overrun` (a write beyond the buffer) are history; `closed`
ends a behaviour after such a write or after `FreeAll`.  A heap serves one
alignment, which is also the size of its elements.

`LList`: `front`, `back`, `lastID` are the fields, `slots[i]` is
`entries[i]` with `item` the job and its number, and `popped` the value the
last pop returned.  `order` (the entries from the front) is history.

`ThreadPool`: `jobsOf[w]`, `jLock[w]` and `shouldQuit[w]` are the fields of
`threads[w]`; `queue`, `listLock`, `sem` and `quit` those of the lists.
`pc[t]`, `job[t]`, `list[t]` and `idx[c]` are a thread's place in the code and
its local variables.  A mutex is the thread that locked it or `Nobody`; any
thread can unlock it, as a default pthread mutex allows in practice, and
`ThreadLoop` does.  `copies` is the set of malloced arguments.  `submitted`,
`owed`, `done` and `dropped` are history.  `isRunning` and `queueEmpty` are
never read on Linux and are left out.

One action is one access to shared state: a lock, an unlock, a wait, a post, or
a read or write of a field that other threads touch without a lock.  What
happens between a list's lock and unlock is one action, except in `DoPopFront`,
which waits for `jLock` with the list held (`HoldList`, `LockJob`, `PopJob`).

What clients may do is a constant (`Calls`).  Clients never call the pool while
another client allocates or frees the array `threads` (`Alone`, `Unmanaged`):
the code has no protection there and no caller in the repository does it.

`Settings`: `map[g]` and `reloadCount[g]` are the fields of a group, `block` the
memory its `alloc` hands out, `pointsTo[l]` the pointer variable a layer names,
`cache[l]` the fields `g`, `allocID` and `reloadCnt` of the layer.  `buf` is the
file as a sequence of sizes, names and bytes, with a size as one element, and
`pos` where the next `Initialize` starts.  An option is one byte; the file the
program starts with has a wider one, so that entries of every size meet blocks
of every size.  The names in a file are those the program uses; a wrong first
byte only makes `Initialize` return.  `saved`, `read` and `mine` are history.
`IsBlocked` is constantly false in the repository.

`KDTree`: `node` is what each node's memory holds, also after it was cleared;
`ref` (what `Insert` returned, for which point) is history.  The recursion of
`Insert` and `Find` is `PathOf`, the nodes on the way down.

`HistoryList`: `list` and `counter`; `pushed` and `peak` are history.
`UndoPush` is only called after a push, as its name says; the code does not look.

`Scheduler`: `task`, `burstTime`, `priority` and `cid` are the arrays and the
field; the client fills in a task and calls `Sort`.

`Aimbot`: `pc`, `inFuture`, `i`, `o`, `u`, `b`, `pushedCount`, `lowestFov`,
`target` and `targetPlayers` are the places and locals of `FindBestTarget`;
`data[o]` has `target` and the tick in `players`; `running[w]` is the argument
of the job worker `w` runs.  One action is one element filled or collected, one
semaphore operation, or one improvement a job makes.  `found` and `refused` are
history.

`VFuncHook`: `vptr[o]` is the first word of an object, `table` the virtual
tables (0 the class's own), `hook[h]` the fields of a hook, `made` the order in
which hooks were made.

`PatternScan`: one action parses one element of a pattern; the variables are the
locals of `ParsePattern`.  Addresses are expressions over the place of the
match, so `Result` can be compared with what `pattern_scan.h:11-24` says.  The
scan is a function of the bytes parsed, compared with a definition that looks at
single bytes, over all memories of a small size.

`Handles`: `lookup[t]` is a thread's place and locals, one action one library
put into the list or looked at.  `snapshot` is history.

`OffsetPointer`: a pointer is a number below `AddressSpace`; arithmetic is modulo
that.  `at` (the element a pointer was pointed to) and `held` are history.

`MD5`: a byte of the message is its number, `in` and `bits` are the fields,
`blocks` what `Transform` got.  Block and counter are smaller than 64 bytes and
32 bits, in the same proportion to each other.

`Players`: `array[w][f]` is the pointer of field `f` of an object `w`, `mallocs`
the blocks of the heap, which `malloc` places anywhere.  Five of the fourteen
arrays, in words of 4 bytes: one of each kind of size and alignment.

`Vectors`: `soa[i][o]` is `v[i][o]` of a `vec3soa`, `pose` a `matrix<3, 4>`.
`points` (the same points as single vectors) and `factors` (what `pose` was
multiplied with, none before it is set) are history.  Entries are integers, so
nothing is rounded.

## 3. Runs

| Run | Question | Bounds |
|---|---|---|
| `llist` | Does any order of allocs and frees keep regions disjoint and lose no slot, and is the list a deque for every recycling of slots? | 6 slots, so that three separate regions in an unsorted vector, and joins between them, occur; 5 enqueues of 2 jobs; the heap under the list, and under clients that free in any order |
| `pool_single` | With one client, does the pool implement `JobPool`, does every job run and `FinishQueue` return? | 2 workers, 3 jobs, one of which queues another |
| `pool_clients` | With two clients, is a job, a copy or a wake-up ever lost, or a job run twice? | 2 workers, 2 clients, 3 jobs |
| `pool_bind` | When lists are exchanged under the workers, does a held list keep its front, and is an unbound worker back on the main list? | 2 workers, a second list with `quit` unset or set, 2 jobs |
| `pool_shutdown` | Does `EndThreads` always return and leave no worker, also with bound workers and after a second `InitThreads`? | 2 workers, 1 job, 2 inits |
| `freelist` | Do blocks and free nodes stay apart, sorted, joined and accounted for, and does growing always make room? | 96 bytes growing to 240, blocks of 16 and 24 bytes: rests of nothing, of half a node and of a node, and every way to join, occur |
| `packed` | Do blocks and free chunks stay apart, does a walk of the buffer meet all of them, can every block be freed, and is every write inside? | alignments of 4, 8 and 16 bytes, blocks of 1, 2 and 4 elements, 104 to 128 bytes: rests of every size from none to a chunk, holes above and below blocks, growth in both classes |
| `utilities` | For each of twelve components, the properties below | 12 initial states, the components one by one |
| `freelist_padding` | Is the allocator usable by all containers, as the comment says? Not with odd numbers of ints. | 3 blocks of 20 bytes |
| `packed_overrun` | Is every write inside also for larger alignments? No. | elements of 32 bytes, capacity for 4 |
| `pool_two_clients` | May two clients rely on `FinishQueue`? No. | 1 worker, 2 jobs |
| `pool_end_hangs` | Does `EndThreads` return after `UnbindThread`? No. | 1 worker |

What `utilities` checks, and with which bounds:

| Component | Properties | Bounds |
|---|---|---|
| settings | `CachesCurrent`: a kept pointer that is used is the one its group has now, and no two entries share memory; `ReadsOwnWrites`: what was set is read; `ImplementsStore`: saving and loading keeps every value | 3 groups, a chain of a pointer and a reference, 2 names, 3 blocks, a reload of each group, 2 saves |
| KD tree | `TreeSound`: points are found exactly when they were inserted, at the node returned, and every node is in the tree or the free list once | 4 points, two pairs of which agree in a coordinate, 4 nodes: every shape and order |
| history | `KeepsTheLast`: ids count back from the newest item, for every item not overwritten | 3 places, 6 pushes: the ring turns twice |
| scheduler | `TimeGoesByPriority`: time is charged once, in order of priority, and no task returned twice | 3 tasks, bursts and times up to 2, 2 runs after each sort |
| hooks | `CallsReachTheClass`: calling on through the originals ends at the class's function, and nothing is left of hooks that are gone | 2 objects, 2 hooks in either mode, 2 entries, 2 functions |
| aimbot | `ElementsApart`, `TargetIsBest`, `RunAimbotReturns` | 2 workers, 2 elements, 3 and 2 ticks: a second round that is not full; 2 calls |
| patterns | `PatternsMean`: operations do what the header says, and the scan finds the first match | 5 elements of every kind, words of 2 bytes, memories of 7 bytes |
| handles | `LookupsSeeAll`: a lookup without the lock sees the whole list and finds the best name | 2 threads, 3 libraries |
| offset pointers | `PointersFollow`: a pointer means the same element in every process | 5 bits, 3 processes at the bottom, the middle and the top of the addresses, 4 elements |
| MD5 | `BlocksAreMessage`: the blocks are the padded message, however it is cut | blocks of 4 bytes, messages up to 19 in pieces up to 10, counts below 64 that carry |
| players | `PlayersSound`: arrays are aligned, inside their block and apart; `Resort` finds the same player | 2 objects, 3 players, every place `malloc` may choose |
| vectors | `VectorsAgree`: what is done to all points at once is done to each, dot products and cross products too; products of matrices turn as their factors do, and inverses back | 2 points with coordinates from -1 to 1, 3 matrices, one of them no rotation, their products and inverses |

Two workers and two clients are the least number for which one worker's steps
fall between another's pop and run, a token is taken by a thread other than the
one it was posted for, and a lock is released by the wrong thread.  Tokens are
bounded by `MaxTokens`, which only stops further `BindThread` calls.  Deadlock
is not checked in runs of the pool: when no client calls, workers rightly wait;
that nobody waits who should not is what the liveness properties say.  Nor is it
in `utilities`, where a component stops at its bounds.

### What the runs found

- `freelist_padding`: in a node that starts in the middle of a word there is
  alignment padding in front of the header.  A split charges it twice and `Free`
  leaves it out of the node's start, so the freed node ends beyond the block.
  Types whose sizes are multiples of 8, as in `tests/kd_tree.cpp`, are safe
  (`freelist`, `PaddingAligns`).
- `packed_overrun`: `_Alloc` writes the tags of what an alignment leaves below a
  block before it grows the buffer.  The capacity in the run is small to find it
  early; the heap of `alignas(128)` objects in `tests/allocator.cpp`, with room
  for 10, does it too.
- `pool_two_clients`: a worker unlocks `jLock` on its first pass and after every
  empty pop without holding it.  With one client that is harmless
  (`pool_single`); with two it releases the lock another client holds, the
  worker can take the next job under it, and `FinishQueue` returns early.
- `pool_end_hangs`: after `UnbindThread` the worker still waits on the old list,
  which `EndThreads` does not post.

Observed and not made a run:

- `PackedHeapL`: `Free(T*)` never frees the last slot of `buf`, so a list that
  holds one job at a time grows, and the slot is lost until `FreeAll`; the test
  under "Double free!" recognises a region of exactly one slot and no other.
- `FreeListAllocator`: `FindBest`, which nothing in the repository uses, returns
  the wrong predecessor, and a block stays in the free list (`Policy =
  "FIND_BEST"` fails `Apart`).  A block that `Free` gets back above all free
  nodes, or when there are none, is lost unless it touches the last of them:
  `lost` counts such bytes, and freeing everything may leave nothing free.
- `PackedAllocator`: `FreeAll` keeps the index, so a heap used again hands out
  chunks beyond its end (`Reuse = TRUE` fails `TagsAgree`).  With alignments
  above 16 bytes a rest below a block inside a chunk is put eight bytes too high,
  and `WalkBuffer` steps over blocks (fails `TagsAgree`).  With alignments
  above 4 a freed block is not reused for one of its own size.
- Pool: `jobs.quit` is never reset, so after a second `InitThreads` no job runs
  and workers spin (`EveryJobRuns` is checked for one `InitThreads` only).  A
  bound worker may stay asleep on the main list when other workers take the posts
  of `BindThread`.  With several clients that call `FinishQueue` all the time, one
  may starve at a mutex.  Two clients that bind at the same time may bind one
  thread (`threading.cpp:157`), and a job that calls `FinishQueue` waits for the
  lock of its own worker; nothing in the repository does either.
- `Settings`: a value stored directly in the group of a hidden layer stays hidden
  from an option that has no pointer there until `Set` or a switch.  A loaded
  entry keeps the size it had before (`settings.h:93,111`): a wider value is
  truncated when it is saved again, and its block given back with the wrong size.
  Loading over a block that is large enough forgets that block.
- `KDTree`: `FindMin` passes three of `MinNode`'s four arguments (`kd_tree.h:191`),
  so a program that calls `DeleteNode` does not compile.
- `HistoryList`: after `UndoPush` the oldest items are those the push overwrote,
  and `Count` still counts them.  For types with destructors, `Push` and `Reset`
  destroy slots that are used again or destroyed a second time.
- `Scheduler`: `Sort` leaves `waitTime` where it was, and `sid` is not a
  permutation.
- `VFuncHook`: the copy does not get the zero its table ends with
  (`vfhook.cpp:26`), so a hook on top of a hook may take it for longer.  Hooks that
  are destroyed oldest first restore pointers to freed tables; the model's clients
  keep the order.  A function hooked at a second index keeps its first.
- `Aimbot`: before `InitThreads`, `numThreads` is zero and the loops do not advance
  (`aimbot.cpp:177`).  The second loop also collects elements no aim was found for,
  which carry the best target so far: after `VerifyTarget` refuses it, that target
  is returned as one of another tick.  The pool must not be ended while
  `RunAimbot` waits, as a job it drops never posts.
- `PatternScan`: an empty pattern underflows (`pattern_scan.cpp:156`); a match that
  is closer to the end than its length in words, or exactly there, is not found.
- `Handles`: libraries loaded after the first lookup are never found, and names of
  libraries that are unloaded dangle.
- `OffsetPointer`: arithmetic on a null pointer makes one that is not null, and the
  byte below `BASE` is null.  `operator==` of the allocators names a member that
  does not exist (`allocwraps.h:329`).
- `Players`: `Players(int)` calls `FreeAll` on members nobody set
  (`players.h:150`), a block allocated for no players is not freed, and a copy
  shares the arrays with its original, so that two destructors free them.
- Vectors: `AddedUpTotal` leaves out the last dimension (`vecsoa_funcs.h:112`), which
  `tests/vector.cpp` compares results with; `Max` of a `vec3soa` is the minimum
  (`vecsoa_funcs.h:486`), so that the box tests for several rays find hardly
  anything; `VectorSoaITransform` does not do to each point what
  `Vector3ITransform` does (`matrix.h:275`); the second column of `GetMatrix` is
  not orthogonal to the third unless the roll is a quarter turn (`matrix.h:91`).
- `NamedSemaphore`: `sem_open` with `O_CREAT` lacks its value
  (`named_semaphores.cpp:10`); `Semaphore::TimedWait` adds nanoseconds without a
  carry into seconds.

### Fairness

`FairSpec` has weak fairness for every worker and for a client inside a call:
the operating system runs each thread that can go on.  There is no fairness for
making a call, and none stronger than weak: a thread at a mutex that is taken
again and again may starve, as pthread mutexes allow, which is why
`FinishReturns` is checked with one client.

`AimFairness` is the same for the aimbot: the client in `RunAimbot` and every
worker go on when they can; calls need not come.  It is a conjunct of the
specification of `utilities` and of no consequence to the other components.

## 4. Proofs

The theorems hold for every value of the constants that meets the named
assumptions of the modules; three of the pool's need one client, those of the
packed allocator need `Ordinary` and those of the free list allocator
`WholeWords`, all explained below.

### Slot heap and job list (`LListProofs`)

For every `MaxSize`: `HeapCore` (types, disjoint regions, no slot both free and
in use or forgotten) is inductive as it stands.  The work is in `FreeIdx`:
whatever position of the vector the search ends at, the regions it joins are the
ones next to `idx`, because regions are disjoint and `idx` is in none of them;
sortedness is never used.  `HeapSafe` and `HeapNoSlotTwice` follow.  That no
slot is lost (`HeapLosesNothing`) and that `buf` is no longer than it must be
(`HeapIsShort`) hold of the same steps: they are inductive together, since `buf`
grows only when there is no region, and then every slot is held or forgotten.

`ListInv` is the heap's invariant and `Chain`: `front` and `back` are the ends of
`order`, each entry's links are its neighbours in `order`, and the slots the heap
has given out are the entries of `order`.  The last part is what makes a slot
that is handed out again harmless: it is in no chain.  `ListTyped` and `ListSound`
follow, and, since every enqueue and pop does to `order` what `JobDeque` does to
its deque, `ListIsDeque`, the refinement.

### Thread pool (`ThreadPoolProofs`)

For any number of workers, clients, jobs and lists.  `TInv` is the type
invariant together with which labels workers and clients can be at, that a
client at the work on thread i has a valid i, and that a thread has a job in hand
exactly between its pop and the end of the job.  `TypeCorrect` follows.

`NoWorkerOutlivesPool` needs `PInv`: a client that allocates or frees the array
is alone (`Exclusive`), and of the workers it has yet to start, or has joined,
none exists (`Started`).  `ListHeld` needs both: nobody but the holder touches a
held list, and `InitThreads` and `EndThreads` never put a holder somewhere else.
`WorkersNeedPool` and `FrontIsKept` follow.

`NoWakeupLost`: `WakeupsCover` compares the jobs of a list with the posts of its
semaphore, the threads that hold one of these posts and those about to post.  It
is inductive together with `TInv`: what a step does to the sum depends on one
thread only (`CoverMoves`), so each step is an inequality between its two sides.
A thread that finds the list empty may drop its post, because then there is
nothing to cover.

Where jobs are: `JInv` is `NoJobLost`, `CopiesOwned` and `Separate`, which says
of lists what `OnlyOnce` says of places in lists: no list repeats a job, and no
two share one.  Besides `TInv` it is inductive.  A job moves in three ways only,
each with a lemma: onto a list (`EnqueueLemma`), from a list into a thread's
hands (`UnlinkLemma`, where `TInv` is needed: the thread's hands are empty), and
out of them (`LetGoLemma`).  All other steps fall under `QuietLemma`.
`JobsRunOnce`, `JobsKept` and `CopiesFreedOnce` follow.

`FinishWaits`: `FInv` says of a client in `FinishQueue` that once it has seen the
list empty (`Clear`) none of its jobs is on a list, that a worker with one of
them holds its `jLock` or is about to unlock it (`LockedAtWork`), and that the
workers it has gone by have none (`Passed`).  It needs `OneClient`: with two, the
run `pool_two_clients` shows that a worker may unlock what the other client
locked, and the promise is broken.  `OneClient` also leaves out lists of the
client's own: `FinishQueue` looks at the lists the workers point to, and jobs
on a list that is no worker's any more are not waited for.  `PoolIsJobPool`
follows step by step: `FInv` is what `JobPool` asks of a client that returns.
`UnbindUnbinds` needs one client (`OneCaller`), as a second could bind the list
again to a worker the first has gone by.

### Packed allocator (`PackedAllocatorProofs`, `Recursion`)

`PackedInv` says that from 0 to `bufSize` the buffer is cut into chunks and
holes without a gap, that the addresses `WalkBuffer` meets are exactly where
they start, and that `blocks` and `freeRegionsTree` are the chunks in use and the
free ones among them.  `Walks(m, W, from, to)` states the first part without
recursion: `W` starts at `from`, each member of it leads to the next or to `to`,
and none is skipped; the lemmas about it say how such stretches are joined, cut
anew and copied, so that each operation is a change of one stretch: a free chunk
becomes a chunk in use with holes or free rests around it, a chunk in use a free
one, the end of the buffer a hole and a chunk.  That `WalkBuffer`, which is
recursive, yields `W` is `WalkBufferWalks`.

`Ordinary` has three parts, each where the code breaks without it.  Alignments
are at most `alignof(max_align_t)`, 16 bytes: with larger ones a rest below a
block is put too high (section 3, and `packed_overrun`).  The buffer has room to
start with: the code starts with a capacity of 10 elements, and with none the
first hole would be written beyond it.  Nothing is allocated after `FreeAll`: the
index still holds chunks of before.  For all sizes, capacities and counts of
blocks the four invariants of the run follow: `WritesInBuffer`, `PackedTyped`,
`BlocksApart`, `WalkMeetsAll`.

The provers cannot use an induction rule that takes a predicate.  `Recursion`
takes the rule for sets: Nat is well-founded, so a set of naturals has a least
element (`Least`), and a set with 0 and all successors is Nat (`Inductive`).
`StepByStep` shows that a function which takes n steps from a value exists, and
so that what a recursive function definition denotes obeys its equation.

### Free list allocator (`FreeListAllocatorProofs`)

`FreeInv` takes the buffer as pieces, the free nodes and the blocks in use with
their headers.  The pieces are whole words, at least a node long, and do not overlap
(`Laid`); the list runs through all the nodes in the order of their addresses
(`Linked`), and no two of them touch (`Joined`); what the header of a block says
covers what its client asked for (`Housed`); and `used`, `lost` and the sizes of
the nodes add up to `totalSize`.  No part is inductive without the others: a
block is cut from a node safely because nodes and blocks do not overlap, `Free`
finds the right neighbours because the list is sorted, joining them loses no
byte because they touch, and growing suffices because what it adds is twice the
size asked for and more.

The lemmas follow the code.  What `Find` returns is `FoundPlace`: a node that
fits with its predecessor, or the proof that none does.  Then there is one lemma
for each change of the list: `CutLemma` and `TakenIs` for a node that is split
or used up, `ReallocateIs` for the new last node, `CoalescenceIs` for the joins,
`FreeJoins`, `FreeJoinsLast` and `FreeLoses` for where a freed block ends up.
Sums over pieces are sums over functions on finite sets; `SumsExist` and
`SumRenamed` rest on the induction rule of `Recursion`.  From `FreeInv` come
`FreeBlocksApart`, `FreeListLosesNothing` (types, order and accounts) and
`GrowthNeverFails`.  `PaddingAligns` is arithmetic for every address.

`WholeWords` says how the allocator must be used, and each part is where the
code stops keeping its promises:

  - `FIND_FIRST`: `FindBest` returns the end of the list as the predecessor of
    whatever it found, and the node that is taken stays in the list (with
    `FIND_BEST` TLC finds a short behaviour that violates `Apart`);
  - sizes in whole words: otherwise nodes start off a word and the padding moves
    the header away from the start of the node (`freelist_padding`);
  - alignments up to 8: with 16 the header is moved even in aligned nodes, the
    padding is charged twice and `NothingLost` is violated by the first
    allocation;
  - the buffer starts with whole words and room for a node: `Reset` and `Init`
    write a `Node` at its start without looking at its size.

Total size, counts of blocks and the order of calls are free.

### Aimbot (`AimbotProofs`)

For any number of workers, elements, players and ticks.  `QInv`: an element is
on the pool's list once or with one worker and belongs to this round, and the
posts that were made and not taken, the jobs on the list and those running add
up to `pushedCount`.  The sum makes `FindBestTarget` wait for all, and
`JobsNeverMeet` follows.  `BInv` speaks of the elements that were queued in this
round and not collected yet (`Fresh`): each holds an aim of its tick, found in
this call unless it did not better the target it was given (`FreshFound`); and
every aim found is matched by the target so far or one still to be collected
(`BestSoFar`).  When all are collected, that is `TargetIsBest`
(`BestIsReturned`); `AimTyped` holds besides.

### Settings (`SettingsProofs`)

For any number of groups, layers, blocks, values, reloads and saves.
`SettingsInv` has four parts:

  - `Housed`: no two entries share a block, in one group or in two, and each
    block is at least as large as its entry says;
  - `Minds`: a pointer a layer keeps is the one its group has, if the reload
    count kept with it is the group's.  A reload is the only thing that gives
    blocks back or moves entries, and it counts;
  - `Keeps`: while the option is what it was set to, its first layer has the
    option's memory and the value is in it.  This is why `Get`, which asks the
    layers in turn, finds what `Set`, which writes the first one, wrote;
  - `FileIs`: the file is one section for each group saved, and each section
    spells entries with what the group held, one for each name.

What operations do to groups and memory is said of states, not of steps:
`ReserveIs`, `WriteIs`, `LoadEntryLoads` for one entry, `ClaimIs`, `RefreshIs`,
`GetChainIs`, `SetChainIs` for layers.  Loops are folds: `InitializedLoads` over
the entries of a section, `ConstructedIs` over the layers, by the lemmas of
`Recursion` about folds.  That a file is read as it was written is
`EntriesAre`: `AfterRounds`, the recursion that goes from size to size, comes to
the entries that `BytesAre` shows `Serialize` to have written, in whatever
order the map yields them, and `LongerSpells` says that a file that gets longer
still has them.  `CachesAreCurrent` and `OwnWritesAreRead` follow from the
invariant, and `StoreIsImplemented` step by step: reserving is `Fill`, writing
is `Put`, and switching groups changes nothing `SettingsStore` sees.

The assumptions say that an option has more than one value, and that blocks do
not run out within a step: without memory the allocator throws.

### Components that stand alone (`UtilitiesProofs`)

`RingKeepsTheLast`: slot k mod C holds the k-th item pushed unless a later push
took it; numbers less than C apart have different rests (`RestsApart`).

`NearestIsFound`: the list of libraries is a first part of the loader's snapshot
while a thread under the lock makes it, and all of it afterwards; so a thread that
reads the list after it left the lock reads one that no longer changes, and has
compared all names before its position.  Paths are shorter than `Far`, which is
how `PATH_MAX` bounds them: the search starts at the largest number.

`PointersAreOffsets`: a pointer holds the distance to its element, or the null
word, modulo the size of the address space, wherever the memory is mapped.  It
needs that the memory is smaller than half the space, where distances have a
sign bit.

`HooksReachTheClass`: `Stacked` says of each hook which table its object had when
it was made, which has a smaller number, and that an object's table is one that
the last hook on it uses or, after `UnhookAll`, the one below.  `Entries` says
where functions can be: in the table their hook writes and in copies made of it
later.  So what a hook's function calls lies in a table below (`CalledBelow`),
numbers descend along a chain of calls (`CallsDescend`), and it ends at the
function of the class within as many calls as there are functions.  It is
assumed that functions which clients put in are none of the class's own
(`FunctionsAreNew`), as otherwise an original may be the function itself.

`PlayersAreSound`: for every list of arrays, `ArraysLaid` shows by induction over
them that what `AlignUp` skips is at most what the arrays so far add to
`extraAlignmentNeeds`.  That needs `PlayersAssumption`: each array adds at least
the alignment of its elements, and the first one needs no more than `malloc`
gives (`players.h` adds `alignof` of the element, or a stricter constant).  The
two tables of a world are inverse to each other (`Paired`), which is what `Resort`
needs.

`BlocksMakeTheMessage`: before `Final` the message is the blocks hashed so far
and the first bytes of `in`, and the counters are its length in bits, the carry
included (`CountsGrow`).  `Final` completes what is left to one block or two.

`TimeIsCharged`: each step of the selection sort puts one more of the least in its
place and moves a task's three fields together (`SelectedIs`), and the fold of all
of them sorts (`SortIs`).  `SchedSound` adds what is needed of Runs: the indices
where they stopped go up (`Passed`), tasks from `cid` on are untouched
(`PlanKept`), and the sum of what was used follows the sum given (`Spent`, by
`ChargesAdd`, an induction over the indices a Run passes).

`PatternsAlwaysMean`: the parser goes through phases, and `ScanInv` says for each
which operations are there: none (`Plain`), the one for `@` (`Placed`), the first
read (`AtRead`), or the one brackets stand for, behind the move to where they open
(`Bracketed`), which is filled in when the dereference comes and again when they
close.  `SameFrom` carries the rest: from every address, the operations behind the
first ones come to what the elements come to, and both grow together.  The first
operations come to `FirstAddress` in each phase.  For the scan, the words cover the
bytes (`WordsCover`) and what lies behind the last byte is masked, so a word hits
where the bytes are (`HitFits`), for every size of word, pattern and memory.

`VectorsAlwaysAgree`: `HoldsPoints` says that the `vec3soa` has
the coordinates of `points`, whatever number of columns is added at once
(`ElemsDivide`: it divides their number, so no column is left out).  `PoseHeld`
says that `pose` has an inverse among integer matrices (`Turning`: its determinant
is 1 or -1, which `DetOfProduct` and `InverseTurns` keep) and that it turns every
vector as its factors do one after the other (`TurnsTo`), for any number of
factors.  What is left are identities between polynomials: a row of minors meets
its own column in the determinant and the others in zero (`MinorsMeet`), so the
inverse turns back (`TurnedBack`); and a rotation's columns are orthogonal because
its rows are (`ColumnsTurnBack`).  The assumption that matrices clients use have
determinant 1 or -1 is what keeps entries integers: the code divides floats.

### Model-checked only

Of the run `utilities` the invariant of the KD tree, and `TypesOK` as a whole; `AlignedTypesStayInside` and `UsableByContainers` do not hold.
Liveness (`EveryJobRuns`, `FinishReturns`, `EndReturns`, `RunAimbotReturns`) stays
with the model checker: it needs fairness and ENABLED.

## 5. Not modelled

Not modelled: of `PackedAllocator`, copy and move assignment and the build with
`PACKED_HEAP_MERGE_REGIONS`; the scan with `PATTERN_SCAN_PAGE_SCAN`; `MD5`'s
`Transform`, `crc32.h` and the string classes, which are arithmetic on bytes
with fixed test vectors; `SharedMutex` and named semaphores, which only forward
to the system, and `AtomicLock`, which nothing uses; `DeleteNode` of the tree.

Left out for good: floating point (trigonometry, square roots, projective
transforms and, in `utils/intersect*`, the ray tests), Windows and macOS variants of the wrappers, tracing macros,
build glue.
