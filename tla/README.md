# TLA+ models of the Computersystems monorepo

This directory holds TLA+ models of the programs in this repository that keep
state over several steps, TLC configurations that check them on small
instances, and TLAPS proofs of the results that matter most for every instance.

## 1. The system

The repository is a collection of independent programs. None links against
another (PracticumI, Practicum, PracticumV2 and A8 repeat code of A7 with changes).

| part | state | operations | who acts | modelled in |
|---|---|---|---|---|
| **A6** bounded buffer (Java) | cyclic array `arr`, `front`, `rear`, `count`; lock and two conditions | `deposit`, `fetch`, `main` | four threads | `BoundedBuffer` |
| **PracticumV2** virtual memory simulator | page table, TLB (two or three parallel arrays), `dram`, counters | `translateAddress`, `readFromStore`, `tlbFIFOinsert`, `tlbLRUinsert` | one thread | `VmSimulator` |
| **A7** heap | list of blocks in `mem` | `pm_malloc`, `frag`, `pm_free`, `mergefrag` | one client | `Heap` |
| **A8** thread-safe heap | the same, and a mutex | `pm_malloc_lock`, `pm_free_lock` | several threads | `LockedHeap` |
| **PracticumII** file service | one message buffer, one socket at a time; the client's `file_data` | GET, PUT, INFO, MD, RM | a server, many clients | `FileService` |
| **PracticumV2** allocator and swap | list of blocks, `pageTab`, page table entries | `init_heap`, `thread_safe_malloc`, `thread_safe_free`, `load_page_from_disk` ... | several threads | `ThreadSafeHeap` |
| **PracticumI** paging allocator | list of blocks, mutex; page table and reference bits nobody reaches | `pm_malloc_lock`, `pm_free_lock`, `frag`, `mergefrag` | `main` and its threads | `PagingHeap` |
| **PracticumIIV3** file service | as PracticumII, a handler thread per connection, a table of descriptors they share, two devices | the same commands | main, handlers, clients | `DeviceService` |
| **A3** process queue | linked nodes, `head`, `tail`, `size` | `enqueue`, `dequeue`, `dequeueProcess` | one client | `ProcessQueue` |
| PracticumIIV2, PracticumIITest | as PracticumII | subsets | a server, clients | not modelled |
| A5 multiprocess | a counter and a mutex | `start_counting` | two threads | not modelled |
| A4 worker threads | an array and its index, a mutex | `worker` and two printing threads | seven threads | not modelled |
| A2/A5/Trial polybius | none (a table) | `pbEncode`, `pbDecode` | - | not modelled |
| A1, Practicum, Trial | little or none | | | not modelled |

What makes the modelled parts hard:

* A6: one signal per call, an unfair lock, spurious wakeups; and a loop in
  `deposit` that writes to *all* slots before the item is stored.
* VmSimulator: a cache edited by shifting parallel arrays, page number 0 that
  is also the mark of an empty slot, ages per slot, reads that fail midway.
* Heap: a search that ends at the last block whatever its state, a size of 0
  that means "not initialized", a merge that runs off the list.
* LockedHeap: the mutex is released between the initialization and the search
  of the same call, so two calls overlap step by step.
* ThreadSafeHeap: the test of `head` and the initialization happen outside the
  mutex, field by field, under the feet of the other threads; a split marks nothing.
* FileService: connections that are never closed, a request buffer that is
  never cleared, a client that may be gone, two programs waiting for each other.
* DeviceService: main and the handler receive from the same connection; the
  handler reads main's `client_sock` through a pointer, whenever it runs;
  descriptors are left open by one thread and closed by another, and a closed
  number is given out again; all threads share the place `strtok` remembers.
* PagingHeap: the mutex is released once too often by `init` *and* by every
  `pm_free_lock`, and a split may take in a free block behind the rest it makes.
* ProcessQueue: `dequeueProcess` leaves `tail` at the node it frees, `dequeue`
  forgets the tail without taking anything out, and malloc reuses nodes.

## 2. Modules, state and actions

**BoundedBuffer** (`A6/src/main/java/boundedBuffer.java`). The fields of the
class keep their names; `notFull` and `notEmpty` are the sets of threads
awaiting the condition, `lock` is the owner. Everything a thread does between
acquiring the lock and releasing or awaiting is one action (`Deposit`, `Fetch`,
`AwaitNotFull`, `AwaitNotEmpty`, `Leave`), because all fields are only touched
under the lock; `Acquire` lets any waiting thread win. `Start`/`Join` are
`main`. `Stored` is the pair "fill every slot with the thread description, then
write the item" of `deposit`. `BoundedFifo` is the FIFO channel its comments describe. `LastItemBuffer` is a weaker
promise, which every FIFO channel keeps and this class too: at most `Capacity` outstanding
deposits, no fetch without one, and a fetch of the only one returns the item it brought;
with more outstanding it leaves open what is fetched. `BoundedBuffer` instantiates both with
refinement mappings: `KeepsPromise` holds, `IsFifo` does not (section 5).

**VmSimulator** (`PracticumV2/main.c` from line 246 on). `Init` is a fresh set of
tables on zeroed memory and the choice of the menu (`algo_choice`). One
translation is one action: `TlbHit`, `TableHit` or `PageFault`, each with its
insertion into the TLB and its counters; `PageFault` may fail to read
(`readFailed`). `last`, `lastUse` and `readFailed` are history variables.
As the program stands, `main` first joins threads that do not come back from
`load_page_from_disk` (`PageNeverLoaded` of `ThreadSafeHeapProofs`); this model is the loop
as it would run on tables that have been allocated.

**Heap** (`A7/malloc.c`). `heap` maps the address of each header to its
fields. `pm_malloc` and `pm_free` are one action each: first fit (`Found`), the
three branches, `frag`; marking and `mergefrag`. The loops are stated as sets
(`Suitable`, `Absorbed`); `HeapLoops` writes them again as the code has them, node
by node (recursive functions `Search`, `MergeLoop`), and `LoopsAgree` compares, for the heap
of every state, every request and every pointer that may be freed. `tailTaken`, `zeroAsked`
are history.

**LockedHeap** (`A8/malloc.c`, `A8/main.c`). `hdr` gives a header at *every*
address, because racing calls follow stale pointers. One action per loop
iteration and two for `frag` (`FragNew`, `FragLink`), so the window opened by
the early unlock is explored. The mutex is a word that unlock clears whoever
calls. `Program[t]` lists the calls of a thread function of `main.c`; the
process may end by `exit` on NULL, a NULL dereference, or a write past `mem`,
after which nothing is claimed. What clients write to payloads is left out.

**ThreadSafeHeap** (`PracticumV2/mymalloc.c`, the threads of `PracticumV2/main.c`).
The heap thread `t` maps is a set of blocks of its own, `<<t, address>>`, and `head`
is the first block of the heap mapped last. `init_heap` is four actions, one per
field (`MapHeap`, `ClearTable`, `SetFree`, `SetSize`), because nothing excludes
others meanwhile; it reads `head` again each time, as the `-O0` build of the
Makefile does. Under the mutex a loop iteration is an action and a split is two
(new header, old header). `data` is kept as the code keeps it: set when a block is
taken, not by a split, whose result is whatever an earlier use left (NULL, the
block, or `JUNK`, bytes that were something else). `place` is where the quotient
taken for a page number falls, which depends on what `mmap` returned. `JOIN` in a
program is the join between the two sets of threads. `initers` is history.

**FileService** (`PracticumII/server.c`, `PracticumII/fgets.c`). The server's
loop is `accept`, `recv` (parse and dispatch) and then the action of the
command; a client connects, posts its request and reads. `buffer` keeps of
`client_message` what decides how the next message is cut: how far it is filled
and where `strtok` left a NUL. `pipe` holds bytes `<<path, i>>` on their way, and
`Read` takes any piece of them. `Deliver` is `send`, also to a client that has
gone (lost first, then SIGPIPE). PUT is two actions, as its files may fail to open
(`createFiles`) and its `recv` may fail (`perform_put_command`). INFO, MD and RM requests come from other
programs, since `fgets` sends none on purpose; what `fgets` sends to an
uninitialized descriptor may reach the server by chance (`SendAndLeave`).

**DeviceService** (`PracticumIIV3/server.c`, `fgets.c`). `fd` is the process's table
of descriptors: each number stands for a connection, a file or device, the place
`accept` is about to fill, or nothing. `sock[t]` and `held[t]` are the numbers thread `t`
*believes* it has; `start` reads `sock[Main]` when the handler first runs, which may be
after main's next `accept` (`late`). `conn[t]` fixes the connection a thread sleeps on
in `recv`, since closing a number does not wake who waits on it. Requests flow in
pieces, `Buffer` of which fill a handler's buffer, and whoever receives first takes
them (`take`). `cutter` is the thread whose message `strtok` is cutting. A `pthread_create`
that fails goes unnoticed (it returns a positive number), and main serves the connection alone. An `open` may
fail, else it gives the lowest free number. A handler that ends closes whatever its
number stands for by then, but not a number `accept` has only reserved: until the
connection is there a close of it fails.

**PagingHeap** (`PracticumI/malloc.c`, the threads of `PracticumI/main.c`). Steps as in
`LockedHeap`, with `FragAbsorb` for the rest too small for a header, `UnlockAgain` for the
second unlock, and `main` itself as a thread that creates, joins and then allocates.
`blocks` (history) are the addresses splits and merges have left; a header
written over another ends the model as "overrun", since what follows depends on bytes.

**ProcessQueue** (`A3/queue.c`). Nodes are addresses; a freed node keeps its fields, and an
`enqueue` through a stale `tail` writes to it. If the node is free at that moment,
malloc's own list is what is overwritten (`corrupted`): then malloc may
return any address or abort. `size` is never raised, so `dequeue` ends at its test.

Some modules end with the guards of their steps written out (`MayGoOn`, `ServerMayGoOn`) and
with what a process may wait for instead (`Starved`, `ServerWaits`, `Waits`). The theorems on
who can be stuck are stated with them, since `ENABLED` is out of the prover's reach; TLC
has compared them with `ENABLED` of the steps on the instances of the runs.

`MCBoundedBuffer`, `MCLockedHeap`, `MCThreadSafeHeap`, `MCFileService`,
`MCDeviceService`, `MCPagingHeap` give constants their values; `QueueProofs` (for both queues,
`BoundedBuffer` and `ProcessQueue`), `VmSimulatorProofs`, `HeapProofs`, `LockedHeapProofs`,
`ThreadSafeHeapProofs`, `FileServiceProofs`, `DeviceServiceProofs` and `PagingHeapProofs` hold
the theorems.

## 3. Runs and what they show

| run | instance | shows |
|---|---|---|
| `buffer_pairs` | 2 depositors, 2 fetchers, capacity 2, 1 spurious wakeup (98,724 states) | ring indices agree (`RingAgrees`), no wakeup is lost (`NoLostWakeup`), refinement of `LastItemBuffer` (`KeepsPromise`), `main` returns (`MainReturns`) |
| `buffer_fifo` (violation) | the same, no spurious wakeups | with two items in it the buffer is no FIFO |
| `vm` | 4 pages, TLB of 2, 4 frames, 7 addresses, both strategies, failing reads | coherence of TLB and page table, values from the right page, no page loaded twice, LRU order |
| `vm_page_zero` (violation) | the same | page 0 hits an empty TLB slot |
| `heap` | 13 units, requests of 0..3, 6 calls | the list tiles `mem`; allocations are exclusive until the last block is taken exactly; re-initialization only after a request for 0; loops = sets (`LoopsAgree`; 257,072 states) |
| `locked` | three threads of `unitTest8`, 8 units | initialized once, at most two threads inside and only before the first quiet moment, the mutex never left locked, only a cyclic list keeps a thread |
| `ts_heap` | `main`'s threads, two at a time, each two calls of `thread_function`, then `thread_func2` | no block past the end of its heap; after one initialization no sharing, no stray page table entry, no endless search (134,084 states) |
| `file_service` | 2 clients, any commands, a file above and one below the buffer size and one missing, kills | what a GET receives is the beginning of the file served, byte by byte (`ReceivedIsServed`); the ways to come to rest (36,413 states) |
| `file_stale` (violation) | the same | the server acts on a path nobody sent |
| `devices` | 2 clients (one may be killed), requests of one piece and one of three, buffers of 2 pieces, 4 descriptors (759,026 states) | while handlers start in time every descriptor has one owner (`DescriptorsOwned`) and answers go to who asked (`AnswersReachAsker`); the ways to come to rest |
| `queue` | 5 nodes, 5 elements, any calls (298,632 states) | a queue until a tail is forgotten (`FifoWhileSound`), in order and once for ever (`InOrder`) |
| `paging` | one thread each of `thread_func`, `unitTest2`, `unitTest5`, `unitTest4`, and main; 16 units (354,962 states) | the blocks tile the heap until two threads are inside (`TiledUntilRaced`), only a cyclic list keeps the threads from their end or the process from one (`EndsUnlessCyclic`) |

Bounds. Two slots and two threads per side are the least with a full buffer, an
empty one and competition on both sides. Four pages against two TLB slots and
seven addresses allow every page to be loaded, evicted and used again. In the
heap, 13 units with headers of 1 hold four blocks and more, enough for runs of
three free neighbours and for splits between them. For the locked heap three
threads are the least that can show a third one entering. The allocator of
PracticumV2 needs two threads for two initializations and a third, or a second
call of one, for the block that is overwritten; 23 units hold a block for every
request of the threads and one more, as `main`'s 16 MB do (`LongFor`). Sizes 2 and 1 stand for 10 and `sizeof(int)`: they
differ by no more than a header. In the file service
the chunk is two bytes, so that a file can exceed the buffer and be split; two
clients are enough for one request over another, for a client in the backlog
while the other is served, and for every exit path. In the service with devices a
buffer of two pieces tells a request main can act on from one a handler can, and a
request of three leaves a handler the words of its second half; four descriptors are
one connection, main's two devices and one more, so that `open` and `accept` meet
the limit and numbers are used again. Five nodes let a drained and a forgotten queue
go on through reuse of every node. In `paging` the four functions are all that differ
once `unitTest1` (a request of the whole heap, refused) is left to the theorems, which are
for any functions; 16 units with headers of 2 give rests of 0 and 1 unit, both smaller
than a header.

`Ended`/`Exited` steps let finished systems stutter. `FileService`, `DeviceService` and
`ProcessQueue` have none: a service whose clients are all gone stops in `accept`, one whose
process has exited does nothing, and a client of the queue may stop calling (or have
crashed), so the deadlock check is off there; `ComesToRest` says where the services may stop.

Fairness. `MainReturns`, `StuckOnlyInCycle`, `EndsAfterOneInit`: weak fairness per
thread (the JVM and the kernel run every runnable thread; nothing in the code
yields). A waiting thread may lose the lock to others any number of times, but
each makes finitely many calls, so no strong fairness is assumed. Spurious
wakeups are not fair. `FileService`: weak fairness of the server process and of
each client process; kills are not fair. `DeviceService`: weak fairness of main, of each
handler and of each client, as the kernel schedules them; kills are not fair, nor is
any outcome of an `open`. `PagingHeap`: weak fairness of main and of each thread.

## 4. What is proved

All theorems are for every value of the constants that satisfies the named
assumption of the module.

* `QueueProofs`, the bounded buffer: `TypeCorrect`, `RingAlwaysAgrees`, `NoWakeupIsLost`,
  `PromiseKept`, `FifoWhilePassedOn`. The inductive invariant adds to the types that a
  thread in a condition's set is at the place `awaiting` and in the call that awaits this
  condition; for `NoLostWakeup`, a count of woken threads against items and
  free slots. Without the link between sets and places, `signal` could wake a
  thread that waits for something else. `IsFifo` fails as soon as two items are in the
  buffer (`buffer_fifo`); it is proved for calls that pass one item around (`PassesOneItem`,
  true of `main`'s program, which TLC evaluates), because the item is then either in the buffer or with the
  one thread whose last call to take effect was a fetch (`OneToken`). `OnlyStarvedWait` says
  that lock, signals and loops stop nobody: without a lost wakeup, and as a thread between
  two calls holds no lock, all wait only if every call left fetches from an empty buffer or
  every one deposits into a full one (`Starved`). `NeverAllWaiting` excludes that for clients
  like `main`'s, whose last call is a deposit (`HandsBack`): the item is in the buffer,
  so nobody sleeps on an empty one, or its holder has a deposit to make and finds room.
  `BalancedNeverAllWait` does it for threads that only deposit or only fetch by counting
  the calls made and left (`Counted`). TLC evaluates both premises for the runs' workloads.
* `VmSimulatorProofs`: `SimulatorTypeCorrect`, `TlbAlwaysCoherent`,
  `NeverLoadedTwice`, `FramesAlwaysSuffice`, `AlwaysReadsOwnPage`,
  `AlwaysEvictsLeastRecent`. The argument:
  `nextPage = nextFrame` and the table maps distinct pages to their own
  positions; so a fault always finds a page that is not in the table, and at most
  `MaxPage + 1` frames are used. Coherence is proved array slot by array slot for
  the shifts and replacements of the two insertions. For the eviction, the age of
  a slot is the number of translations since the last use of its page, and no two
  slots in use hold the same page except page 0.
* `HeapProofs`: `AlwaysTiled` (splits and merges keep the list a tiling; the
  key lemma is that between a block and its `next` there is no header),
  `ExclusiveWhileTailFree`, `AllocationsApart` (the payloads themselves do not overlap),
  `NoReinitWithoutZero`, `LoopsAlwaysAgree`. For the last, each loop is a recursive function
  and no induction rule is at hand, so its values are given in closed form: where the search
  is from each block on, what heap and block the merge has come to after each round.
  That the closed form satisfies the recursion is one step of the loop, that nothing else does is
  a least-counterexample argument; and a loop over blocks in address order ends within
  `HeapSize` rounds.
* `LockedHeapProofs`: `MutexNotLeftLocked`, `HeapInitializedOnce`, `NeverThreeInside`,
  `ExclusiveAfterQuiet`, `LockedTypeCorrect`, `SomeThreadGoesOn`. The mutex is a matter of counting: inside are at
  most the thread that initialized and one more, because the only unlock too many is that
  thread's. That there is one such thread needs the list, in spite of the races:
  `InitOnce` is not inductive, since a merge of two wrong sizes could give 0. The invariant
  (`Shape`) is that a header which can be reached is `Adjacent`: its size takes it, modulo `Wrap`, to
  its `next`, or to the end of `mem`. Racing splits leave wrong headers and even a cycle,
  but `frag` and `mergefrag` copy size and next together, so the two go on agreeing; and no
  block begins right behind the first header as long as nobody asks for 0 bytes (`NoneForZero`,
  as `thread_func` asks for `rand() % 100 + 1`; TLC evaluates it for the run's workload). Types
  hold also after the races: a thread inside is in a call of its own and has checked that
  the header it links is in mem (`Placed`). As a mutex that is held has a thread inside, and one
  inside always has a step, nobody is stuck before all calls are made (`SomeThreadGoesOn`).
* `ThreadSafeHeapProofs`: `AllocatorTypeCorrect`, `BlocksStayInside`,
  `ListAlwaysAscends`, `PageNeverLoaded`, `UnsharedWhileRoomy`, `UnsharedInLongHeap`,
  `EntriesHeldWhileRoomy`, `EntriesHeldInLongHeap`. The first two need that a thread
  inside a split has room for the new header (`ControlOf`), which no later initialization
  takes away. For the third the invariant says that linked blocks are adjacent and that
  the first block has size 0 until `init_heap` is done, so that nobody splits it before;
  this fails as soon as two threads initialize. `PageNeverLoaded`, a
  disagreement (section 5), needs no such premise: a page with its header is larger than any
  block that was ever linked.
  That blocks are not shared is about what the threads ask for, because a split marks
  nothing: its result is private only while every linked block but the last has been
  handed out and left its address in `data`. So `UnsharedWhileRoomy` asks that sizes differ by no more than
  a header (`Alike`: a freed block is taken whole, never split) and that the last block is
  roomy; its invariant `Sound` separates the blocks before the last from the last one
  (`LinkedSmall`, `LastClean`, `Cutting`, `Marked`, `Separate`). `UnsharedInLongHeap`
  derives the room from the length of the heap by counting the mallocs served (`Ample`,
  from `LongFor`). The entries need in addition that a thread frees a block before it asks
  for the next (`FreesBetween`), as `thread_function` does, because the entry found at a
  free is the first one of that address. These are conditions on the calls, true of the
  10-byte and `sizeof(int)` requests `main`'s threads make of 16 MB; TLC evaluates them
  for the workload of the run (`MainWorkload`), and it checked the invariants first.
  `NobodyStuckOnMutex`, for any calls and any number of initializations: the mutex is held
  by a thread between lock and unlock (`HeldInside`), so some thread has a step, or all are
  through or at a join (or free a pointer made of old bytes, where the model ends).
* `FileServiceProofs`: `ServiceTypeCorrect`, `ReceivedAlwaysServed`. The invariant follows the
  stream: before its request is received nothing flows to a client (`Unheard`); then what
  it has read and what is on its way are together, byte by byte, the part of the file
  sent so far (`Streaming`), which is `offset` while the server sends to it and the
  whole file afterwards. `Serving` is what keeps other answers out: the server
  answers only clients that have asked, and an INFO, MD or PUT found again in
  the buffer only goes to one that has left. Without it `perform_info_command` could
  append to a stream. `WaitsOnlySo` is about the server being stuck: it is only in `accept` without
  a connection, in `recv` for a client that has not asked yet, or in PUT for a client that
  waits for it. The invariant is that a connection is in the backlog once and is served
  once (`Queued`), so the request of a client that is being received has not been read
  before (`Pending`), and that in PUT the client waits for READY or has gone (`PutServed`).
* `DeviceServiceProofs`: `DeviceTypeCorrect`, `DescriptorsAlwaysOwned`,
  `AnswersAlwaysReachAsker`. The invariant follows the connection accepted last, whose number
  main's `client_sock` holds until its handler has closed it: what main knows of it
  (`Arrivals`, `MainServes`) and that a request comes from the client that is served (`Origins`)
  hold always; that a handler has its own client's number (`Connected`, `HandlerServes`) and that open files have
  one owner (`FilesOwned`) hold while no handler has started late. Neither property is
  inductive without the place of every thread in relation to its number.
  `ThreadsWaitForClients` holds also after late handlers: main or a handler that has no step
  waits for its start, for a connection, or in `recv` for a client that is there and has
  nothing on the way. It needs that a thread has opened no more files than its command
  opens (`Holding`), that a handler in `recv` has room left in its buffer (`Filling`), and that
  the number of the accept under way stays reserved (`Reserved`), whatever number a late
  handler closes.
* `PagingHeapProofs`: `PagingTypeCorrect`, `AlwaysTiledUntilRaced`,
  `FinalCheckOnlyAfterOverrun`, `SomeThreadGoesOn`. Types hold also after
  races, because a header is only written where it fits (`Placed`). Until a
  race at most one thread is inside (`Alone`), and the invariant says for
  each of its places what it may rely on (`StagedFor`): the block it is at is one of
  `blocks`, a split has room, the header written in advance describes the
  second part of the block that is still whole. After a race sizes and links still agree
  modulo `Wrap` (`Shape`, as in A8; here the heap may be initialized again). So a size is
  below a page or, for a distance backwards, above all pages: `unitTest5` gets NULL and
  exits, or splits a block where there is no page (`Before5`). The second writes past the heap;
  the process may survive it, and `unitTest5` may then be joined, so the theorem
  says only that `main` does not come to its check (section 5) before such a write. It asks
  for more than one page; `NUM_PAGES` is 16. `SomeThreadGoesOn`: although an unlock may be of
  somebody else's lock, a mutex that is held always has a thread inside (`Held`), and `main`
  joins only threads it has created (`Started`).
* `QueueProofs`, the process queue: `QueueTypeCorrect`, `AlwaysInOrder`, `AlwaysFifoWhileSound`,
  `DrainIsFinal`. As long as the queue is not drained no freed node has been
  written to, the numbers in the list rise along `next` (`Linked`), and all of them
  are above what has come out; a drained queue only overwrites nodes, which is `DrainIsFinal`, a
  disagreement (section 5).

Only model-checked: liveness under fairness, which the prover does not reach (`MainReturns`,
`StuckOnlyInCycle`, `EndsAfterOneInit`, `ComesToRest` of both services, `EndsUnlessCyclic`).
Every other property of a passing run is a theorem. Of the liveness properties
the safety half is proved, that no reachable state leaves all who have work to do waiting for
each other, with the guards written out; that a search or merge ends, and that a thread which
can go on does, is left to TLC.

## 5. Disagreements met

Three have a violation run, which quotes the line it refutes in `PROJECT.json`: `buffer_fifo`,
`vm_page_zero` and `file_stale`. Three are theorems of their own (`PageNeverLoaded`,
`FinalCheckOnlyAfterOverrun`, `DrainIsFinal`): they hold of every workload and are not
claims about what the program should do. The others were seen while modelling:

* **A6.** The one of `buffer_fifo`: `deposit` writes its thread description into every slot
  before it stores the item, so with two items in the buffer a fetch returns a text no one
  deposited (`boundedBuffer.java:97-102`, `:236`). `main`'s workload never has two.
* **A7.** The search stops at a last block whatever its flag, and a request of
  its size gets it although it is in use (`malloc.c:46`; `:39` says such a block "cannot be
  used for the allocation"). `ExclusiveUntilTailTaken` says that this is the only way.
  `mergefrag` follows NULL after absorbing the last block (`crashed`) and joins runs of free
  blocks in pairs only (`Absorbed`); a request is refused when the first fit
  is larger by no more than a header.
* **A8.** Two threads get the same memory, though the mutex is "to ensure that only one
  thread at a time can allocate or deallocate memory" (`readme.md:99`): the early unlock lets
  a second one into the first call's search. Two racing splits can tie the list into
  a cycle that `mergefrag` walks for ever (`StuckOnlyInCycle`).
* **PracticumV2.** Two first callers of `thread_safe_malloc` both initialize, and a block is
  handed out to two threads (`mymalloc.c:83`: "a thread-safe memory allocation
  function"). It returns NULL for the first request of a size, with the whole heap free,
  and `thread_func2` writes through it. "Load a page from disk" (`main.c:135`) never
  does: `load_page_from_disk` asks for a block as long as the whole heap with its first header
  and exits on NULL, so `main`, which joins that thread first, never "calls on translateAddress
  for every entry in the addresses file" (`main.c:162`); `PageNeverLoaded` is the proof. The
  FIFO insertion of the simulator
  overwrites its newest entry before the shift, so it loses two entries.
* **PracticumI.** main's check "that forms of heap corruption are handled" (`main.c:405`) is not
  made: `unitTest5` asks for more than the heap and exits on NULL, and main joins it
  first. The one way past it is damage: after a race a size may have wrapped, `unitTest5` splits
  that block far past the heap (`malloc.c:155-161`), and if the process survives the write
  it may be joined (`FinalCheckOnlyAfterOverrun`). `pm_free_lock` unlocks twice (`malloc.c:206`). `access_page` and `load_page` call each
  other without end.
* **PracticumII.** GET is to "download file from server" (`readme.md:9`) and to "Save file
  data to local file" (`fgets.c:222`), but no saved file is the file served: after the loop
  `bytes_received` is 0, so the terminator of `fgets.c:217` goes over the first byte of every
  file, and a file longer than the buffer is cut there, as a full buffer ends the loop
  like the end of the connection. `ReceivedIsServed` is about what was received, and
  says nothing of that byte nor of the rest. A client that closes without a request has
  the previous one executed again (`server.c:198`, `recvNothing`). "Close file and
  client socket" (`server.c:230`) closes the file only, so a client that reads to
  the end of the connection waits for ever, and PUT waits for a size while its client waits
  for READY and nobody else is served; `ComesToRest` admits both. A PUT never
  transfers a file; every client command but GET and INFO of an existing file and PUT of a
  missing one ends the server.
* **PracticumIIV3.** "Create a new thread for each client" (`server.c:398`): the thread
  gets the address of main's variable and may read a later client's socket, close it
  under main's hands, and compete with main for each piece of a request. GET in a handler
  leaves three descriptors open. In `fgets`, PUT always fails (`fgets.c:213` assigns NULL), and GET
  sends no request the server knows.
* **A3.** `dequeueProcess` "removes and returns the process with the highest priority"
  (`queue.c:127-128`), but takes the first whatever its priority; elements have none in the
  model. `size` stays 0, so `qsize` is 0 and `dequeue` never returns an element. "check if
  the queue is empty" (`queue.c:56`) is false of a drained queue, whose `tail` is still at the
  node freed last, and `enqueue`, which "can adds element to the end of the queue"
  (`queue.c:64`), then loses what it is given for good (`DrainIsFinal`).

## 6. Not modelled, and why

Within the modelled parts: overflow of `noOfBytes + sizeof(struct block)` in A7 (sizes are
bounded by the heap); headers that partly overlap in A8 (a header is one unit) and
what a header written over another does in PracticumI; offsets within a page; texts
of messages and menus; `InterruptedException`; failures of `socket`, `bind`, `listen`, `mmap`,
and of `accept` in PracticumII; what `PUT` writes to files on the server; the trylocks of
PracticumIIV3, which no other thread holds.

* `pm_put`, `pm_get`, `swap_page`, `save_dirty_page` of PracticumV2 come after a call that never
  returns, and the page file is never written (`dirty` is never set).
* `access_page`, `load_page`, `replace_page` of PracticumI: no call of them returns, and only
  `unitTest3`, which `main` does not start, makes one.
* `read_from_usb` (`PracticumIIV3/fgets.c`): two threads write one local file before
  the client sends anything; nothing reads the outcome.
* PracticumIIV2 and PracticumIITest: earlier forms of the loop `FileService` models.
* A5: one critical section from the first look at the counter to the last, so there is
  nothing to interleave. A4: the index reaches 150 in an array of 50, and what happens
  from the 35th write on depends on what the linker put behind it.
* The Polybius cipher is a pure function of a table; A1 is floating-point
  arithmetic; Practicum and Trial are sketches of the parts above.

## 7. What is left

1. A form of `Heap` with sizes modulo the range of `size_t`, for the sums that wrap.
2. `read_from_usb` and the forms of the service in PracticumIIV2 and PracticumIITest.
