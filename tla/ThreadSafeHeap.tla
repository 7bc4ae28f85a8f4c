--------------------------- MODULE ThreadSafeHeap ---------------------------
(***************************************************************************)
(* The allocator of PracticumV2/mymalloc.c, used by several threads:       *)
(* init_heap, thread_safe_malloc and thread_safe_free, and the threads     *)
(* main starts before the simulation.                                      *)
(*                                                                         *)
(* thread_safe_malloc compares head with NULL and calls init_heap before   *)
(* it takes the mutex, so several first callers may map a heap each, and   *)
(* the last one's head stays.  The heap thread t maps consists of the      *)
(* blocks <<t, 0>>, <<t, 1>>, ...  Addresses and sizes are counted in      *)
(* headers (sizeof(struct block) is 1).  init_heap reads head again for    *)
(* each field it writes, as the unoptimized build of the Makefile does.    *)
(***************************************************************************)
EXTENDS Integers, Sequences, FiniteSets

CONSTANTS Threads,
          Program,   \* Program[t]: the calls t makes, in order
          HeapSize,  \* PAGE_SIZE, the length of a heap and of a page
          NULL,
          JUNK       \* a pointer made of bytes that were something else

Hdr       == 1
Addresses == 0 .. HeapSize - 1
Blocks    == Threads \X Addresses

(* What the threads do: malloc, free, the join and the memset of main       *)
(* between its two sets of threads, *ptr = tid, save_dirty_page_to_disk and *)
(* load_page_from_disk, which mallocs a whole page and gives up on NULL.    *)
MALLOC(n) == [op |-> "malloc", n |-> n]
FREE      == [op |-> "free", n |-> 0]
JOIN      == [op |-> "join", n |-> 0]
STORE     == [op |-> "store", n |-> 0]
SAVE      == [op |-> "save", n |-> 0]
LOAD      == [op |-> "load", n |-> HeapSize]
CallTypes == {c \in [op : {"malloc", "free", "join", "store", "save", "load"}, n : Nat] :
                c.op = "load" => c = LOAD}

ASSUME HeapAssumption ==
  /\ IsFiniteSet(Threads) /\ HeapSize \in Nat /\ HeapSize > Hdr
  /\ Program \in [Threads -> Seq(CallTypes)]
  /\ NULL \notin Blocks \cup Threads /\ JUNK \notin Blocks /\ NULL # JUNK

VARIABLES
  head,           \* the first block, NULL until init_heap
  hdr,            \* block -> [size, free, next, data]
  mutex,          \* the thread that holds it, or NULL
  pc, curr, res,  \* where each thread is in its call, at which block, its result
  done, ptr,      \* calls each thread has completed, what it holds
  pageMapped,     \* pageTab[0] # -1
  ptes,           \* page_table_head: the virtual addresses of its entries
  place,          \* where the index in pageTab falls for the blocks of a heap
  process,        \* "running", or how the process ended
  initers         \* history: the threads that called init_heap

memory == <<head, hdr, place, initers>>
paging == <<pageMapped, ptes>>
thread == <<pc, curr, res>>
client == <<done, ptr>>
vars   == <<memory, mutex, thread, client, paging, process>>

(* The bytes of a mapping are 0.                                            *)
Blank == [size |-> 0, free |-> FALSE, next |-> NULL, data |-> NULL]

Init ==
  /\ head = NULL /\ mutex = NULL
  /\ hdr = [b \in Blocks |-> Blank]
  /\ pc = [t \in Threads |-> "outside"]
  /\ curr = [t \in Threads |-> NULL] /\ res = [t \in Threads |-> NULL]
  /\ done = [t \in Threads |-> 0] /\ ptr = [t \in Threads |-> NULL]
  /\ pageMapped = TRUE /\ ptes = <<>>
  /\ place = [t \in Threads |-> "far"]
  /\ process = "running" /\ initers = {}

Finished(t)      == done[t] = Len(Program[t])
Call(t)          == Program[t][done[t] + 1]
Calls(t, ops)    == ~Finished(t) /\ Call(t).op \in ops
At(t, where)     == process = "running" /\ pc[t] = where
Goto(t, where)   == pc' = [pc EXCEPT ![t] = where]
Completed(t)     == done' = [done EXCEPT ![t] = @ + 1]

-----------------------------------------------------------------------------
(* thread_safe_malloc, outside the mutex.                                   *)
CallMalloc(t) ==
  /\ At(t, "outside") /\ Calls(t, {"malloc", "load"})
  /\ Goto(t, IF head = NULL THEN "map" ELSE "lock")
  /\ UNCHANGED <<memory, mutex, curr, res, client, paging, process>>

(* init_heap.  Where mmap puts the heap decides what becomes of the         *)
(* quotient taken for a page number: an int outside both tests ("far"), an  *)
(* index past the end of pageTab ("wild"), or 0.                            *)
MapHeap(t) ==
  /\ At(t, "map")
  /\ head' = <<t, 0>>
  /\ initers' = initers \cup {t}
  /\ \E p \in {"far", "wild", "zero"} : place' = [place EXCEPT ![t] = p]
  /\ Goto(t, "clear")
  /\ UNCHANGED <<hdr, mutex, curr, res, client, paging, process>>

ClearTable(t) ==
  /\ At(t, "clear")
  /\ pageMapped' = FALSE
  /\ hdr' = [hdr EXCEPT ![head].next = NULL]
  /\ Goto(t, "setfree")
  /\ UNCHANGED <<head, place, initers, mutex, curr, res, client, ptes, process>>

SetFree(t) ==
  /\ At(t, "setfree")
  /\ hdr' = [hdr EXCEPT ![head].free = TRUE]
  /\ Goto(t, "setsize")
  /\ UNCHANGED <<head, place, initers, mutex, curr, res, client, paging, process>>

\* Mutant: the header is not subtracted.
WholeSize == HeapSize
InitSize  == HeapSize - Hdr

SetSize(t) ==
  /\ At(t, "setsize")
  /\ hdr' = [hdr EXCEPT ![head].size = InitSize]
  /\ Goto(t, "lock")
  /\ UNCHANGED <<head, place, initers, mutex, curr, res, client, paging, process>>

-----------------------------------------------------------------------------
(* The search, under the mutex.                                             *)
Lock(t) ==
  /\ At(t, "lock") /\ mutex = NULL
  /\ mutex' = t
  /\ curr' = [curr EXCEPT ![t] = head]
  /\ res' = [res EXCEPT ![t] = NULL]
  /\ Goto(t, "search")
  /\ UNCHANGED <<memory, client, paging, process>>

Fits(b, n)   == hdr[b].free /\ hdr[b].size >= n
Larger(b, n) == hdr[b].size > n + Hdr

Search(t) ==
  /\ At(t, "search") /\ ~Fits(curr[t], Call(t).n)
  /\ curr' = [curr EXCEPT ![t] = hdr[curr[t]].next]
  /\ Goto(t, IF curr'[t] = NULL THEN "finish" ELSE "search")
  /\ UNCHANGED <<memory, mutex, res, client, paging, process>>

\* Mutant: the block is not marked.
TakenUnmarked(b) == [hdr EXCEPT ![b].data = b]
Taken(b)         == [hdr EXCEPT ![b].free = FALSE, ![b].data = b]

Take(t) ==
  LET b == curr[t]
  IN  /\ At(t, "search") /\ Fits(b, Call(t).n) /\ ~Larger(b, Call(t).n)
      /\ hdr' = Taken(b)
      /\ res' = [res EXCEPT ![t] = b]
      /\ Goto(t, "finish")
      /\ UNCHANGED <<head, place, initers, mutex, curr, client, paging, process>>

(* A split sets neither the data of the new block, where what the memory    *)
(* held before remains, nor the mark or the data of the block it returns:   *)
(* the result is the data of an earlier use of the block, or NULL.          *)
NewBlock(b, n) == <<b[1], b[2] + Hdr + n>>
Fresh(b) ==
  hdr[b].data = NULL /\ \A a \in Addresses : a > b[2] => hdr[<<b[1], a>>] = Blank
OldData(b, new) ==
  IF hdr[new] # Blank THEN {hdr[new].data} ELSE IF Fresh(b) THEN {NULL} ELSE {NULL, JUNK}

\* Mutant: the list is linked to the new block first.
NewHeaderLinkedFirst(b, n, d) ==
  [size |-> hdr[b].size - Hdr - n, free |-> TRUE, next |-> NewBlock(b, n), data |-> d]
NewHeader(b, n, d) ==
  [size |-> hdr[b].size - Hdr - n, free |-> TRUE, next |-> hdr[b].next, data |-> d]

SplitNew(t) ==
  LET b == curr[t]
      n == Call(t).n
  IN  /\ At(t, "search") /\ Fits(b, n) /\ Larger(b, n)
      /\ \E d \in OldData(b, NewBlock(b, n)) :
           hdr' = [hdr EXCEPT ![NewBlock(b, n)] = NewHeader(b, n, d)]
      /\ Goto(t, "split")
      /\ UNCHANGED <<head, place, initers, mutex, curr, res, client, paging, process>>

SplitOld(t) ==
  LET b == curr[t]
  IN  /\ At(t, "split")
      /\ hdr' = [hdr EXCEPT ![b].next = NewBlock(b, Call(t).n), ![b].size = Call(t).n]
      /\ res' = [res EXCEPT ![t] = hdr[b].data]
      /\ Goto(t, "finish")
      /\ UNCHANGED <<head, place, initers, mutex, curr, client, paging, process>>

-----------------------------------------------------------------------------
(* The rest of thread_safe_malloc: the page table, the unlock and the       *)
(* return.                                                                  *)
Return(t) ==
  /\ mutex' = NULL
  /\ ptr' = [ptr EXCEPT ![t] = IF Call(t).op = "load" THEN @ ELSE res[t]]
  /\ Completed(t)
  /\ Goto(t, "outside")
  /\ UNCHANGED <<memory, curr, res>>

(* load_page_from_disk exits when it gets NULL.                             *)
NullFatal(t) == Call(t).op = "load"

FinishNull(t) ==
  /\ At(t, "finish") /\ res[t] = NULL
  /\ Return(t)
  /\ process' = IF NullFatal(t) THEN "exited" ELSE process
  /\ UNCHANGED paging

PlaceOf(r) == IF r = JUNK THEN "wild" ELSE place[r[1]]

FinishFar(t) ==
  /\ At(t, "finish") /\ res[t] # NULL /\ PlaceOf(res[t]) \in {"far", "wild"}
  /\ Return(t)
  /\ UNCHANGED <<paging, process>>

FinishWild(t) ==
  /\ At(t, "finish") /\ res[t] # NULL /\ PlaceOf(res[t]) = "wild"
  /\ process' = "segfault"
  /\ UNCHANGED <<memory, mutex, thread, client, paging>>

FinishPaged(t) ==
  /\ At(t, "finish") /\ res[t] # NULL /\ PlaceOf(res[t]) = "zero"
  /\ ptes' = IF pageMapped THEN ptes ELSE <<res[t]>> \o ptes
  /\ pageMapped' = TRUE
  /\ Return(t)
  /\ UNCHANGED process

-----------------------------------------------------------------------------
(* thread_safe_free.  No statement sets an element of dirty to 1, so there  *)
(* is never a page to save.                                                 *)
FreeNull(t) ==
  /\ At(t, "outside") /\ Calls(t, {"free"}) /\ ptr[t] = NULL
  /\ Completed(t)
  /\ UNCHANGED <<memory, mutex, thread, ptr, paging, process>>

\* Mutant: the entry stays.
EntryKept(b)  == ptes
Without(b) ==
  LET at == {i \in 1 .. Len(ptes) : ptes[i] = b}
      first == CHOOSE i \in at : \A j \in at : i <= j
  IN  IF at = {} THEN ptes
      ELSE SubSeq(ptes, 1, first - 1) \o SubSeq(ptes, first + 1, Len(ptes))

FreeBlock(t) ==
  LET b == ptr[t]
  IN  /\ At(t, "outside") /\ Calls(t, {"free"}) /\ b \in Blocks /\ mutex = NULL
      /\ ptes' = Without(b)
      /\ hdr' = [hdr EXCEPT ![b].free = TRUE]
      /\ ptr' = [ptr EXCEPT ![t] = NULL]
      /\ Completed(t)
      /\ UNCHANGED <<head, place, initers, mutex, thread, pageMapped, process>>

-----------------------------------------------------------------------------
(* The other things the threads do.  main joins all threads of the first    *)
(* set and clears pageTab before it starts the second; memory that is not   *)
(* there cannot be written; save_dirty_page_to_disk exits without a file to *)
(* update and reads through elements of pageTab taken for pointers.         *)
AtJoin(d) == \A t \in Threads : pc[t] = "outside" /\ done[t] = d /\ Calls(t, {"join"})

Join(t) ==
  /\ process = "running" /\ AtJoin(done[t])
  /\ done' = [u \in Threads |-> done[u] + 1]
  /\ pageMapped' = FALSE
  /\ UNCHANGED <<memory, mutex, thread, ptr, ptes, process>>

Store(t) ==
  /\ At(t, "outside") /\ Calls(t, {"store"})
  /\ Completed(t)
  /\ process' = IF ptr[t] \in Blocks THEN process ELSE "segfault"
  /\ UNCHANGED <<memory, mutex, thread, ptr, paging>>

Save(t) ==
  /\ At(t, "outside") /\ Calls(t, {"save"})
  /\ Completed(t)
  /\ process' \in {"running", "exited", "segfault"}
  /\ UNCHANGED <<memory, mutex, thread, ptr, paging>>

ThreadStep(t) ==
  \/ CallMalloc(t) \/ MapHeap(t) \/ ClearTable(t) \/ SetFree(t) \/ SetSize(t)
  \/ Lock(t) \/ Search(t) \/ Take(t) \/ SplitNew(t) \/ SplitOld(t)
  \/ FinishNull(t) \/ FinishFar(t) \/ FinishWild(t) \/ FinishPaged(t)
  \/ FreeNull(t) \/ FreeBlock(t)
  \/ Join(t) \/ Store(t) \/ Save(t)

AllFinished == \A t \in Threads : Finished(t)
Ended == (AllFinished \/ process # "running") /\ UNCHANGED vars

Next == Ended \/ \E t \in Threads : ThreadStep(t)

(* Each thread makes finitely many calls, so the mutex starves nobody.      *)
Spec == Init /\ [][Next]_vars /\ \A t \in Threads : WF_vars(ThreadStep(t))

-----------------------------------------------------------------------------
(* The heaps, the threads and the page table have their types.              *)
TypeOK ==
  /\ head \in Blocks \cup {NULL} /\ mutex \in Threads \cup {NULL}
  /\ hdr \in [Blocks -> [size : 0 .. HeapSize - Hdr, free : BOOLEAN, next : Blocks \cup {NULL},
                         data : Blocks \cup {NULL, JUNK}]]
  /\ pc \in [Threads -> {"outside", "map", "clear", "setfree", "setsize", "lock",
                         "search", "split", "finish"}]
  /\ curr \in [Threads -> Blocks \cup {NULL}]
  /\ res \in [Threads -> Blocks \cup {NULL, JUNK}]
  /\ done \in [Threads -> Nat] /\ \A t \in Threads : done[t] <= Len(Program[t])
  /\ ptr \in [Threads -> Blocks \cup {NULL, JUNK}]
  /\ pageMapped \in BOOLEAN /\ ptes \in Seq(Blocks)
  /\ place \in [Threads -> {"far", "wild", "zero"}]
  /\ process \in {"running", "exited", "segfault"} /\ initers \subseteq Threads

(* No block reaches past the end of its heap, although a second             *)
(* initialization may write a size in the middle of a split.                *)
InsideHeap == \A b \in Blocks : b[2] + Hdr + hdr[b].size <= HeapSize

Holders == {t \in Threads : ptr[t] \in Blocks}

(* mymalloc.c:83: "thread_safe_malloc(), is a thread-safe memory allocation *)
(* function that returns a pointer to a block of memory of the requested    *)
(* size".  Two threads never hold the same block.                           *)
NoSharedBlock == \A t, u \in Holders : t # u => ptr[t] # ptr[u]

(* All the damage comes from the test of head outside the mutex: if one     *)
(* thread only initializes the heap, a block is held by one thread only and *)
(* stays marked while it is held, and an address has one page table entry,  *)
(* which goes when the block does.                                          *)
Once == \A t, u \in initers : t = u
UnsharedAfterOneInit ==
  Once => NoSharedBlock /\ \A t \in Holders : ~hdr[ptr[t]].free
EntriesAreHeld ==
  Once => /\ \A i, j \in 1 .. Len(ptes) : i # j => ptes[i] # ptes[j]
          /\ \A i \in 1 .. Len(ptes) : \E t \in Holders : ptr[t] = ptes[i]

(* So does every endless search: a second initialization makes the first    *)
(* block large again but keeps its next, and the next split puts a block    *)
(* that is its own successor there.  After one, the list ascends.           *)
ListAscends ==
  Once => \A b \in Blocks : hdr[b].next # NULL =>
            hdr[b].next[1] = b[1] /\ hdr[b].next[2] > b[2]

(* Unless the heap has been initialized twice, every search ends and every  *)
(* thread gets the mutex: the threads are joined, or the process ends.      *)
EndsAfterOneInit == []Once => <>(AllFinished \/ process # "running")
-----------------------------------------------------------------------------
(* The calls a workload makes decide the rest, as those of main do: a       *)
(* thread loads a page; the requests differ by at most a header, since a    *)
(* split puts no mark on the block it returns; a block is freed before the  *)
(* next is asked for; and the heap has room for all of them and one more of *)
(* the largest size.                                                        *)
Mallocs == UNION {{t} \X {i \in DOMAIN Program[t] : Program[t][i].op = "malloc"} : t \in Threads}
Asked   == {Program[c[1]][c[2]].n : c \in Mallocs}

Loads(t, i) == i \in DOMAIN Program[t] /\ Program[t][i] = LOAD
Alike       == \A n, m \in Asked : n > 0 /\ n <= m + Hdr
FreesBetween ==
  \A t \in Threads : \A i, j \in DOMAIN Program[t] :
    i < j /\ Program[t][i].op = "malloc" /\ Program[t][j].op = "malloc"
      => \E k \in i + 1 .. j - 1 : Program[t][k].op = "free"
LongFor(m) ==
  /\ \A n \in Asked : n <= m
  /\ HeapSize - Hdr > (m + Hdr) * (Cardinality(Mallocs) + 1)
-----------------------------------------------------------------------------
(* Whether thread t has a step it can take, of those of ThreadStep: in      *)
(* init_heap and under the mutex always, elsewhere as soon as nobody holds  *)
(* the mutex, and what main does between its threads once they are joined.  *)
MayGoOn(t) ==
  \/ pc[t] \notin {"outside", "lock"}
  \/ pc[t] = "lock" /\ mutex = NULL
  \/ /\ pc[t] = "outside"
     /\ \/ Calls(t, {"malloc", "load", "store", "save"})
        \/ Calls(t, {"free"}) /\ (ptr[t] = NULL \/ (ptr[t] \in Blocks /\ mutex = NULL))
        \/ Calls(t, {"join"}) /\ AtJoin(done[t])

(* What else there is to wait for: nothing, the other threads at a join,    *)
(* and, where the model ends, the free of a pointer that is none.           *)
Waits(t) ==
  /\ pc[t] = "outside"
  /\ ~Finished(t) => Calls(t, {"join"}) \/ (Calls(t, {"free"}) /\ ptr[t] = JUNK)
=============================================================================
