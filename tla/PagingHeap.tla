----------------------------- MODULE PagingHeap -----------------------------
(***************************************************************************)
(* The heap of PracticumI/malloc.c and the threads PracticumI/main.c       *)
(* starts on it.                                                           *)
(*                                                                         *)
(* pm_malloc_lock is the one of A8 with three changes: init also opens the *)
(* swap file and gives up without one, frag lets a rest too small for a    *)
(* header take in a free block behind it, and pm_free_lock unlocks twice.  *)
(* Bodies are modelled step by step, as in LockedHeap.  The search never   *)
(* ends with a NULL block, and no thread of main sets a status in pageing, *)
(* so the branches for these do nothing.  What is written to payloads is   *)
(* left out.  A thread is its place in the order main creates them in; 0   *)
(* is main.                                                                *)
(***************************************************************************)
EXTENDS Integers, Sequences

CONSTANTS Kind,      \* Kind[t]: the function thread t runs
          HeapSize,  \* PAGE_SIZE
          NumPages,  \* NUM_PAGES
          Hdr,       \* sizeof(struct block)
          Wrap,      \* number of values of size_t
          Sizes,     \* what rand() % 1024 + 1 yields
          LoopCount, \* LOOP_COUNT
          Ten,       \* the 10 bytes of unitTest4
          Twelve,    \* the 12 bytes of main's last check
          NULL

Kinds   == {"thread_func", "unitTest1", "unitTest2", "unitTest5", "unitTest4"}
Created == DOMAIN Kind
Main    == 0
Threads == Created \cup {Main}

ASSUME PagingHeapAssumption ==
  /\ Kind \in Seq(Kinds)
  /\ HeapSize \in Nat /\ Hdr \in Nat \ {0} /\ HeapSize > Hdr /\ NumPages \in Nat \ {0}
  /\ Wrap \in Nat /\ Wrap > 2 * NumPages * HeapSize
  /\ Sizes \subseteq 1 .. HeapSize /\ LoopCount \in Nat \ {0}
  /\ Ten \in 1 .. HeapSize /\ Twelve \in 1 .. HeapSize
  /\ NULL \notin Int

Addresses == 0 .. HeapSize - 1
freeList  == 0

VARIABLES
  locked,       \* the word of the mutex: unlock clears it, whoever calls
  hdr,          \* address -> [size, free, next]
  pc, current,  \* where each thread is, and at which block
  request,      \* noOfBytes of each thread's call
  mem,          \* pointers each thread has got and not freed
  created,      \* threads main has started
  process,      \* "running", or how the process ended
  blocks,       \* history: addresses of the blocks splits and merges have left
  inits,        \* history: calls of init
  raced         \* history: two threads were inside at once

thread  == <<pc, current, request>>
history == <<blocks, inits, raced>>
vars    == <<locked, hdr, thread, mem, created, process, history>>

Header(size, free, next) == [size |-> size % Wrap, free |-> free, next |-> next]

(* Places of pc from "search" to "merge" are inside the section the mutex   *)
(* is for.                                                                  *)
Places  == {"none", "create", "call", "search", "serve", "split", "link",
            "absorb", "free", "merge", "again", "ended"}
Section == {"search", "serve", "split", "link", "absorb", "merge"}
Inside  == {t \in Threads : pc[t] \in Section}

Init ==
  /\ locked = FALSE
  /\ hdr = [a \in Addresses |-> Header(0, FALSE, NULL)]
  /\ pc = [t \in Threads |-> IF t = Main THEN "create" ELSE "none"]
  /\ current = [t \in Threads |-> freeList] /\ request = [t \in Threads |-> 0]
  /\ mem = [t \in Threads |-> <<>>]
  /\ created = 0 /\ process = "running"
  /\ blocks = {freeList} /\ inits = 0 /\ raced = FALSE

At(t, place) == process = "running" /\ pc[t] = place
Goto(t, place, block) ==
  /\ pc' = [pc EXCEPT ![t] = place]
  /\ current' = [current EXCEPT ![t] = block]

-----------------------------------------------------------------------------
(* main: the threads, the joins of all but thread_func and unitTest1, whose *)
(* ids share an array nobody joins, and its own malloc and free.            *)
Joined == \A t \in Created : Kind[t] \notin {"thread_func", "unitTest1"} => pc[t] = "ended"

main ==
  /\ At(Main, "create") /\ (created = Len(Kind) => Joined)
  /\ IF created < Len(Kind)
     THEN /\ created' = created + 1
          /\ pc' = [pc EXCEPT ![created'] = "call"]
     ELSE /\ pc' = [pc EXCEPT ![Main] = "call"]
          /\ UNCHANGED created
  /\ UNCHANGED <<locked, hdr, current, request, mem, process, history>>

Requests(t) ==
  IF t = Main THEN {Twelve}
  ELSE CASE Kind[t] = "thread_func" -> Sizes
         [] Kind[t] = "unitTest1"   -> {HeapSize}
         [] Kind[t] = "unitTest2"   -> {2 * NumPages * HeapSize}
         [] Kind[t] = "unitTest5"   -> {NumPages * HeapSize}
         [] Kind[t] = "unitTest4"   -> {Ten}

(* pm_malloc_lock returns NULL: the tests that only report it, and those    *)
(* that exit; main's assert aborts.                                         *)
Exits(t) == t = Main \/ Kind[t] \in {"thread_func", "unitTest5", "unitTest4"}

\* Mutant: a test asks again until it gets a block.
AskAgain(t) ==
  /\ Goto(t, "call", freeList)
  /\ process' = IF Exits(t) THEN "exited" ELSE process
  /\ UNCHANGED mem

ReturnNull(t) ==
  /\ Goto(t, "ended", freeList)
  /\ process' = IF Exits(t) THEN "exited" ELSE process
  /\ UNCHANGED mem

(* It returns a block.  thread_func goes on until it has LOOP_COUNT, the    *)
(* others free theirs; unitTest2 first fills twice the simulated memory.    *)
Return(t) ==
  /\ mem' = [mem EXCEPT ![t] = Append(@, current[t] + Hdr)]
  /\ Goto(t, IF t # Main /\ Kind[t] = "thread_func" /\ Len(mem[t]) + 1 < LoopCount
             THEN "call" ELSE "free", freeList)
  /\ process' = IF t # Main /\ Kind[t] = "unitTest2" THEN "overrun" ELSE process

-----------------------------------------------------------------------------
MutexFree == ~locked
Enters == raced' = (raced \/ Inside # {})

(* pm_malloc_lock up to the search.  init needs a swap file to truncate, as *)
(* it does not create one, and clears memory through an uninitialized       *)
(* pointer, which crashes or hits bytes nothing here depends on; the mutex  *)
(* is released after it.                                                    *)
LockAndInit(t) ==
  /\ At(t, "call") /\ MutexFree
  /\ request' \in {[request EXCEPT ![t] = n] : n \in Requests(t)}
  /\ IF hdr[freeList].size = 0
     THEN /\ hdr' = [hdr EXCEPT ![freeList] = Header(HeapSize - Hdr, TRUE, NULL)]
          /\ locked' = FALSE
          /\ inits' = inits + 1
          /\ process' \in {"running", "exited", "segfault"}
     ELSE /\ locked' = TRUE
          /\ UNCHANGED <<hdr, inits, process>>
  /\ Goto(t, "search", freeList)
  /\ Enters
  /\ UNCHANGED <<mem, created, blocks>>

Search(t) ==
  LET b == hdr[current[t]]
  IN  /\ At(t, "search")
      /\ IF (b.size < request[t] \/ ~b.free) /\ b.next # NULL
         THEN Goto(t, "search", b.next)
         ELSE Goto(t, "serve", current[t])
      /\ UNCHANGED <<locked, hdr, request, mem, created, process, history>>

ServeExact(t) ==
  /\ At(t, "serve") /\ hdr[current[t]].size = request[t]
  /\ hdr' = [hdr EXCEPT ![current[t]].free = FALSE]
  /\ locked' = FALSE
  /\ Return(t)
  /\ UNCHANGED <<request, created, history>>

ServeSplit(t) ==
  /\ At(t, "serve") /\ hdr[current[t]].size > request[t] + Hdr
  /\ Goto(t, "split", current[t])
  /\ UNCHANGED <<locked, hdr, request, mem, created, process, history>>

ServeNull(t) ==
  /\ At(t, "serve")
  /\ hdr[current[t]].size # request[t] /\ hdr[current[t]].size <= request[t] + Hdr
  /\ locked' = FALSE
  /\ ReturnNull(t)
  /\ UNCHANGED <<hdr, request, created, history>>

(* frag: the new header, which may lie past the heap or, after a race, over *)
(* the header of another block; the old header; and the rest too small for  *)
(* a header.                                                                *)
NewBlock(t) == current[t] + request[t] + Hdr
Clashes(a)  == a \notin Addresses \/ \E b \in blocks \ {a} : a - Hdr < b /\ b < a + Hdr

FragNew(t) ==
  LET slot == hdr[current[t]]
  IN  /\ At(t, "split")
      /\ IF Clashes(NewBlock(t))
         THEN process' = "overrun" /\ UNCHANGED <<hdr, pc, current>>
         ELSE /\ hdr' = [hdr EXCEPT ![NewBlock(t)] =
                           Header(slot.size - request[t] - Hdr, TRUE, slot.next)]
              /\ Goto(t, "link", current[t])
              /\ UNCHANGED process
      /\ UNCHANGED <<locked, request, mem, created, history>>

FragLink(t) ==
  /\ At(t, "link")
  /\ hdr' = [hdr EXCEPT ![current[t]] = Header(request[t], FALSE, NewBlock(t))]
  /\ blocks' = blocks \cup {NewBlock(t)}
  /\ Goto(t, "absorb", current[t])
  /\ UNCHANGED <<locked, request, mem, created, process, inits, raced>>

(* new->size += new->next->size + sizeof(struct block), and the unlock.     *)
\* Mutant: the header between them is forgotten.
AbsorbedBare(a) == Header(hdr[a].size + hdr[hdr[a].next].size, hdr[a].free,
                          hdr[hdr[a].next].next)
Absorbed(a)     == Header(hdr[a].size + hdr[hdr[a].next].size + Hdr, hdr[a].free,
                          hdr[hdr[a].next].next)
NextFree(a) == hdr[a].next # NULL /\ hdr[hdr[a].next].free
TooSmall(a) == hdr[a].size < Hdr /\ NextFree(a)

FragAbsorb(t) ==
  LET new == NewBlock(t)
  IN  /\ At(t, "absorb")
      /\ IF TooSmall(new)
         THEN /\ hdr' = [hdr EXCEPT ![new] = Absorbed(new)]
              /\ blocks' = blocks \ {hdr[new].next}
         ELSE UNCHANGED <<hdr, blocks>>
      /\ locked' = FALSE
      /\ Return(t)
      /\ UNCHANGED <<request, created, inits, raced>>

-----------------------------------------------------------------------------
(* pm_free_lock of the oldest pointer a thread has.                         *)
LockAndMark(t) ==
  /\ At(t, "free") /\ MutexFree
  /\ locked' = TRUE
  /\ hdr' = [hdr EXCEPT ![Head(mem[t]) - Hdr].free = TRUE]
  /\ mem' = [mem EXCEPT ![t] = Tail(@)]
  /\ Goto(t, "merge", freeList)
  /\ Enters
  /\ UNCHANGED <<request, created, process, blocks, inits>>

(* mergefrag: one iteration.                                                *)
BothFree(a) == hdr[a].free /\ hdr[hdr[a].next].free

Merge(t) ==
  LET a    == current[t]
      next == IF BothFree(a) THEN hdr[hdr[a].next].next ELSE hdr[a].next
  IN  /\ At(t, "merge") /\ hdr[a].next # NULL
      /\ IF BothFree(a)
         THEN /\ hdr' = [hdr EXCEPT ![a] = Absorbed(a)]
              /\ blocks' = blocks \ {hdr[a].next}
         ELSE UNCHANGED <<hdr, blocks>>
      /\ IF next = NULL
         THEN process' = "segfault" /\ UNCHANGED <<pc, current>>
         ELSE Goto(t, "merge", next) /\ UNCHANGED process
      /\ UNCHANGED <<locked, request, mem, created, inits, raced>>

(* The end of the loop and the first unlock; the second, when the mutex may *)
(* be somebody else's.                                                      *)
MergeEnd(t) ==
  /\ At(t, "merge") /\ hdr[current[t]].next = NULL
  /\ locked' = FALSE
  /\ Goto(t, "again", freeList)
  /\ UNCHANGED <<hdr, request, mem, created, process, history>>

UnlockAgain(t) ==
  /\ At(t, "again")
  /\ locked' = FALSE
  /\ Goto(t, IF mem[t] = <<>> THEN "ended" ELSE "free", freeList)
  /\ UNCHANGED <<hdr, request, mem, created, process, history>>

-----------------------------------------------------------------------------
AllEnded == \A t \in Threads : pc[t] = "ended"
Ended    == (AllEnded \/ process # "running") /\ UNCHANGED vars

ThreadStep(t) ==
  \/ LockAndInit(t) \/ Search(t) \/ ServeExact(t) \/ ServeSplit(t) \/ ServeNull(t)
  \/ FragNew(t) \/ FragLink(t) \/ FragAbsorb(t)
  \/ LockAndMark(t) \/ Merge(t) \/ MergeEnd(t) \/ UnlockAgain(t)

Next == main \/ Ended \/ \E t \in Threads : ThreadStep(t)

(* A thread waiting for the mutex may be passed by others, but each makes   *)
(* finitely many calls.                                                     *)
Spec == Init /\ [][Next]_vars /\ WF_vars(main) /\ \A t \in Threads : WF_vars(ThreadStep(t))

-----------------------------------------------------------------------------
TypeOK ==
  /\ locked \in BOOLEAN
  /\ hdr \in [Addresses -> [size : 0 .. Wrap - 1, free : BOOLEAN, next : Addresses \cup {NULL}]]
  /\ pc \in [Threads -> Places] /\ current \in [Threads -> Addresses]
  /\ request \in [Threads -> Nat] /\ mem \in [Threads -> Seq(Nat)]
  /\ created \in 0 .. Len(Kind)
  /\ process \in {"running", "exited", "segfault", "overrun"}
  /\ blocks \subseteq Addresses /\ inits \in Nat /\ raced \in BOOLEAN

(* As long as the mutex has kept threads apart, the blocks cover the heap   *)
(* without gap or overlap at every step of a split or a merge, also after a *)
(* rest too small for a header has taken in the block behind it.            *)
Tiles ==
  /\ freeList \in blocks
  /\ \A b \in blocks :
       LET end == b + Hdr + hdr[b].size
       IN  IF hdr[b].next = NULL THEN end = HeapSize
           ELSE hdr[b].next = end /\ end \in blocks
  /\ \A a, b \in blocks : a < b => a + Hdr + hdr[a].size <= b
TiledUntilRaced == ~raced /\ inits > 0 => Tiles

(* Following next from freeList never comes to an end: some blocks, the     *)
(* first among them, only lead to each other.                               *)
CyclicList ==
  \E C \in SUBSET {a \in Addresses : hdr[a].next # NULL} :
    freeList \in C /\ \A a \in C : hdr[a].next \in C

(* Unless a race ties the list into a cycle, every thread and main come to  *)
(* their end, or the process ends, or something is written past the heap    *)
(* or over a header ("overrun"), of which nothing is claimed.               *)
EndsUnlessCyclic == <>(AllEnded \/ process # "running" \/ CyclicList)

(* Whether thread t has a step it can take, of main and ThreadStep: inside  *)
(* the section and between the two unlocks, always; at a call, once the     *)
(* mutex is free; main, while it creates threads, and after the joins.      *)
MayGoOn(t) ==
  \/ pc[t] \in Section \cup {"again"}
  \/ pc[t] \in {"call", "free"} /\ MutexFree
  \/ pc[t] = "create" /\ (created = Len(Kind) => Joined)
=============================================================================
