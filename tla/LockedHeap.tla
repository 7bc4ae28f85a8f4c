----------------------------- MODULE LockedHeap -----------------------------
(***************************************************************************)
(* The heap of A8/malloc.c, used by several threads: pm_malloc_lock and    *)
(* pm_free_lock around the search, the split and the merge, and the        *)
(* clients of A8/main.c.                                                   *)
(*                                                                         *)
(* The mutex is supposed to make each call atomic, but pm_malloc_lock      *)
(* releases it after init() and goes on, so the bodies are modelled step   *)
(* by step: one per iteration of a loop, two for the writes of frag.  hdr  *)
(* gives the header at every address, next included; addresses and sizes   *)
(* are counted in headers (sizeof(struct block) is 1), sizes modulo Wrap   *)
(* as size_t is.  Headers lie in mem, between the payloads; what clients   *)
(* write to their payloads is left out.                                    *)
(***************************************************************************)
EXTENDS Integers, Sequences, FiniteSets

CONSTANTS Threads,
          Program,   \* Program[t]: the calls t makes, in order
          HeapSize,  \* PAGE_SIZE, the length of mem
          Wrap,      \* number of values of size_t
          NULL

Addresses == 0 .. HeapSize - 1
freeList  == 0
Hdr       == 1

(* MALLOC(n), FREE of the pointer the thread got last, FREE of a pointer    *)
(* that is not in mem: NULL or one that a cast to int has truncated.        *)
MALLOC(n) == [op |-> "malloc", n |-> n]
FREE      == [op |-> "free", n |-> 0]
FREEBAD   == [op |-> "freebad", n |-> 0]
CallTypes == [op : {"malloc", "free", "freebad"}, n : Nat]

ASSUME LockedHeapAssumption ==
  /\ IsFiniteSet(Threads)
  /\ Program \in [Threads -> Seq(CallTypes)]
  /\ HeapSize \in Nat /\ Wrap \in Nat /\ HeapSize > Hdr /\ Wrap > HeapSize
  /\ NULL \notin Nat

(* What the proofs assume of the calls, as A8/main.c makes them: thread_func *)
(* asks for rand() % 100 + 1 bytes.                                         *)
NoneForZero == \A t \in Threads : \A i \in DOMAIN Program[t] :
  Program[t][i].op = "malloc" => Program[t][i].n # 0

VARIABLES
  locked,        \* the word of the mutex: unlock clears it, whoever calls
  hdr,           \* address -> [size, free, next]
  pc, current,   \* where each thread is in its call, and at which block
  done,          \* calls each thread has completed
  ptr,           \* what each thread's last malloc returned
  process,       \* "running", or how the process ended
  inits          \* history: calls of init

thread == <<pc, current>>
client == <<done, ptr>>
vars   == <<locked, hdr, thread, client, process, inits>>

Header(size, free, next) == [size |-> size % Wrap, free |-> free, next |-> next]

(* Places of pc from "search" on are inside the section the mutex is for.   *)
Places == {"outside", "search", "serve", "split", "link", "merge"}
Inside == {t \in Threads : pc[t] # "outside"}

Finished(t) == done[t] = Len(Program[t])
Call(t)     == Program[t][done[t] + 1]
Arg(t)      == Call(t).n

-----------------------------------------------------------------------------
Init ==
  /\ locked = FALSE
  /\ hdr = [a \in Addresses |-> Header(0, FALSE, NULL)]
  /\ pc = [t \in Threads |-> "outside"]
  /\ current = [t \in Threads |-> freeList]
  /\ done = [t \in Threads |-> 0]
  /\ ptr = [t \in Threads |-> NULL]
  /\ process = "running" /\ inits = 0

At(t, place) == process = "running" /\ pc[t] = place
Goto(t, place, block) ==
  /\ pc' = [pc EXCEPT ![t] = place]
  /\ current' = [current EXCEPT ![t] = block]

(* pthread_mutex_lock gets through.                                         *)
\* Mutant: the mutex is not locked.
MutexIgnored == TRUE
MutexFree    == ~locked

(* pthread_mutex_unlock and the return to the caller.                       *)
\* Mutant: a return without unlock.
UnlockForgotten(t) ==
  /\ UNCHANGED locked
  /\ Goto(t, "outside", freeList)
  /\ done' = [done EXCEPT ![t] = @ + 1]

Unlock(t) ==
  /\ locked' = FALSE
  /\ Goto(t, "outside", freeList)
  /\ done' = [done EXCEPT ![t] = @ + 1]

(* init(): one free block.                                                  *)
\* Mutant: the size is not set.
InitForgetsSize == Header(0, TRUE, NULL)
InitBlock       == Header(HeapSize - Hdr, TRUE, NULL)

(* pm_malloc_lock, up to the search: the thread that finds mem all zero     *)
(* initializes it and releases the mutex.                                   *)
LockAndInit(t) ==
  /\ At(t, "outside") /\ ~Finished(t) /\ Call(t).op = "malloc"
  /\ MutexFree
  /\ IF hdr[freeList].size = 0
     THEN /\ hdr' = [hdr EXCEPT ![freeList] = InitBlock]
          /\ locked' = FALSE
          /\ inits' = inits + 1
     ELSE /\ locked' = TRUE
          /\ UNCHANGED <<hdr, inits>>
  /\ Goto(t, "search", freeList)
  /\ UNCHANGED <<client, process>>

(* One test of the while condition.                                         *)
\* Mutant: the search does not stop at the last block.
SearchPastEnd(t) ==
  LET b == hdr[current[t]]
  IN  /\ At(t, "search")
      /\ IF b.size < Arg(t) \/ ~b.free
         THEN Goto(t, "search", b.next)
         ELSE Goto(t, "serve", current[t])
      /\ UNCHANGED <<locked, hdr, client, process, inits>>

Search(t) ==
  LET b == hdr[current[t]]
  IN  /\ At(t, "search")
      /\ IF (b.size < Arg(t) \/ ~b.free) /\ b.next # NULL
         THEN Goto(t, "search", b.next)
         ELSE Goto(t, "serve", current[t])
      /\ UNCHANGED <<locked, hdr, client, process, inits>>

(* The three branches after the search.  thread_func gives up the whole     *)
(* process when it gets NULL, which matters only if it goes on to FREE.     *)
ServeExact(t) ==
  /\ At(t, "serve") /\ hdr[current[t]].size = Arg(t)
  /\ hdr' = [hdr EXCEPT ![current[t]].free = FALSE]
  /\ ptr' = [ptr EXCEPT ![t] = current[t] + Hdr]
  /\ Unlock(t)
  /\ UNCHANGED <<process, inits>>

ServeSplit(t) ==
  /\ At(t, "serve") /\ hdr[current[t]].size > Arg(t) + Hdr
  /\ Goto(t, "split", current[t])
  /\ UNCHANGED <<locked, hdr, client, process, inits>>

FreesNext(t) == done[t] + 1 < Len(Program[t]) /\ Program[t][done[t] + 2] = FREE

ServeNull(t) ==
  /\ At(t, "serve")
  /\ hdr[current[t]].size # Arg(t) /\ hdr[current[t]].size <= Arg(t) + Hdr
  /\ ptr' = [ptr EXCEPT ![t] = NULL]
  /\ process' = IF FreesNext(t) THEN "exited" ELSE process
  /\ Unlock(t)
  /\ UNCHANGED <<hdr, inits>>

(* frag, first the new header, from the fields of the old one, and then the *)
(* old one.  Past the end of mem lie other variables of the program.        *)
NewBlock(t) == current[t] + Arg(t) + Hdr

FragNew(t) ==
  LET slot == hdr[current[t]]
  IN  /\ At(t, "split")
      /\ IF NewBlock(t) \in Addresses
         THEN /\ hdr' = [hdr EXCEPT ![NewBlock(t)] =
                           Header(slot.size - Arg(t) - Hdr, TRUE, slot.next)]
              /\ Goto(t, "link", current[t])
              /\ UNCHANGED process
         ELSE /\ process' = "overrun"
              /\ UNCHANGED <<hdr, thread>>
      /\ UNCHANGED <<locked, client, inits>>

FragLink(t) ==
  /\ At(t, "link")
  /\ hdr' = [hdr EXCEPT ![current[t]] = Header(Arg(t), FALSE, NewBlock(t))]
  /\ ptr' = [ptr EXCEPT ![t] = current[t] + Hdr]
  /\ Unlock(t)
  /\ UNCHANGED <<process, inits>>

-----------------------------------------------------------------------------
(* pm_free_lock.                                                            *)
LockAndMark(t) ==
  /\ At(t, "outside") /\ ~Finished(t) /\ Call(t).op = "free"
  /\ MutexFree
  /\ locked' = TRUE
  /\ hdr' = [hdr EXCEPT ![ptr[t] - Hdr].free = TRUE]
  /\ Goto(t, "merge", freeList)
  /\ UNCHANGED <<client, process, inits>>

\* Mutant: no unlock on the error path.
RejectLocked(t) ==
  /\ At(t, "outside") /\ ~Finished(t) /\ Call(t).op = "freebad"
  /\ MutexFree
  /\ locked' = TRUE
  /\ done' = [done EXCEPT ![t] = @ + 1]
  /\ UNCHANGED <<hdr, thread, ptr, process, inits>>

(* A pointer outside mem is reported, under the mutex; nothing is freed.    *)
RejectPointer(t) ==
  /\ At(t, "outside") /\ ~Finished(t) /\ Call(t).op = "freebad"
  /\ MutexFree
  /\ done' = [done EXCEPT ![t] = @ + 1]
  /\ UNCHANGED <<locked, hdr, thread, ptr, process, inits>>

(* mergefrag: one iteration, or the end of the loop.                        *)
BothFree(a)  == hdr[a].free /\ hdr[hdr[a].next].free
Joined(a) ==
  LET next == hdr[hdr[a].next]
  IN  Header(hdr[a].size + next.size + Hdr, hdr[a].free, next.next)

Merge(t) ==
  LET a    == current[t]
      next == IF BothFree(a) THEN hdr[hdr[a].next].next ELSE hdr[a].next
  IN  /\ At(t, "merge") /\ hdr[a].next # NULL
      /\ hdr' = IF BothFree(a) THEN [hdr EXCEPT ![a] = Joined(a)] ELSE hdr
      /\ IF next = NULL
         THEN process' = "segfault" /\ UNCHANGED thread
         ELSE Goto(t, "merge", next) /\ UNCHANGED process
      /\ UNCHANGED <<locked, client, inits>>

MergeEnd(t) ==
  /\ At(t, "merge") /\ hdr[current[t]].next = NULL
  /\ Unlock(t)
  /\ UNCHANGED <<hdr, ptr, process, inits>>

-----------------------------------------------------------------------------
(* main has joined every thread, or the process is gone.                    *)
AllJoined == \A t \in Threads : Finished(t)
Ended == (AllJoined \/ process # "running") /\ UNCHANGED vars

ThreadStep(t) ==
  \/ LockAndInit(t) \/ Search(t) \/ ServeExact(t) \/ ServeSplit(t) \/ ServeNull(t)
  \/ FragNew(t) \/ FragLink(t)
  \/ LockAndMark(t) \/ RejectPointer(t) \/ Merge(t) \/ MergeEnd(t)

Next == Ended \/ \E t \in Threads : ThreadStep(t)

(* pthread_mutex_lock may starve a thread, but each thread makes finitely   *)
(* many calls.                                                              *)
Spec == Init /\ [][Next]_vars /\ \A t \in Threads : WF_vars(ThreadStep(t))

-----------------------------------------------------------------------------
TypeOK ==
  /\ locked \in BOOLEAN
  /\ hdr \in [Addresses -> [size : 0 .. Wrap - 1, free : BOOLEAN, next : Addresses \cup {NULL}]]
  /\ pc \in [Threads -> Places] /\ current \in [Threads -> Addresses]
  /\ \A t \in Threads : done[t] \in 0 .. Len(Program[t])
  /\ ptr \in [Threads -> 1 .. HeapSize \cup {NULL}]
  /\ process \in {"running", "exited", "segfault", "overrun"}
  /\ inits \in Nat

(* The header of the heap is written by init once; the races after it never *)
(* bring it back to zero, which would wipe the heap under its users.        *)
InitOnce == inits <= 1

(* What the mutex is for; readme.md:99 of A8 asks "that only one thread at  *)
(* a time can allocate or deallocate memory".                               *)
OneAtATime == Cardinality(Inside) <= 1

(* One unlock too many lets one thread too many in, whoever unlocks whose   *)
(* lock afterwards, and never a third.                                      *)
AtMostTwoInside == Cardinality(Inside) <= 2

(* The mutex is never left behind by a thread that has gone.                *)
NotLeftLocked == locked => Inside # {}

(* The damage is confined to the first contention: once there is a moment   *)
(* with the heap initialized and nobody inside, the mutex works for good.   *)
Quiet == inits > 0 /\ Inside = {}
ExclusiveOnceQuiet == [](Quiet => []OneAtATime)

(* Following next from freeList never comes to an end: it takes more steps  *)
(* than there are places for headers.                                       *)
CyclicList ==
  LET walk[n \in 0 .. HeapSize] ==
        IF n = 0 THEN freeList
        ELSE IF walk[n - 1] = NULL THEN NULL ELSE hdr[walk[n - 1]].next
  IN  walk[HeapSize] # NULL

(* Every thread gets through its calls unless the process ends first or a   *)
(* race of two splits has tied the list into a cycle, which a search or a   *)
(* merge then walks for ever.                                               *)
StuckOnlyInCycle == <>(AllJoined \/ process # "running" \/ CyclicList)

(* Whether thread t has a step it can take, of those of ThreadStep: inside  *)
(* the section always, at a call once the mutex is free.                    *)
MayGoOn(t) == pc[t] # "outside" \/ (~Finished(t) /\ MutexFree)
==============================================================================
