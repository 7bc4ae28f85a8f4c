-------------------------------- MODULE Heap --------------------------------
(***************************************************************************)
(* The custom heap of A7/malloc.c, used by one thread: first-fit search in *)
(* a linked list of blocks, splitting (frag) and merging (mergefrag).      *)
(*                                                                         *)
(* Addresses and sizes are counted in units of mem.  heap maps the address *)
(* of every header that frag or init has written, and mergefrag has not    *)
(* swallowed, to its fields.  The list is walked from freeList = 0 on;     *)
(* Tiled shows that its order is the order of the addresses.               *)
(***************************************************************************)
EXTENDS Integers, FiniteSets

CONSTANTS HeapSize,   \* HER, the length of mem
          Hdr,        \* sizeof(struct block)
          Sizes,      \* the sizes the client asks for
          MaxCalls,   \* bound: calls of pm_malloc
          NULL

ASSUME HeapAssumption ==
  /\ HeapSize \in Nat /\ Hdr \in Nat \ {0} /\ Hdr < HeapSize
  /\ Sizes \subseteq Nat
  /\ MaxCalls \in Nat
  /\ NULL \notin Nat

Addresses == 0 .. HeapSize - 1
freeList  == 0

VARIABLES
  initialized,  \* whether init has been called: mem is zero before it
  heap,         \* address -> [size, free, next]
  live,         \* the client's allocations: [id, ptr, size]
  calls,        \* calls of pm_malloc so far
  tailTaken,    \* history: some request fitted the last block exactly
  zeroAsked,    \* history: some request was for 0 units
  crashed       \* mergefrag followed NULL: the process is gone

vars == <<initialized, heap, live, calls, tailTaken, zeroAsked, crashed>>

Block(size, free, next) == [size |-> size, free |-> free, next |-> next]
Blocks    == DOMAIN heap
IsLast(a) == heap[a].next = NULL
Least(S)  == CHOOSE a \in S : \A b \in S : a <= b

-----------------------------------------------------------------------------
\* Mutant: the size is not set.
FreshUnsized == [a \in {freeList} |-> Block(0, TRUE, NULL)]
Fresh == [a \in {freeList} |-> Block(HeapSize - Hdr, TRUE, NULL)]

Init ==
  /\ initialized = FALSE
  /\ heap = [a \in {freeList} |-> Block(0, FALSE, NULL)]
  /\ live = {} /\ calls = 0
  /\ tailTaken = FALSE /\ zeroAsked = FALSE /\ crashed = FALSE

(* init(), called when freeList->size is 0: at first, and again whenever    *)
(* the first block has come to have no payload.                             *)
initHeap == IF heap[freeList].size = 0 THEN Fresh ELSE heap

(* The while loop of pm_malloc stops at the first free block that is large  *)
(* enough, or else at the last block, whatever its state.                   *)
\* Mutant: the free flag is not tested.
UsedOrFree(h, n) == {a \in DOMAIN h : h[a].size >= n}
Suitable(h, n) == {a \in DOMAIN h : h[a].size >= n /\ h[a].free}
LastOf(h)      == CHOOSE a \in DOMAIN h : h[a].next = NULL
Found(h, n)    == IF Suitable(h, n) # {} THEN Least(Suitable(h, n)) ELSE LastOf(h)

(* Whether a block may be split: the rest has room for a header and more.   *)
Splittable(size, n)  == size > n + Hdr

(* frag: slot keeps n units, a new free block gets the rest.                *)
\* Mutant: the rest is a header too long.
fragForgetsHdr(h, slot, n) ==
  [a \in DOMAIN h \cup {slot + n + Hdr} |->
     IF a = slot + n + Hdr THEN Block(h[slot].size - n, TRUE, h[slot].next)
     ELSE IF a = slot THEN Block(n, FALSE, slot + n + Hdr)
     ELSE h[a]]
frag(h, slot, n) ==
  LET new == slot + n + Hdr
  IN  [a \in DOMAIN h \cup {new} |->
         IF a = new THEN Block(h[slot].size - n - Hdr, TRUE, h[slot].next)
         ELSE IF a = slot THEN Block(n, FALSE, new)
         ELSE h[a]]

Return(n, ptr) ==
  live' = IF ptr = NULL THEN live
          ELSE live \cup {[id |-> calls, ptr |-> ptr, size |-> n]}

(* pm_malloc: the second half tests the size of the block found, not        *)
(* whether it is free.                                                      *)
pm_malloc(n) ==
  LET h   == initHeap
      cur == Found(h, n)
  IN  /\ ~crashed /\ calls < MaxCalls
      /\ calls' = calls + 1
      /\ initialized' = TRUE
      /\ zeroAsked' = (zeroAsked \/ n = 0)
      /\ \/ /\ h[cur].size = n
            /\ heap' = [h EXCEPT ![cur].free = FALSE]
            /\ tailTaken' = (tailTaken \/ h[cur].next = NULL)
            /\ Return(n, cur + Hdr)
         \/ /\ Splittable(h[cur].size, n)
            /\ heap' = frag(h, cur, n)
            /\ Return(n, cur + Hdr)
            /\ UNCHANGED tailTaken
         \/ /\ h[cur].size # n /\ ~Splittable(h[cur].size, n)
            /\ heap' = h
            /\ Return(n, NULL)
            /\ UNCHANGED tailTaken
      /\ UNCHANGED crashed

-----------------------------------------------------------------------------
(* The free blocks of h that precede b without an allocated one between.    *)
RunBefore(h, b) ==
  {a \in DOMAIN h : a < b /\ \A c \in DOMAIN h : a <= c /\ c < b => h[c].free}

(* mergefrag walks the list once and merges a free block with ONE free      *)
(* successor before it moves on, so it joins a run of free blocks in pairs: *)
(* the second, fourth, ... block of a run is absorbed by the one before it. *)
\* Mutant: the merged block is tested again.
AbsorbsAll(h) == {b \in DOMAIN h : h[b].free /\ RunBefore(h, b) # {}}
Absorbed(h) ==
  {b \in DOMAIN h : h[b].free /\ Cardinality(RunBefore(h, b)) % 2 = 1}

mergefrag(h) ==
  [a \in DOMAIN h \ Absorbed(h) |->
     IF h[a].next \in Absorbed(h)
     THEN Block(h[a].size + h[h[a].next].size + Hdr, h[a].free, h[h[a].next].next)
     ELSE h[a]]

(* Having absorbed the last block, mergefrag moves on to NULL and reads its *)
(* next field.                                                              *)
MergeCrashes(h) == \E a \in Absorbed(h) : h[a].next = NULL

(* pm_free of an allocation of the client.  The header it marks may have    *)
(* been swallowed in the meantime; then the write goes to a payload.        *)
Marked(h, a) == IF a \in DOMAIN h THEN [h EXCEPT ![a].free = TRUE] ELSE h

pm_free(al) ==
  LET h == Marked(heap, al.ptr - Hdr)
  IN  /\ ~crashed
      /\ live' = live \ {al}
      /\ heap' = mergefrag(h)
      /\ crashed' = MergeCrashes(h)
      /\ UNCHANGED <<initialized, calls, tailTaken, zeroAsked>>

(* The client stops, or the process has died.                               *)
Ended == (crashed \/ (calls = MaxCalls /\ live = {})) /\ UNCHANGED vars

Next == \/ \E n \in Sizes : pm_malloc(n)
        \/ \E al \in live : pm_free(al)
        \/ Ended

Spec == Init /\ [][Next]_vars

-----------------------------------------------------------------------------
TypeOK ==
  /\ initialized \in BOOLEAN /\ crashed \in BOOLEAN
  /\ tailTaken \in BOOLEAN /\ zeroAsked \in BOOLEAN
  /\ Blocks \subseteq Addresses /\ freeList \in Blocks
  /\ heap \in [Blocks -> [size : 0 .. HeapSize, free : BOOLEAN, next : Addresses \cup {NULL}]]
  /\ calls \in 0 .. MaxCalls
  /\ live \subseteq [id : 0 .. MaxCalls, ptr : Addresses \cup {HeapSize}, size : Nat]

End(a) == a + Hdr + heap[a].size

(* After any sequence of splits and merges the list is in address order and *)
(* covers mem without gaps or overlaps: each block ends where the next one  *)
(* starts, and the last one ends with mem.                                  *)
Tiled == initialized =>
  /\ \A a \in Blocks : IF IsLast(a) THEN End(a) = HeapSize
                       ELSE heap[a].next = End(a) /\ heap[a].next \in Blocks
  /\ \A a, b \in Blocks : a < b => End(a) <= b

Units(al) == al.ptr .. al.ptr + al.size - 1

(* Every allocation of the client has its memory to itself, and the block   *)
(* it was given is still there, marked as used, and as long as it asked.    *)
Exclusive ==
  /\ \A x, y \in live : x # y => x.ptr # y.ptr
  /\ \A x \in live : /\ x.ptr - Hdr \in Blocks
                     /\ ~ heap[x.ptr - Hdr].free
                     /\ heap[x.ptr - Hdr].size = x.size

(* pm_malloc may return the last block although it is in use, but only once *)
(* some request has fitted the last block exactly, or after a request for 0 *)
(* units.  Until then allocations are exclusive, splits, reuse and merges   *)
(* notwithstanding.                                                         *)
ExclusiveUntilTailTaken == ~tailTaken /\ ~zeroAsked => Exclusive

(* A size of 0 in the first block is taken for a heap that has not been     *)
(* initialized, and init would forget all allocations.  No splitting,       *)
(* merging or double allocation brings that about, only a request for 0.    *)
ReinitOnlyAfterZero == initialized /\ heap[freeList].size = 0 => zeroAsked
=============================================================================
