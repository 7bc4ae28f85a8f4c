------------------------------ MODULE HeapLoops ------------------------------
(***************************************************************************)
(* The two loops of A7/malloc.c as they are written, node by node along    *)
(* next, against the sets Heap puts in their place.                        *)
(***************************************************************************)
EXTENDS Heap

(* The while loop of pm_malloc: from[a] is where it stops once it is at a.  *)
Search(h, n) ==
  LET from[a \in DOMAIN h] ==
        IF (h[a].size < n \/ ~h[a].free) /\ h[a].next # NULL
        THEN from[h[a].next] ELSE a
  IN  from[freeList]

(* The body of the if of mergefrag: curr takes its successor in.            *)
Joined(h, curr) ==
  LET next == h[curr].next
  IN  [a \in DOMAIN h \ {next} |->
         IF a = curr THEN Block(h[curr].size + h[next].size + Hdr, TRUE, h[next].next)
                     ELSE h[a]]

(* The while loop of mergefrag is over at the last block, and also when     *)
(* curr is NULL and its condition reads curr->next.                         *)
Over(s) == s.curr = NULL \/ s.heap[s.curr].next = NULL

Round(s) ==
  LET both == s.heap[s.curr].free /\ s.heap[s.heap[s.curr].next].free
      h    == IF both THEN Joined(s.heap, s.curr) ELSE s.heap
  IN  IF Over(s) THEN s ELSE [heap |-> h, curr |-> h[s.curr].next]

(* The loop, round after round: there are fewer blocks than units of mem.   *)
MergeLoop(h) ==
  LET after[k \in 0 .. HeapSize] ==
        IF k = 0 THEN [heap |-> h, curr |-> freeList] ELSE Round(after[k - 1])
  IN  after[HeapSize]

(* For every heap the allocator can come to, the search finds the block the *)
(* loop stops at; and marking any allocation free and merging gives the     *)
(* list the loop leaves, which ends, in a null dereference exactly when the *)
(* sets say so.                                                             *)
LoopsAgree ==
  ~crashed =>
    /\ \A n \in Sizes : Search(initHeap, n) = Found(initHeap, n)
    /\ \A al \in live :
         LET h == Marked(heap, al.ptr - Hdr)
             m == MergeLoop(h)
         IN  /\ Over(m) /\ m.heap = mergefrag(h)
             /\ m.curr = NULL <=> MergeCrashes(h)
=============================================================================
