---------------------------- MODULE ProcessQueue ----------------------------
(***************************************************************************)
(* The linked queue of A3/queue.c: makeQueue, enqueue, dequeue and         *)
(* dequeueProcess, called by one thread in any order.                      *)
(*                                                                         *)
(* The queue never looks at what it is given, so the k-th element enqueued *)
(* is the number k.  Nodes are the addresses malloc can return.  size is   *)
(* set to 0 by makeQueue and never raised, so dequeue always returns at    *)
(* its test of size and what follows it is dead; data repeats head.        *)
(***************************************************************************)
EXTENDS Integers, Sequences

CONSTANTS Nodes,
          MaxEnqueued,   \* bound: elements enqueued
          NULL

ASSUME ProcessQueueAssumption ==
  /\ NULL \notin Nodes
  /\ MaxEnqueued \in Nat

VARIABLES
  live,         \* nodes malloc has returned and free has not taken back
  next, p,      \* fields of the node at each address; a freed node keeps them
  head, tail,
  corrupted,    \* a freed node was written to, and malloc's own list with it
  crashed,
  enqueued,     \* history: how many elements were enqueued
  out,          \* history: what dequeueProcess has returned
  sound         \* history: tail has been NULL only when head was

node      == <<live, next, p, corrupted>>
queue     == <<head, tail>>
history   == <<enqueued, out, sound>>
queueVars == <<node, queue, crashed, history>>

QueueInit ==
  /\ live = {} /\ next = [n \in Nodes |-> NULL] /\ p = [n \in Nodes |-> 0]
  /\ head = NULL /\ tail = NULL
  /\ corrupted = FALSE /\ crashed = FALSE
  /\ enqueued = 0 /\ out = <<>> /\ sound = TRUE

isempty == tail = NULL

StillSound == sound' = (sound /\ (tail' = NULL => head' = NULL))

(* An allocator whose list has been written over may return any address.    *)
Allocatable == IF corrupted THEN Nodes ELSE Nodes \ live

\* Mutant: temp->next is not set.
NextKept(n) == next[n]
NextOf(n)   == NULL

\* Mutant: the tail stays where it is.
TailKept(n) == IF isempty THEN n ELSE tail
TailOf(n)   == n

enqueue(n) ==
  LET temp == [next EXCEPT ![n] = NextOf(n)]
  IN  /\ ~crashed /\ enqueued < MaxEnqueued
      /\ n \in Allocatable
      /\ live' = live \cup {n}
      /\ p' = [p EXCEPT ![n] = enqueued + 1]
      /\ next' = IF isempty THEN temp ELSE [temp EXCEPT ![tail] = n]
      /\ corrupted' = (corrupted \/ (~isempty /\ tail \notin live'))
      /\ tail' = TailOf(n)
      /\ head' = IF isempty THEN n ELSE head
      /\ enqueued' = enqueued + 1
      /\ StillSound
      /\ UNCHANGED <<crashed, out>>

(* malloc may also find that its list is broken, and abort.                 *)
Abort ==
  /\ ~crashed /\ corrupted /\ enqueued < MaxEnqueued
  /\ crashed' = TRUE
  /\ UNCHANGED <<node, queue, history>>

(* Nothing is taken out, but the tail of a queue of one node is forgotten.  *)
dequeue ==
  /\ ~crashed
  /\ tail' = IF head = tail THEN NULL ELSE tail
  /\ UNCHANGED <<node, head, crashed, enqueued, out>>
  /\ StillSound

dequeueProcess ==
  /\ ~crashed /\ head # NULL
  /\ out' = Append(out, p[head])
  /\ head' = next[head]
  /\ live' = live \ {head}
  /\ UNCHANGED <<next, p, corrupted, tail, crashed, enqueued>>
  /\ StillSound

(* queue->head->p with no head.                                             *)
dequeueProcessOfNone ==
  /\ ~crashed /\ head = NULL
  /\ crashed' = TRUE
  /\ UNCHANGED <<node, queue, history>>

QueueNext ==
  \/ \E n \in Nodes : enqueue(n)
  \/ dequeue \/ dequeueProcess \/ dequeueProcessOfNone \/ Abort

QueueSpec == QueueInit /\ [][QueueNext]_queueVars

-----------------------------------------------------------------------------
QueueTypeOK ==
  /\ live \subseteq Nodes
  /\ next \in [Nodes -> Nodes \cup {NULL}] /\ p \in [Nodes -> 0 .. MaxEnqueued]
  /\ head \in Nodes \cup {NULL} /\ tail \in Nodes \cup {NULL}
  /\ corrupted \in BOOLEAN /\ crashed \in BOOLEAN /\ sound \in BOOLEAN
  /\ enqueued \in 0 .. MaxEnqueued /\ out \in Seq(1 .. MaxEnqueued)

(* Until dequeue forgets a tail the list is a queue: what came out is what  *)
(* went in, from the first, the last one before the list is drained         *)
(* included, and until then the nodes hold exactly the rest, head the first *)
(* of it.                                                                   *)
FifoWhileSound ==
  sound =>
    /\ \A i \in DOMAIN out : out[i] = i
    /\ head # NULL => /\ head \in live /\ p[head] = Len(out) + 1
                      /\ {p[n] : n \in live} = Len(out) + 1 .. enqueued

(* Elements may be lost after that, but what comes out keeps the order  *)
(* in which it went in and comes out once, whatever node malloc reuses and  *)
(* whatever is written to a node after it was freed.                        *)
InOrder == \A i \in DOMAIN out : \A j \in 1 .. i - 1 : out[j] < out[i]
=============================================================================
