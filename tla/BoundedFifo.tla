---------------------------- MODULE BoundedFifo ----------------------------
(***************************************************************************)
(* The bounded FIFO channel that the comments of boundedBuffer.java        *)
(* describe: deposit appends an item unless Capacity items are queued,     *)
(* fetch removes and returns the oldest one.                               *)
(***************************************************************************)
EXTENDS Naturals, Sequences

CONSTANTS Threads, Items, Capacity, Null

VARIABLES queue, result

vars == <<queue, result>>

Init == /\ queue = <<>>
        /\ result = [t \in Threads |-> Null]

Put == /\ Len(queue) < Capacity
       /\ \E item \in Items : queue' = Append(queue, item)
       /\ UNCHANGED result

Get(t) == /\ queue # <<>>
          /\ queue' = Tail(queue)
          /\ result' = [result EXCEPT ![t] = Head(queue)]

Next == Put \/ \E t \in Threads : Get(t)

Spec == Init /\ [][Next]_vars
=============================================================================
