---------------------------- MODULE MCLockedHeap ----------------------------
(* Workloads for LockedHeap. *)
EXTENDS LockedHeap

(* main's second set of threads: unitTest8 calls thread_func twice, with a  *)
(* random size, and frees the NULL it returned in between.                  *)
thread_func(n) == <<MALLOC(n), FREE>>
unitTest8 == [t \in Threads |-> thread_func(1) \o <<FREEBAD>> \o thread_func(2)]

(* These calls are of the kind the proofs are about.                        *)
ASSUME MainWorkload == NoneForZero
=============================================================================
