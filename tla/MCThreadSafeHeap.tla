-------------------------- MODULE MCThreadSafeHeap --------------------------
(* Workloads for ThreadSafeHeap.  The 10 bytes of thread_function and the   *)
(* sizeof(int) of thread_func2 differ by less than a header, as 2 and 1 do. *)
EXTENDS ThreadSafeHeap

thread_function == <<MALLOC(2), FREE>>
thread_func2    == <<MALLOC(1), STORE, SAVE, LOAD>>

(* main's four threads of each set, two at a time.                          *)
mainThreads ==
  [t \in Threads |-> thread_function \o thread_function \o <<JOIN>> \o thread_func2]

(* They load a page, ask for much the same, free in between and have room.  *)
ASSUME MainWorkload ==
  (\E t \in Threads, i \in 1 .. 10 : Loads(t, i)) /\ Alike /\ FreesBetween /\ LongFor(2)
=============================================================================
