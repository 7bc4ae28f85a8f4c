--------------------------- MODULE MCBoundedBuffer ---------------------------
(* Workloads for BoundedBuffer. *)
EXTENDS BoundedBuffer

(* boundedBuffer.main: thread1 deposits, threads 2 to 4 fetch, then deposit. *)
MainProgram ==
  <<<<"deposit">>, <<"fetch", "deposit">>, <<"fetch", "deposit">>,
    <<"fetch", "deposit">>>>

(* That is one item, handed on by everyone: the proofs show that for such   *)
(* a workload the class is a FIFO channel and never all threads wait.       *)
ASSUME MainWorkload == PassesOneItem(MainProgram) /\ HandsBack(MainProgram)

(* Two depositors against two fetchers, three items through two slots each:  *)
(* the buffer fills, empties and wraps, and both conditions are awaited.     *)
(* Calls like these are what the class is for: "several threads".            *)
PairsProgram ==
  <<<<"deposit", "deposit", "deposit">>, <<"deposit", "deposit", "deposit">>,
    <<"fetch", "fetch", "fetch">>, <<"fetch", "fetch", "fetch">>>>

ASSUME PairsWorkload == Balanced(PairsProgram)
=============================================================================
