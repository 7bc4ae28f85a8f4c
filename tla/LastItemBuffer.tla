--------------------------- MODULE LastItemBuffer ---------------------------
(***************************************************************************)
(* The part of a bounded FIFO channel that the boundedBuffer class of A6   *)
(* keeps for any clients, with no lock, no ring and no condition queue:    *)
(* never more than Capacity deposits are outstanding, a fetch takes one of *)
(* them, and a fetch that takes the only one returns the item it brought.  *)
(* Which string a fetch returns with more of them outstanding is left      *)
(* open: a FIFO channel fixes it, and it is an implementation of this      *)
(* module too.                                                             *)
(***************************************************************************)
EXTENDS Naturals

CONSTANTS Threads,     \* the callers
          Items,       \* what deposit may be given
          Strings,     \* what a slot may hold, items included
          Capacity,    \* the number of slots
          Null         \* Java's null, before the first deposit

VARIABLES outstanding, latest, result

vars == <<outstanding, latest, result>>

Init == /\ outstanding = 0
        /\ latest = Null
        /\ result = [t \in Threads |-> Null]

Deposit == /\ outstanding < Capacity
           /\ outstanding' = outstanding + 1
           /\ latest' \in Items
           /\ UNCHANGED result

Fetch(t) == /\ outstanding > 0
            /\ outstanding' = outstanding - 1
            /\ \E got \in Strings : /\ outstanding = 1 => got = latest
                                    /\ result' = [result EXCEPT ![t] = got]
            /\ UNCHANGED latest

Next == Deposit \/ \E t \in Threads : Fetch(t)

Spec == Init /\ [][Next]_vars
=============================================================================
