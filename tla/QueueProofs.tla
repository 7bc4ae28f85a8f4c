----------------------------- MODULE QueueProofs -----------------------------
(***************************************************************************)
(* Proofs about the two queues.                                            *)
(*                                                                         *)
(* The boundedBuffer monitor of A6, for any number of threads, any         *)
(* capacity and any programs: the inductive invariant IInv, the invariants *)
(* it implies, and that the class keeps the promise of LastItemBuffer.     *)
(*                                                                         *)
(* The linked queue of A3/queue.c, for any set of nodes and any number of  *)
(* elements: what comes out keeps its order, until dequeue forgets a tail  *)
(* it is a queue, and once drained it loses what it is given.  Elements    *)
(* carry the numbers they were enqueued under, and as long as the list is  *)
(* not drained every link leads to the next number.  A node that is        *)
(* reused, or written to after it was freed, would break that, but only a  *)
(* drained queue comes to it.                                              *)
(*                                                                         *)
(* The two share nothing: each has its own constants and variables.        *)
(***************************************************************************)
EXTENDS BoundedBuffer, ProcessQueue, FiniteSetTheorems, SequenceTheorems, TLAPS

-----------------------------------------------------------------------------
(* The inductive invariant.                                                 *)

(* A thread inside a call has a call left to make.                          *)
CallsInv == \A t \in Threads :
  /\ done[t] <= Len(Program[t])
  /\ pc[t] # "outside" => done[t] < Len(Program[t])

(* The owner of the lock is the thread testing or leaving.                  *)
LockInv == \A t \in Threads : pc[t] \in {"testing", "leaving"} <=> lock = t

(* A condition holds exactly the threads awaiting it, each in the call that *)
(* awaits it.                                                               *)
WaitInv == \A t \in Threads :
  /\ t \in notFull => pc[t] = "awaiting" /\ Program[t][done[t] + 1] = "deposit"
  /\ t \in notEmpty => pc[t] = "awaiting" /\ Program[t][done[t] + 1] = "fetch"

(* Once something was deposited only the slot behind rear holds data.       *)
OneItem == \/ count = 0 /\ rear = 0 /\ arr = [i \in Slots |-> Null]
           \/ \A i \in Slots : i # Behind(rear) => arr[i] = ThreadInfo

IInv == TypeOK /\ CallsInv /\ LockInv /\ WaitInv /\ RingAgrees /\ OneItem

-----------------------------------------------------------------------------
(* Lemmas about the ring.                                                   *)

(* One step along the ring stays in it and wraps at the end.                *)
LEMMA AdvanceWraps ==
  ASSUME NEW i \in Slots
  PROVE  /\ Advance(i) = IF i + 1 = Capacity THEN 0 ELSE i + 1
         /\ Advance(i) \in Slots
         /\ Behind(Advance(i)) = i
<1>1. Capacity \in Nat \ {0}
  BY BufferAssumption
<1>2. i \in Nat /\ i < Capacity
  BY <1>1 DEF Slots
<1>3. CASE i + 1 = Capacity
  BY <1>1, <1>2, <1>3 DEF Advance, Behind, Slots
<1>4. CASE i + 1 # Capacity
  BY <1>1, <1>2, <1>4 DEF Advance, Behind, Slots
<1> QED
  BY <1>3, <1>4

(* The slot n <= Capacity places ahead of slot i.                           *)
LEMMA AheadWraps ==
  ASSUME NEW i \in Slots, NEW n \in 0 .. Capacity
  PROVE  (i + n) % Capacity = IF i + n < Capacity THEN i + n
                                                  ELSE i + n - Capacity
<1>1. Capacity \in Nat \ {0} /\ i \in Nat /\ i < Capacity /\ n \in Nat /\ n <= Capacity
  BY BufferAssumption DEF Slots
<1>2. CASE i + n < Capacity
  BY <1>1, <1>2
<1>3. CASE ~(i + n < Capacity)
  <2>1. PICK k \in 0 .. Capacity - 1 : k = i + n - Capacity \/ k + Capacity = i + n
    BY <1>1, <1>3
  <2>2. (k + Capacity) % Capacity = k
    BY <1>1
  <2> QED
    BY <1>1, <1>3, <2>1, <2>2
<1> QED
  BY <1>2, <1>3

(* The item a caller deposits is one of Items.                              *)
LEMMA DepositedIsItem ==
  ASSUME TypeOK, NEW t \in Threads, ~Finished(t), CallsInv
  PROVE  <<t, done[t]>> \in Items
  BY BufferAssumption DEF TypeOK, CallsInv, Finished, Items, Calls, Threads

-----------------------------------------------------------------------------
LEMMA InitIInv == Init => IInv
<1> SUFFICES ASSUME Init PROVE IInv
  OBVIOUS
<1> USE BufferAssumption
<1>1. TypeOK
  BY DEF Init, TypeOK, Slots, Places, Threads
<1>2. CallsInv /\ LockInv /\ WaitInv
  BY DEF Init, CallsInv, LockInv, WaitInv, Calls
<1>3. RingAgrees
  BY DEF Init, RingAgrees
<1>4. OneItem
  BY DEF Init, OneItem
<1> QED
  BY <1>1, <1>2, <1>3, <1>4 DEF IInv

(* Every step preserves the invariant; one step per action.                 *)
LEMMA NextIInv == IInv /\ [Next]_vars => IInv'
<1> SUFFICES ASSUME IInv, [Next]_vars PROVE IInv'
  OBVIOUS
<1> USE BufferAssumption
<1>a. TypeOK /\ CallsInv /\ LockInv /\ WaitInv /\ RingAgrees /\ OneItem
  BY DEF IInv
<1>1. CASE Start
  <2>1. TypeOK'
    BY <1>a, <1>1 DEF Start, TypeOK, ring
  <2> QED
    BY <1>a, <1>1, <2>1 DEF Start, ring, IInv, CallsInv, LockInv, WaitInv, RingAgrees, OneItem
<1>2. CASE Join
  <2>1. TypeOK'
    BY <1>a, <1>2 DEF Join, TypeOK, ring
  <2> QED
    BY <1>a, <1>2, <2>1 DEF Join, ring, IInv, CallsInv, LockInv, WaitInv, RingAgrees, OneItem
<1>3. ASSUME NEW t \in Threads, Acquire(t) PROVE IInv'
  <2> USE <1>3 DEF Acquire, Goto, ring, main
  <2>1. TypeOK'
    BY <1>a DEF TypeOK, Places
  <2>2. CallsInv' /\ LockInv' /\ WaitInv'
    BY <1>a DEF TypeOK, Places, CallsInv, LockInv, WaitInv, Finished
  <2>3. RingAgrees' /\ OneItem'
    BY <1>a DEF RingAgrees, OneItem
  <2> QED
    BY <2>1, <2>2, <2>3 DEF IInv
<1>4. ASSUME NEW t \in Threads, AwaitNotFull(t) PROVE IInv'
  <2> USE <1>4 DEF AwaitNotFull, Goto, ring, main
  <2>1. TypeOK'
    BY <1>a DEF TypeOK, Places
  <2>2. CallsInv' /\ LockInv' /\ WaitInv'
    BY <1>a DEF TypeOK, Places, CallsInv, LockInv, WaitInv, Calling
  <2>3. RingAgrees' /\ OneItem'
    BY <1>a DEF RingAgrees, OneItem
  <2> QED
    BY <2>1, <2>2, <2>3 DEF IInv
<1>5. ASSUME NEW t \in Threads, AwaitNotEmpty(t) PROVE IInv'
  <2> USE <1>5 DEF AwaitNotEmpty, Goto, ring, main
  <2>1. TypeOK'
    BY <1>a DEF TypeOK, Places
  <2>2. CallsInv' /\ LockInv' /\ WaitInv'
    BY <1>a DEF TypeOK, Places, CallsInv, LockInv, WaitInv, Calling
  <2>3. RingAgrees' /\ OneItem'
    BY <1>a DEF RingAgrees, OneItem
  <2> QED
    BY <2>1, <2>2, <2>3 DEF IInv
<1>6. ASSUME NEW t \in Threads, SpuriousWakeup(t) PROVE IInv'
  <2> USE <1>6 DEF SpuriousWakeup, Goto, ring, main
  <2>1. TypeOK'
    BY <1>a DEF TypeOK, Places
  <2>2. CallsInv' /\ LockInv' /\ WaitInv'
    BY <1>a DEF TypeOK, Places, CallsInv, LockInv, WaitInv
  <2>3. RingAgrees' /\ OneItem'
    BY <1>a DEF RingAgrees, OneItem
  <2> QED
    BY <2>1, <2>2, <2>3 DEF IInv
<1>7. ASSUME NEW t \in Threads, Deposit(t) PROVE IInv'
  <2>1. PICK woken \in Signalled(notEmpty) :
          notEmpty' = notEmpty \ woken /\ WakeAndLeave(t, woken)
    BY <1>7 DEF Deposit
  <2>2. woken \subseteq notEmpty
    BY <2>1 DEF Signalled
  <2>3. /\ pc[t] = "testing" /\ ~Finished(t) /\ Program[t][done[t] + 1] = "deposit"
        /\ count \in 0 .. Capacity - 1 /\ front \in Slots /\ rear \in Slots
        /\ Capacity \in Nat \ {0}
    BY <1>a, <1>7 DEF Deposit, Calling, Full, TypeOK
  <2>4. <<t, done[t]>> \in Items
    BY <1>a, <2>3, DepositedIsItem
  <2>5. arr' \in [Slots -> Items \cup {ThreadInfo, Null}]
    BY <1>7, <2>3, <2>4 DEF Deposit, Stored
  <2>6. rear' \in Slots /\ Behind(rear') = rear
    BY <1>7, <2>3, AdvanceWraps DEF Deposit
  <2>7. TypeOK'
    <3>1. pc' \in [Threads -> Places] /\ notEmpty' \subseteq Threads
      BY <1>a, <2>1 DEF TypeOK, WakeAndLeave, Places
    <3>2. count' \in 0 .. Capacity
      BY <1>7, <2>3 DEF Deposit
    <3> QED
      BY <1>a, <1>7, <2>3, <2>5, <2>6, <3>1, <3>2 DEF Deposit, TypeOK, main
  <2>8. CallsInv' /\ LockInv' /\ WaitInv'
    BY <1>a, <1>7, <2>1, <2>2, <2>3
       DEF Deposit, WakeAndLeave, TypeOK, Places, CallsInv, LockInv, WaitInv, Finished
  <2>9. RingAgrees'
    <3>1. rear = (front + count) % Capacity /\ count + 1 \in 0 .. Capacity
          /\ count \in 0 .. Capacity
      BY <1>a, <2>3 DEF RingAgrees
    <3>2. /\ rear = IF front + count < Capacity THEN front + count
                    ELSE front + count - Capacity
          /\ (front + (count + 1)) % Capacity =
               IF front + (count + 1) < Capacity THEN front + (count + 1)
               ELSE front + (count + 1) - Capacity
      BY <2>3, <3>1, AheadWraps
    <3>3. Advance(rear) = IF rear + 1 = Capacity THEN 0 ELSE rear + 1
      BY <2>3, AdvanceWraps
    <3>4. Advance(rear) = (front + (count + 1)) % Capacity
      BY <2>3, <3>2, <3>3 DEF Slots
    <3> QED
      BY <1>7, <3>4 DEF Deposit, RingAgrees
  <2>10. OneItem'
    BY <1>7, <2>6 DEF Deposit, Stored, OneItem
  <2> QED
    BY <2>7, <2>8, <2>9, <2>10 DEF IInv
<1>8. ASSUME NEW t \in Threads, Fetch(t) PROVE IInv'
  <2>1. PICK woken \in Signalled(notFull) :
          notFull' = notFull \ woken /\ WakeAndLeave(t, woken)
    BY <1>8 DEF Fetch
  <2>2. woken \subseteq notFull
    BY <2>1 DEF Signalled
  <2>3. /\ pc[t] = "testing" /\ ~Finished(t) /\ Program[t][done[t] + 1] = "fetch"
        /\ count \in 1 .. Capacity /\ front \in Slots /\ rear \in Slots
        /\ Capacity \in Nat \ {0}
    BY <1>a, <1>8 DEF Fetch, Calling, Empty, TypeOK
  <2>4. front' \in Slots
    BY <1>8, <2>3, AdvanceWraps DEF Fetch
  <2>5. TypeOK'
    <3>1. pc' \in [Threads -> Places] /\ notFull' \subseteq Threads
      BY <1>a, <2>1 DEF TypeOK, WakeAndLeave, Places
    <3>2. count' \in 0 .. Capacity
      BY <1>8, <2>3 DEF Fetch
    <3> QED
      BY <1>a, <1>8, <2>3, <2>4, <3>1, <3>2 DEF Fetch, TypeOK, main
  <2>6. CallsInv' /\ LockInv' /\ WaitInv'
    BY <1>a, <1>8, <2>1, <2>2, <2>3
       DEF Fetch, WakeAndLeave, TypeOK, Places, CallsInv, LockInv, WaitInv, Finished
  <2>7. RingAgrees'
    <3>1. rear = (front + count) % Capacity /\ count - 1 \in 0 .. Capacity
          /\ count \in 0 .. Capacity
      BY <1>a, <2>3 DEF RingAgrees
    <3>2. front' = IF front + 1 = Capacity THEN 0 ELSE front + 1
      BY <1>8, <2>3, AdvanceWraps DEF Fetch
    <3>3. /\ rear = IF front + count < Capacity THEN front + count
                    ELSE front + count - Capacity
          /\ (front' + (count - 1)) % Capacity =
               IF front' + (count - 1) < Capacity THEN front' + (count - 1)
               ELSE front' + (count - 1) - Capacity
      BY <2>3, <2>4, <3>1, AheadWraps
    <3>4. rear = (front' + (count - 1)) % Capacity
      BY <2>3, <3>2, <3>3 DEF Slots
    <3> QED
      BY <1>8, <3>4 DEF Fetch, RingAgrees
  <2>8. OneItem'
    BY <1>a, <1>8, <2>3 DEF Fetch, OneItem
  <2> QED
    BY <2>5, <2>6, <2>7, <2>8 DEF IInv
<1>9. ASSUME NEW t \in Threads, Leave(t) PROVE IInv'
  <2> USE <1>9 DEF Leave, Goto, ring, main
  <2>1. TypeOK'
    BY <1>a DEF TypeOK, Places
  <2>2. CallsInv' /\ LockInv' /\ WaitInv'
    BY <1>a DEF TypeOK, Places, CallsInv, LockInv, WaitInv, Calls
  <2>3. RingAgrees' /\ OneItem'
    BY <1>a DEF RingAgrees, OneItem
  <2> QED
    BY <2>1, <2>2, <2>3 DEF IInv
<1>10. CASE UNCHANGED vars
  BY <1>a, <1>10 DEF vars, ring, main, IInv, TypeOK, CallsInv, LockInv, WaitInv, RingAgrees, OneItem
<1> QED
  BY <1>1, <1>2, <1>3, <1>4, <1>5, <1>6, <1>7, <1>8, <1>9, <1>10
     DEF Next, ThreadStep, Exited

(* The invariant holds throughout every behaviour of the monitor.           *)
THEOREM Invariance == Spec => []IInv
  BY InitIInv, NextIInv, PTL DEF Spec

(* Type correctness of the fields of the class and of the control state;    *)
(* in particular count never leaves 0 .. capacity and both indices stay in  *)
(* the array.                                                               *)
THEOREM TypeCorrect == Spec => []TypeOK
<1>1. IInv => TypeOK
  BY DEF IInv
<1> QED
  BY <1>1, Invariance, PTL

(* front, rear and count, updated by two methods, agree in every state.     *)
THEOREM RingAlwaysAgrees == Spec => []RingAgrees
<1>1. IInv => RingAgrees
  BY DEF IInv
<1> QED
  BY <1>1, Invariance, PTL

-----------------------------------------------------------------------------
(* No lost wakeup.                                                          *)

LEMMA ThreadSetsFinite ==
  ASSUME NEW S \in SUBSET Threads
  PROVE  IsFiniteSet(S) /\ Cardinality(S) \in Nat
<1>1. IsFiniteSet(Threads)
  BY BufferAssumption, FS_Interval DEF Threads
<1> QED
  BY <1>1, FS_Subset, FS_CardinalityType

LEMMA WillTestFinite ==
  ASSUME NEW call
  PROVE  /\ IsFiniteSet(WillTest(call)) /\ IsFiniteSet(WillTest(call)')
         /\ Cardinality(WillTest(call)) \in Nat
         /\ Cardinality(WillTest(call)') \in Nat
<1>1. WillTest(call) \in SUBSET Threads /\ WillTest(call)' \in SUBSET Threads
  BY DEF WillTest
<1> QED
  BY <1>1, ThreadSetsFinite

(* A step after which every thread on its way is still on its way leaves no *)
(* fewer of them.                                                           *)
LEMMA WillTestGrows ==
  ASSUME NEW call, WillTest(call) \subseteq WillTest(call)'
  PROVE  Cardinality(WillTest(call)) <= Cardinality(WillTest(call)')
  BY WillTestFinite, FS_Subset

(* The same step with one more, or one fewer, thread on its way.            *)
LEMMA WillTestGains ==
  ASSUME NEW call, NEW w, w \notin WillTest(call),
         WillTest(call)' = WillTest(call) \cup {w}
  PROVE  Cardinality(WillTest(call)') = Cardinality(WillTest(call)) + 1
  BY WillTestFinite, FS_AddElement

LEMMA WillTestLoses ==
  ASSUME NEW call, NEW w, w \in WillTest(call),
         WillTest(call)' = WillTest(call) \ {w}
  PROVE  Cardinality(WillTest(call)') = Cardinality(WillTest(call)) - 1
  BY WillTestFinite, FS_RemoveElement

(* A step that disturbs neither count nor the conditions and takes no       *)
(* thread off its way.                                                      *)
LEMMA QuietStep ==
  ASSUME NoLostWakeup, TypeOK, count' = count,
         notEmpty' \subseteq notEmpty, notFull' \subseteq notFull,
         \A call \in Calls : WillTest(call) \subseteq WillTest(call)'
  PROVE  NoLostWakeup'
<1>1. /\ Cardinality(WillTest("fetch")) <= Cardinality(WillTest("fetch")')
      /\ Cardinality(WillTest("deposit")) <= Cardinality(WillTest("deposit")')
  BY WillTestGrows DEF Calls
<1>2. count \in Nat /\ Capacity \in Nat
  BY BufferAssumption DEF TypeOK
<1>3. notEmpty' # {} => count' <= Cardinality(WillTest("fetch")')
  BY <1>1, <1>2, WillTestFinite DEF NoLostWakeup
<1>4. notFull' # {} => Capacity - count' <= Cardinality(WillTest("deposit")')
  BY <1>1, <1>2, WillTestFinite DEF NoLostWakeup
<1> QED
  BY <1>3, <1>4 DEF NoLostWakeup

LEMMA NextNoLostWakeup == IInv /\ NoLostWakeup /\ [Next]_vars => NoLostWakeup'
<1> SUFFICES ASSUME IInv, NoLostWakeup, [Next]_vars PROVE NoLostWakeup'
  OBVIOUS
<1> USE BufferAssumption
<1>a. TypeOK /\ CallsInv /\ LockInv /\ WaitInv /\ Capacity \in Nat \ {0}
  BY DEF IInv
<1>1. CASE Start \/ Join \/ UNCHANGED vars
  BY <1>a, <1>1, QuietStep DEF Start, Join, vars, ring, main, WillTest, Calling, Finished
<1>2. ASSUME NEW t \in Threads, Acquire(t) \/ SpuriousWakeup(t) PROVE NoLostWakeup'
  <2>1. \A call \in Calls : WillTest(call) \subseteq WillTest(call)'
    BY <1>a, <1>2
       DEF Acquire, SpuriousWakeup, Goto, TypeOK, WillTest, Calling, Finished
  <2> QED
    BY <1>a, <1>2, <2>1, QuietStep DEF Acquire, SpuriousWakeup, ring
<1>3. ASSUME NEW t \in Threads, Leave(t) PROVE NoLostWakeup'
  <2>1. \A call \in Calls : WillTest(call) \subseteq WillTest(call)'
    BY <1>a, <1>3 DEF Leave, Goto, TypeOK, WillTest, Calling, Finished
  <2> QED
    BY <1>a, <1>3, <2>1, QuietStep DEF Leave, ring
<1>4. ASSUME NEW t \in Threads, AwaitNotFull(t) PROVE NoLostWakeup'
  <2>1. WillTest("fetch") \subseteq WillTest("fetch")'
    BY <1>a, <1>4 DEF AwaitNotFull, Goto, TypeOK, WillTest, Calling, Finished
  <2>2. notEmpty' # {} => count' <= Cardinality(WillTest("fetch")')
    BY <1>a, <1>4, <2>1, WillTestGrows, WillTestFinite
       DEF AwaitNotFull, NoLostWakeup, ring, TypeOK
  <2>3. Capacity - count' = 0
    BY <1>a, <1>4 DEF AwaitNotFull, Full, ring
  <2>4. Cardinality(WillTest("deposit")') \in Nat
    BY WillTestFinite
  <2> QED
    BY <2>2, <2>3, <2>4 DEF NoLostWakeup
<1>5. ASSUME NEW t \in Threads, AwaitNotEmpty(t) PROVE NoLostWakeup'
  <2>1. WillTest("deposit") \subseteq WillTest("deposit")'
    BY <1>a, <1>5 DEF AwaitNotEmpty, Goto, TypeOK, WillTest, Calling, Finished
  <2>2. notFull' # {} => Capacity - count' <= Cardinality(WillTest("deposit")')
    BY <1>a, <1>5, <2>1, WillTestGrows, WillTestFinite
       DEF AwaitNotEmpty, NoLostWakeup, ring, TypeOK
  <2>3. count' = 0
    BY <1>a, <1>5 DEF AwaitNotEmpty, Empty, ring
  <2>4. Cardinality(WillTest("fetch")') \in Nat
    BY WillTestFinite
  <2> QED
    BY <2>2, <2>3, <2>4 DEF NoLostWakeup
<1>6. ASSUME NEW t \in Threads, Deposit(t) PROVE NoLostWakeup'
  <2>1. PICK woken \in Signalled(notEmpty) :
          notEmpty' = notEmpty \ woken /\ WakeAndLeave(t, woken)
    BY <1>6 DEF Deposit
  <2>2. /\ pc[t] = "testing" /\ Calling(t, "deposit") /\ ~Calling(t, "fetch")
        /\ count' = count + 1 /\ notFull' = notFull /\ done' = done
        /\ count \in Nat
    BY <1>a, <1>6 DEF Deposit, Calling, TypeOK
  <2>3. notEmpty' # {} => count' <= Cardinality(WillTest("fetch")')
    <3> SUFFICES ASSUME notEmpty' # {} PROVE count' <= Cardinality(WillTest("fetch")')
      OBVIOUS
    <3>1. PICK w \in notEmpty : woken = {w}
      BY <2>1 DEF Signalled
    <3>2. w \in Threads /\ pc[w] = "awaiting" /\ Calling(w, "fetch")
      BY <1>a, <3>1 DEF WaitInv, TypeOK, CallsInv, Calling, Finished
    <3>3. WillTest("fetch")' = WillTest("fetch") \cup {w} /\ w \notin WillTest("fetch")
      BY <2>1, <2>2, <3>1, <3>2 DEF WakeAndLeave, WillTest, Calling, Finished
    <3>4. count <= Cardinality(WillTest("fetch"))
      BY <3>1 DEF NoLostWakeup
    <3> QED
      BY <2>2, <3>3, <3>4, WillTestGains, WillTestFinite
  <2>4. notFull' # {} => Capacity - count' <= Cardinality(WillTest("deposit")')
    <3> SUFFICES ASSUME notFull' # {}
                 PROVE Capacity - count' <= Cardinality(WillTest("deposit")')
      OBVIOUS
    <3>1. \A w \in woken : pc[w] = "awaiting" /\ ~Calling(w, "deposit")
      BY <1>a, <2>1 DEF Signalled, WaitInv, TypeOK, Calling
    <3>2. WillTest("deposit")' = WillTest("deposit") \ {t} /\ t \in WillTest("deposit")
      BY <2>1, <2>2, <3>1 DEF WakeAndLeave, WillTest, Calling, Finished
    <3>3. Capacity - count <= Cardinality(WillTest("deposit"))
      BY <2>2 DEF NoLostWakeup
    <3> QED
      BY <1>a, <2>2, <3>2, <3>3, WillTestLoses, WillTestFinite
  <2> QED
    BY <2>3, <2>4 DEF NoLostWakeup
<1>7. ASSUME NEW t \in Threads, Fetch(t) PROVE NoLostWakeup'
  <2>1. PICK woken \in Signalled(notFull) :
          notFull' = notFull \ woken /\ WakeAndLeave(t, woken)
    BY <1>7 DEF Fetch
  <2>2. /\ pc[t] = "testing" /\ Calling(t, "fetch") /\ ~Calling(t, "deposit")
        /\ count' = count - 1 /\ notEmpty' = notEmpty /\ done' = done
        /\ count \in Nat
    BY <1>a, <1>7 DEF Fetch, Calling, TypeOK
  <2>3. notEmpty' # {} => count' <= Cardinality(WillTest("fetch")')
    <3> SUFFICES ASSUME notEmpty' # {} PROVE count' <= Cardinality(WillTest("fetch")')
      OBVIOUS
    <3>1. \A w \in woken : pc[w] = "awaiting" /\ ~Calling(w, "fetch")
      BY <1>a, <2>1 DEF Signalled, WaitInv, TypeOK, Calling
    <3>2. WillTest("fetch")' = WillTest("fetch") \ {t} /\ t \in WillTest("fetch")
      BY <2>1, <2>2, <3>1 DEF WakeAndLeave, WillTest, Calling, Finished
    <3>3. count <= Cardinality(WillTest("fetch"))
      BY <2>2 DEF NoLostWakeup
    <3> QED
      BY <2>2, <3>2, <3>3, WillTestLoses, WillTestFinite
  <2>4. notFull' # {} => Capacity - count' <= Cardinality(WillTest("deposit")')
    <3> SUFFICES ASSUME notFull' # {}
                 PROVE Capacity - count' <= Cardinality(WillTest("deposit")')
      OBVIOUS
    <3>1. PICK w \in notFull : woken = {w}
      BY <2>1 DEF Signalled
    <3>2. w \in Threads /\ pc[w] = "awaiting" /\ Calling(w, "deposit")
      BY <1>a, <3>1 DEF WaitInv, TypeOK, CallsInv, Calling, Finished
    <3>3. /\ WillTest("deposit")' = WillTest("deposit") \cup {w}
          /\ w \notin WillTest("deposit")
      BY <2>1, <2>2, <3>1, <3>2 DEF WakeAndLeave, WillTest, Calling, Finished
    <3>4. Capacity - count <= Cardinality(WillTest("deposit"))
      BY <3>1 DEF NoLostWakeup
    <3> QED
      BY <1>a, <2>2, <3>3, <3>4, WillTestGains, WillTestFinite
  <2> QED
    BY <2>3, <2>4 DEF NoLostWakeup
<1> QED
  BY <1>1, <1>2, <1>3, <1>4, <1>5, <1>6, <1>7 DEF Next, ThreadStep, Exited

(* A single signal per deposit and per fetch, to whichever waiting thread,   *)
(* never leaves a thread asleep while it could proceed and no    *)
(* other thread is on its way to test the condition.                        *)
THEOREM NoWakeupIsLost == Spec => []NoLostWakeup
<1>1. Init => NoLostWakeup
  BY DEF Init, NoLostWakeup
<1> QED
  BY <1>1, NextNoLostWakeup, Invariance, PTL DEF Spec

-----------------------------------------------------------------------------
(* Refinement: the class keeps the promise of LastItemBuffer.               *)

LEMMA InitRefines == Init => Promise!Init
<1> SUFFICES ASSUME Init PROVE Promise!Init
  OBVIOUS
<1>1. Behind(rear) \in Slots
  BY BufferAssumption DEF Init, Behind, Slots
<1> QED
  BY <1>1 DEF Init, Promise!Init

LEMMA StepRefines == IInv /\ [Next]_vars => [Promise!Next]_(Promise!vars)
<1> SUFFICES ASSUME IInv, [Next]_vars PROVE [Promise!Next]_(Promise!vars)
  OBVIOUS
<1>a. TypeOK /\ CallsInv /\ RingAgrees /\ OneItem
  BY DEF IInv
<1>1. ASSUME NEW t \in Threads, Deposit(t) PROVE Promise!Deposit
  <2>1. count < Capacity /\ count' = count + 1 /\ result' = result
    BY <1>a, <1>1, BufferAssumption DEF Deposit, Full, TypeOK
  <2>2. Behind(rear') = rear /\ rear \in Slots
    BY <1>a, <1>1, AdvanceWraps DEF Deposit, TypeOK
  <2>3. arr'[Behind(rear')] = <<t, done[t]>>
    BY <1>1, <2>2 DEF Deposit, Stored
  <2>4. <<t, done[t]>> \in Items
    BY <1>a, <1>1, DepositedIsItem DEF Deposit, Calling
  <2> QED
    BY <2>1, <2>3, <2>4 DEF Promise!Deposit
<1>2. ASSUME NEW t \in Threads, Fetch(t) PROVE Promise!Fetch(t)
  <2>1. /\ count \in 1 .. Capacity /\ count' = count - 1
        /\ front \in Slots /\ rear \in Slots /\ arr' = arr /\ rear' = rear
        /\ result' = [result EXCEPT ![t] = arr[front]]
        /\ Capacity \in Nat \ {0}
    BY <1>a, <1>2, BufferAssumption DEF Fetch, Empty, TypeOK
  <2>2. rear = IF front + count < Capacity THEN front + count
               ELSE front + count - Capacity
    <3>1. rear = (front + count) % Capacity /\ count \in 0 .. Capacity
      BY <1>a, <2>1 DEF RingAgrees
    <3> QED
      BY <2>1, <3>1, AheadWraps
  <2>3. front = Behind(rear) <=> count = 1
    BY <2>1, <2>2 DEF Behind, Slots
  <2>4. /\ arr[front] \in Items \cup {ThreadInfo, Null}
        /\ count = 1 => arr[front] = arr[Behind(rear)]
    BY <1>a, <2>1, <2>3 DEF TypeOK
  <2>5. count > 0 /\ arr'[Behind(rear')] = arr[Behind(rear)]
    BY <2>1
  <2> QED
    BY <2>1, <2>4, <2>5 DEF Promise!Fetch
<1>3. ASSUME \/ Start \/ Join \/ UNCHANGED vars
             \/ \E t \in Threads : \/ Acquire(t) \/ AwaitNotFull(t) \/ AwaitNotEmpty(t)
                                   \/ Leave(t) \/ SpuriousWakeup(t)
      PROVE  UNCHANGED Promise!vars
  <2>1. UNCHANGED <<arr, rear, count, result>>
    BY <1>3 DEF Start, Join, vars, Acquire, AwaitNotFull, AwaitNotEmpty, Leave,
                SpuriousWakeup, ring
  <2> QED
    BY <2>1 DEF Promise!vars
<1> QED
  BY <1>1, <1>2, <1>3 DEF Next, ThreadStep, Exited, Promise!Next

(* Whatever the threads do, the class counts outstanding deposits, never    *)
(* more than Capacity nor fewer than none, and the fetch that takes the     *)
(* only one returns the item it brought.                                    *)
THEOREM PromiseKept == Spec => KeepsPromise
  BY InitRefines, StepRefines, Invariance, PTL DEF Spec, KeepsPromise, Promise!Spec

-----------------------------------------------------------------------------
(* Refinement: with calls that pass one item around, the class is a FIFO.   *)
(* The item is in the buffer or with one thread, the one whose last call    *)
(* that took effect was a fetch, or the first before any.                   *)
Effects(t)  == IF pc[t] = "leaving" THEN done[t] + 1 ELSE done[t]
Holds(t, d) == IF Effects(t) = 0 THEN t = d ELSE Program[t][Effects(t)] = "fetch"
Begins(d)   == \A t \in Threads :
  /\ Program[t] # <<>> => (Program[t][1] = "deposit" <=> t = d)
  /\ \A i \in 1 .. Len(Program[t]) - 1 : Program[t][i] # Program[t][i + 1]
OneToken(d) == \/ count = 0 /\ \E h \in Threads : \A t \in Threads : Holds(t, d) <=> t = h
               \/ count = 1 /\ \A t \in Threads : ~Holds(t, d)

(* A thread that deposits holds the item, one that fetches does not.        *)
LEMMA NextEffect ==
  ASSUME IInv, NEW d \in Threads, Begins(d), NEW t \in Threads, pc[t] = "testing",
         NEW c, Calling(t, c)
  PROVE  /\ c = "deposit" => Holds(t, d)
         /\ c = "fetch" => ~Holds(t, d)
<1>1. Program[t] \in Seq(Calls) /\ Len(Program[t]) \in Nat
  BY BufferAssumption
<1>2. done[t] \in Nat /\ done[t] < Len(Program[t]) /\ Program[t][done[t] + 1] = c
  BY DEF IInv, TypeOK, CallsInv, Calling
<1>3. Effects(t) = done[t]
  BY DEF Effects
<1>4. CASE done[t] = 0
  <2>1. Program[t] # <<>> /\ Program[t][1] = c
    BY <1>1, <1>2, <1>4
  <2> QED
    BY <1>3, <1>4, <2>1 DEF Begins, Holds
<1>5. CASE done[t] # 0
  <2>1. done[t] \in 1 .. Len(Program[t]) - 1
    BY <1>1, <1>2, <1>5
  <2>2. Program[t][done[t]] # c /\ Program[t][done[t]] \in Calls
    <3>1. done[t] \in 1 .. Len(Program[t])
      BY <1>1, <1>2, <1>5
    <3> QED
      BY <1>1, <1>2, <2>1, <3>1, ElementOfSeq DEF Begins
  <2> QED
    BY <1>3, <1>5, <2>2 DEF Holds, Calls
<1> QED
  BY <1>4, <1>5

LEMMA NextOneToken ==
  ASSUME IInv, NEW d \in Threads, Begins(d), OneToken(d), [Next]_vars
  PROVE  OneToken(d)'
<1>a. /\ TypeOK /\ CallsInv /\ WaitInv
      /\ pc \in [Threads -> Places] /\ done \in [Threads -> Nat] /\ count \in Nat
      /\ notFull \subseteq Threads /\ notEmpty \subseteq Threads
  BY BufferAssumption DEF IInv, TypeOK
<1>1. ASSUME count' = count, \A t \in Threads : Effects(t)' = Effects(t)
      PROVE  OneToken(d)'
  BY <1>1 DEF OneToken, Holds
<1>2. CASE Start \/ Join \/ UNCHANGED vars
  <2>1. pc' = pc /\ done' = done /\ count' = count
    BY <1>2 DEF Start, Join, vars, ring
  <2> QED
    BY <1>1, <2>1 DEF Effects
<1>3. ASSUME NEW t \in Threads,
             Acquire(t) \/ AwaitNotFull(t) \/ AwaitNotEmpty(t) \/ SpuriousWakeup(t)
      PROVE  OneToken(d)'
  <2>1. /\ done' = done /\ count' = count /\ pc[t] # "leaving"
        /\ \E place \in Places \ {"leaving"} : pc' = [pc EXCEPT ![t] = place]
    BY <1>3 DEF Acquire, AwaitNotFull, AwaitNotEmpty, SpuriousWakeup, Goto, Places, ring
  <2>2. \A u \in Threads : Effects(u)' = Effects(u)
    BY <1>a, <2>1 DEF Effects
  <2> QED
    BY <1>1, <2>1, <2>2
<1>4. ASSUME NEW t \in Threads, Leave(t) PROVE OneToken(d)'
  <2>1. /\ pc[t] = "leaving" /\ pc' = [pc EXCEPT ![t] = "outside"]
        /\ done' = [done EXCEPT ![t] = @ + 1] /\ count' = count
    BY <1>4 DEF Leave, Goto, ring
  <2>2. \A u \in Threads : Effects(u)' = Effects(u)
    BY <1>a, <2>1 DEF Effects
  <2> QED
    BY <1>1, <2>1, <2>2
<1>5. ASSUME NEW t \in Threads, NEW c \in Calls, NEW woken \in SUBSET Threads,
             pc[t] = "testing", Calling(t, c), done' = done, WakeAndLeave(t, woken),
             \A w \in woken : pc[w] = "awaiting"
      PROVE  \A u \in Threads : Holds(u, d)' <=> IF u = t THEN c = "fetch" ELSE Holds(u, d)
  <2>1. Effects(t)' = done[t] + 1 /\ done[t] + 1 # 0 /\ Program[t][done[t] + 1] = c
    BY <1>a, <1>5 DEF WakeAndLeave, Effects, Calling
  <2>2. \A u \in Threads \ {t} : Effects(u)' = Effects(u)
    BY <1>a, <1>5 DEF WakeAndLeave, Effects
  <2> QED
    BY <2>1, <2>2 DEF Holds
<1>6. ASSUME NEW t \in Threads, Deposit(t) PROVE OneToken(d)'
  <2>1. /\ pc[t] = "testing" /\ Calling(t, "deposit") /\ count' = count + 1 /\ done' = done
        /\ \E woken \in Signalled(notEmpty) : WakeAndLeave(t, woken)
    BY <1>6 DEF Deposit
  <2>2. PICK woken \in SUBSET Threads :
          WakeAndLeave(t, woken) /\ \A w \in woken : pc[w] = "awaiting"
    BY <1>a, <2>1 DEF Signalled, WaitInv
  <2>3. \A u \in Threads : Holds(u, d)' <=> (u # t /\ Holds(u, d))
    BY <1>5, <2>1, <2>2 DEF Calls
  <2>4. Holds(t, d)
    BY <2>1, NextEffect
  <2>5. count = 0 /\ \A u \in Threads : ~Holds(u, d)'
    BY <2>3, <2>4 DEF OneToken
  <2> QED
    BY <2>1, <2>5 DEF OneToken
<1>7. ASSUME NEW t \in Threads, Fetch(t) PROVE OneToken(d)'
  <2>1. /\ pc[t] = "testing" /\ Calling(t, "fetch") /\ count' = count - 1 /\ done' = done
        /\ \E woken \in Signalled(notFull) : WakeAndLeave(t, woken)
        /\ count # 0
    BY <1>7 DEF Fetch, Empty
  <2>2. PICK woken \in SUBSET Threads :
          WakeAndLeave(t, woken) /\ \A w \in woken : pc[w] = "awaiting"
    BY <1>a, <2>1 DEF Signalled, WaitInv
  <2>3. \A u \in Threads : Holds(u, d)' <=> (u = t \/ Holds(u, d))
    BY <1>5, <2>1, <2>2 DEF Calls
  <2>4. count = 1 /\ \A u \in Threads : Holds(u, d)' <=> u = t
    BY <2>1, <2>3 DEF OneToken
  <2> QED
    BY <2>1, <2>4 DEF OneToken
<1> QED
  BY <1>2, <1>3, <1>4, <1>6, <1>7 DEF Next, ThreadStep, Exited

LEMMA InitFifo == Init => Fifo!Init
<1> SUFFICES ASSUME Init PROVE Fifo!Init
  OBVIOUS
<1>1. [k \in 1 .. count |-> arr[(front + k - 1) % Capacity]] = << >>
  BY DEF Init
<1> QED
  BY <1>1 DEF Init, Fifo!Init

(* One item in the buffer is the queue of that item.                        *)
LEMMA QueueOfOne ==
  ASSUME NEW a, NEW f \in Slots, NEW n \in {0, 1}
  PROVE  [k \in 1 .. n |-> a[(f + k - 1) % Capacity]] = IF n = 0 THEN <<>> ELSE <<a[f]>>
<1>1. (f + 1 - 1) % Capacity = f
  BY BufferAssumption DEF Slots
<1>2. CASE n = 0
  BY <1>2
<1>3. CASE n = 1
  <2>1. \A k \in 1 .. n : k = 1 /\ a[(f + k - 1) % Capacity] = a[f]
    BY <1>1, <1>3
  <2> QED
    BY <1>3, <2>1
<1> QED
  BY <1>2, <1>3

LEMMA StepFifo ==
  ASSUME IInv, NEW d \in Threads, Begins(d), OneToken(d), [Next]_vars
  PROVE  [Fifo!Next]_(Fifo!vars)
<1> DEFINE stored == [k \in 1 .. count |-> arr[(front + k - 1) % Capacity]]
<1>a. /\ TypeOK /\ CallsInv /\ RingAgrees /\ Capacity \in Nat \ {0}
      /\ count \in {0, 1} /\ count' \in {0, 1} /\ front \in Slots /\ front' \in Slots
  <2>1. IInv' /\ OneToken(d)'
    BY NextIInv, NextOneToken
  <2> QED
    BY <2>1, BufferAssumption DEF IInv, TypeOK, OneToken
<1>b. /\ stored = IF count = 0 THEN <<>> ELSE <<arr[front]>>
      /\ stored' = IF count' = 0 THEN <<>> ELSE <<arr'[front']>>
  BY <1>a, QueueOfOne
<1> HIDE DEF stored
<1>1. ASSUME NEW t \in Threads, Deposit(t) PROVE Fifo!Put
  <2>1. /\ count' = count + 1 /\ result' = result /\ front' = front
        /\ arr' = Stored(<<t, done[t]>>) /\ rear \in Slots
    BY <1>a, <1>1 DEF Deposit, TypeOK
  <2>2. count = 0 /\ count' = 1
    BY <1>a, <2>1
  <2>3. rear = front
    BY <1>a, <2>2 DEF RingAgrees, Slots
  <2>4. arr'[front'] = <<t, done[t]>>
    BY <2>1, <2>3 DEF Stored
  <2>5. <<t, done[t]>> \in Items
    BY <1>a, <1>1, DepositedIsItem DEF Deposit, Calling
  <2>6. stored = <<>> /\ stored' = <<<<t, done[t]>>>>
    BY <1>b, <2>2, <2>4
  <2>7. Len(stored) < Capacity /\ stored' = Append(stored, <<t, done[t]>>)
    BY <1>a, <2>6
  <2> QED
    BY <2>1, <2>5, <2>7 DEF Fifo!Put, stored
<1>2. ASSUME NEW t \in Threads, Fetch(t) PROVE Fifo!Get(t)
  <2>1. count # 0 /\ count' = count - 1 /\ result' = [result EXCEPT ![t] = arr[front]]
    BY <1>2 DEF Fetch, Empty
  <2>2. stored = <<arr[front]>> /\ stored' = <<>>
    BY <1>a, <1>b, <2>1
  <2>3. stored # <<>> /\ stored' = Tail(stored) /\ Head(stored) = arr[front]
    BY <2>2
  <2> QED
    BY <2>1, <2>3 DEF Fifo!Get, stored
<1>3. ASSUME \/ Start \/ Join \/ UNCHANGED vars
             \/ \E t \in Threads : \/ Acquire(t) \/ AwaitNotFull(t) \/ AwaitNotEmpty(t)
                                   \/ Leave(t) \/ SpuriousWakeup(t)
      PROVE  UNCHANGED Fifo!vars
  <2>1. UNCHANGED <<arr, front, count, result>>
    BY <1>3 DEF Start, Join, vars, Acquire, AwaitNotFull, AwaitNotEmpty, Leave,
                SpuriousWakeup, ring
  <2> QED
    BY <2>1 DEF Fifo!vars
<1> QED
  BY <1>1, <1>2, <1>3 DEF Next, ThreadStep, Exited, Fifo!Next

(* boundedBuffer.java is the FIFO channel its comments describe as long as  *)
(* its clients pass one item around, as main's do, for any capacity and any *)
(* number of threads and calls.                                             *)
THEOREM FifoWhilePassedOn == PassesOneItem(Program) => (Spec => IsFifo)
<1> SUFFICES ASSUME PassesOneItem(Program) PROVE Spec => IsFifo
  OBVIOUS
<1>1. PICK d \in Threads : Begins(d)
  BY BufferAssumption DEF PassesOneItem, Begins
<1>2. Init => OneToken(d)
  BY <1>1 DEF Init, OneToken, Holds, Effects
<1>3. IInv /\ OneToken(d) /\ [Next]_vars => OneToken(d)' /\ [Fifo!Next]_(Fifo!vars)
  BY <1>1, NextOneToken, StepFifo
<1> QED
  BY <1>2, <1>3, InitFifo, Invariance, PTL DEF Spec, IsFifo, Fifo!Spec

-----------------------------------------------------------------------------
(* No deadlock.  A thread that awaits is in the set of a condition.         *)
Listed == \A t \in Threads : pc[t] = "awaiting" => t \in notFull \cup notEmpty

LEMMA NextListed == IInv /\ Listed /\ [Next]_vars => Listed'
<1> SUFFICES ASSUME IInv, Listed, [Next]_vars PROVE Listed'
  OBVIOUS
<1>a. pc \in [Threads -> Places]
  BY DEF IInv, TypeOK
<1>1. CASE Start \/ Join \/ UNCHANGED vars
  BY <1>1 DEF Start, Join, vars, Listed
<1>2. ASSUME NEW t \in Threads, Acquire(t) \/ Leave(t) \/ SpuriousWakeup(t) PROVE Listed'
  BY <1>a, <1>2 DEF Acquire, Leave, SpuriousWakeup, Goto, Listed
<1>3. ASSUME NEW t \in Threads, AwaitNotFull(t) \/ AwaitNotEmpty(t) PROVE Listed'
  BY <1>a, <1>3 DEF AwaitNotFull, AwaitNotEmpty, Goto, Listed
<1>4. ASSUME NEW t \in Threads, Deposit(t) PROVE Listed'
  BY <1>a, <1>4 DEF Deposit, WakeAndLeave, Listed
<1>5. ASSUME NEW t \in Threads, Fetch(t) PROVE Listed'
  BY <1>a, <1>5 DEF Fetch, WakeAndLeave, Listed
<1> QED
  BY <1>1, <1>2, <1>3, <1>4, <1>5 DEF Next, ThreadStep, Exited

(* When nobody can go on, everyone with a call left awaits a condition; and *)
(* since no wakeup is lost, all await the same one, and for good reason.    *)
LEMMA WaitingIsStarving ==
  ASSUME IInv, Listed, NoLostWakeup, joined # NumThreads, ~MayGoOn
  PROVE  Starved /\ \E t \in Threads : ~Finished(t)
<1>1. /\ TypeOK /\ CallsInv /\ LockInv /\ WaitInv
      /\ NumThreads \in Nat /\ Capacity \in Nat \ {0} /\ count \in 0 .. Capacity
      /\ joined \in 0 .. NumThreads /\ started \in 0 .. NumThreads
      /\ pc \in [Threads -> Places] /\ done \in [Threads -> Nat]
      /\ lock \in Threads \cup {Nobody}
  BY BufferAssumption DEF IInv, TypeOK
<1>2. started = NumThreads /\ joined + 1 \in Threads
  BY <1>1 DEF MayGoOn, Threads
<1>3. \A t \in Threads : Finished(t) => pc[t] = "outside"
  BY <1>1 DEF Finished, CallsInv
<1>4. ~Finished(joined + 1)
  BY <1>1, <1>2, <1>3 DEF MayGoOn
<1>5. lock = Nobody
  BY <1>1 DEF MayGoOn, LockInv
<1>6. \A t \in Threads : ~Finished(t) => pc[t] = "awaiting" /\ t \in notFull \cup notEmpty
  <2>1. \A t \in Threads : t <= started
    BY <1>1, <1>2 DEF Threads
  <2> QED
    BY <1>1, <1>5, <2>1 DEF MayGoOn, Places, Listed
<1>7. WillTest("fetch") = {} /\ WillTest("deposit") = {}
  BY <1>6 DEF WillTest, Calling
<1>8. Cardinality(WillTest("fetch")) = 0 /\ Cardinality(WillTest("deposit")) = 0
  BY <1>7, FS_EmptySet
<1>9. (notEmpty # {} => count = 0) /\ (notFull # {} => count = Capacity)
  BY <1>1, <1>8 DEF NoLostWakeup
<1>10. CASE notEmpty # {}
  <2>1. count = 0 /\ notFull = {}
    BY <1>1, <1>9, <1>10
  <2>2. \A t \in Threads : ~Finished(t) => Calling(t, "fetch")
    BY <1>1, <1>6, <2>1 DEF WaitInv, Calling
  <2> QED
    BY <1>2, <1>4, <2>1, <2>2 DEF Starved
<1>11. CASE notEmpty = {}
  <2>1. \A t \in Threads : ~Finished(t) => Calling(t, "deposit")
    BY <1>1, <1>6, <1>11 DEF WaitInv, Calling
  <2>2. count = Capacity
    BY <1>2, <1>4, <1>6, <1>9, <1>11
  <2> QED
    BY <1>2, <1>4, <2>1, <2>2 DEF Starved
<1> QED
  BY <1>10, <1>11

(* The lock, the signals and the loops around await never stop the program  *)
(* by themselves, whatever its threads call: they only wait for each other  *)
(* when all the calls left are fetches and the buffer is empty, or deposits *)
(* and it is full.                                                          *)
THEOREM OnlyStarvedWait == Spec => [](joined = NumThreads \/ MayGoOn \/ Starved)
<1>1. Init => Listed /\ NoLostWakeup
  BY DEF Init, Listed, NoLostWakeup
<1>2. IInv /\ Listed /\ NoLostWakeup => joined = NumThreads \/ MayGoOn \/ Starved
  BY WaitingIsStarving
<1> QED
  BY <1>1, <1>2, NextListed, NextNoLostWakeup, Invariance, PTL DEF Spec

(* With calls that pass one item around, whoever has it has a deposit to    *)
(* make, or has made the last one.                                          *)
LEMMA NeverStarvedOfOne ==
  ASSUME IInv, NEW d \in Threads, Begins(d), OneToken(d), HandsBack(Program), Starved,
         joined # NumThreads, ~MayGoOn
  PROVE  \A t \in Threads : Finished(t)
<1> SUFFICES ASSUME NEW t \in Threads, ~Finished(t) PROVE FALSE
  OBVIOUS
<1>1. /\ done \in [Threads -> Nat] /\ pc \in [Threads -> Places] /\ CallsInv
      /\ Program \in [Threads -> Seq(Calls)] /\ Capacity \in Nat \ {0}
  BY BufferAssumption DEF IInv, TypeOK
<1>2. \A u \in Threads : Effects(u) = done[u]
  BY <1>1 DEF MayGoOn, Effects
<1>3. ASSUME NEW u \in Threads, Finished(u) PROVE ~Holds(u, d)
  <2>1. done[u] = Len(Program[u]) /\ Program[u] # <<>> /\ Program[u][Len(Program[u])] = "deposit"
    BY <1>1, <1>3 DEF Finished, HandsBack
  <2>2. Len(Program[u]) # 0
    BY <1>1, <2>1
  <2> QED
    BY <1>2, <2>1, <2>2 DEF Holds
<1>4. ASSUME NEW u \in Threads, NEW c \in Calls, ~Finished(u), Calling(u, c)
      PROVE  Holds(u, d) <=> c = "deposit"
  <2>1. /\ done[u] \in Nat /\ done[u] < Len(Program[u]) /\ Program[u] \in Seq(Calls)
        /\ Program[u][done[u] + 1] = c /\ Len(Program[u]) \in Nat
    BY <1>1, <1>4 DEF CallsInv, Finished, Calling
  <2>2. CASE done[u] = 0
    <3>1. Program[u] # <<>> /\ Program[u][1] = c
      BY <2>1, <2>2
    <3> QED
      BY <1>2, <2>2, <3>1 DEF Begins, Holds
  <2>3. CASE done[u] # 0
    <3>1. done[u] \in 1 .. Len(Program[u]) - 1 /\ done[u] \in 1 .. Len(Program[u])
      BY <2>1, <2>3
    <3>2. Program[u][done[u]] # c /\ Program[u][done[u]] \in Calls
      BY <2>1, <3>1, ElementOfSeq DEF Begins
    <3> QED
      BY <1>2, <1>4, <2>3, <3>2 DEF Holds, Calls
  <2> QED
    BY <2>2, <2>3
<1>5. CASE count = 0 /\ \A u \in Threads : ~Finished(u) => Calling(u, "fetch")
  <2>1. \A u \in Threads : ~Holds(u, d)
    BY <1>3, <1>4, <1>5 DEF Calls
  <2> QED
    BY <1>5, <2>1 DEF OneToken
<1>6. CASE count = Capacity /\ \A u \in Threads : ~Finished(u) => Calling(u, "deposit")
  <2>1. Holds(t, d)
    BY <1>4, <1>6 DEF Calls
  <2>2. count = 0
    BY <2>1 DEF OneToken
  <2> QED
    BY <1>1, <1>6, <2>2
<1> QED
  BY <1>5, <1>6 DEF Starved

(* With calls like those of main the threads never all wait, for any number *)
(* of them and any capacity, until main has joined them.                    *)
THEOREM NeverAllWaiting ==
  PassesOneItem(Program) /\ HandsBack(Program) => (Spec => [](joined = NumThreads \/ MayGoOn))
<1> SUFFICES ASSUME PassesOneItem(Program), HandsBack(Program)
             PROVE Spec => [](joined = NumThreads \/ MayGoOn)
  OBVIOUS
<1>1. PICK d \in Threads : Begins(d)
  BY BufferAssumption DEF PassesOneItem, Begins
<1>2. Init => OneToken(d)
  BY <1>1 DEF Init, OneToken, Holds, Effects
<1>3. IInv /\ OneToken(d) /\ [Next]_vars => OneToken(d)'
  BY <1>1, NextOneToken
<1>4. Init => Listed /\ NoLostWakeup
  BY DEF Init, Listed, NoLostWakeup
<1>5. IInv /\ OneToken(d) /\ Listed /\ NoLostWakeup => joined = NumThreads \/ MayGoOn
  BY <1>1, WaitingIsStarving, NeverStarvedOfOne
<1> QED
  BY <1>2, <1>3, <1>4, <1>5, NextListed, NextNoLostWakeup, Invariance, PTL DEF Spec

(* Producers and consumers: count is what has been deposited and not yet    *)
(* fetched, call by call.                                                   *)
Made(c) == UNION {{t} \X {i \in 1 .. Effects(t) : Program[t][i] = c} : t \in Threads}
Counted == count = Cardinality(Made("deposit")) - Cardinality(Made("fetch"))

LEMMA MadeCalls ==
  ASSUME NEW c
  PROVE  /\ \A x : x \in Made(c) <=> \E t \in Threads : \E i \in 1 .. Effects(t) :
                                       x = <<t, i>> /\ Program[t][i] = c
         /\ \A x : x \in Made(c)' <=> \E t \in Threads : \E i \in 1 .. Effects(t)' :
                                       x = <<t, i>> /\ Program[t][i] = c
  BY DEF Made

LEMMA CallsFinite ==
  ASSUME NEW c
  PROVE  /\ IsFiniteSet(CallsOf(Program, c)) /\ Cardinality(CallsOf(Program, c)) \in Nat
         /\ IInv => /\ Made(c) \subseteq CallsOf(Program, c) /\ IsFiniteSet(Made(c))
                    /\ Cardinality(Made(c)) \in Nat
<1> DEFINE OfThread(t) == {t} \X {i \in 1 .. Len(Program[t]) : Program[t][i] = c}
           Sets == {OfThread(t) : t \in Threads}
<1>1. Program \in [Threads -> Seq(Calls)] /\ \A t \in Threads : Len(Program[t]) \in Nat
  BY BufferAssumption
<1>2. IsFiniteSet(Sets)
  <2> DEFINE f == [t \in Threads |-> OfThread(t)]
  <2>1. f \in Surjection(Threads, Sets)
    BY DEF Surjection
  <2>2. IsFiniteSet(Threads)
    BY ThreadSetsFinite
  <2> HIDE DEF f, Sets
  <2> QED
    BY <2>1, <2>2, FS_Surjection
<1>3. ASSUME NEW t \in Threads PROVE IsFiniteSet(OfThread(t))
  <2>1. IsFiniteSet({t})
    BY FS_Singleton
  <2>2. 1 \in Int /\ Len(Program[t]) \in Int
    BY <1>1
  <2>3. IsFiniteSet(1 .. Len(Program[t]))
    BY <2>2, FS_Interval
  <2>4. IsFiniteSet({i \in 1 .. Len(Program[t]) : Program[t][i] = c})
    BY <2>3, FS_Subset
  <2> QED
    BY <2>1, <2>4, FS_Product
<1>4. CallsOf(Program, c) = UNION Sets
  BY <1>1 DEF CallsOf
<1>5. IsFiniteSet(CallsOf(Program, c)) /\ Cardinality(CallsOf(Program, c)) \in Nat
  <2>1. \A T \in Sets : IsFiniteSet(T)
    BY <1>3
  <2> HIDE DEF Sets
  <2> QED
    BY <1>2, <1>4, <2>1, FS_UNION, FS_CardinalityType
<1>6. ASSUME IInv PROVE Made(c) \subseteq CallsOf(Program, c)
  <2>1. \A t \in Threads : Effects(t) \in Nat /\ Effects(t) <= Len(Program[t])
    <3> SUFFICES ASSUME NEW t \in Threads
                 PROVE  Effects(t) \in Nat /\ Effects(t) <= Len(Program[t])
      OBVIOUS
    <3>1. done[t] \in Nat /\ done[t] <= Len(Program[t])
      BY <1>6 DEF IInv, TypeOK, CallsInv
    <3>2. pc[t] = "leaving" => done[t] < Len(Program[t])
      BY <1>6 DEF IInv, CallsInv
    <3>3. CASE pc[t] = "leaving"
      BY <1>1, <3>1, <3>2, <3>3 DEF Effects
    <3>4. CASE pc[t] # "leaving"
      BY <3>1, <3>4 DEF Effects
    <3> QED
      BY <3>3, <3>4
  <2>2. \A t \in Threads : \A i \in 1 .. Effects(t) : i \in 1 .. Len(Program[t])
    BY <1>1, <2>1
  <2> QED
    BY <1>1, <2>2 DEF Made, CallsOf
<1> QED
  BY <1>5, <1>6, FS_Subset, FS_CardinalityType

(* A step in which t's call takes effect.                                   *)
LEMMA OneMore ==
  ASSUME IInv, NEW t \in Threads, NEW c \in Calls, Calling(t, c), pc[t] = "testing",
         Effects(t)' = done[t] + 1,
         \A u \in Threads \ {t} : Effects(u)' = Effects(u)
  PROVE  /\ Cardinality(Made(c)') = Cardinality(Made(c)) + 1
         /\ \A e \in Calls : e # c => Made(e)' = Made(e)
<1>1. Effects(t) = done[t] /\ done[t] \in Nat /\ Program[t][done[t] + 1] = c
  BY DEF IInv, TypeOK, Effects, Calling
<1>2. \A i : i \in 1 .. Effects(t)' <=> i \in 1 .. Effects(t) \/ i = done[t] + 1
  BY <1>1
<1>3. Made(c)' = Made(c) \cup {<<t, done[t] + 1>>}
  <2>1. ASSUME NEW x PROVE x \in Made(c)' <=> x \in Made(c) \/ x = <<t, done[t] + 1>>
    BY <1>1, <1>2, MadeCalls
  <2> QED
    BY <2>1
<1>4. <<t, done[t] + 1>> \notin Made(c)
  <2>1. done[t] + 1 \notin 1 .. Effects(t)
    BY <1>1
  <2> QED
    BY <2>1, MadeCalls
<1>5. Cardinality(Made(c)') = Cardinality(Made(c)) + 1
  BY <1>3, <1>4, CallsFinite, FS_AddElement
<1>6. ASSUME NEW e \in Calls, e # c PROVE Made(e)' = Made(e)
  <2>1. ASSUME NEW x PROVE x \in Made(e)' <=> x \in Made(e)
    BY <1>1, <1>2, <1>6, MadeCalls
  <2> QED
    BY <2>1
<1> QED
  BY <1>5, <1>6

LEMMA NextCounted == IInv /\ Counted /\ [Next]_vars => Counted'
<1> SUFFICES ASSUME IInv, Counted, [Next]_vars PROVE Counted'
  OBVIOUS
<1>a. /\ TypeOK /\ CallsInv /\ WaitInv
      /\ pc \in [Threads -> Places] /\ done \in [Threads -> Nat] /\ count \in Nat
      /\ notFull \subseteq Threads /\ notEmpty \subseteq Threads
  BY BufferAssumption DEF IInv, TypeOK
<1>1. ASSUME count' = count, \A t \in Threads : Effects(t)' = Effects(t)
      PROVE  Counted'
  <2>1. \A c : Made(c)' = Made(c)
    BY <1>1 DEF Made
  <2> QED
    BY <1>1, <2>1 DEF Counted
<1>2. CASE Start \/ Join \/ UNCHANGED vars
  <2>1. pc' = pc /\ done' = done /\ count' = count
    BY <1>2 DEF Start, Join, vars, ring
  <2> QED
    BY <1>1, <2>1 DEF Effects
<1>3. ASSUME NEW t \in Threads,
             Acquire(t) \/ AwaitNotFull(t) \/ AwaitNotEmpty(t) \/ SpuriousWakeup(t)
      PROVE  Counted'
  <2>1. /\ done' = done /\ count' = count /\ pc[t] # "leaving"
        /\ \E place \in Places \ {"leaving"} : pc' = [pc EXCEPT ![t] = place]
    BY <1>3 DEF Acquire, AwaitNotFull, AwaitNotEmpty, SpuriousWakeup, Goto, Places, ring
  <2>2. \A u \in Threads : Effects(u)' = Effects(u)
    BY <1>a, <2>1 DEF Effects
  <2> QED
    BY <1>1, <2>1, <2>2
<1>4. ASSUME NEW t \in Threads, Leave(t) PROVE Counted'
  <2>1. /\ pc[t] = "leaving" /\ pc' = [pc EXCEPT ![t] = "outside"]
        /\ done' = [done EXCEPT ![t] = @ + 1] /\ count' = count
    BY <1>4 DEF Leave, Goto, ring
  <2>2. \A u \in Threads : Effects(u)' = Effects(u)
    BY <1>a, <2>1 DEF Effects
  <2> QED
    BY <1>1, <2>1, <2>2
<1>5. ASSUME NEW t \in Threads, NEW c \in Calls, NEW woken \in SUBSET Threads,
             pc[t] = "testing", Calling(t, c), done' = done, WakeAndLeave(t, woken),
             \A w \in woken : pc[w] = "awaiting"
      PROVE  /\ Cardinality(Made(c)') = Cardinality(Made(c)) + 1
             /\ \A e \in Calls : e # c => Made(e)' = Made(e)
  <2>1. Effects(t)' = done[t] + 1 /\ \A u \in Threads \ {t} : Effects(u)' = Effects(u)
    BY <1>a, <1>5 DEF WakeAndLeave, Effects
  <2> QED
    BY <1>5, <2>1, OneMore
<1>6. ASSUME NEW t \in Threads, Deposit(t) PROVE Counted'
  <2>1. /\ pc[t] = "testing" /\ Calling(t, "deposit") /\ count' = count + 1 /\ done' = done
        /\ \E woken \in Signalled(notEmpty) : WakeAndLeave(t, woken)
    BY <1>6 DEF Deposit
  <2>2. PICK woken \in SUBSET Threads :
          WakeAndLeave(t, woken) /\ \A w \in woken : pc[w] = "awaiting"
    BY <1>a, <2>1 DEF Signalled, WaitInv
  <2>3. /\ Cardinality(Made("deposit")') = Cardinality(Made("deposit")) + 1
        /\ Made("fetch")' = Made("fetch")
    BY <1>5, <2>1, <2>2 DEF Calls
  <2>4. Cardinality(Made("deposit")) \in Nat /\ Cardinality(Made("fetch")) \in Nat
    BY CallsFinite
  <2> QED
    BY <2>1, <2>3, <2>4 DEF Counted
<1>7. ASSUME NEW t \in Threads, Fetch(t) PROVE Counted'
  <2>1. /\ pc[t] = "testing" /\ Calling(t, "fetch") /\ count' = count - 1 /\ done' = done
        /\ \E woken \in Signalled(notFull) : WakeAndLeave(t, woken)
    BY <1>7 DEF Fetch
  <2>2. PICK woken \in SUBSET Threads :
          WakeAndLeave(t, woken) /\ \A w \in woken : pc[w] = "awaiting"
    BY <1>a, <2>1 DEF Signalled, WaitInv
  <2>3. /\ Cardinality(Made("fetch")') = Cardinality(Made("fetch")) + 1
        /\ Made("deposit")' = Made("deposit")
    BY <1>5, <2>1, <2>2 DEF Calls
  <2>4. Cardinality(Made("deposit")) \in Nat /\ Cardinality(Made("fetch")) \in Nat
    BY CallsFinite
  <2> QED
    BY <2>1, <2>3, <2>4 DEF Counted
<1> QED
  BY <1>2, <1>3, <1>4, <1>6, <1>7 DEF Next, ThreadStep, Exited

LEMMA InitCounted == Init => Counted
<1> SUFFICES ASSUME Init PROVE Counted
  OBVIOUS
<1>1. \A t \in Threads : Effects(t) = 0
  BY DEF Init, Effects
<1>2. \A c : Made(c) = {}
  BY <1>1 DEF Made
<1> QED
  BY <1>2, FS_EmptySet DEF Init, Counted

LEMMA BalancedNeverStarved ==
  ASSUME IInv, Counted, Balanced(Program), Starved, ~MayGoOn
  PROVE  \A t \in Threads : Finished(t)
<1> SUFFICES ASSUME NEW t \in Threads, ~Finished(t) PROVE FALSE
  OBVIOUS
<1> DEFINE all(c) == CallsOf(Program, c)
<1>1. /\ done \in [Threads -> Nat] /\ CallsInv /\ DOMAIN Program = Threads
      /\ Capacity \in Nat \ {0} /\ count \in Nat
      /\ \A u \in Threads : Program[u] \in Seq(Calls) /\ Len(Program[u]) \in Nat
  BY BufferAssumption DEF IInv, TypeOK
<1>2. \A u \in Threads : Effects(u) = done[u] /\ done[u] <= Len(Program[u])
  BY <1>1 DEF MayGoOn, Effects, CallsInv
<1>3. \A c : /\ Made(c) \subseteq all(c) /\ IsFiniteSet(all(c))
             /\ Cardinality(Made(c)) \in Nat /\ Cardinality(all(c)) \in Nat
             /\ Cardinality(Made(c)) <= Cardinality(all(c))
             /\ Cardinality(all(c)) = Cardinality(Made(c)) => all(c) = Made(c)
  BY CallsFinite, FS_Subset
<1>4. \A x, c : x \in all(c) <=> \E u \in Threads : \E i \in 1 .. Len(Program[u]) :
                                   x = <<u, i>> /\ Program[u][i] = c
  BY <1>1 DEF CallsOf
<1> HIDE DEF all
(* The calls of one kind are all made if only calls of the other are left.  *)
<1>5. ASSUME NEW c \in Calls, NEW e \in Calls, c # e,
             \A u \in Threads : ~Finished(u) => Calling(u, c)
      PROVE  Made(e) = all(e) /\ Made(c) # all(c)
  <2>1. ASSUME NEW u \in Threads, ~Finished(u)
        PROVE  /\ done[u] + 1 \in 1 .. Len(Program[u]) /\ done[u] + 1 \notin 1 .. Effects(u)
               /\ \A i \in 1 .. Len(Program[u]) : Program[u][i] = c
    <3>1. Program[u][done[u] + 1] = c
      BY <1>5, <2>1 DEF Calling
    <3>2. done[u] + 1 \in 1 .. Len(Program[u]) /\ done[u] + 1 \notin 1 .. Effects(u)
      BY <1>1, <1>2, <2>1 DEF Finished
    <3> QED
      BY <1>1, <3>1, <3>2 DEF Balanced
  <2>2. <<t, done[t] + 1>> \in all(c)
    BY <1>4, <2>1
  <2>3. <<t, done[t] + 1>> \notin Made(c)
    BY <2>1, MadeCalls
  <2>4. ASSUME NEW x \in all(e) PROVE x \in Made(e)
    <3>1. PICK u \in Threads : \E i \in 1 .. Len(Program[u]) :
                 x = <<u, i>> /\ Program[u][i] = e
      BY <1>4
    <3>2. Finished(u)
      BY <1>5, <2>1, <3>1
    <3> QED
      BY <1>2, <3>1, <3>2, MadeCalls DEF Finished
  <2> QED
    BY <1>3, <2>2, <2>3, <2>4
<1>6. /\ Cardinality(all("fetch")) <= Cardinality(all("deposit"))
      /\ Cardinality(all("deposit")) <= Cardinality(all("fetch")) + Capacity
  BY DEF Balanced, all
<1>7. CASE count = 0 /\ \A u \in Threads : ~Finished(u) => Calling(u, "fetch")
  <2>1. Made("deposit") = all("deposit") /\ Made("fetch") # all("fetch")
    BY <1>5, <1>7 DEF Calls
  <2>2. Cardinality(Made("fetch")) < Cardinality(all("fetch"))
    BY <1>3, <2>1
  <2> QED
    BY <1>3, <1>6, <1>7, <2>1, <2>2 DEF Counted
<1>8. CASE count = Capacity /\ \A u \in Threads : ~Finished(u) => Calling(u, "deposit")
  <2>1. Made("fetch") = all("fetch") /\ Made("deposit") # all("deposit")
    BY <1>5, <1>8 DEF Calls
  <2>2. Cardinality(Made("deposit")) < Cardinality(all("deposit"))
    BY <1>3, <2>1
  <2> QED
    BY <1>1, <1>3, <1>6, <1>8, <2>1, <2>2 DEF Counted
<1> QED
  BY <1>7, <1>8 DEF Starved

(* Nor do producers and consumers whose calls balance ever all wait.        *)
THEOREM BalancedNeverAllWait ==
  Balanced(Program) => (Spec => [](joined = NumThreads \/ MayGoOn))
<1> SUFFICES ASSUME Balanced(Program) PROVE Spec => [](joined = NumThreads \/ MayGoOn)
  OBVIOUS
<1>1. Init => Listed /\ NoLostWakeup
  BY DEF Init, Listed, NoLostWakeup
<1>2. IInv /\ Counted /\ Listed /\ NoLostWakeup => joined = NumThreads \/ MayGoOn
  BY WaitingIsStarving, BalancedNeverStarved
<1> QED
  BY <1>1, <1>2, InitCounted, NextCounted, NextListed, NextNoLostWakeup, Invariance, PTL DEF Spec

-----------------------------------------------------------------------------
(* The linked queue of A3.                                                  *)

(* The nodes that are held: their numbers, and their links.                 *)
Numbered == /\ \A n \in live : p[n] \in 1 .. enqueued
            /\ \A m, n \in live : p[m] = p[n] => m = n
Linked   == \A n \in live : next[n] # NULL => next[n] \in live /\ p[next[n]] = p[n] + 1

(* From head on no link is missing.  Nodes with smaller numbers have been   *)
(* forgotten by dequeue, one by one.                                        *)
FromHead ==
  head # NULL =>
    /\ head \in live
    /\ \A n \in live : p[n] < p[head] => next[n] = NULL
    /\ \A n \in live : p[n] >= p[head] /\ p[n] < enqueued => next[n] # NULL
    /\ IF tail = NULL THEN p[head] = enqueued ELSE tail \in live /\ p[tail] = enqueued
    /\ \A i \in DOMAIN out : out[i] < p[head]
EmptyList ==
  head = NULL =>
    /\ \A n \in live : next[n] = NULL
    /\ \A i \in DOMAIN out : out[i] <= enqueued

(* Until dequeue forgets a tail, there is none only before the first call.  *)
Started == sound /\ tail = NULL => head = NULL /\ enqueued = 0 /\ live = {} /\ out = <<>>

(* The last node has been taken out, and tail was left at it.               *)
Drained == head = NULL /\ tail # NULL

Intact == ~Drained => ~corrupted /\ Numbered /\ Linked /\ FromHead /\ EmptyList

QueueIInv == QueueTypeOK /\ Intact /\ Started /\ InOrder /\ FifoWhileSound

-----------------------------------------------------------------------------
LEMMA InitQueueIInv == QueueInit => QueueIInv
<1> SUFFICES ASSUME QueueInit PROVE QueueIInv
  OBVIOUS
<1>1. QueueTypeOK
  <2>1. MaxEnqueued \in Nat /\ 0 \in 0 .. MaxEnqueued
    BY ProcessQueueAssumption
  <2>2. next \in [Nodes -> Nodes \cup {NULL}] /\ p \in [Nodes -> 0 .. MaxEnqueued]
    BY <2>1 DEF QueueInit
  <2>3. out \in Seq(1 .. MaxEnqueued)
    BY DEF QueueInit
  <2> QED
    BY <2>1, <2>2, <2>3 DEF QueueInit, QueueTypeOK
<1>2. Intact
  BY DEF QueueInit, Intact, Numbered, Linked, FromHead, EmptyList
<1>3. Started /\ InOrder /\ FifoWhileSound
  BY DEF QueueInit, Started, InOrder, FifoWhileSound
<1> QED
  BY <1>1, <1>2, <1>3 DEF QueueIInv

(* The node with the largest number is the end of its list.                 *)
LEMMA LastHasNoNext ==
  ASSUME QueueIInv, ~Drained, NEW n \in live, p[n] = enqueued
  PROVE  next[n] = NULL
<1>1. Numbered /\ Linked /\ enqueued \in Nat
  BY ProcessQueueAssumption DEF QueueIInv, Intact, QueueTypeOK
<1>2. SUFFICES ASSUME next[n] # NULL PROVE FALSE
  OBVIOUS
<1>3. next[n] \in live /\ p[next[n]] = enqueued + 1
  BY <1>1, <1>2 DEF Linked
<1> QED
  BY <1>1, <1>3 DEF Numbered

-----------------------------------------------------------------------------
(* enqueue of a queue that is not drained takes a node that is not held.    *)
LEMMA EnqueueIInv ==
  ASSUME QueueIInv, NEW n \in Nodes, enqueue(n)
  PROVE  QueueIInv'
<1>1. /\ QueueTypeOK /\ Intact /\ Started /\ InOrder /\ FifoWhileSound
      /\ MaxEnqueued \in Nat /\ NULL \notin Nodes /\ enqueued \in Nat
      /\ enqueued < MaxEnqueued /\ enqueued' = enqueued + 1 /\ out' = out
  BY ProcessQueueAssumption DEF QueueIInv, QueueTypeOK, enqueue
<1>2. /\ live' = live \cup {n} /\ p' = [p EXCEPT ![n] = enqueued + 1]
      /\ tail' = n
      /\ head' = IF tail = NULL THEN n ELSE head
      /\ crashed' = crashed
  BY DEF enqueue, TailOf, isempty
<1>3. next' = IF tail = NULL THEN [next EXCEPT ![n] = NULL]
              ELSE [[next EXCEPT ![n] = NULL] EXCEPT ![tail] = n]
  BY DEF enqueue, NextOf, isempty
<1>4. QueueTypeOK'
  <2>1. next' \in [Nodes -> Nodes \cup {NULL}]
    BY <1>1, <1>3 DEF QueueTypeOK
  <2>2. p' \in [Nodes -> 0 .. MaxEnqueued]
    BY <1>1, <1>2 DEF QueueTypeOK
  <2>3. corrupted' \in BOOLEAN /\ sound' \in BOOLEAN
    BY DEF enqueue, StillSound
  <2> QED
    BY <1>1, <1>2, <2>1, <2>2, <2>3 DEF QueueTypeOK
<1>5. InOrder' /\ Started'
  BY <1>1, <1>2 DEF InOrder, Started, QueueTypeOK
<1>6. CASE Drained
  <2>1. Drained' /\ head' = NULL
    BY <1>1, <1>2, <1>6 DEF Drained
  <2>2. FifoWhileSound'
    BY <1>1, <2>1, <1>2, <1>6 DEF FifoWhileSound, enqueue, StillSound
  <2> QED
    BY <1>4, <1>5, <2>1, <2>2 DEF QueueIInv, Intact
<1>7. CASE ~Drained
  <2>1. ~corrupted /\ Numbered /\ Linked /\ FromHead /\ EmptyList
    BY <1>1, <1>7 DEF Intact
  <2>2. n \notin live
    BY <2>1 DEF enqueue, Allocatable
  <2>3. tail # NULL => tail \in live /\ tail # n /\ head # NULL /\ p[tail] = enqueued
    BY <1>7, <2>1, <2>2 DEF FromHead, Drained
  <2>4. /\ \A m \in live : p'[m] = p[m] /\ (m # tail => next'[m] = next[m])
        /\ p'[n] = enqueued + 1 /\ next'[n] = NULL
        /\ tail # NULL => next'[tail] = n
    BY <1>1, <1>2, <1>3, <2>2, <2>3 DEF QueueTypeOK
  <2>5. \A m \in live : p[m] \in 1 .. enqueued
    BY <2>1 DEF Numbered
  <2>6. head' # NULL /\ ~Drained'
    BY <1>1, <1>2, <2>3 DEF Drained
  <2>7. ~corrupted'
    BY <1>2, <2>1, <2>3 DEF enqueue, isempty
  <2>8. Numbered'
    <3>1. \A m \in live' : p'[m] \in 1 .. enqueued'
      BY <1>1, <1>2, <2>4, <2>5
    <3>2. \A m, k \in live' : p'[m] = p'[k] => m = k
      BY <1>1, <1>2, <2>1, <2>4, <2>5 DEF Numbered
    <3> QED
      BY <3>1, <3>2 DEF Numbered
  <2>9. Linked'
    <3>1. SUFFICES ASSUME NEW m \in live', next'[m] # NULL
                   PROVE  next'[m] \in live' /\ p'[next'[m]] = p'[m] + 1
      BY DEF Linked
    <3>2. CASE m = tail
      BY <1>2, <2>3, <2>4, <3>1, <3>2, <1>1 DEF QueueTypeOK
    <3>3. CASE m # tail
      <4>1. m \in live /\ next'[m] = next[m]
        BY <1>2, <2>4, <3>1, <3>3
      <4>2. next[m] \in live /\ p[next[m]] = p[m] + 1
        BY <2>1, <3>1, <4>1 DEF Linked
      <4> QED
        BY <1>2, <2>4, <4>1, <4>2
    <3> QED
      BY <3>2, <3>3
  <2>10. EmptyList'
    BY <2>6 DEF EmptyList
  <2>11. FromHead'
    <3>1. CASE tail = NULL
      <4>1. head' = n /\ p'[n] = enqueued + 1
        BY <1>2, <2>4, <3>1
      <4>2. \A m \in live : next[m] = NULL
        <5>1. CASE head = NULL
          BY <2>1, <5>1 DEF EmptyList
        <5>2. CASE head # NULL
          <6>1. p[head] = enqueued /\ head \in live
            BY <2>1, <3>1, <5>2 DEF FromHead
          <6>2. ASSUME NEW m \in live PROVE next[m] = NULL
            <7>1. CASE p[m] = enqueued
              BY <1>7, <7>1, LastHasNoNext
            <7>2. CASE p[m] < enqueued
              BY <2>1, <5>2, <6>1, <7>2 DEF FromHead
            <7> QED
              BY <7>1, <7>2, <2>5, <1>1
          <6> QED
            BY <6>2
        <5> QED
          BY <5>1, <5>2
      <4>3. \A m \in live' : next'[m] = NULL
        BY <1>1, <1>2, <2>2, <2>4, <3>1, <4>2 DEF QueueTypeOK
      <4>4. \A i \in DOMAIN out' : out'[i] < p'[head']
        <5>1. CASE head = NULL
          BY <1>1, <2>1, <4>1, <5>1 DEF EmptyList, QueueTypeOK
        <5>2. CASE head # NULL
          BY <1>1, <2>1, <3>1, <4>1, <5>2 DEF FromHead, QueueTypeOK
        <5> QED
          BY <5>1, <5>2
      <4>5. \A m \in live' : p'[m] < p'[head'] => next'[m] = NULL
        BY <4>3
      <4>6. \A m \in live' : ~ (p'[m] >= p'[head'] /\ p'[m] < enqueued')
        BY <1>1, <1>2, <2>4, <2>5, <4>1
      <4> QED
        BY <1>1, <1>2, <4>1, <4>4, <4>5, <4>6 DEF FromHead
    <3>2. CASE tail # NULL
      <4>1. /\ head' = head /\ head # NULL /\ head \in live /\ p'[head] = p[head]
            /\ tail \in live /\ p[tail] = enqueued /\ p[head] \in 1 .. enqueued
        BY <1>2, <2>1, <2>3, <2>4, <2>5, <3>2 DEF FromHead
      <4>2. \A m \in live' : p'[m] < p'[head'] => next'[m] = NULL
        <5>1. SUFFICES ASSUME NEW m \in live', p'[m] < p'[head'] PROVE next'[m] = NULL
          OBVIOUS
        <5>2. m \in live /\ m # tail
          BY <1>1, <1>2, <2>4, <4>1, <5>1
        <5> QED
          BY <2>1, <2>4, <4>1, <5>1, <5>2 DEF FromHead
      <4>3. \A m \in live' : p'[m] >= p'[head'] /\ p'[m] < enqueued' => next'[m] # NULL
        <5>1. SUFFICES ASSUME NEW m \in live', p'[m] >= p'[head'], p'[m] < enqueued'
                       PROVE  next'[m] # NULL
          OBVIOUS
        <5>2. m \in live
          BY <1>1, <1>2, <2>4, <5>1
        <5>3. CASE m = tail
          <6>1. next'[m] = n
            BY <2>4, <3>2, <5>3
          <6> QED
            BY <1>1, <6>1
        <5>4. CASE m # tail
          <6>1. p[m] < enqueued
            BY <1>1, <2>1, <2>4, <2>5, <4>1, <5>1, <5>2, <5>4 DEF Numbered
          <6> QED
            BY <2>1, <2>4, <4>1, <5>1, <5>2, <5>4, <6>1 DEF FromHead
        <5> QED
          BY <5>3, <5>4
      <4>4. \A i \in DOMAIN out' : out'[i] < p'[head']
        BY <1>1, <2>1, <4>1 DEF FromHead
      <4> QED
        BY <1>1, <1>2, <2>4, <4>1, <4>2, <4>3, <4>4 DEF FromHead
    <3> QED
      BY <3>1, <3>2
  <2>12. FifoWhileSound'
    <3>1. SUFFICES ASSUME sound'
                   PROVE  /\ \A i \in DOMAIN out : out[i] = i
                          /\ head' \in live' /\ p'[head'] = Len(out) + 1
                          /\ {p'[m] : m \in live'} = Len(out) + 1 .. enqueued + 1
      BY <1>1, <2>6 DEF FifoWhileSound
    <3>2. sound /\ (\A i \in DOMAIN out : out[i] = i)
      BY <1>1, <3>1 DEF enqueue, StillSound, FifoWhileSound
    <3>3. CASE tail = NULL
      <4>1. /\ live' = {n} /\ head' = n /\ p'[n] = 1 /\ out = <<>> /\ enqueued = 0
        BY <1>1, <1>2, <2>4, <3>2, <3>3 DEF Started
      <4> QED
        BY <3>2, <4>1
    <3>4. CASE tail # NULL
      <4>1. /\ head \in live /\ p[head] = Len(out) + 1 /\ head' = head
            /\ {p[m] : m \in live} = Len(out) + 1 .. enqueued
        BY <1>1, <1>2, <2>3, <3>2, <3>4 DEF FifoWhileSound
      <4>2. {p'[m] : m \in live'} = {p[m] : m \in live} \cup {enqueued + 1}
        BY <1>2, <2>4
      <4>3. Len(out) \in Nat /\ Len(out) + 1 <= enqueued
        BY <1>1, <2>5, <4>1 DEF QueueTypeOK
      <4>4. {p'[m] : m \in live'} = Len(out) + 1 .. enqueued + 1
        <5>1. Len(out) + 1 .. enqueued + 1 = (Len(out) + 1 .. enqueued) \cup {enqueued + 1}
          BY <1>1, <4>3
        <5> QED
          BY <4>1, <4>2, <5>1
      <4>5. head' \in live' /\ p'[head'] = Len(out) + 1
        BY <1>2, <2>4, <4>1
      <4> QED
        BY <3>2, <4>4, <4>5
    <3> QED
      BY <3>3, <3>4
  <2> QED
    BY <1>4, <1>5, <2>6, <2>7, <2>8, <2>9, <2>10, <2>11, <2>12 DEF QueueIInv, Intact
<1> QED
  BY <1>6, <1>7

-----------------------------------------------------------------------------
(* dequeue takes nothing out; it may forget the tail of a queue of one.     *)
LEMMA DequeueIInv ==
  ASSUME QueueIInv, dequeue
  PROVE  QueueIInv'
<1>1. /\ QueueTypeOK /\ Intact /\ Started /\ InOrder /\ FifoWhileSound
      /\ UNCHANGED <<live, next, p, corrupted, head, enqueued, out, crashed>>
      /\ tail' = IF head = tail THEN NULL ELSE tail
      /\ sound' = (sound /\ (tail' = NULL => head' = NULL))
  BY DEF QueueIInv, dequeue, StillSound, node
<1>2. QueueTypeOK' /\ InOrder' /\ FifoWhileSound'
  BY <1>1 DEF QueueTypeOK, InOrder, FifoWhileSound
<1>3. Started'
  BY <1>1 DEF Started
<1>4. Drained' = Drained
  BY <1>1 DEF Drained
<1>5. ASSUME ~Drained PROVE (~corrupted /\ Numbered /\ Linked /\ FromHead /\ EmptyList)'
  <2>1. ~corrupted /\ Numbered /\ Linked /\ FromHead /\ EmptyList
    BY <1>1, <1>5 DEF Intact
  <2>2. FromHead'
    BY <1>1, <2>1 DEF FromHead
  <2> QED
    BY <1>1, <2>1, <2>2 DEF Numbered, Linked, EmptyList
<1> QED
  BY <1>2, <1>3, <1>4, <1>5 DEF QueueIInv, Intact

(* dequeueProcess moves head along its link, which leads to the next        *)
(* number, and frees a node no other one leads to.                          *)
LEMMA DequeueProcessIInv ==
  ASSUME QueueIInv, dequeueProcess
  PROVE  QueueIInv'
<1>1. /\ QueueTypeOK /\ Intact /\ Started /\ InOrder /\ FifoWhileSound
      /\ MaxEnqueued \in Nat /\ NULL \notin Nodes /\ enqueued \in Nat
  BY ProcessQueueAssumption DEF QueueIInv, QueueTypeOK
<1>2. /\ head # NULL /\ out' = Append(out, p[head]) /\ head' = next[head]
      /\ live' = live \ {head}
      /\ UNCHANGED <<next, p, corrupted, tail, crashed, enqueued>>
      /\ sound' = (sound /\ (tail' = NULL => head' = NULL))
  BY DEF dequeueProcess, StillSound
<1>3. ~corrupted /\ Numbered /\ Linked /\ FromHead
  BY <1>1, <1>2 DEF Intact, Drained
<1>4. head \in live /\ p[head] \in 1 .. enqueued
  BY <1>2, <1>3 DEF FromHead, Numbered
<1>5. /\ out \in Seq(1 .. MaxEnqueued) /\ p[head] \in 1 .. MaxEnqueued
      /\ out' \in Seq(1 .. MaxEnqueued) /\ Len(out') = Len(out) + 1
      /\ out'[Len(out) + 1] = p[head]
      /\ \A i \in 1 .. Len(out) : out'[i] = out[i]
  BY <1>1, <1>2, <1>4 DEF QueueTypeOK
<1>6. QueueTypeOK'
  <2>1. head' \in Nodes \cup {NULL} /\ sound' \in BOOLEAN
    BY <1>1, <1>2, <1>4 DEF QueueTypeOK
  <2> QED
    BY <1>1, <1>2, <1>5, <2>1 DEF QueueTypeOK
<1>7. InOrder'
  <2>1. \A i \in 1 .. Len(out) : out[i] < p[head]
    BY <1>2, <1>3, <1>5 DEF FromHead
  <2>2. SUFFICES ASSUME NEW i \in DOMAIN out', NEW j \in 1 .. i - 1
                 PROVE  out'[j] < out'[i]
    BY DEF InOrder
  <2>3. CASE i = Len(out) + 1
    BY <1>5, <2>1, <2>3
  <2>4. CASE i \in 1 .. Len(out)
    <3>1. i \in DOMAIN out /\ j \in 1 .. Len(out) /\ Len(out) \in Nat
      BY <1>5, <2>4
    <3>2. out[j] < out[i]
      BY <1>1, <3>1, <2>2 DEF InOrder
    <3> QED
      BY <1>5, <2>4, <3>1, <3>2
  <2> QED
    BY <1>5, <2>3, <2>4
<1>8. CASE next[head] = NULL
  <2>1. p[head] = enqueued
    <3>1. ~ (p[head] >= p[head] /\ p[head] < enqueued)
      BY <1>2, <1>3, <1>4, <1>8 DEF FromHead
    <3> QED
      BY <1>1, <1>4, <3>1
  <2>2. \A i \in DOMAIN out' : out'[i] <= enqueued'
    <3>1. \A i \in 1 .. Len(out) : out[i] < p[head]
      BY <1>2, <1>3, <1>5 DEF FromHead
    <3> QED
      BY <1>1, <1>2, <1>5, <2>1, <3>1
  <2>3. \A n \in live' : next'[n] = NULL
    <3>1. SUFFICES ASSUME NEW n \in live, n # head PROVE next[n] = NULL
      BY <1>2
    <3>2. p[n] < p[head]
      BY <1>1, <1>3, <1>4, <2>1, <3>1 DEF Numbered
    <3> QED
      BY <1>2, <1>3, <3>2 DEF FromHead
  <2>4. Numbered' /\ Linked' /\ EmptyList' /\ FromHead'
    BY <1>2, <1>3, <1>8, <2>2, <2>3 DEF Numbered, Linked, EmptyList, FromHead
  <2>5. Started'
    BY <1>1, <1>2 DEF Started
  <2>6. FifoWhileSound'
    <3>1. ASSUME sound' PROVE p[head] = Len(out) + 1 /\ \A i \in 1 .. Len(out) : out[i] = i
      <4>1. DOMAIN out = 1 .. Len(out)
        BY <1>5
      <4> QED
        BY <1>1, <1>2, <3>1, <4>1 DEF FifoWhileSound
    <3>2. ASSUME sound' PROVE \A i \in DOMAIN out' : out'[i] = i
      BY <1>5, <3>1, <3>2
    <3> QED
      BY <1>2, <1>8, <3>2 DEF FifoWhileSound
  <2> QED
    BY <1>2, <1>3, <1>6, <1>7, <2>4, <2>5, <2>6 DEF QueueIInv, Intact
<1>9. CASE next[head] # NULL
  <2>1. next[head] \in live /\ p[next[head]] = p[head] + 1 /\ next[head] # head
    BY <1>3, <1>4, <1>9 DEF Linked
  <2>2. p[head] < enqueued
    BY <1>1, <1>3, <1>4, <2>1 DEF Numbered
  <2>3. tail # NULL /\ tail \in live /\ p[tail] = enqueued /\ tail # head
    BY <1>2, <1>3, <1>4, <2>2 DEF FromHead
  <2>4. Numbered'
    BY <1>2, <1>3 DEF Numbered
  <2>5. \A n \in live' : p[n] # p[head]
    BY <1>2, <1>3, <1>4 DEF Numbered
  <2>6. Linked'
    <3>1. SUFFICES ASSUME NEW n \in live', next[n] # NULL
                   PROVE  next[n] \in live' /\ p[next[n]] = p[n] + 1
      BY <1>2 DEF Linked
    <3>2. n \in live /\ next[n] \in live /\ p[next[n]] = p[n] + 1
      BY <1>2, <1>3, <3>1 DEF Linked
    <3>3. ~ (p[n] < p[head])
      BY <1>2, <1>3, <3>1, <3>2 DEF FromHead
    <3>4. next[n] # head
      BY <1>3, <1>4, <3>2, <3>3 DEF Numbered
    <3> QED
      BY <1>2, <3>2, <3>4
  <2>7. FromHead'
    <3>1. head' \in live' /\ p'[head'] = p[head] + 1 /\ head' # NULL
      BY <1>2, <1>9, <2>1
    <3>2. \A n \in live' : p[n] < p[head] + 1 => next[n] = NULL
      <4>1. SUFFICES ASSUME NEW n \in live', p[n] < p[head] + 1 PROVE next[n] = NULL
        OBVIOUS
      <4>2. n \in live /\ p[n] < p[head]
        BY <1>2, <1>3, <1>4, <2>5, <4>1 DEF Numbered
      <4> QED
        BY <1>2, <1>3, <4>2 DEF FromHead
    <3>3. \A n \in live' : p[n] >= p[head] + 1 /\ p[n] < enqueued => next[n] # NULL
      <4>1. SUFFICES ASSUME NEW n \in live', p[n] >= p[head] + 1, p[n] < enqueued
                     PROVE  next[n] # NULL
        OBVIOUS
      <4>2. n \in live /\ p[n] >= p[head]
        BY <1>2, <1>3, <1>4, <4>1 DEF Numbered
      <4> QED
        BY <1>2, <1>3, <4>1, <4>2 DEF FromHead
    <3>4. \A i \in DOMAIN out' : out'[i] < p[head] + 1
      <4>1. \A i \in 1 .. Len(out) : out[i] < p[head]
        BY <1>2, <1>3, <1>5 DEF FromHead
      <4>2. SUFFICES ASSUME NEW i \in 1 .. Len(out) + 1 PROVE out'[i] < p[head] + 1
        BY <1>5
      <4>3. CASE i = Len(out) + 1
        BY <1>4, <1>5, <4>3
      <4>4. CASE i \in 1 .. Len(out)
        <5>1. out'[i] = out[i] /\ out[i] \in 1 .. MaxEnqueued
          <6>1. out \in Seq(1 .. MaxEnqueued)
            BY <1>5
          <6>2. out[i] \in 1 .. MaxEnqueued
            BY <4>4, <6>1, ElementOfSeq
          <6> QED
            BY <1>5, <4>4, <6>2
        <5>2. out[i] < p[head]
          BY <4>1, <4>4
        <5> QED
          BY <1>1, <1>5, <5>1, <5>2
      <4> QED
        BY <1>5, <4>2, <4>3, <4>4
    <3>5. tail' # NULL /\ tail' \in live' /\ p'[tail'] = enqueued'
      BY <1>2, <2>3
    <3> QED
      BY <1>2, <3>1, <3>2, <3>3, <3>4, <3>5 DEF FromHead
  <2>8. EmptyList' /\ Started'
    BY <1>2, <1>9, <2>3 DEF EmptyList, Started
  <2>9. FifoWhileSound'
    <3>1. SUFFICES ASSUME sound'
                   PROVE  /\ \A i \in DOMAIN out' : out'[i] = i
                          /\ head' \in live' /\ p[head'] = Len(out') + 1
                          /\ {p[n] : n \in live'} = Len(out') + 1 .. enqueued
      BY <1>2 DEF FifoWhileSound
    <3>2. /\ \A i \in DOMAIN out : out[i] = i
          /\ p[head] = Len(out) + 1
          /\ {p[n] : n \in live} = Len(out) + 1 .. enqueued
      BY <1>1, <1>2, <3>1 DEF FifoWhileSound
    <3>3. \A i \in DOMAIN out' : out'[i] = i
      BY <1>5, <3>2
    <3>4. {p[n] : n \in live'} = {p[n] : n \in live} \ {p[head]}
      BY <1>2, <2>5
    <3>5. Len(out) \in Nat
      BY <1>5
    <3>6. {p[n] : n \in live'} = Len(out) + 2 .. enqueued
      <4>1. (Len(out) + 1 .. enqueued) \ {Len(out) + 1} = Len(out) + 2 .. enqueued
        BY <1>1, <3>5
      <4> QED
        BY <3>2, <3>4, <4>1
    <3>7. head' \in live' /\ p[head'] = Len(out) + 2
      BY <1>2, <2>1, <3>2, <3>5
    <3> QED
      BY <1>5, <3>3, <3>5, <3>6, <3>7
  <2> QED
    BY <1>2, <1>3, <1>6, <1>7, <2>4, <2>6, <2>7, <2>8, <2>9 DEF QueueIInv, Intact
<1> QED
  BY <1>8, <1>9

(* The steps that change nothing but crashed.                               *)
LEMMA SameIInv ==
  ASSUME QueueIInv, UNCHANGED <<node, queue, history>>, crashed' \in BOOLEAN
  PROVE  QueueIInv'
BY DEF QueueIInv, node, queue, history, QueueTypeOK, Intact, Drained, Numbered, Linked, FromHead,
       EmptyList, Started, InOrder, FifoWhileSound

LEMMA NextQueueIInv == QueueIInv /\ [QueueNext]_queueVars => QueueIInv'
<1> SUFFICES ASSUME QueueIInv, [QueueNext]_queueVars PROVE QueueIInv'
  OBVIOUS
<1>1. CASE \E n \in Nodes : enqueue(n)
  BY <1>1, EnqueueIInv
<1>2. CASE dequeue
  BY <1>2, DequeueIInv
<1>3. CASE dequeueProcess
  BY <1>3, DequeueProcessIInv
<1>4. CASE dequeueProcessOfNone \/ Abort
  BY <1>4, SameIInv DEF dequeueProcessOfNone, Abort
<1>5. CASE UNCHANGED queueVars
  BY <1>5, SameIInv DEF queueVars, QueueIInv, QueueTypeOK
<1> QED
  BY <1>1, <1>2, <1>3, <1>4, <1>5 DEF QueueNext

-----------------------------------------------------------------------------
LEMMA AlwaysIInv == QueueSpec => []QueueIInv
  BY InitQueueIInv, NextQueueIInv, PTL DEF QueueSpec

(* Types of the queue's fields, for any nodes and any number of elements.   *)
THEOREM QueueTypeCorrect == QueueSpec => []QueueTypeOK
  BY AlwaysIInv, PTL DEF QueueIInv

(* Nothing comes out of queue.c twice or out of order, whatever memory      *)
(* malloc gives out again.                                                  *)
THEOREM AlwaysInOrder == QueueSpec => []InOrder
  BY AlwaysIInv, PTL DEF QueueIInv

(* Until dequeue forgets a tail, it is a queue that holds what it was given *)
(* and has not returned.                                                    *)
THEOREM AlwaysFifoWhileSound == QueueSpec => []FifoWhileSound
  BY AlwaysIInv, PTL DEF QueueIInv

(* What queue.c:64 says of enqueue, that it adds the element to the end of  *)
(* the queue, fails on a drained queue, and isempty, which tests tail, does *)
(* not call it empty: dequeueProcess (:126-138) leaves tail at the last     *)
(* node when it frees it.  Whatever is enqueued later, the queue stays      *)
(* drained and nothing comes out of it.                                     *)
LostAfterDrain == [][Drained => Drained' /\ out' = out]_queueVars

THEOREM DrainIsFinal == QueueSpec => LostAfterDrain
<1>1. QueueTypeOK /\ [QueueNext]_queueVars => [Drained => Drained' /\ out' = out]_queueVars
  BY ProcessQueueAssumption
     DEF QueueTypeOK, QueueNext, Drained, enqueue, TailOf, isempty, dequeue, dequeueProcess,
         dequeueProcessOfNone, Abort, node, queue, history
<1> QED
  BY <1>1, QueueTypeCorrect, PTL DEF QueueSpec, LostAfterDrain
=============================================================================
