---------------------------- MODULE BoundedBuffer ----------------------------
(***************************************************************************)
(* A6/src/main/java/boundedBuffer.java: a monitor made of a ReentrantLock  *)
(* and the conditions notFull and notEmpty around the cyclic array arr,    *)
(* and the main thread that starts the clients in order and joins them.    *)
(*                                                                         *)
(* All fields are accessed under the lock, so what a thread does between   *)
(* acquiring it and releasing or awaiting is one step.  A condition is the *)
(* set of threads awaiting it.  A signalled thread has to reacquire the    *)
(* lock, in competition with new callers (the lock is not fair), before it *)
(* tests its while condition again.                                        *)
(***************************************************************************)
EXTENDS Naturals, Sequences, FiniteSets

CONSTANTS NumThreads,  \* threads main starts, in the order 1..NumThreads
          Capacity,    \* constructor argument
          Program,     \* Program[t]: the calls thread t makes, in order
          MaxSpurious, \* bound: spurious wakeups explored
          ThreadInfo,  \* the "<name> Current Thread ID: ..." text
          Null,        \* Java's null
          Nobody       \* the owner of a free lock

Threads == 1 .. NumThreads
Slots   == 0 .. Capacity - 1
Calls   == {"deposit", "fetch"}
(* What a call of deposit is given: named by the caller and its call.       *)
Items   == UNION {{t} \X (0 .. Len(Program[t]) - 1) : t \in Threads}

ASSUME BufferAssumption ==
  /\ NumThreads \in Nat
  /\ Capacity \in Nat \ {0}
  /\ MaxSpurious \in Nat
  /\ Program \in [Threads -> Seq(Calls)]
  /\ Nobody \notin Threads
  /\ ThreadInfo \notin Items \cup {Null}
  /\ Null \notin Items

(* Calls that pass one item around, as those of main do: a first thread     *)
(* begins with a deposit, every other one with a fetch, and each deposits   *)
(* before it fetches again.                                                 *)
PassesOneItem(program) == \E first \in DOMAIN program : \A t \in DOMAIN program :
  /\ program[t] # <<>> => (program[t][1] = "deposit" <=> t = first)
  /\ \A i \in 1 .. Len(program[t]) - 1 : program[t][i] # program[t][i + 1]

(* Every thread ends with a deposit, as those of main do, so that the next  *)
(* one has something to fetch.                                              *)
HandsBack(program) == \A t \in DOMAIN program :
  program[t] # <<>> /\ program[t][Len(program[t])] = "deposit"

(* Producers and consumers: a thread makes calls of one kind, and what is   *)
(* deposited and not fetched fits the buffer.                               *)
CallsOf(program, c) ==
  UNION {{t} \X {i \in 1 .. Len(program[t]) : program[t][i] = c} : t \in DOMAIN program}

Balanced(program) ==
  /\ \A t \in DOMAIN program : \A i, j \in 1 .. Len(program[t]) : program[t][i] = program[t][j]
  /\ Cardinality(CallsOf(program, "fetch")) <= Cardinality(CallsOf(program, "deposit"))
  /\ Cardinality(CallsOf(program, "deposit")) <= Cardinality(CallsOf(program, "fetch")) + Capacity

VARIABLES
  arr, front, rear, count,    \* the fields of the class
  lock, notFull, notEmpty,    \* lock owner, threads awaiting each condition
  pc,                         \* where each thread is in its current call
  done,                       \* calls each thread has completed
  result,                     \* what each thread's last fetch returned
  started, joined,            \* main: threads started, threads joined
  spurious                    \* spurious wakeups so far

ring    == <<arr, front, rear, count>>
main    == <<started, joined>>
vars    == <<ring, lock, notFull, notEmpty, pc, done, result, main, spurious>>

(* pc[t]: "outside" a call; "testing" the while condition, "awaiting" a     *)
(* condition, "woken" and about to reacquire the lock, "leaving" through    *)
(* the finally block.                                                       *)
Places == {"outside", "testing", "awaiting", "woken", "leaving"}

Finished(t)   == done[t] = Len(Program[t])
Calling(t, c) == ~Finished(t) /\ Program[t][done[t] + 1] = c
Goto(t, place) == pc' = [pc EXCEPT ![t] = place]

-----------------------------------------------------------------------------
Init ==
  /\ arr = [i \in Slots |-> Null]
  /\ front = 0 /\ rear = 0 /\ count = 0
  /\ lock = Nobody /\ notFull = {} /\ notEmpty = {}
  /\ pc = [t \in Threads |-> "outside"]
  /\ done = [t \in Threads |-> 0]
  /\ result = [t \in Threads |-> Null]
  /\ started = 0 /\ joined = 0 /\ spurious = 0

(* main: thread<k>.start() for k in order, then thread<k>.join().           *)
Start ==
  /\ started < NumThreads
  /\ started' = started + 1
  /\ UNCHANGED <<ring, lock, notFull, notEmpty, pc, done, result, joined, spurious>>

Join ==
  /\ started = NumThreads /\ joined < NumThreads
  /\ Finished(joined + 1) /\ pc[joined + 1] = "outside"
  /\ joined' = joined + 1
  /\ UNCHANGED <<ring, lock, notFull, notEmpty, pc, done, result, started, spurious>>

(* lock.lock() at the head of deposit or fetch, and the reacquisition at    *)
(* the end of await: either way the while condition is tested next.         *)
Acquire(t) ==
  /\ t <= started /\ ~Finished(t)
  /\ pc[t] \in {"outside", "woken"}
  /\ lock = Nobody
  /\ lock' = t
  /\ Goto(t, "testing")
  /\ UNCHANGED <<ring, notFull, notEmpty, done, result, main, spurious>>

(* while (count == capacity) notFull.await();                               *)
Full  == count = Capacity
(* while (count == 0) notEmpty.await();                                     *)
Empty == count = 0

AwaitNotFull(t) ==
  /\ pc[t] = "testing" /\ Calling(t, "deposit") /\ Full
  /\ notFull' = notFull \cup {t}
  /\ lock' = Nobody
  /\ Goto(t, "awaiting")
  /\ UNCHANGED <<ring, notEmpty, done, result, main, spurious>>

AwaitNotEmpty(t) ==
  /\ pc[t] = "testing" /\ Calling(t, "fetch") /\ Empty
  /\ notEmpty' = notEmpty \cup {t}
  /\ lock' = Nobody
  /\ Goto(t, "awaiting")
  /\ UNCHANGED <<ring, notFull, done, result, main, spurious>>

(* Condition.await may return without a signal; the loop is there for it.   *)
SpuriousWakeup(t) ==
  /\ pc[t] = "awaiting" /\ spurious < MaxSpurious
  /\ spurious' = spurious + 1
  /\ notFull' = notFull \ {t}
  /\ notEmpty' = notEmpty \ {t}
  /\ Goto(t, "woken")
  /\ UNCHANGED <<ring, lock, done, result, main>>

(* Condition.signal: the set of threads that leave the condition, one of   *)
(* those awaiting it or none when nobody does.                              *)
\* Mutant: nobody is signalled.
SignalLost(waiters) == {{}}
Signalled(waiters) == IF waiters = {} THEN {{}} ELSE {{w} : w \in waiters}

(* The signaller t goes on to its finally block, the others to reacquire.   *)
WakeAndLeave(t, woken) ==
  pc' = [u \in Threads |-> IF u \in woken THEN "woken"
                           ELSE IF u = t THEN "leaving" ELSE pc[u]]

\* Mutant: the modulo is forgotten.
AdvanceUnwrapped(i) == i + 1
Advance(i) == (i + 1) % Capacity

(* deposit's for loop leaves the thread's description in EVERY slot, the    *)
(* store after it puts the data at the rear.                                *)
Stored(data) == [[i \in Slots |-> ThreadInfo] EXCEPT ![rear] = data]

Deposit(t) ==
  /\ pc[t] = "testing" /\ Calling(t, "deposit") /\ ~Full
  /\ arr' = Stored(<<t, done[t]>>)
  /\ rear' = Advance(rear)
  /\ count' = count + 1
  /\ \E woken \in Signalled(notEmpty) :
       notEmpty' = notEmpty \ woken /\ WakeAndLeave(t, woken)
  /\ UNCHANGED <<front, lock, notFull, done, result, main, spurious>>

\* Mutant: if in place of while, so that a thread woken from await does not
\* test the condition again.
FetchAfterIf(t) ==
  /\ \/ pc[t] = "testing" /\ ~Empty
     \/ pc[t] = "woken" /\ lock = Nobody
  /\ Calling(t, "fetch")
  /\ lock' = t
  /\ result' = [result EXCEPT ![t] = arr[front]]
  /\ front' = Advance(front)
  /\ count' = count - 1
  /\ \E woken \in Signalled(notFull) :
       notFull' = notFull \ woken /\ WakeAndLeave(t, woken)
  /\ UNCHANGED <<arr, rear, notEmpty, done, main, spurious>>

Fetch(t) ==
  /\ pc[t] = "testing" /\ Calling(t, "fetch") /\ ~Empty
  /\ result' = [result EXCEPT ![t] = arr[front]]
  /\ front' = Advance(front)
  /\ count' = count - 1
  /\ \E woken \in Signalled(notFull) :
       notFull' = notFull \ woken /\ WakeAndLeave(t, woken)
  /\ UNCHANGED <<arr, rear, lock, notEmpty, done, main, spurious>>

(* finally { lock.unlock(); } and the return to the caller.                 *)
Leave(t) ==
  /\ pc[t] = "leaving"
  /\ lock' = Nobody
  /\ done' = [done EXCEPT ![t] = @ + 1]
  /\ Goto(t, "outside")
  /\ UNCHANGED <<ring, notFull, notEmpty, result, main, spurious>>

(* main has returned: every thread is finished and joined.                  *)
Exited == joined = NumThreads /\ UNCHANGED vars

ThreadStep(t) ==
  \/ Acquire(t) \/ AwaitNotFull(t) \/ AwaitNotEmpty(t)
  \/ Deposit(t) \/ Fetch(t) \/ Leave(t)

Next ==
  \/ Start \/ Join \/ Exited
  \/ \E t \in Threads : ThreadStep(t) \/ SpuriousWakeup(t)

Fairness == /\ WF_vars(Start \/ Join)
            /\ \A t \in Threads : WF_vars(ThreadStep(t))

Spec == Init /\ [][Next]_vars /\ Fairness

-----------------------------------------------------------------------------
(* The fields of the class and the threads' control state have their types. *)
TypeOK ==
  /\ arr \in [Slots -> Items \cup {ThreadInfo, Null}]
  /\ front \in Slots /\ rear \in Slots /\ count \in 0 .. Capacity
  /\ lock \in Threads \cup {Nobody}
  /\ notFull \subseteq Threads /\ notEmpty \subseteq Threads
  /\ pc \in [Threads -> Places]
  /\ done \in [Threads -> Nat]
  /\ result \in [Threads -> Items \cup {ThreadInfo, Null}]
  /\ started \in 0 .. NumThreads /\ joined \in 0 .. NumThreads
  /\ spurious \in 0 .. MaxSpurious

(* The three ring fields, each updated by a different method, agree: rear   *)
(* is always count slots ahead of front, full and empty included.           *)
RingAgrees == rear = (front + count) % Capacity

(* Threads that are past an await or about to make their first test: they   *)
(* will look at count again without needing another signal.                 *)
WillTest(call) == {t \in Threads : /\ pc[t] \in {"testing", "woken"}
                                   /\ Calling(t, call)}

(* No lost wakeup.  deposit and fetch send ONE signal each, and a woken     *)
(* thread competes for the lock with new callers; still, while a fetcher    *)
(* sleeps on notEmpty there are at least as many fetchers on their way as   *)
(* there are items, and likewise for depositors and free slots.  So nobody  *)
(* sleeps on a condition that stays true with no one left to act on it.     *)
NoLostWakeup ==
  /\ notEmpty # {} => count <= Cardinality(WillTest("fetch"))
  /\ notFull # {} => Capacity - count <= Cardinality(WillTest("deposit"))

(* The process can go on: main starts or joins a thread, or a thread holds  *)
(* the lock, or wants it while it is free.                                  *)
MayGoOn ==
  \/ started < NumThreads
  \/ /\ started = NumThreads /\ joined < NumThreads
     /\ Finished(joined + 1) /\ pc[joined + 1] = "outside"
  \/ \E t \in Threads :
       \/ pc[t] \in {"testing", "leaving"}
       \/ t <= started /\ ~Finished(t) /\ pc[t] \in {"outside", "woken"} /\ lock = Nobody

(* The clients have left nothing to go on with: all calls still to be made  *)
(* fetch from an empty buffer, or all deposit into a full one.              *)
Starved == \/ count = 0 /\ \A t \in Threads : ~Finished(t) => Calling(t, "fetch")
           \/ count = Capacity /\ \A t \in Threads : ~Finished(t) => Calling(t, "deposit")

(* Every started thread gets through its calls and main joins them all:     *)
(* join() has no timeout, so one stuck client hangs the program.            *)
MainReturns == <>(joined = NumThreads)

(* What a thread's calls amount to for every workload: the buffer is never  *)
(* overfilled, no fetch is served from an empty one, and a lone deposit     *)
(* reaches whoever fetches it.  A thread that went on from await without    *)
(* testing the condition again, as one woken spuriously or overtaken by a   *)
(* new caller may, would break it.  The latest item is just behind rear.    *)
Behind(i) == IF i = 0 THEN Capacity - 1 ELSE i - 1

Promise == INSTANCE LastItemBuffer
             WITH outstanding <- count, latest <- arr[Behind(rear)],
                  Strings <- Items \cup {ThreadInfo, Null}

KeepsPromise == Promise!Spec

(* The bounded FIFO channel of the comments: fetch stores the item at the   *)
(* front and returns the stored item (:97-102), and the class "can be       *)
(* easily used with several threads with no problems" (:236).  The queue is *)
(* the count slots from front on.  It holds of main's workload, where one   *)
(* item is handed on, and fails once two deposits are outstanding: the loop *)
(* of the second writes over the item of the first.                         *)
Fifo == INSTANCE BoundedFifo
          WITH queue <- [k \in 1 .. count |-> arr[(front + k - 1) % Capacity]]

IsFifo == Fifo!Spec
=============================================================================
