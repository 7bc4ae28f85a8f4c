-------------------------- MODULE LockedHeapProofs --------------------------
(***************************************************************************)
(* What is left of mutual exclusion in A8/malloc.c, for any finite set of  *)
(* threads and any programs: every call of init admits one thread more,    *)
(* the mutex is never left behind, and, as the races never wipe the header *)
(* of the heap, it is initialized once if nobody asks for 0 bytes, so that *)
(* exclusion is perfect from the first quiet moment on.                    *)
(***************************************************************************)
EXTENDS LockedHeap, FiniteSetTheorems, SequenceTheorems, TLAPS

(* The thread the mutex accounts for.                                       *)
Admitted == IF locked THEN 1 ELSE 0

(* Every step is a move of one thread into the section, one out of it, or   *)
(* neither, as far as the mutex is concerned.                               *)
Enters(t) == /\ t \notin Inside /\ Inside' = Inside \cup {t}
             /\ ~locked
             /\ \/ locked' = TRUE /\ inits' = inits
                \/ locked' = FALSE /\ inits' = inits + 1
Leaves(t) == /\ t \in Inside /\ Inside' = Inside \ {t}
             /\ locked' = FALSE /\ inits' = inits
Stays     == Inside' = Inside /\ locked' = locked /\ inits' = inits

(* pc keeps its domain, which the effect of each update rests on.           *)
Typed == pc \in [Threads -> Places] /\ locked \in BOOLEAN /\ inits \in Nat

LEMMA GotoInside ==
  ASSUME Typed, NEW t \in Threads, NEW place \in Places, NEW a, Goto(t, place, a)
  PROVE  /\ pc' \in [Threads -> Places]
         /\ place # "outside" => Inside' = Inside \cup {t}
         /\ place = "outside" => Inside' = Inside \ {t}
  BY DEF Typed, Goto, Inside

LEMMA StepMoves ==
  ASSUME Typed, NEW t \in Threads, ThreadStep(t)
  PROVE  pc' \in [Threads -> Places] /\ (Enters(t) \/ Leaves(t) \/ Stays)
<1> USE DEF Typed
<1>1. CASE LockAndInit(t) \/ LockAndMark(t)
  <2>1. PICK place \in {"search", "merge"} : Goto(t, place, freeList)
    BY <1>1 DEF LockAndInit, LockAndMark
  <2>2. t \notin Inside
    BY <1>1 DEF LockAndInit, LockAndMark, At, Inside
  <2>3. /\ ~locked
        /\ \/ locked' = TRUE /\ inits' = inits
           \/ locked' = FALSE /\ inits' = inits + 1
    BY <1>1 DEF LockAndInit, LockAndMark, MutexFree
  <2>4. place \in Places /\ place # "outside"
    BY DEF Places
  <2> QED
    BY <2>1, <2>2, <2>3, <2>4, GotoInside DEF Enters
<1>2. CASE ServeExact(t) \/ ServeNull(t) \/ FragLink(t) \/ MergeEnd(t)
  <2>1. Goto(t, "outside", freeList) /\ locked' = FALSE /\ inits' = inits
    BY <1>2 DEF ServeExact, ServeNull, FragLink, MergeEnd, Unlock
  <2>2. t \in Inside
    BY <1>2 DEF ServeExact, ServeNull, FragLink, MergeEnd, At, Inside
  <2>3. "outside" \in Places
    BY DEF Places
  <2> QED
    BY <2>1, <2>2, <2>3, GotoInside DEF Leaves
<1>3. CASE Search(t) \/ ServeSplit(t) \/ FragNew(t) \/ Merge(t)
  <2>1. t \in Inside /\ locked' = locked /\ inits' = inits
    BY <1>3 DEF Search, ServeSplit, FragNew, Merge, At, Inside
  <2>2. \/ \E place \in Places \ {"outside"}, a \in {hdr[current[t]].next, current[t],
               hdr[hdr[current[t]].next].next} : Goto(t, place, a)
        \/ UNCHANGED pc
    BY <1>3 DEF Search, ServeSplit, FragNew, Merge, Places, thread
  <2>3. CASE UNCHANGED pc
    BY <2>1, <2>3 DEF Stays, Inside
  <2>4. ASSUME NEW place \in Places \ {"outside"}, NEW a, Goto(t, place, a)
        PROVE  pc' \in [Threads -> Places] /\ Stays
    BY <2>1, <2>4, GotoInside DEF Stays
  <2> QED
    BY <2>2, <2>3, <2>4
<1>4. CASE RejectPointer(t)
  BY <1>4 DEF RejectPointer, thread, Stays, Inside
<1> QED
  BY <1>1, <1>2, <1>3, <1>4 DEF ThreadStep

(* The accounting: no more threads inside than the mutex and the surplus    *)
(* unlocks of init account for, and the mutex held only by one inside.      *)
MutexInv == /\ Typed
            /\ Cardinality(Inside) <= inits + Admitted
            /\ NotLeftLocked

LEMMA InsideFinite ==
  IsFiniteSet(Inside) /\ Cardinality(Inside) \in Nat /\ (Cardinality(Inside) = 0 <=> Inside = {})
<1>1. IsFiniteSet(Inside)
  BY LockedHeapAssumption, FS_Subset DEF Inside
<1> QED
  BY <1>1, FS_CardinalityType, FS_EmptySet

(* The number inside, before and after.                                     *)
LEMMA CountInside ==
  ASSUME NEW t
  PROVE  /\ Enters(t) => Cardinality(Inside') = Cardinality(Inside) + 1
         /\ Leaves(t) => Cardinality(Inside') = Cardinality(Inside) - 1
         /\ Stays => Cardinality(Inside') = Cardinality(Inside)
  BY InsideFinite, FS_AddElement, FS_RemoveElement DEF Enters, Leaves, Stays

(* The mutex word, before and after.                                        *)
LEMMA CountAdmitted ==
  ASSUME NEW t
  PROVE  /\ Admitted \in {0, 1} /\ Admitted' \in {0, 1}
         /\ Enters(t) => /\ Admitted = 0
                         /\ \/ Admitted' = 1 /\ inits' = inits
                            \/ Admitted' = 0 /\ inits' = inits + 1
         /\ Leaves(t) => Admitted' = 0 /\ inits' = inits
         /\ Stays => Admitted' = Admitted /\ inits' = inits
  BY DEF Admitted, Enters, Leaves, Stays

LEMMA InitMutexInv == Init => MutexInv
<1> SUFFICES ASSUME Init PROVE MutexInv
  OBVIOUS
<1>1. Typed /\ Inside = {} /\ ~locked /\ inits = 0
  BY DEF Init, Typed, Inside, Places
<1> QED
  BY <1>1, InsideFinite DEF MutexInv, Admitted, NotLeftLocked

LEMMA NextMutexInv == MutexInv /\ [Next]_vars => MutexInv'
<1> SUFFICES ASSUME MutexInv, [Next]_vars PROVE MutexInv'
  OBVIOUS
<1>1. Typed /\ Cardinality(Inside) \in Nat
  BY InsideFinite DEF MutexInv
<1>2. ASSUME NEW t \in Threads, ThreadStep(t) PROVE MutexInv'
  <2>1. pc' \in [Threads -> Places] /\ (Enters(t) \/ Leaves(t) \/ Stays)
    BY <1>1, <1>2, StepMoves
  <2>2. Typed'
    <3>1. inits \in Nat
      BY <1>1 DEF Typed
    <3>2. inits' \in Nat
      BY <2>1, <3>1, CountAdmitted
    <3>3. locked' \in BOOLEAN
      BY <1>1, <2>1 DEF Typed, Enters, Leaves, Stays
    <3> QED
      BY <2>1, <3>2, <3>3 DEF Typed
  <2>3. Cardinality(Inside') <= inits' + Admitted'
    <3>1. /\ inits \in Nat /\ Cardinality(Inside) \in Nat
          /\ Cardinality(Inside) <= inits + Admitted
      BY <1>1 DEF MutexInv, Typed
    <3> QED
      BY <2>1, <3>1, CountInside, CountAdmitted
  <2>4. NotLeftLocked'
    BY <2>1 DEF MutexInv, NotLeftLocked, Enters, Leaves, Stays
  <2> QED
    BY <2>2, <2>3, <2>4 DEF MutexInv
<1>3. CASE UNCHANGED vars
  BY <1>3 DEF vars, thread, MutexInv, Typed, Admitted, NotLeftLocked, Inside
<1> QED
  BY <1>2, <1>3 DEF Next, Ended

(* Each call of init lets one thread more than one into the section.        *)
THEOREM SurplusBounded == Spec => [](Cardinality(Inside) <= 1 + inits)
<1>1. MutexInv => Cardinality(Inside) <= 1 + inits
  BY InsideFinite DEF MutexInv, Typed, Admitted
<1> QED
  BY <1>1, InitMutexInv, NextMutexInv, PTL DEF Spec

(* As long as init has run only once, at most two threads are inside,       *)
(* however many there are and whoever unlocks for whom.                     *)
LEMMA TwoInsideAtMost == Spec => [](InitOnce => AtMostTwoInside)
<1>1. MutexInv => (InitOnce => AtMostTwoInside)
  BY InsideFinite DEF MutexInv, Typed, Admitted, InitOnce, AtMostTwoInside
<1> QED
  BY <1>1, InitMutexInv, NextMutexInv, PTL DEF Spec

(* No thread leaves the mutex locked behind it.                             *)
THEOREM MutexNotLeftLocked == Spec => []NotLeftLocked
<1>1. MutexInv => NotLeftLocked
  BY DEF MutexInv
<1> QED
  BY <1>1, InitMutexInv, NextMutexInv, PTL DEF Spec

(* Perfect exclusion: everybody inside is accounted for by the mutex.       *)
Exclusion == inits > 0 /\ Cardinality(Inside) <= Admitted

LEMMA QuietExcludes == MutexInv /\ Quiet => Exclusion
  BY InsideFinite DEF MutexInv, Quiet, Exclusion, Admitted

LEMMA ExclusionStays == MutexInv /\ Exclusion /\ [Next]_vars /\ InitOnce' => Exclusion'
<1> SUFFICES ASSUME MutexInv, Exclusion, [Next]_vars, InitOnce' PROVE Exclusion'
  OBVIOUS
<1>1. Typed /\ Cardinality(Inside) \in Nat
  BY InsideFinite DEF MutexInv
<1>2. ASSUME NEW t \in Threads, ThreadStep(t) PROVE Exclusion'
  <2>1. Enters(t) \/ Leaves(t) \/ Stays
    BY <1>1, <1>2, StepMoves
  <2>2. /\ inits \in Nat /\ inits > 0 /\ Cardinality(Inside) \in Nat
        /\ Cardinality(Inside) <= Admitted /\ inits' <= 1
    BY <1>1 DEF Exclusion, Typed, InitOnce
  <2> QED
    BY <2>1, <2>2, CountInside, CountAdmitted DEF Exclusion
<1>3. CASE UNCHANGED vars
  BY <1>3 DEF vars, thread, Exclusion, Admitted, Inside
<1> QED
  BY <1>2, <1>3 DEF Next, Ended

(* If init runs only once, a single moment with the heap initialized and    *)
(* nobody inside is enough for mutual exclusion to hold for good.           *)
LEMMA ExclusiveForGood == Spec /\ []InitOnce => ExclusiveOnceQuiet
<1>1. Exclusion => OneAtATime
  BY InsideFinite DEF Exclusion, Admitted, OneAtATime
<1> QED
  BY <1>1, InitMutexInv, NextMutexInv, QuietExcludes, ExclusionStays, PTL
  DEF Spec, ExclusiveOnceQuiet

-----------------------------------------------------------------------------
(* Types, also when calls race.  A thread inside is in a call of its        *)
(* program, and between the two steps of frag the new header is in mem.     *)
Headers == [size : 0 .. Wrap - 1, free : BOOLEAN, next : Addresses \cup {NULL}]

Placed ==
  /\ done \in [Threads -> Nat]
  /\ \A t \in Threads : /\ pc[t] # "outside" => ~Finished(t)
                        /\ pc[t] = "link" => NewBlock(t) \in Addresses

TInv == TypeOK /\ Placed

LEMMA Constants ==
  /\ HeapSize \in Nat /\ HeapSize > 1 /\ Hdr = 1 /\ Wrap \in Nat /\ Wrap > HeapSize
  /\ freeList = 0 /\ freeList \in Addresses /\ Addresses \subseteq Nat /\ NULL \notin Addresses
  /\ \A a \in Addresses : a + Hdr \in 1 .. HeapSize
  BY LockedHeapAssumption DEF Hdr, freeList, Addresses

LEMMA HeaderTyped ==
  ASSUME NEW size \in Int, NEW free \in BOOLEAN, NEW nxt \in Addresses \cup {NULL}
  PROVE  Header(size, free, nxt) \in Headers
<1>1. size % Wrap \in 0 .. Wrap - 1
  BY Constants
<1> QED
  BY <1>1 DEF Header, Headers

(* The fields of a header, wherever it was written.                         *)
LEMMA Fields ==
  ASSUME TypeOK, NEW a \in Addresses
  PROVE  /\ hdr[a] \in Headers /\ hdr[a].size \in Int /\ hdr[a].free \in BOOLEAN
         /\ hdr[a].next \in Addresses \cup {NULL}
<1>1. hdr[a] \in Headers
  BY DEF TypeOK, Headers
<1>2. 0 .. Wrap - 1 \subseteq Int
  BY Constants
<1> QED
  BY <1>1, <1>2 DEF Headers

LEMMA CallTyped ==
  ASSUME TInv, NEW t \in Threads
  PROVE  /\ Len(Program[t]) \in Nat /\ done[t] \in Nat /\ done[t] <= Len(Program[t])
         /\ ~Finished(t) => Arg(t) \in Nat /\ done[t] + 1 <= Len(Program[t])
<1>1. Program[t] \in Seq(CallTypes) /\ Len(Program[t]) \in Nat
  BY LockedHeapAssumption, LenProperties
<1>2. done[t] \in Nat /\ done[t] <= Len(Program[t])
  BY <1>1 DEF TInv, TypeOK, Placed
<1>3. ~Finished(t) => done[t] + 1 \in 1 .. Len(Program[t])
  BY <1>1, <1>2 DEF Finished
<1>4. ~Finished(t) => Call(t) \in CallTypes
  BY <1>1, <1>3, ElementOfSeq DEF Call
<1> QED
  BY <1>1, <1>2, <1>3, <1>4 DEF Arg, CallTypes

LEMMA InitTInv == Init => TInv
<1> SUFFICES ASSUME Init PROVE TInv
  OBVIOUS
<1>1. hdr \in [Addresses -> Headers]
  <2>1. 0 \in Int /\ FALSE \in BOOLEAN /\ NULL \in Addresses \cup {NULL}
    OBVIOUS
  <2>2. Header(0, FALSE, NULL) \in Headers
    BY <2>1, HeaderTyped
  <2> QED
    BY <2>2 DEF Init
<1>2. \A t \in Threads : Len(Program[t]) \in Nat
  BY LockedHeapAssumption, LenProperties
<1>3. pc \in [Threads -> Places] /\ \A t \in Threads : pc[t] = "outside"
  BY DEF Init, Places
<1>4. current \in [Threads -> Addresses] /\ done \in [Threads -> Nat]
      /\ ptr \in [Threads -> 1 .. HeapSize \cup {NULL}]
  BY Constants DEF Init
<1>5. \A t \in Threads : done[t] \in 0 .. Len(Program[t])
  BY <1>2 DEF Init
<1> QED
  BY <1>1, <1>3, <1>4, <1>5 DEF Init, TInv, TypeOK, Placed, Headers

(* What a step of thread t has to show.                                     *)
TypedThread(t) ==
  /\ pc' \in [Threads -> Places] /\ current' \in [Threads -> Addresses]
  /\ \A u \in Threads \ {t} : pc'[u] = pc[u] /\ current'[u] = current[u]
  /\ \/ done' = done /\ (pc'[t] # "outside" => ~Finished(t))
     \/ done' = [done EXCEPT ![t] = @ + 1] /\ ~Finished(t) /\ pc'[t] = "outside"
  /\ pc'[t] = "link" => NewBlock(t) \in Addresses /\ current'[t] = current[t] /\ done' = done
  /\ ptr' \in [Threads -> 1 .. HeapSize \cup {NULL}]

TypedRest ==
  /\ hdr' \in [Addresses -> Headers] /\ locked' \in BOOLEAN /\ inits' \in Nat
  /\ process' \in {"running", "exited", "segfault", "overrun"}

LEMMA TypedStep ==
  ASSUME TInv, NEW t \in Threads, TypedThread(t), TypedRest
  PROVE  TInv'
<1>1. /\ done \in [Threads -> Nat]
      /\ \A u \in Threads : /\ pc[u] # "outside" => ~Finished(u)
                            /\ pc[u] = "link" => NewBlock(u) \in Addresses
      /\ \A u \in Threads : done[u] \in 0 .. Len(Program[u])
  BY DEF TInv, TypeOK, Placed
<1>2. /\ done' \in [Threads -> Nat]
      /\ \A u \in Threads \ {t} : done'[u] = done[u]
      /\ done'[t] \in 0 .. Len(Program[t])
  <2>1. CASE done' = done
    BY <1>1, <2>1
  <2>2. CASE done' = [done EXCEPT ![t] = @ + 1] /\ ~Finished(t)
    <3>1. done[t] + 1 \in 0 .. Len(Program[t]) /\ done[t] + 1 \in Nat
      BY <2>2, CallTyped
    <3> QED
      BY <1>1, <2>2, <3>1
  <2> QED
    BY <2>1, <2>2 DEF TypedThread
<1>3. \A u \in Threads : done'[u] \in 0 .. Len(Program[u])
  BY <1>1, <1>2
<1>4. ASSUME NEW u \in Threads
      PROVE  /\ pc'[u] # "outside" => ~Finished(u)'
             /\ pc'[u] = "link" => NewBlock(u)' \in Addresses
  <2>1. CASE u # t
    BY <1>1, <1>2, <2>1 DEF TypedThread, Finished, NewBlock, Arg, Call
  <2>2. CASE u = t
    BY <2>2 DEF TypedThread, Finished, NewBlock, Arg, Call
  <2> QED
    BY <2>1, <2>2
<1> QED
  BY <1>2, <1>3, <1>4 DEF TInv, TypeOK, Placed, TypedThread, TypedRest, Headers

LEMMA Went ==
  ASSUME TInv, NEW t \in Threads, NEW place \in Places, NEW a \in Addresses, Goto(t, place, a)
  PROVE  /\ pc' \in [Threads -> Places] /\ current' \in [Threads -> Addresses]
         /\ pc'[t] = place /\ current'[t] = a
         /\ \A u \in Threads \ {t} : pc'[u] = pc[u] /\ current'[u] = current[u]
  BY DEF TInv, TypeOK, Goto

(* A header written anywhere, or nowhere in mem.                            *)
LEMMA Written ==
  ASSUME TInv, NEW a
  PROVE  /\ \A h \in Headers : [hdr EXCEPT ![a] = h] \in [Addresses -> Headers]
         /\ \A b \in BOOLEAN : [hdr EXCEPT ![a].free = b] \in [Addresses -> Headers]
<1>1. hdr \in [Addresses -> Headers]
  BY DEF TInv, TypeOK, Headers
<1>2. ASSUME NEW b \in BOOLEAN PROVE [hdr EXCEPT ![a].free = b] \in [Addresses -> Headers]
  <2>1. a \in Addresses => [hdr[a] EXCEPT !.free = b] \in Headers
    BY <1>1 DEF Headers
  <2> QED
    BY <1>1, <2>1
<1> QED
  BY <1>1, <1>2

LEMMA StepTInv ==
  ASSUME TInv, NEW t \in Threads, ThreadStep(t)
  PROVE  TInv'
<1>1. /\ TypeOK /\ current[t] \in Addresses /\ hdr \in [Addresses -> Headers]
      /\ ptr \in [Threads -> 1 .. HeapSize \cup {NULL}] /\ locked \in BOOLEAN /\ inits \in Nat
      /\ process \in {"running", "exited", "segfault", "overrun"}
      /\ pc \in [Threads -> Places] /\ current \in [Threads -> Addresses]
      /\ pc[t] # "outside" => ~Finished(t)
  BY DEF TInv, TypeOK, Placed, Headers
<1>2. {"outside", "search", "serve", "split", "link", "merge"} = Places
  BY DEF Places
<1>3. CASE LockAndInit(t) \/ LockAndMark(t)
  <2>1. PICK place \in {"search", "merge"} : Goto(t, place, freeList)
    BY <1>3 DEF LockAndInit, LockAndMark
  <2>2. ~Finished(t) /\ UNCHANGED <<client, process>>
    BY <1>3 DEF LockAndInit, LockAndMark
  <2>3. TypedThread(t)
    BY <1>1, <1>2, <2>1, <2>2, Went, Constants DEF TypedThread, client
  <2>4. hdr' \in [Addresses -> Headers]
    <3>1. InitBlock \in Headers
      <4>1. HeapSize - Hdr \in Int /\ TRUE \in BOOLEAN /\ NULL \in Addresses \cup {NULL}
        BY Constants
      <4> QED
        BY <4>1, HeaderTyped DEF InitBlock
    <3>2. [hdr EXCEPT ![freeList] = InitBlock] \in [Addresses -> Headers]
      BY <3>1, Written
    <3>3. [hdr EXCEPT ![ptr[t] - Hdr].free = TRUE] \in [Addresses -> Headers]
      BY Written
    <3>4. \/ hdr' = [hdr EXCEPT ![freeList] = InitBlock]
          \/ hdr' = hdr
          \/ hdr' = [hdr EXCEPT ![ptr[t] - Hdr].free = TRUE]
      BY <1>3, Zenon DEF LockAndInit, LockAndMark
    <3> QED
      BY <1>1, <3>2, <3>3, <3>4
  <2>5. locked' \in BOOLEAN
    BY <1>3, Zenon DEF LockAndInit, LockAndMark
  <2>6. inits' \in Nat
    <3>1. inits' = inits \/ inits' = inits + 1
      BY <1>3, Zenon DEF LockAndInit, LockAndMark
    <3> QED
      BY <1>1, <3>1
  <2> QED
    BY <1>1, <2>2, <2>3, <2>4, <2>5, <2>6, TypedStep DEF TypedRest
<1>4. CASE Search(t) \/ ServeSplit(t)
  <2>1. PICK place \in {"search", "serve", "split"}, a \in Addresses : Goto(t, place, a)
    <3>1. hdr[current[t]].next # NULL => hdr[current[t]].next \in Addresses
      BY <1>1, Fields
    <3> QED
      BY <1>1, <1>4, <3>1 DEF Search, ServeSplit
  <2>2. ~Finished(t) /\ UNCHANGED <<locked, hdr, client, process, inits>>
    BY <1>1, <1>4 DEF Search, ServeSplit, At
  <2>3. TypedThread(t)
    BY <1>1, <1>2, <2>1, <2>2, Went DEF TypedThread, client
  <2> QED
    BY <1>1, <2>2, <2>3, TypedStep DEF TypedRest
<1>5. CASE ServeExact(t) \/ ServeNull(t) \/ FragLink(t) \/ MergeEnd(t)
  <2>1. /\ Goto(t, "outside", freeList) /\ locked' = FALSE /\ inits' = inits
        /\ done' = [done EXCEPT ![t] = @ + 1] /\ ~Finished(t)
    BY <1>1, <1>5 DEF ServeExact, ServeNull, FragLink, MergeEnd, Unlock, At
  <2>2. ptr' \in [Threads -> 1 .. HeapSize \cup {NULL}]
    BY <1>1, <1>5, Constants DEF ServeExact, ServeNull, FragLink, MergeEnd
  <2>3. TypedThread(t)
    BY <1>2, <2>1, <2>2, Went, Constants DEF TypedThread
  <2>4. hdr' \in [Addresses -> Headers]
    <3>1. CASE FragLink(t)
      <4>1. Arg(t) \in Int /\ NewBlock(t) \in Addresses
        BY <1>1, <3>1, CallTyped DEF FragLink, At, TInv, Placed
      <4>2. Header(Arg(t), FALSE, NewBlock(t)) \in Headers
        BY <4>1, HeaderTyped
      <4> QED
        BY <3>1, <4>2, Written DEF FragLink
    <3>2. CASE ServeExact(t) \/ ServeNull(t) \/ MergeEnd(t)
      <4>1. hdr' = hdr \/ hdr' = [hdr EXCEPT ![current[t]].free = FALSE]
        BY <3>2, Zenon DEF ServeExact, ServeNull, MergeEnd
      <4>2. [hdr EXCEPT ![current[t]].free = FALSE] \in [Addresses -> Headers]
        BY Written
      <4> QED
        BY <1>1, <4>1, <4>2
    <3> QED
      BY <1>5, <3>1, <3>2
  <2>5. process' \in {"running", "exited", "segfault", "overrun"}
    BY <1>1, <1>5 DEF ServeExact, ServeNull, FragLink, MergeEnd
  <2> QED
    BY <1>1, <2>1, <2>3, <2>4, <2>5, TypedStep DEF TypedRest
<1>6. CASE FragNew(t)
  <2>1. Arg(t) \in Nat /\ ~Finished(t)
    BY <1>1, <1>6, CallTyped DEF FragNew, At
  <2>2. UNCHANGED <<locked, client, inits>>
    BY <1>6 DEF FragNew
  <2>3. CASE NewBlock(t) \in Addresses
    <3>1. Goto(t, "link", current[t]) /\ UNCHANGED process
      BY <1>6, <2>3 DEF FragNew
    <3>2. hdr' \in [Addresses -> Headers]
      <4>1. /\ hdr[current[t]].size - Arg(t) - Hdr \in Int /\ TRUE \in BOOLEAN
            /\ hdr[current[t]].next \in Addresses \cup {NULL}
        <5>1. hdr[current[t]].size \in Int /\ hdr[current[t]].next \in Addresses \cup {NULL}
          BY <1>1, Fields
        <5> QED
          BY <2>1, <5>1, Constants
      <4>2. Header(hdr[current[t]].size - Arg(t) - Hdr, TRUE, hdr[current[t]].next) \in Headers
        BY <4>1, HeaderTyped
      <4> QED
        BY <1>6, <2>3, <4>2, Written DEF FragNew
    <3>3. TypedThread(t)
      BY <1>1, <1>2, <2>1, <2>2, <2>3, <3>1, Went DEF TypedThread, client
    <3> QED
      BY <1>1, <2>2, <3>1, <3>2, <3>3, TypedStep DEF TypedRest
  <2>4. CASE NewBlock(t) \notin Addresses
    <3>1. process' = "overrun" /\ UNCHANGED <<hdr, thread>>
      BY <1>6, <2>4 DEF FragNew
    <3>2. pc[t] = "split"
      BY <1>6 DEF FragNew, At
    <3>3. TypedThread(t)
      BY <1>1, <2>1, <2>2, <3>1, <3>2 DEF TypedThread, client, thread
    <3> QED
      BY <1>1, <2>2, <3>1, <3>3, TypedStep DEF TypedRest
  <2> QED
    BY <2>3, <2>4
<1>7. CASE RejectPointer(t)
  <2>1. /\ done' = [done EXCEPT ![t] = @ + 1] /\ ~Finished(t) /\ pc[t] = "outside"
        /\ UNCHANGED <<locked, hdr, thread, ptr, process, inits>>
    BY <1>7 DEF RejectPointer, At
  <2>2. TypedThread(t)
    BY <1>1, <2>1 DEF TypedThread, thread
  <2> QED
    BY <1>1, <2>1, <2>2, TypedStep DEF TypedRest
<1>8. CASE Merge(t)
  <2> DEFINE a == current[t]
             nxt == IF BothFree(a) THEN hdr[hdr[a].next].next ELSE hdr[a].next
  <2>1. /\ hdr[a].next \in Addresses /\ hdr[a].size \in Int /\ hdr[a].free \in BOOLEAN
    BY <1>1, <1>8, Fields DEF Merge
  <2>2. hdr[hdr[a].next].size \in Int /\ hdr[hdr[a].next].next \in Addresses \cup {NULL}
    BY <1>1, <2>1, Fields
  <2>3. Joined(a) \in Headers
    <3>1. hdr[a].size + hdr[hdr[a].next].size + Hdr \in Int
      BY <2>1, <2>2, Constants
    <3> QED
      BY <2>1, <2>2, <3>1, HeaderTyped DEF Joined
  <2>4. hdr' \in [Addresses -> Headers]
    BY <1>1, <1>8, <2>3, Written DEF Merge
  <2>5. ~Finished(t) /\ pc[t] = "merge" /\ UNCHANGED <<locked, client, inits>>
    BY <1>1, <1>8 DEF Merge, At
  <2>6. \/ process' = "segfault" /\ UNCHANGED thread
        \/ nxt \in Addresses /\ Goto(t, "merge", nxt) /\ UNCHANGED process
    BY <1>8, <2>1, <2>2 DEF Merge
  <2> HIDE DEF nxt
  <2>7. TypedThread(t)
    <3>1. CASE UNCHANGED thread
      BY <1>1, <2>5, <3>1 DEF TypedThread, client, thread
    <3>2. CASE nxt \in Addresses /\ Goto(t, "merge", nxt)
      BY <1>1, <1>2, <2>5, <3>2, Went DEF TypedThread, client
    <3> QED
      BY <2>6, <3>1, <3>2
  <2> QED
    BY <1>1, <2>4, <2>5, <2>6, <2>7, TypedStep DEF TypedRest
<1> QED
  BY <1>3, <1>4, <1>5, <1>6, <1>7, <1>8 DEF ThreadStep

(* A8/malloc.c: whatever threads call and however the calls race, a thread  *)
(* follows next only to headers in mem, the fields it finds there are of    *)
(* their types, and nobody is inside without a call of its own.             *)
THEOREM LockedTypeCorrect == Spec => []TypeOK
<1>1. TInv /\ [Next]_vars => TInv'
  <2> SUFFICES ASSUME TInv, [Next]_vars PROVE TInv'
    OBVIOUS
  <2>1. CASE UNCHANGED vars
    BY <2>1 DEF vars, thread, client, TInv, TypeOK, Placed, Finished, NewBlock, Arg, Call
  <2> QED
    BY <2>1, StepTInv DEF Next, Ended
<1>2. TInv => TypeOK
  BY DEF TInv
<1> QED
  BY <1>1, <1>2, InitTInv, PTL DEF Spec

-----------------------------------------------------------------------------
(* The header of the heap never comes back to size 0, whatever the racing   *)
(* calls do to the list, if nobody asks for 0 bytes.  Sizes and links may   *)
(* be wrong after a race, but they agree: a block of any header that can be *)
(* reached ends, modulo Wrap, where its next is, and the last one where mem *)
(* ends.  Each step of a split or a merge keeps that, and no block begins   *)
(* at 1.                                                                    *)
Wrapped(x) == IF x < Wrap THEN x ELSE x - Wrap
Target(n)  == IF n = NULL THEN HeapSize ELSE n
Fits(a, h) == Wrapped(a + Hdr + h.size) = Target(h.next)
Adjacent(a) == Fits(a, hdr[a])

(* Where next leads.                                                        *)
Leads(n) == n # NULL => n \in Addresses /\ n # freeList + Hdr /\ Adjacent(n)

Untouched ==
  /\ \A a \in Addresses : hdr[a].size = 0 /\ hdr[a].next = NULL
  /\ \A t \in Threads : pc[t] \in {"outside", "merge"} /\ current[t] = freeList

Places1(t) ==
  /\ Adjacent(current[t])
  /\ pc[t] \in {"search", "serve", "split", "link"} => Call(t).op = "malloc"
  /\ pc[t] = "link" => Leads(NewBlock(t))

Shape ==
  /\ \A a \in Addresses : Adjacent(a) => Leads(hdr[a].next)
  /\ \/ inits = 0 /\ Untouched
     \/ inits = 1 /\ Adjacent(freeList) /\ \A t \in Threads : Places1(t)

LEMMA Modulo ==
  ASSUME NEW x \in Int
  PROVE  /\ 0 <= x /\ x < Wrap => x % Wrap = x
         /\ Wrap <= x /\ x < 2 * Wrap => x % Wrap = x - Wrap
         /\ -Wrap <= x /\ x < 0 => x % Wrap = x + Wrap
<1>1. Wrap \in Nat /\ Wrap > 0
  BY Constants
<1>3. ASSUME 0 <= x, x < Wrap PROVE x % Wrap = x
  BY <1>1, <1>3
<1>4. ASSUME Wrap <= x, x < 2 * Wrap PROVE x % Wrap = x - Wrap
  BY <1>1, <1>4
<1>5. ASSUME -Wrap <= x, x < 0 PROVE x % Wrap = x + Wrap
  BY <1>1, <1>5
<1> QED
  BY <1>3, <1>4, <1>5

(* A new header at a, which ends where its next is, keeps all others so.    *)
LEMMA WriteFits ==
  ASSUME TypeOK, \A b \in Addresses : Adjacent(b) => Leads(hdr[b].next),
         NEW a \in Addresses, NEW h \in Headers,
         Fits(a, h), Leads(h.next), hdr' = [hdr EXCEPT ![a] = h]
  PROVE  /\ \A b \in Addresses : Adjacent(b) => Adjacent(b)'
         /\ Adjacent(a)'
         /\ \A b \in Addresses : Adjacent(b)' => Leads(hdr[b].next)'
<1>1. hdr \in [Addresses -> Headers]
  BY DEF TypeOK, Headers
<1>2. hdr'[a] = h /\ \A b \in Addresses \ {a} : hdr'[b] = hdr[b]
  BY <1>1
<1>3. \A b \in Addresses : Adjacent(b)' <=> Fits(b, hdr'[b])
  BY DEF Adjacent, Fits, Wrapped, Target
<1>4. \A b \in Addresses : Adjacent(b) => Adjacent(b)'
  BY <1>2, <1>3 DEF Adjacent
<1>5. Adjacent(a)'
  BY <1>2, <1>3
<1>6. \A n : Leads(n) => Leads(n)'
  BY <1>4 DEF Leads
<1>7. ASSUME NEW b \in Addresses, Adjacent(b)' PROVE Leads(hdr[b].next)'
  <2>1. PICK n : n = hdr'[b].next
    OBVIOUS
  <2>2. Leads(n)
    BY <1>2, <1>3, <1>7, <2>1 DEF Adjacent
  <2>3. Leads(n)'
    BY <1>6, <2>2
  <2> QED
    BY <2>1, <2>3 DEF Leads, Adjacent
<1> QED
  BY <1>4, <1>5, <1>7

(* The flags decide nothing.                                                *)
LEMMA FlagFits ==
  ASSUME TypeOK, NEW a, NEW b \in BOOLEAN, hdr' = [hdr EXCEPT ![a].free = b]
  PROVE  \A c \in Addresses : /\ hdr'[c].size = hdr[c].size /\ hdr'[c].next = hdr[c].next
                              /\ Adjacent(c)' <=> Adjacent(c)
<1>1. hdr \in [Addresses -> Headers]
  BY DEF TypeOK, Headers
<1>2. \A c \in Addresses : hdr'[c].size = hdr[c].size /\ hdr'[c].next = hdr[c].next
  BY <1>1 DEF Headers
<1>3. \A c \in Addresses : Adjacent(c)' <=> Fits(c, hdr'[c])
  BY DEF Adjacent, Fits, Wrapped, Target
<1> QED
  BY <1>2, <1>3 DEF Adjacent, Fits

(* The headers a split and a merge write end where their next is.           *)
LEMMA NewFits ==
  ASSUME TypeOK, NEW a \in Addresses, NEW n \in Nat, Adjacent(a), a + n + Hdr \in Addresses
  PROVE  Fits(a + n + Hdr, Header(hdr[a].size - n - Hdr, TRUE, hdr[a].next))
<1>1. a \in Nat /\ a + n + 1 \in Nat /\ a + n + 1 < HeapSize /\ HeapSize \in Nat
      /\ Wrap \in Nat /\ HeapSize < Wrap /\ Hdr = 1
  BY Constants DEF Addresses
<1>2. hdr[a].size \in 0 .. Wrap - 1
  BY DEF TypeOK
<1> DEFINE x == hdr[a].size - n - 1
<1>3. x \in Int /\ -Wrap <= x /\ x < Wrap
  BY <1>1, <1>2
<1>4. x % Wrap = IF x < 0 THEN x + Wrap ELSE x
  <2> HIDE DEF x
  <2> QED
    BY <1>3, Modulo
<1>5. Wrapped(a + n + 1 + 1 + (x % Wrap)) = Wrapped(a + 1 + hdr[a].size)
  <2> DEFINE s == hdr[a].size
             y == x % Wrap
  <2>1. s \in Nat /\ s < Wrap /\ x = s - n - 1 /\ y = IF x < 0 THEN x + Wrap ELSE x
    BY <1>1, <1>2, <1>4
  <2> HIDE DEF s, y, x
  <2>2. Wrapped(a + n + 1 + 1 + y) = Wrapped(a + 1 + s)
    BY <1>1, <2>1 DEF Wrapped
  <2> QED
    BY <2>2 DEF s, y, x
<1>6. Wrapped(a + 1 + hdr[a].size) = Target(hdr[a].next)
  BY <1>1 DEF Adjacent, Fits
<1> QED
  <2> DEFINE h == Header(hdr[a].size - n - Hdr, TRUE, hdr[a].next)
  <2>1. h.size = x % Wrap /\ h.next = hdr[a].next
    BY <1>1 DEF Header
  <2> HIDE DEF h
  <2>2. x % Wrap \in Int
    BY <1>1, <1>3, <1>4
  <2>3. a + n + Hdr + Hdr + h.size = a + n + 1 + 1 + (x % Wrap)
    BY <1>1, <2>1
  <2>4. Wrapped(a + n + Hdr + Hdr + h.size) = Target(h.next)
    BY <1>5, <1>6, <2>1, <2>3
  <2>5. Fits(a + n + Hdr, h)
    BY <2>4 DEF Fits
  <2> QED
    BY <2>5 DEF h, x

LEMMA LinkFits ==
  ASSUME NEW a \in Addresses, NEW n \in Nat, a + n + Hdr \in Addresses
  PROVE  Fits(a, Header(n, FALSE, a + n + Hdr))
<1>1. a \in Nat /\ a + n + 1 \in Nat /\ a + n + 1 < HeapSize /\ HeapSize \in Nat
      /\ Wrap \in Nat /\ HeapSize < Wrap /\ Hdr = 1 /\ a + n + Hdr # NULL
  BY Constants DEF Addresses
<1>2. n % Wrap = n
  BY <1>1, Modulo
<1> QED
  BY <1>1, <1>2 DEF Fits, Header, Wrapped, Target

LEMMA JoinFits ==
  ASSUME TypeOK, NEW a \in Addresses, Adjacent(a), hdr[a].next \in Addresses,
         Adjacent(hdr[a].next)
  PROVE  Fits(a, Joined(a))
<1> DEFINE b == hdr[a].next
           s == hdr[a].size
           r == hdr[b].size
           m == Target(hdr[b].next)
<1>1. /\ a \in Nat /\ a < HeapSize /\ b \in Nat /\ b < HeapSize /\ HeapSize \in Nat
      /\ Wrap \in Nat /\ HeapSize < Wrap /\ Hdr = 1 /\ b # NULL
  BY Constants DEF Addresses
<1>2. s \in 0 .. Wrap - 1 /\ r \in 0 .. Wrap - 1 /\ m \in 0 .. HeapSize
  BY Constants DEF TypeOK, Target, Addresses
<1>3. Wrapped(a + 1 + s) = b /\ Wrapped(b + 1 + r) = m
  BY <1>1 DEF Adjacent, Fits, Target
<1>4. Joined(a).size = (s + r + 1) % Wrap /\ Joined(a).next = hdr[b].next
  BY <1>1 DEF Joined, Header
<1> HIDE DEF b, s, r, m
<1>5. (s + r + 1) % Wrap = Wrapped(s + r + 1)
  <2>1. s + r + 1 \in Int /\ 0 <= s + r + 1 /\ s + r + 1 < 2 * Wrap
    BY <1>1, <1>2
  <2> QED
    <3> DEFINE x == s + r + 1
    <3>1. x \in Int /\ 0 <= x /\ x < 2 * Wrap
      BY <2>1
    <3> HIDE DEF x
    <3>2. x % Wrap = Wrapped(x)
      BY <1>1, <3>1, Modulo DEF Wrapped
    <3> QED
      BY <3>2 DEF x
<1>6. Wrapped(a + 1 + Wrapped(s + r + 1)) = m
  BY <1>1, <1>2, <1>3 DEF Wrapped
<1> QED
  BY <1>1, <1>4, <1>5, <1>6 DEF Fits, m

LEMMA InitShape == Init => Shape
<1> SUFFICES ASSUME Init PROVE Shape
  OBVIOUS
<1>1. 0 % Wrap = 0
  BY Constants, Modulo
<1>2. \A a \in Addresses : hdr[a].size = 0 /\ hdr[a].next = NULL
  BY <1>1 DEF Init, Header
<1>3. inits = 0 /\ \A t \in Threads : pc[t] = "outside" /\ current[t] = freeList
  BY DEF Init
<1> QED
  BY <1>2, <1>3 DEF Shape, Untouched, Leads

(* A step moves its own thread only.                                        *)
LEMMA OthersStay ==
  ASSUME TInv, NEW t \in Threads, ThreadStep(t), NEW u \in Threads \ {t}
  PROVE  pc'[u] = pc[u] /\ current'[u] = current[u] /\ done'[u] = done[u]
<1>1. /\ pc \in [Threads -> Places] /\ current \in [Threads -> Addresses]
      /\ done \in [Threads -> Nat]
  BY DEF TInv, TypeOK, Placed
<1>2. \A place, a : Goto(t, place, a) => pc'[u] = pc[u] /\ current'[u] = current[u]
  BY <1>1 DEF Goto
<1>3. done' = done \/ done' = [done EXCEPT ![t] = @ + 1]
  BY DEF ThreadStep, LockAndInit, Search, ServeExact, ServeSplit, ServeNull, FragNew, FragLink,
         LockAndMark, RejectPointer, Merge, MergeEnd, Unlock, client
<1>4. pc'[u] = pc[u] /\ current'[u] = current[u]
  <2>1. UNCHANGED thread \/ \E place, a : Goto(t, place, a)
    BY DEF ThreadStep, LockAndInit, Search, ServeExact, ServeSplit, ServeNull, FragNew, FragLink,
           LockAndMark, RejectPointer, Merge, MergeEnd, Unlock
  <2> QED
    BY <1>2, <2>1 DEF thread
<1> QED
  BY <1>1, <1>3, <1>4

(* Nothing that was adjacent is lost, and no new link leads astray.         *)
Kept == /\ \A b \in Addresses : Adjacent(b) => Adjacent(b)'
        /\ \A b \in Addresses : Adjacent(b)' => Leads(hdr[b].next)'

LEMMA SameKept ==
  ASSUME Shape
  PROVE  hdr' = hdr => Kept
<1> SUFFICES ASSUME hdr' = hdr PROVE Kept
  OBVIOUS
<1>1. \A b \in Addresses : Adjacent(b)' <=> Adjacent(b)
  BY DEF Adjacent, Fits
<1> QED
  BY <1>1 DEF Kept, Shape, Leads

LEMMA StepShape ==
  ASSUME TInv, Shape, inits = 1, NEW t \in Threads, ThreadStep(t),
         Kept, inits' = 1, Places1(t)'
  PROVE  Shape'
<1>1. freeList \in Addresses /\ current \in [Threads -> Addresses]
  BY Constants DEF TInv, TypeOK
<1>2. Adjacent(freeList)'
  BY <1>1 DEF Shape, Kept
<1>3. ASSUME NEW u \in Threads \ {t} PROVE Places1(u)'
  <2>1. pc'[u] = pc[u] /\ current'[u] = current[u] /\ done'[u] = done[u]
    BY OthersStay
  <2>2. Places1(u) /\ current[u] \in Addresses
    BY <1>1 DEF Shape
  <2>3. Adjacent(current[u])'
    <3>1. PICK a \in Addresses : a = current[u] /\ Adjacent(a)
      BY <2>2 DEF Places1
    <3>2. Adjacent(a)'
      BY <3>1 DEF Kept
    <3> QED
      BY <2>1, <3>1, <3>2 DEF Adjacent
  <2>4. Call(u)' = Call(u) /\ NewBlock(u)' = NewBlock(u)
    BY <2>1 DEF Call, NewBlock, Arg
  <2>5. pc[u] = "link" => Leads(NewBlock(u))'
    BY <2>2, <2>4 DEF Places1, Kept, Leads, Adjacent
  <2> QED
    BY <2>1, <2>2, <2>3, <2>4, <2>5 DEF Places1
<1> QED
  BY <1>2, <1>3 DEF Shape, Kept

(* The first call of init, and what can happen before it.                   *)
LEMMA FirstShape ==
  ASSUME TInv, Shape, inits # 1, NEW t \in Threads, ThreadStep(t)
  PROVE  Shape'
<1>1. /\ inits = 0 /\ Untouched /\ TypeOK
      /\ pc \in [Threads -> Places] /\ current \in [Threads -> Addresses]
  BY DEF Shape, TInv, TypeOK
<1>2. pc[t] \in {"outside", "merge"} /\ current[t] = freeList
      /\ freeList \in Addresses /\ hdr[freeList].next = NULL /\ hdr[freeList].size = 0
  BY <1>1, Constants DEF Untouched
<1>3. LockAndInit(t) \/ LockAndMark(t) \/ RejectPointer(t) \/ MergeEnd(t)
  BY <1>2 DEF ThreadStep, Search, ServeExact, ServeSplit, ServeNull, FragNew, FragLink, Merge, At
<1>4. CASE LockAndInit(t)
  <2>1. /\ hdr' = [hdr EXCEPT ![freeList] = InitBlock] /\ inits' = 1 /\ done' = done
        /\ Goto(t, "search", freeList) /\ Call(t).op = "malloc"
    BY <1>1, <1>2, <1>4 DEF LockAndInit, client
  <2>2. InitBlock \in Headers /\ Fits(freeList, InitBlock) /\ InitBlock.next = NULL
    <3>1. HeapSize - Hdr \in Int /\ TRUE \in BOOLEAN /\ NULL \in Addresses \cup {NULL}
          /\ 0 <= HeapSize - Hdr /\ HeapSize - Hdr < Wrap
      BY Constants
    <3>2. InitBlock \in Headers
      BY <3>1, HeaderTyped DEF InitBlock
    <3>3. (HeapSize - Hdr) % Wrap = HeapSize - Hdr
      BY <3>1, Modulo
    <3>4. InitBlock.size = HeapSize - Hdr /\ InitBlock.next = NULL
      BY <3>3 DEF InitBlock, Header
    <3>5. Wrapped(freeList + Hdr + (HeapSize - Hdr)) = HeapSize
      BY Constants DEF Wrapped
    <3> QED
      BY <3>2, <3>4, <3>5 DEF Fits, Target
  <2>3. Adjacent(freeList)' /\ \A b \in Addresses : Adjacent(b)' => Leads(hdr[b].next)'
    BY <1>1, <1>2, <2>1, <2>2, WriteFits DEF Leads, Shape
  <2>4. ASSUME NEW u \in Threads PROVE Places1(u)'
    <3>1. /\ current'[u] = freeList /\ Call(u)' = Call(u)
          /\ pc'[u] \in {"outside", "merge"} \/ (u = t /\ pc'[u] = "search")
      BY <1>1, <2>1 DEF Goto, Untouched, Call
    <3>2. Adjacent(current[u])'
      BY <2>3, <3>1 DEF Adjacent
    <3> QED
      BY <2>1, <3>1, <3>2 DEF Places1
  <2> QED
    BY <2>1, <2>3, <2>4 DEF Shape
<1>5. CASE LockAndMark(t) \/ RejectPointer(t) \/ MergeEnd(t)
  <2>1. inits' = 0
    BY <1>1, <1>5 DEF LockAndMark, RejectPointer, MergeEnd
  <2>2. \A u \in Threads : pc'[u] \in {"outside", "merge"} /\ current'[u] = freeList
    <3>1. UNCHANGED thread \/ \E place \in {"outside", "merge"} : Goto(t, place, freeList)
      BY <1>5 DEF LockAndMark, RejectPointer, MergeEnd, Unlock
    <3> QED
      BY <1>1, <3>1 DEF thread, Goto, Untouched
  <2>3. hdr' = hdr \/ hdr' = [hdr EXCEPT ![ptr[t] - Hdr].free = TRUE]
    BY <1>5 DEF LockAndMark, RejectPointer, MergeEnd
  <2>4. \A a \in Addresses : hdr'[a].size = hdr[a].size /\ hdr'[a].next = hdr[a].next
    BY <1>1, <2>3, FlagFits
  <2> QED
    BY <1>1, <2>1, <2>2, <2>4 DEF Shape, Untouched, Leads
<1> QED
  BY <1>3, <1>4, <1>5

(* The next header of one that is adjacent, and a request's argument.       *)
LEMMA Follow ==
  ASSUME TInv, Shape, NEW a \in Addresses, Adjacent(a)
  PROVE  /\ Leads(hdr[a].next)
         /\ hdr[a].next # NULL => hdr[a].next \in Addresses /\ Adjacent(hdr[a].next)
  BY DEF Shape, Leads

LEMMA Asked ==
  ASSUME NoneForZero, TInv, NEW t \in Threads, ~Finished(t), Call(t).op = "malloc"
  PROVE  Arg(t) \in Nat \ {0}
<1>1. done[t] + 1 \in 1 .. Len(Program[t]) /\ Arg(t) \in Nat
  BY CallTyped
<1>2. DOMAIN Program[t] = 1 .. Len(Program[t])
  BY LockedHeapAssumption
<1> QED
  BY <1>1, <1>2 DEF NoneForZero, Call, Arg

(* The section after the first call of init.                                *)
LEMMA LaterShape ==
  ASSUME NoneForZero, TInv, Shape, inits = 1, NEW t \in Threads, ThreadStep(t)
  PROVE  Shape'
<1>1. /\ Adjacent(freeList) /\ Places1(t) /\ TypeOK /\ hdr \in [Addresses -> Headers]
      /\ pc \in [Threads -> Places] /\ current \in [Threads -> Addresses]
      /\ current[t] \in Addresses /\ freeList \in Addresses
      /\ \A b \in Addresses : Adjacent(b) => Leads(hdr[b].next)
      /\ pc[t] # "outside" => ~Finished(t)
  BY Constants DEF Shape, TInv, TypeOK, Placed, Headers
<1>2. Adjacent(current[t])
  BY <1>1 DEF Places1
<1>3. ASSUME NEW place \in {"outside", "search", "serve", "split", "merge"}, NEW a \in Addresses,
             Goto(t, place, a), Kept, Adjacent(a),
             place \in {"search", "serve", "split"} => Call(t).op = "malloc" /\ done' = done
      PROVE  Places1(t)'
  <2>1. pc'[t] = place /\ current'[t] = a
    BY <1>1, <1>3 DEF Goto
  <2>2. Adjacent(a)'
    BY <1>3 DEF Kept
  <2>3. Adjacent(current[t])'
    BY <2>1, <2>2 DEF Adjacent
  <2>4. done' = done => Call(t)' = Call(t)
    BY DEF Call
  <2> QED
    BY <1>3, <2>1, <2>3, <2>4 DEF Places1
<1>4. CASE LockAndInit(t)
  <2>1. hdr[freeList].size # 0
    <3>1. Wrapped(freeList + Hdr + 0) = freeList + Hdr /\ HeapSize # freeList + Hdr
      BY Constants DEF Wrapped
    <3>2. Target(hdr[freeList].next) # freeList + Hdr
      BY <1>1, <3>1 DEF Target, Leads
    <3> QED
      BY <1>1, <3>1, <3>2 DEF Adjacent, Fits
  <2>2. hdr' = hdr /\ inits' = 1 /\ Goto(t, "search", freeList) /\ done' = done
        /\ Call(t).op = "malloc"
    BY <1>4, <2>1 DEF LockAndInit, client
  <2>3. Kept
    BY <2>2, SameKept
  <2> QED
    BY <1>1, <1>3, <2>2, <2>3, StepShape
<1>5. CASE LockAndMark(t) \/ ServeExact(t)
  <2>1. \E a, b : b \in BOOLEAN /\ hdr' = [hdr EXCEPT ![a].free = b]
    BY <1>5, Zenon DEF LockAndMark, ServeExact
  <2>2. Kept
    <3>1. \A c \in Addresses : hdr'[c].next = hdr[c].next /\ (Adjacent(c)' <=> Adjacent(c))
      BY <1>1, <2>1, FlagFits
    <3> QED
      BY <1>1, <3>1 DEF Kept, Leads
  <2>3. inits' = 1 /\ \E place \in {"merge", "outside"} : Goto(t, place, freeList)
    BY <1>5 DEF LockAndMark, ServeExact, Unlock
  <2> QED
    BY <1>1, <1>3, <2>2, <2>3, StepShape
<1>6. CASE Search(t) \/ ServeSplit(t)
  <2>1. /\ pc[t] \in {"search", "serve"} /\ hdr' = hdr /\ done' = done /\ inits' = 1
        /\ Call(t).op = "malloc"
    BY <1>1, <1>6 DEF Search, ServeSplit, At, client, Places1
  <2>2. PICK place \in {"search", "serve", "split"}, a \in {current[t], hdr[current[t]].next} :
          Goto(t, place, a) /\ a # NULL
    BY <1>1, <1>6, Constants DEF Search, ServeSplit
  <2>3. a \in Addresses /\ Adjacent(a)
    BY <1>1, <1>2, <2>2, Follow
  <2>4. Kept
    BY <2>1, SameKept
  <2> QED
    BY <1>3, <2>1, <2>2, <2>3, <2>4, StepShape
<1>7. CASE ServeNull(t) \/ MergeEnd(t)
  <2>1. hdr' = hdr /\ inits' = 1 /\ Goto(t, "outside", freeList)
    BY <1>7 DEF ServeNull, MergeEnd, Unlock
  <2>2. Kept
    BY <2>1, SameKept
  <2> QED
    BY <1>1, <1>3, <2>1, <2>2, StepShape
<1>8. CASE RejectPointer(t)
  <2>1. /\ hdr' = hdr /\ inits' = 1 /\ pc' = pc /\ current' = current /\ pc[t] = "outside"
    BY <1>8 DEF RejectPointer, thread, At
  <2>2. Kept
    BY <2>1, SameKept
  <2>3. Places1(t)'
    BY <1>2, <2>1 DEF Places1, Adjacent
  <2> QED
    BY <2>1, <2>2, <2>3, StepShape
<1>9. CASE FragNew(t)
  <2>1. pc[t] = "split" /\ done' = done /\ inits' = 1 /\ Call(t).op = "malloc"
    BY <1>1, <1>9 DEF FragNew, At, client, Places1
  <2>2. Arg(t) \in Nat \ {0}
    BY <1>1, <2>1, Asked
  <2>3. CASE NewBlock(t) \in Addresses
    <3> DEFINE a == current[t]
               h == Header(hdr[a].size - Arg(t) - Hdr, TRUE, hdr[a].next)
    <3>1. hdr' = [hdr EXCEPT ![NewBlock(t)] = h] /\ Goto(t, "link", a)
      BY <1>9, <2>3 DEF FragNew
    <3>2. Fits(NewBlock(t), h)
      BY <1>1, <1>2, <2>2, <2>3, NewFits DEF NewBlock
    <3>3. h \in Headers /\ h.next = hdr[a].next
      <4>1. hdr[a].size \in Int /\ hdr[a].next \in Addresses \cup {NULL}
        BY <1>1, Fields
      <4>2. hdr[a].size - Arg(t) - Hdr \in Int /\ TRUE \in BOOLEAN
        BY <2>2, <4>1, Constants
      <4> QED
        BY <4>1, <4>2, HeaderTyped DEF Header
    <3>4. Leads(h.next)
      BY <1>1, <1>2, <3>3
    <3> HIDE DEF h
    <3>5. Kept /\ Adjacent(NewBlock(t))'
      <4>1. PICK n \in Addresses : n = NewBlock(t)
        BY <2>3
      <4>2. Kept /\ Adjacent(n)'
        BY <1>1, <3>1, <3>2, <3>3, <3>4, <4>1, WriteFits DEF Kept
      <4>3. NewBlock(t)' = n
        BY <1>1, <2>1, <3>1, <4>1 DEF Goto, NewBlock, Arg, Call
      <4> QED
        BY <4>2, <4>3 DEF Adjacent
    <3>6. Places1(t)'
      <4>1. pc'[t] = "link" /\ current'[t] = a /\ Call(t)' = Call(t) /\ NewBlock(t)' = NewBlock(t)
        BY <1>1, <2>1, <3>1 DEF Goto, NewBlock, Arg, Call
      <4>2. Adjacent(current[t])'
        <5>1. PICK n \in Addresses : n = a /\ Adjacent(n)
          BY <1>1, <1>2
        <5>2. Adjacent(n)'
          BY <3>5, <5>1 DEF Kept
        <5> QED
          BY <4>1, <5>1, <5>2 DEF Adjacent
      <4>3. NewBlock(t) # freeList + Hdr
        <5>1. a \in Nat
          BY <1>1, Constants
        <5> QED
          BY <2>2, <5>1, Constants DEF NewBlock
      <4>4. Leads(NewBlock(t))'
        BY <2>3, <3>5, <4>1, <4>3 DEF Leads
      <4> QED
        BY <2>1, <4>1, <4>2, <4>4 DEF Places1
    <3> QED
      BY <2>1, <3>5, <3>6, StepShape
  <2>4. CASE NewBlock(t) \notin Addresses
    <3>1. hdr' = hdr /\ pc' = pc /\ current' = current
      BY <1>9, <2>4 DEF FragNew, thread
    <3>2. Kept
      BY <3>1, SameKept
    <3>3. Places1(t)'
      BY <1>1, <2>1, <3>1 DEF Places1, Adjacent, Call
    <3> QED
      BY <2>1, <3>2, <3>3, StepShape
  <2> QED
    BY <2>3, <2>4
<1>10. CASE FragLink(t)
  <2> DEFINE a == current[t]
             h == Header(Arg(t), FALSE, NewBlock(t))
  <2>1. /\ pc[t] = "link" /\ hdr' = [hdr EXCEPT ![a] = h] /\ inits' = 1
        /\ Goto(t, "outside", freeList)
    BY <1>10 DEF FragLink, At, Unlock
  <2>2. Leads(NewBlock(t)) /\ NewBlock(t) \in Addresses /\ Arg(t) \in Nat
    BY <1>1, <2>1, CallTyped DEF Places1, TInv, Placed
  <2>3. Fits(a, h)
    BY <1>1, <2>2, LinkFits DEF NewBlock
  <2>4. h \in Headers /\ h.next = NewBlock(t)
    <3>1. Arg(t) \in Int /\ FALSE \in BOOLEAN /\ NewBlock(t) \in Addresses \cup {NULL}
      BY <2>2
    <3> QED
      BY <3>1, HeaderTyped DEF Header
  <2> HIDE DEF h
  <2>5. Kept
    BY <1>1, <2>1, <2>2, <2>3, <2>4, WriteFits DEF Kept
  <2> QED
    BY <1>1, <1>3, <2>1, <2>5, StepShape
<1>11. CASE Merge(t)
  <2> DEFINE a == current[t]
             n == hdr[a].next
  <2>1. n \in Addresses /\ Adjacent(n) /\ Leads(n) /\ pc[t] = "merge" /\ inits' = 1
    BY <1>1, <1>2, <1>11, Follow DEF Merge, At
  <2>2. Leads(hdr[n].next)
    BY <1>1, <2>1
  <2>3. Kept
    <3>1. CASE hdr' = hdr
      BY <3>1, SameKept
    <3>2. CASE hdr' = [hdr EXCEPT ![a] = Joined(a)]
      <4>1. Fits(a, Joined(a))
        BY <1>1, <1>2, <2>1, JoinFits
      <4>2. Joined(a) \in Headers /\ Joined(a).next = hdr[n].next
        <5>1. /\ hdr[a].size \in Int /\ hdr[a].free \in BOOLEAN
              /\ hdr[n].size \in Int /\ hdr[n].next \in Addresses \cup {NULL}
          BY <1>1, <2>1, Fields
        <5>2. hdr[a].size + hdr[n].size + Hdr \in Int
          BY <5>1, Constants
        <5>3. Header(hdr[a].size + hdr[n].size + Hdr, hdr[a].free, hdr[n].next) \in Headers
          BY <5>1, <5>2, HeaderTyped
        <5> QED
          BY <5>3 DEF Joined, Header
      <4> DEFINE h == Joined(a)
      <4>3. h \in Headers /\ Fits(a, h) /\ Leads(h.next) /\ hdr' = [hdr EXCEPT ![a] = h]
        BY <2>2, <3>2, <4>1, <4>2
      <4> HIDE DEF h
      <4> QED
        BY <1>1, <4>3, WriteFits DEF Kept
    <3> QED
      BY <1>11, <3>1, <3>2 DEF Merge
  <2>4. \/ UNCHANGED thread /\ UNCHANGED client
        \/ \E b \in {n, hdr[n].next} : b # NULL /\ Goto(t, "merge", b)
    BY <1>11 DEF Merge
  <2>5. CASE UNCHANGED thread /\ UNCHANGED client
    <3>1. pc' = pc /\ current' = current
      BY <2>5 DEF thread
    <3>2. Adjacent(current[t])'
      <4>1. PICK b \in Addresses : b = a /\ Adjacent(b)
        BY <1>1, <1>2
      <4>2. Adjacent(b)'
        BY <2>3, <4>1 DEF Kept
      <4> QED
        BY <3>1, <4>1, <4>2 DEF Adjacent
    <3>3. Places1(t)'
      BY <2>1, <3>1, <3>2 DEF Places1
    <3> QED
      BY <2>1, <2>3, <3>3, StepShape
  <2>6. CASE \E b \in {n, hdr[n].next} : b # NULL /\ Goto(t, "merge", b)
    <3>1. PICK b \in {n, hdr[n].next} : b # NULL /\ Goto(t, "merge", b)
      BY <2>6
    <3>2. b \in Addresses /\ Adjacent(b)
      BY <2>1, <2>2, <3>1 DEF Leads
    <3> QED
      BY <1>3, <2>1, <2>3, <3>1, <3>2, StepShape
  <2> QED
    BY <2>4, <2>5, <2>6
<1> QED
  BY <1>4, <1>5, <1>6, <1>7, <1>8, <1>9, <1>10, <1>11 DEF ThreadStep

LEMMA AlwaysShape == NoneForZero => (Spec => [](TInv /\ Shape))
<1> SUFFICES ASSUME NoneForZero PROVE Spec => [](TInv /\ Shape)
  OBVIOUS
<1>1. Init => TInv /\ Shape
  BY InitTInv, InitShape
<1>2. TInv /\ Shape /\ [Next]_vars => (TInv /\ Shape)'
  <2> SUFFICES ASSUME TInv, Shape, [Next]_vars PROVE TInv' /\ Shape'
    OBVIOUS
  <2>1. CASE UNCHANGED vars
    <3>1. TInv'
      BY <2>1 DEF vars, thread, client, TInv, TypeOK, Placed, Finished, NewBlock, Arg, Call
    <3>2. Shape'
      BY <2>1 DEF vars, thread, client, Shape, Untouched, Places1, NewBlock, Arg, Call,
                  Leads, Adjacent, Fits
    <3> QED
      BY <3>1, <3>2
  <2>2. ASSUME NEW t \in Threads, ThreadStep(t) PROVE TInv' /\ Shape'
    BY <2>2, StepTInv, FirstShape, LaterShape
  <2> QED
    BY <2>1, <2>2 DEF Next, Ended
<1> QED
  BY <1>1, <1>2, PTL DEF Spec

(* A8/malloc.c: the races of the early unlock never wipe the heap, for any  *)
(* threads and calls without a request of 0 bytes.                          *)
THEOREM HeapInitializedOnce == NoneForZero => (Spec => []InitOnce)
<1>1. Shape => InitOnce
  BY DEF Shape, InitOnce
<1> QED
  BY <1>1, AlwaysShape, PTL

(* So at most two threads are ever inside,                                  *)
THEOREM NeverThreeInside == NoneForZero => (Spec => []AtMostTwoInside)
  BY HeapInitializedOnce, TwoInsideAtMost, PTL

(* and from the first quiet moment on the mutex excludes them.              *)
THEOREM ExclusiveAfterQuiet == NoneForZero => (Spec => ExclusiveOnceQuiet)
  BY HeapInitializedOnce, ExclusiveForGood, PTL

-----------------------------------------------------------------------------
(* pm_malloc_lock and pm_free_lock: nobody is stuck.  Whatever calls the    *)
(* threads make, error paths and calls of init included, and whoever        *)
(* unlocks for whom, some thread can take a step until all calls are made.  *)
THEOREM SomeThreadGoesOn == Spec => [](AllJoined \/ \E t \in Threads : MayGoOn(t))
<1>1. NotLeftLocked => AllJoined \/ \E t \in Threads : MayGoOn(t)
  <2> SUFFICES ASSUME NotLeftLocked, NEW t \in Threads, ~Finished(t)
               PROVE  \E u \in Threads : MayGoOn(u)
    BY DEF AllJoined
  <2>1. CASE Inside # {}
    BY <2>1 DEF Inside, MayGoOn
  <2>2. CASE Inside = {}
    BY <2>2 DEF NotLeftLocked, MayGoOn, MutexFree
  <2> QED
    BY <2>1, <2>2
<1> QED
  BY <1>1, MutexNotLeftLocked, PTL
=============================================================================
