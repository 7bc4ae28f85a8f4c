-------------------------- MODULE PagingHeapProofs --------------------------
(***************************************************************************)
(* The heap of PracticumI/malloc.c for any threads, requests and page      *)
(* size: splits and merges, the one of a rest too small for a header       *)
(* included, keep the blocks a tiling of the page until the mutex lets two *)
(* threads in at once; sizes and links agree also afterwards, so that      *)
(* unitTest5 gets no block and main does not come to its last check before *)
(* somebody writes past the heap or over a header, where the model ends.   *)
(***************************************************************************)
EXTENDS PagingHeap, SequenceTheorems, TLAPS

Headers == [size : 0 .. Wrap - 1, free : BOOLEAN, next : Addresses \cup {NULL}]

LEMMA Constants ==
  /\ HeapSize \in Nat /\ Hdr \in Nat /\ 0 < Hdr /\ Hdr < HeapSize
  /\ Wrap \in Nat /\ HeapSize < Wrap
  /\ freeList = 0 /\ freeList \in Addresses /\ Addresses \subseteq Nat
  /\ NULL \notin Addresses /\ Main \in Threads /\ Created \subseteq Threads
<1>1. /\ HeapSize \in Nat /\ Hdr \in Nat /\ 0 < Hdr /\ Hdr < HeapSize
      /\ Wrap \in Nat /\ NumPages \in Nat /\ NumPages > 0 /\ Wrap > 2 * NumPages * HeapSize
  BY PagingHeapAssumption
<1>2. HeapSize < Wrap
  <2>1. NumPages * HeapSize >= HeapSize
    BY <1>1
  <2> QED
    BY <1>1, <2>1
<1> QED
  BY <1>1, <1>2, PagingHeapAssumption DEF freeList, Addresses, Threads

(* A size that fits the page is stored as it is.                            *)
LEMMA HeaderFields ==
  ASSUME NEW size \in Int, NEW free \in BOOLEAN, NEW nxt \in Addresses \cup {NULL}
  PROVE  /\ Header(size, free, nxt) \in Headers
         /\ Header(size, free, nxt).free = free /\ Header(size, free, nxt).next = nxt
         /\ size \in 0 .. HeapSize => Header(size, free, nxt).size = size
<1>1. size % Wrap \in 0 .. Wrap - 1 /\ (size \in 0 .. HeapSize => size % Wrap = size)
  BY Constants
<1> QED
  BY <1>1 DEF Header, Headers

LEMMA RequestsPositive ==
  ASSUME NEW t \in Threads
  PROVE  Requests(t) \subseteq Nat \ {0}
<1>1. /\ Sizes \subseteq Nat \ {0} /\ Ten \in Nat \ {0} /\ Twelve \in Nat \ {0}
      /\ HeapSize \in Nat \ {0}
  BY PagingHeapAssumption
<1>2. 2 * NumPages * HeapSize \in Nat \ {0} /\ NumPages * HeapSize \in Nat \ {0}
  BY PagingHeapAssumption
<1>3. t # Main => Kind[t] \in Kinds
  BY PagingHeapAssumption, ElementOfSeq DEF Threads, Created
<1>4. CASE t = Main
  BY <1>1, <1>4 DEF Requests
<1>5. CASE t # Main
  BY <1>1, <1>2, <1>3, <1>5 DEF Requests, Kinds
<1> QED
  BY <1>4, <1>5

-----------------------------------------------------------------------------
(* What the types rest on: a thread between two steps of frag has its new   *)
(* header on the page, and one that frees has something to free.            *)
Placed == \A t \in Threads :
  /\ pc[t] \in {"link", "absorb"} => NewBlock(t) \in Addresses
  /\ pc[t] = "free" => mem[t] # <<>>

TInv == TypeOK /\ Placed

LEMMA InitTInv == Init => TInv
<1> SUFFICES ASSUME Init PROVE TInv
  OBVIOUS
<1>1. Header(0, FALSE, NULL) \in Headers
  <2>1. 0 \in Int /\ FALSE \in BOOLEAN /\ NULL \in Addresses \cup {NULL}
    OBVIOUS
  <2> QED
    BY <2>1, HeaderFields
<1>2. hdr \in [Addresses -> Headers]
  BY <1>1 DEF Init
<1>3. pc \in [Threads -> Places] /\ \A t \in Threads : pc[t] \in {"create", "none"}
  BY DEF Init, Places
<1>4. current \in [Threads -> Addresses] /\ request \in [Threads -> Nat]
  BY Constants DEF Init
<1>5. mem \in [Threads -> Seq(Nat)]
  BY DEF Init
<1>6. 0 \in 0 .. Len(Kind)
  BY PagingHeapAssumption
<1> QED
  BY <1>2, <1>3, <1>4, <1>5, <1>6, Constants DEF Init, TInv, TypeOK, Placed, Headers

(* One thread moves; the others stay as they are.                           *)
LEMMA GotoTyped ==
  ASSUME TypeOK, NEW t \in Threads, NEW place \in Places, NEW a \in Addresses,
         Goto(t, place, a)
  PROVE  /\ pc' \in [Threads -> Places] /\ current' \in [Threads -> Addresses]
         /\ pc'[t] = place /\ current'[t] = a
         /\ \A u \in Threads \ {t} : pc'[u] = pc[u] /\ current'[u] = current[u]
  BY DEF TypeOK, Goto

(* What a step of thread t has to show.                                     *)
TypedThreads(t) ==
  /\ pc' \in [Threads -> Places] /\ current' \in [Threads -> Addresses]
  /\ request' \in [Threads -> Nat] /\ mem' \in [Threads -> Seq(Nat)]
  /\ \A u \in Threads \ {t} : /\ pc'[u] = pc[u] /\ current'[u] = current[u]
                              /\ request'[u] = request[u] /\ mem'[u] = mem[u]
  /\ pc'[t] \in {"link", "absorb"} => current'[t] + request'[t] + Hdr \in Addresses
  /\ pc'[t] = "free" => mem'[t] # <<>>

TypedGlobals ==
  /\ locked' \in BOOLEAN /\ hdr' \in [Addresses -> Headers] /\ created' \in 0 .. Len(Kind)
  /\ process' \in {"running", "exited", "segfault", "overrun"}
  /\ blocks' \subseteq Addresses /\ inits' \in Nat /\ raced' \in BOOLEAN

LEMMA TypedStep ==
  ASSUME TInv, NEW t \in Threads, TypedThreads(t), TypedGlobals
  PROVE  TInv'
<1>1. TypeOK'
  BY DEF TypedThreads, TypedGlobals, TypeOK, Headers
<1>2. \A u \in Threads : pc'[u] \in {"link", "absorb"} => NewBlock(u)' \in Addresses
  BY DEF TInv, Placed, TypedThreads, NewBlock
<1>3. \A u \in Threads : pc'[u] = "free" => mem'[u] # <<>>
  BY DEF TInv, Placed, TypedThreads
<1> QED
  BY <1>1, <1>2, <1>3 DEF TInv, Placed

(* Steps that leave requests and memory alone.                              *)
LEMMA OnlyMoves ==
  ASSUME TInv, NEW t \in Threads, UNCHANGED <<request, mem>>,
         \/ UNCHANGED <<pc, current>>
         \/ \E place \in Places, a \in Addresses :
              /\ Goto(t, place, a)
              /\ place \in {"link", "absorb"} => a + request[t] + Hdr \in Addresses
              /\ place = "free" => mem[t] # <<>>
  PROVE  TypedThreads(t)
<1>1. TypeOK /\ Placed
  BY DEF TInv
<1>2. CASE UNCHANGED <<pc, current>>
  BY <1>1, <1>2 DEF TypeOK, Placed, TypedThreads, NewBlock
<1>3. ASSUME NEW place \in Places, NEW a \in Addresses, Goto(t, place, a),
             place \in {"link", "absorb"} => a + request[t] + Hdr \in Addresses,
             place = "free" => mem[t] # <<>>
      PROVE  TypedThreads(t)
  <2>1. /\ pc' \in [Threads -> Places] /\ current' \in [Threads -> Addresses]
        /\ pc'[t] = place /\ current'[t] = a
        /\ \A u \in Threads \ {t} : pc'[u] = pc[u] /\ current'[u] = current[u]
    BY <1>1, <1>3, GotoTyped
  <2> QED
    BY <1>1, <1>3, <2>1 DEF TypeOK, TypedThreads
<1> QED
  BY <1>2, <1>3

(* pm_malloc_lock returns a block.                                          *)
LEMMA ReturnMoves ==
  ASSUME TInv, NEW t \in Threads, Return(t), UNCHANGED request
  PROVE  TypedThreads(t) /\ process' \in {"running", "exited", "segfault", "overrun"}
<1>1. TypeOK /\ Placed
  BY DEF TInv
<1>2. PICK place \in {"call", "free"} : Goto(t, place, freeList)
  BY DEF Return
<1>3. /\ pc' \in [Threads -> Places] /\ current' \in [Threads -> Addresses] /\ pc'[t] = place
      /\ \A u \in Threads \ {t} : pc'[u] = pc[u] /\ current'[u] = current[u]
  BY <1>1, <1>2, GotoTyped, Constants DEF Places
<1>4. current[t] + Hdr \in Nat /\ mem[t] \in Seq(Nat)
  <2>1. current[t] \in Addresses /\ mem[t] \in Seq(Nat)
    BY <1>1 DEF TypeOK
  <2>2. current[t] + Hdr \in Nat
    <3>1. current[t] \in Nat
      BY <2>1, Constants
    <3> QED
      BY <3>1, Constants
  <2> QED
    BY <2>1, <2>2
<1>5. Append(mem[t], current[t] + Hdr) \in Seq(Nat) /\ Append(mem[t], current[t] + Hdr) # <<>>
  BY <1>4, AppendProperties
<1>6. mem' = [mem EXCEPT ![t] = Append(mem[t], current[t] + Hdr)]
  BY DEF Return
<1>7. /\ mem' \in [Threads -> Seq(Nat)] /\ mem'[t] # <<>>
      /\ \A u \in Threads \ {t} : mem'[u] = mem[u]
  BY <1>1, <1>5, <1>6 DEF TypeOK
<1>8. process' \in {"running", "exited", "segfault", "overrun"}
  BY <1>1 DEF Return, TypeOK
<1> QED
  BY <1>1, <1>3, <1>7, <1>8 DEF TypeOK, TypedThreads

-----------------------------------------------------------------------------
(* The steps, one after the other.                                          *)
LEMMA LockAndInitTyped ==
  ASSUME TInv, NEW t \in Threads, LockAndInit(t)
  PROVE  TypedThreads(t) /\ TypedGlobals
<1>1. TypeOK /\ Placed
  BY DEF TInv
<1>2. PICK n \in Requests(t) : request' = [request EXCEPT ![t] = n]
  BY DEF LockAndInit
<1>3. n \in Nat
  BY <1>2, RequestsPositive
<1>4. Goto(t, "search", freeList) /\ mem' = mem /\ created' = created /\ blocks' = blocks
  BY DEF LockAndInit
<1>5. /\ pc' \in [Threads -> Places] /\ current' \in [Threads -> Addresses] /\ pc'[t] = "search"
      /\ \A u \in Threads \ {t} : pc'[u] = pc[u] /\ current'[u] = current[u]
  BY <1>1, <1>4, GotoTyped, Constants DEF Places
<1>6. TypedThreads(t)
  BY <1>1, <1>2, <1>3, <1>4, <1>5 DEF TypeOK, TypedThreads
<1>7. hdr' \in [Addresses -> Headers]
  <2>1. Header(HeapSize - Hdr, TRUE, NULL) \in Headers
    <3>1. HeapSize - Hdr \in Int /\ TRUE \in BOOLEAN /\ NULL \in Addresses \cup {NULL}
      BY Constants
    <3> QED
      BY <3>1, HeaderFields
  <2> QED
    BY <1>1, <2>1 DEF TypeOK, Headers, LockAndInit
<1>8. /\ locked' \in BOOLEAN /\ inits' \in Nat /\ raced' \in BOOLEAN
      /\ process' \in {"running", "exited", "segfault", "overrun"}
  <2>1. /\ locked' \in {TRUE, FALSE} /\ inits' \in {inits, inits + 1}
        /\ process' \in {"running", "exited", "segfault", process}
    BY DEF LockAndInit
  <2>2. raced' = (raced \/ Inside # {})
    BY DEF LockAndInit, Enters
  <2>3. raced' \in BOOLEAN
    BY <2>2
  <2>4. inits' \in Nat
    BY <1>1, <2>1 DEF TypeOK
  <2> QED
    BY <1>1, <2>1, <2>3, <2>4 DEF TypeOK
<1> QED
  BY <1>1, <1>4, <1>6, <1>7, <1>8 DEF TypeOK, TypedGlobals

LEMMA SearchTyped ==
  ASSUME TInv, NEW t \in Threads, Search(t)
  PROVE  TypedThreads(t) /\ TypedGlobals
<1>1. TypeOK /\ hdr \in [Addresses -> Headers]
  BY DEF TInv, TypeOK, Headers
<1>2. TypedGlobals
  BY <1>1 DEF TypeOK, TypedGlobals, Search, history
<1>3. current[t] \in Addresses /\ hdr[current[t]].next \in Addresses \cup {NULL}
  BY <1>1 DEF TypeOK, Headers
<1>4. \/ Goto(t, "search", hdr[current[t]].next) /\ hdr[current[t]].next # NULL
      \/ Goto(t, "serve", current[t])
  BY DEF Search
<1>5. TypedThreads(t)
  <2>1. {"search", "serve"} \subseteq Places \ {"link", "absorb", "free"}
    BY DEF Places
  <2>2. UNCHANGED <<request, mem>>
    BY DEF Search
  <2>3. \E place \in Places \ {"link", "absorb", "free"}, a \in Addresses : Goto(t, place, a)
    BY <1>3, <1>4, <2>1
  <2> QED
    BY <2>2, <2>3, OnlyMoves
<1> QED
  BY <1>2, <1>5

LEMMA ServeExactTyped ==
  ASSUME TInv, NEW t \in Threads, ServeExact(t)
  PROVE  TypedThreads(t) /\ TypedGlobals
<1>1. TypeOK /\ hdr \in [Addresses -> Headers]
  BY DEF TInv, TypeOK, Headers
<1>2. TypedThreads(t) /\ process' \in {"running", "exited", "segfault", "overrun"}
  BY ReturnMoves DEF ServeExact
<1>3. hdr' \in [Addresses -> Headers]
  BY <1>1 DEF ServeExact, Headers
<1> QED
  BY <1>1, <1>2, <1>3 DEF TypeOK, TypedGlobals, ServeExact, history

LEMMA ServeSplitTyped ==
  ASSUME TInv, NEW t \in Threads, ServeSplit(t)
  PROVE  TypedThreads(t) /\ TypedGlobals
<1>1. TypeOK /\ hdr \in [Addresses -> Headers]
  BY DEF TInv, TypeOK, Headers
<1>2. TypedGlobals
  BY <1>1 DEF TypeOK, TypedGlobals, ServeSplit, history
<1>3. current[t] \in Addresses /\ "split" \in Places
  BY <1>1 DEF TypeOK, Places
<1> QED
  BY <1>2, <1>3, OnlyMoves DEF ServeSplit

LEMMA ServeNullTyped ==
  ASSUME TInv, NEW t \in Threads, ServeNull(t)
  PROVE  TypedThreads(t) /\ TypedGlobals
<1>1. TypeOK /\ hdr \in [Addresses -> Headers]
  BY DEF TInv, TypeOK, Headers
<1>2. TypedGlobals
  BY <1>1 DEF TypeOK, TypedGlobals, ServeNull, ReturnNull, history
<1>3. freeList \in Addresses /\ "ended" \in Places
  BY Constants DEF Places
<1> QED
  BY <1>2, <1>3, OnlyMoves DEF ServeNull, ReturnNull

LEMMA FragNewTyped ==
  ASSUME TInv, NEW t \in Threads, FragNew(t)
  PROVE  TypedThreads(t) /\ TypedGlobals
<1>1. TypeOK /\ hdr \in [Addresses -> Headers]
  BY DEF TInv, TypeOK, Headers
<1>2. CASE Clashes(NewBlock(t))
  <2>1. UNCHANGED <<hdr, pc, current, locked, request, mem, created, history>> /\ process' = "overrun"
    BY <1>2 DEF FragNew
  <2>2. TypedThreads(t)
    BY <2>1, OnlyMoves
  <2> QED
    BY <1>1, <2>1, <2>2 DEF TypeOK, TypedGlobals, history
<1>3. CASE ~Clashes(NewBlock(t))
  <2>1. NewBlock(t) \in Addresses
    BY <1>3 DEF Clashes
  <2>2. /\ hdr[current[t]].size \in Int /\ hdr[current[t]].next \in Addresses \cup {NULL}
        /\ current[t] \in Addresses /\ request[t] \in Nat
    <3>1. current[t] \in Addresses /\ request[t] \in Nat
      BY <1>1 DEF TypeOK
    <3>2. hdr[current[t]] \in Headers
      BY <1>1, <3>1
    <3> QED
      BY <3>1, <3>2, Constants DEF Headers
  <2>3. Header(hdr[current[t]].size - request[t] - Hdr, TRUE, hdr[current[t]].next) \in Headers
    <3>1. hdr[current[t]].size - request[t] - Hdr \in Int /\ TRUE \in BOOLEAN
      BY <2>2, Constants
    <3> QED
      BY <2>2, <3>1, HeaderFields
  <2>4. /\ hdr' = [hdr EXCEPT ![NewBlock(t)] =
                     Header(hdr[current[t]].size - request[t] - Hdr, TRUE, hdr[current[t]].next)]
        /\ Goto(t, "link", current[t])
        /\ UNCHANGED <<locked, request, mem, created, process, history>>
    BY <1>3 DEF FragNew
  <2>5. TypedThreads(t)
    <3>1. "link" \in Places /\ current[t] + request[t] + Hdr \in Addresses
      BY <2>1 DEF Places, NewBlock
    <3> QED
      BY <2>2, <2>4, <3>1, OnlyMoves
  <2> QED
    BY <1>1, <2>3, <2>4, <2>5 DEF TypeOK, TypedGlobals, history
<1> QED
  BY <1>2, <1>3

LEMMA FragLinkTyped ==
  ASSUME TInv, NEW t \in Threads, FragLink(t)
  PROVE  TypedThreads(t) /\ TypedGlobals
<1>1. TypeOK /\ hdr \in [Addresses -> Headers] /\ NewBlock(t) \in Addresses
  BY DEF TInv, TypeOK, Headers, Placed, FragLink, At
<1>2. current[t] \in Addresses /\ request[t] \in Int /\ FALSE \in BOOLEAN
  BY <1>1 DEF TypeOK
<1>3. Header(request[t], FALSE, NewBlock(t)) \in Headers
  BY <1>1, <1>2, HeaderFields
<1>4. TypedThreads(t)
  <2>1. "absorb" \in Places /\ current[t] + request[t] + Hdr \in Addresses
    BY <1>1 DEF Places, NewBlock
  <2> QED
    BY <1>2, <2>1, OnlyMoves DEF FragLink
<1>5. hdr' \in [Addresses -> Headers]
  BY <1>1, <1>3 DEF FragLink
<1> QED
  BY <1>1, <1>4, <1>5 DEF TypeOK, TypedGlobals, FragLink

(* A block with one behind it takes it in.                                  *)
LEMMA AbsorbedTyped ==
  ASSUME TypeOK, NEW a \in Addresses, hdr[a].next # NULL
  PROVE  Absorbed(a) \in Headers
<1>1. /\ hdr[a].size \in Int /\ hdr[a].free \in BOOLEAN /\ hdr[a].next \in Addresses
      /\ hdr[hdr[a].next].size \in Int /\ hdr[hdr[a].next].next \in Addresses \cup {NULL}
  <2>1. hdr \in [Addresses -> Headers]
    BY DEF TypeOK, Headers
  <2>2. hdr[a] \in Headers
    BY <2>1
  <2>3. hdr[a].next \in Addresses
    BY <2>2 DEF Headers
  <2>4. hdr[hdr[a].next] \in Headers
    BY <2>1, <2>3
  <2> QED
    BY <2>2, <2>3, <2>4, Constants DEF Headers
<1>2. hdr[a].size + hdr[hdr[a].next].size + Hdr \in Int
  BY <1>1, Constants
<1> QED
  BY <1>1, <1>2, HeaderFields DEF Absorbed

LEMMA FragAbsorbTyped ==
  ASSUME TInv, NEW t \in Threads, FragAbsorb(t)
  PROVE  TypedThreads(t) /\ TypedGlobals
<1>1. TypeOK /\ hdr \in [Addresses -> Headers] /\ NewBlock(t) \in Addresses
  BY DEF TInv, TypeOK, Headers, Placed, FragAbsorb, At
<1>2. TypedThreads(t) /\ process' \in {"running", "exited", "segfault", "overrun"}
  BY ReturnMoves DEF FragAbsorb
<1>3. hdr' \in [Addresses -> Headers] /\ blocks' \subseteq Addresses
  <2>1. CASE TooSmall(NewBlock(t))
    <3>1. Absorbed(NewBlock(t)) \in Headers
      BY <1>1, <2>1, AbsorbedTyped DEF TooSmall, NextFree
    <3> QED
      BY <1>1, <2>1, <3>1 DEF FragAbsorb, TypeOK
  <2>2. CASE ~TooSmall(NewBlock(t))
    BY <1>1, <2>2 DEF FragAbsorb, TypeOK
  <2> QED
    BY <2>1, <2>2
<1> QED
  BY <1>1, <1>2, <1>3 DEF TypeOK, TypedGlobals, FragAbsorb

LEMMA LockAndMarkTyped ==
  ASSUME TInv, NEW t \in Threads, LockAndMark(t)
  PROVE  TypedThreads(t) /\ TypedGlobals
<1>1. TypeOK /\ hdr \in [Addresses -> Headers] /\ mem[t] # <<>>
  BY DEF TInv, TypeOK, Headers, Placed, LockAndMark, At
<1>2. mem[t] \in Seq(Nat)
  BY <1>1 DEF TypeOK
<1>3. Tail(mem[t]) \in Seq(Nat)
  BY <1>1, <1>2
<1>4. mem' = [mem EXCEPT ![t] = Tail(mem[t])] /\ request' = request /\ Goto(t, "merge", freeList)
  BY DEF LockAndMark
<1>5. /\ pc' \in [Threads -> Places] /\ current' \in [Threads -> Addresses] /\ pc'[t] = "merge"
      /\ \A u \in Threads \ {t} : pc'[u] = pc[u] /\ current'[u] = current[u]
  BY <1>1, <1>4, GotoTyped, Constants DEF Places
<1>6. TypedThreads(t)
  BY <1>1, <1>3, <1>4, <1>5 DEF TypeOK, TypedThreads
<1>7. hdr' \in [Addresses -> Headers]
  BY <1>1 DEF LockAndMark, Headers
<1>8. raced' \in BOOLEAN
  BY <1>1 DEF LockAndMark, Enters, TypeOK
<1> QED
  BY <1>1, <1>6, <1>7, <1>8 DEF TypeOK, TypedGlobals, LockAndMark

LEMMA MergeTyped ==
  ASSUME TInv, NEW t \in Threads, Merge(t)
  PROVE  TypedThreads(t) /\ TypedGlobals
<1> DEFINE a    == current[t]
           step == IF BothFree(a) THEN hdr[hdr[a].next].next ELSE hdr[a].next
<1>1. TypeOK /\ hdr \in [Addresses -> Headers] /\ a \in Addresses /\ hdr[a].next # NULL
  BY DEF TInv, TypeOK, Headers, Merge
<1>2. hdr[a].next \in Addresses /\ step \in Addresses \cup {NULL}
  BY <1>1 DEF Headers
<1>3. hdr' \in [Addresses -> Headers] /\ blocks' \subseteq Addresses
  <2>1. Absorbed(a) \in Headers
    BY <1>1, AbsorbedTyped
  <2>2. CASE BothFree(a)
    BY <1>1, <2>1, <2>2 DEF Merge, TypeOK
  <2>3. CASE ~BothFree(a)
    BY <1>1, <2>3 DEF Merge, TypeOK
  <2> QED
    BY <2>2, <2>3
<1>4. /\ UNCHANGED <<locked, request, mem, created, inits, raced>>
      /\ IF step = NULL THEN process' = "segfault" /\ UNCHANGED <<pc, current>>
         ELSE Goto(t, "merge", step) /\ UNCHANGED process
  BY DEF Merge
<1>5. TypedThreads(t)
  <2>1. "merge" \in Places \ {"link", "absorb", "free"}
    BY DEF Places
  <2> HIDE DEF step
  <2> QED
    BY <1>2, <1>4, <2>1, OnlyMoves
<1> QED
  BY <1>1, <1>3, <1>4, <1>5 DEF TypeOK, TypedGlobals

LEMMA MergeEndTyped ==
  ASSUME TInv, NEW t \in Threads, MergeEnd(t)
  PROVE  TypedThreads(t) /\ TypedGlobals
<1>1. TypeOK /\ hdr \in [Addresses -> Headers]
  BY DEF TInv, TypeOK, Headers
<1>2. TypedGlobals
  BY <1>1 DEF TypeOK, TypedGlobals, MergeEnd, history
<1>3. freeList \in Addresses /\ "again" \in Places
  BY Constants DEF Places
<1> QED
  BY <1>2, <1>3, OnlyMoves DEF MergeEnd

LEMMA UnlockAgainTyped ==
  ASSUME TInv, NEW t \in Threads, UnlockAgain(t)
  PROVE  TypedThreads(t) /\ TypedGlobals
<1>1. TypeOK /\ hdr \in [Addresses -> Headers]
  BY DEF TInv, TypeOK, Headers
<1>2. TypedGlobals
  BY <1>1 DEF TypeOK, TypedGlobals, UnlockAgain, history
<1>3. freeList \in Addresses /\ "ended" \in Places /\ "free" \in Places
  BY Constants DEF Places
<1>4. PICK place \in {"ended", "free"} : Goto(t, place, freeList) /\ (place = "free" => mem[t] # <<>>)
  BY DEF UnlockAgain
<1> QED
  BY <1>2, <1>3, <1>4, OnlyMoves DEF UnlockAgain

LEMMA MainTyped ==
  ASSUME TInv, main
  PROVE  TInv'
<1>1. TypeOK /\ Placed
  BY DEF TInv
<1>2. UNCHANGED <<locked, hdr, current, request, mem, process, history>>
  BY DEF main
<1>3. /\ created' \in 0 .. Len(Kind)
      /\ \E u \in Threads : pc' = [pc EXCEPT ![u] = "call"]
  <2>1. Len(Kind) \in Nat /\ Created = 1 .. Len(Kind)
    BY PagingHeapAssumption DEF Created
  <2>2. CASE created < Len(Kind)
    <3>1. created' = created + 1 /\ pc' = [pc EXCEPT ![created'] = "call"]
      BY <2>2 DEF main
    <3>2. created' \in 1 .. Len(Kind)
      BY <1>1, <2>1, <2>2, <3>1 DEF TypeOK
    <3> QED
      <4>1. created' \in Threads /\ created' \in 0 .. Len(Kind)
        BY <2>1, <3>2, Constants
      <4> QED
        BY <3>1, <4>1
  <2>3. CASE ~(created < Len(Kind))
    BY <1>1, <2>3, Constants DEF main, TypeOK
  <2> QED
    BY <2>2, <2>3
<1>4. PICK u \in Threads : pc' = [pc EXCEPT ![u] = "call"]
  BY <1>3
<1>5. /\ pc' \in [Threads -> Places] /\ pc'[u] = "call"
      /\ \A v \in Threads \ {u} : pc'[v] = pc[v]
  BY <1>1, <1>4 DEF TypeOK, Places
<1>6. TypedThreads(u)
  BY <1>1, <1>2, <1>5 DEF TypeOK, Placed, TypedThreads, NewBlock
<1>7. TypedGlobals
  BY <1>1, <1>2, <1>3 DEF TypeOK, TypedGlobals, Headers, history
<1> QED
  BY <1>6, <1>7, TypedStep

LEMMA ThreadStepTyped ==
  ASSUME TInv, NEW t \in Threads, ThreadStep(t)
  PROVE  TInv' /\ TypedThreads(t)
<1>1. TypedThreads(t) /\ TypedGlobals
  BY LockAndInitTyped, SearchTyped, ServeExactTyped, ServeSplitTyped, ServeNullTyped,
     FragNewTyped, FragLinkTyped, FragAbsorbTyped, LockAndMarkTyped, MergeTyped,
     MergeEndTyped, UnlockAgainTyped
     DEF ThreadStep
<1> QED
  BY <1>1, TypedStep

LEMMA NextTInv == TInv /\ [Next]_vars => TInv'
<1> SUFFICES ASSUME TInv, [Next]_vars PROVE TInv'
  OBVIOUS
<1>1. CASE main
  BY <1>1, MainTyped
<1>2. CASE \E t \in Threads : ThreadStep(t)
  BY <1>2, ThreadStepTyped
<1>3. CASE UNCHANGED vars
  BY <1>3 DEF TInv, TypeOK, Placed, NewBlock, vars, thread, history
<1> QED
  BY <1>1, <1>2, <1>3 DEF Next, Ended

LEMMA AlwaysTInv == Spec => []TInv
  BY InitTInv, NextTInv, PTL DEF Spec

(* Types of the allocator's state, also after races.                        *)
THEOREM PagingTypeCorrect == Spec => []TypeOK
  BY AlwaysTInv, PTL DEF TInv

-----------------------------------------------------------------------------
(* Blocks that tile the page.                                               *)
Sized == \A b \in blocks : hdr[b].size >= 1

EndOf(b) == b + Hdr + hdr[b].size

LEMMA BlockFacts ==
  ASSUME TypeOK, Tiles, NEW b \in blocks
  PROVE  /\ b \in Nat /\ b < HeapSize /\ b \in Addresses
         /\ hdr[b].size \in Nat /\ EndOf(b) \in Nat /\ EndOf(b) <= HeapSize
         /\ b < EndOf(b) /\ hdr[b].free \in BOOLEAN
         /\ hdr[b].next \in Addresses \cup {NULL}
         /\ IF hdr[b].next = NULL THEN EndOf(b) = HeapSize
            ELSE hdr[b].next = EndOf(b) /\ EndOf(b) \in blocks
<1>1. b \in Addresses /\ b \in Nat /\ b < HeapSize
  BY Constants DEF TypeOK, Addresses
<1>2. /\ hdr[b].size \in Nat /\ hdr[b].next \in Addresses \cup {NULL}
      /\ hdr[b].free \in BOOLEAN
  BY <1>1, Constants DEF TypeOK
<1>3. IF hdr[b].next = NULL THEN EndOf(b) = HeapSize
      ELSE hdr[b].next = EndOf(b) /\ EndOf(b) \in blocks
  BY DEF Tiles, EndOf
<1>4. EndOf(b) \in Nat /\ b < EndOf(b)
  BY <1>1, <1>2, Constants DEF EndOf
<1>5. EndOf(b) <= HeapSize
  <2>1. EndOf(b) \in blocks => EndOf(b) \in Addresses
    BY DEF TypeOK
  <2>2. EndOf(b) \in Addresses => EndOf(b) < HeapSize
    BY Constants DEF Addresses
  <2> QED
    BY <1>3, <1>4, <2>1, <2>2, Constants
<1> QED
  BY <1>1, <1>2, <1>3, <1>4, <1>5

(* Two blocks do not overlap.                                               *)
LEMMA Apart ==
  ASSUME TypeOK, Tiles, NEW a \in blocks, NEW b \in blocks, a < b
  PROVE  EndOf(a) <= b
  BY DEF Tiles, EndOf

(* Flags, and headers that are not in the list, do not matter.              *)
LEMMA SameTiles ==
  ASSUME Tiles, Sized, blocks' = blocks,
         \A b \in blocks : hdr'[b].size = hdr[b].size /\ hdr'[b].next = hdr[b].next
  PROVE  Tiles' /\ Sized'
<1>1. Sized'
  BY DEF Sized
<1>2. freeList \in blocks'
  BY DEF Tiles
<1>3. \A b \in blocks' : IF hdr'[b].next = NULL THEN b + Hdr + hdr'[b].size = HeapSize
                         ELSE hdr'[b].next = b + Hdr + hdr'[b].size /\ hdr'[b].next \in blocks'
  BY DEF Tiles
<1>4. \A a, b \in blocks' : a < b => a + Hdr + hdr'[a].size <= b
  BY DEF Tiles
<1> QED
  BY <1>1, <1>2, <1>3, <1>4 DEF Tiles

(* frag cuts a block in two.                                                *)
LEMMA SplitTiles ==
  ASSUME TypeOK, Tiles, Sized, NEW c \in blocks, NEW n \in Nat \ {0},
         hdr[c].size > n + Hdr, c + n + Hdr \in Addresses,
         hdr[c + n + Hdr] = Header(hdr[c].size - n - Hdr, TRUE, hdr[c].next),
         hdr' = [hdr EXCEPT ![c] = Header(n, FALSE, c + n + Hdr)],
         blocks' = blocks \cup {c + n + Hdr}
  PROVE  Tiles' /\ Sized'
<1> DEFINE new == c + n + Hdr
<1>1. /\ c \in Nat /\ c < HeapSize /\ c \in Addresses /\ hdr[c].size \in Nat
      /\ EndOf(c) \in Nat /\ EndOf(c) <= HeapSize /\ hdr[c].next \in Addresses \cup {NULL}
      /\ IF hdr[c].next = NULL THEN EndOf(c) = HeapSize
         ELSE hdr[c].next = EndOf(c) /\ EndOf(c) \in blocks
  BY BlockFacts
<1>2. new \in Nat /\ c < new /\ new < EndOf(c)
  BY <1>1, Constants DEF EndOf
<1>3. new \notin blocks
  <2>1. new \in blocks => EndOf(c) <= new
    BY <1>2, Apart
  <2> QED
    BY <1>1, <1>2, <2>1
<1>4. /\ hdr'[c] = Header(n, FALSE, new) /\ hdr'[new] = hdr[new]
      /\ \A b \in blocks \ {c} : hdr'[b] = hdr[b]
  <2>1. hdr \in [Addresses -> Headers] /\ blocks \subseteq Addresses
    BY DEF TypeOK, Headers
  <2>2. new \in Addresses /\ new # c
    BY <1>1, <1>2
  <2> HIDE DEF new
  <2>3. hdr' = [hdr EXCEPT ![c] = Header(n, FALSE, new)]
    BY DEF new
  <2> QED
    BY <1>1, <2>1, <2>2, <2>3
<1>5. /\ hdr'[c].size = n /\ hdr'[c].next = new
      /\ hdr'[new].size = hdr[c].size - n - Hdr /\ hdr'[new].next = hdr[c].next
  <2>1. n \in 0 .. HeapSize /\ hdr[c].size - n - Hdr \in 0 .. HeapSize
    BY <1>1, <1>2, Constants DEF EndOf
  <2>2. n \in Int /\ FALSE \in BOOLEAN /\ new \in Addresses \cup {NULL}
    OBVIOUS
  <2>3. Header(n, FALSE, new).size = n /\ Header(n, FALSE, new).next = new
    BY <2>1, <2>2, HeaderFields
  <2>4. hdr[c].size - n - Hdr \in Int /\ TRUE \in BOOLEAN
    BY <2>1
  <2>5. /\ Header(hdr[c].size - n - Hdr, TRUE, hdr[c].next).size = hdr[c].size - n - Hdr
        /\ Header(hdr[c].size - n - Hdr, TRUE, hdr[c].next).next = hdr[c].next
    BY <1>1, <2>1, <2>4, HeaderFields
  <2> QED
    BY <1>4, <2>3, <2>5
<1>6. new + Hdr + hdr'[new].size = EndOf(c) /\ c + Hdr + hdr'[c].size = new
  <2>1. c + n + Hdr + Hdr + (hdr[c].size - n - Hdr) = EndOf(c)
    BY <1>1, Constants DEF EndOf
  <2>2. c + Hdr + n = new
    BY <1>1, Constants
  <2> QED
    BY <1>5, <2>1, <2>2
<1> HIDE DEF new
<1>7. blocks' = blocks \cup {new}
  BY DEF new
<1>8. Sized'
  <2>1. hdr'[new].size >= 1 /\ hdr'[c].size >= 1
    <3>1. hdr[c].size - n - Hdr >= 1 /\ n >= 1
      BY <1>1, Constants
    <3> QED
      BY <1>5, <3>1
  <2> QED
    BY <1>4, <1>7, <2>1 DEF Sized
<1>9. \A b \in blocks' : IF hdr'[b].next = NULL THEN b + Hdr + hdr'[b].size = HeapSize
                         ELSE hdr'[b].next = b + Hdr + hdr'[b].size /\ hdr'[b].next \in blocks'
  <2>1. ASSUME NEW b \in blocks \ {c}
        PROVE  IF hdr'[b].next = NULL THEN b + Hdr + hdr'[b].size = HeapSize
               ELSE hdr'[b].next = b + Hdr + hdr'[b].size /\ hdr'[b].next \in blocks'
    BY <1>4, <1>7 DEF Tiles
  <2>2. hdr'[new].next = NULL => new + Hdr + hdr'[new].size = HeapSize
    BY <1>1, <1>5, <1>6
  <2>3. hdr'[new].next # NULL => /\ hdr'[new].next = new + Hdr + hdr'[new].size
                                 /\ hdr'[new].next \in blocks'
    BY <1>1, <1>5, <1>6, <1>7
  <2>4. hdr'[c].next = c + Hdr + hdr'[c].size /\ hdr'[c].next \in blocks' /\ hdr'[c].next # NULL
    <3>1. new # NULL
      BY Constants DEF new
    <3> QED
      BY <1>5, <1>6, <1>7, <3>1
  <2> QED
    BY <1>7, <2>1, <2>2, <2>3, <2>4
<1>10. \A a, b \in blocks' : a < b => a + Hdr + hdr'[a].size <= b
  <2>1. SUFFICES ASSUME NEW a \in blocks', NEW b \in blocks', a < b
                 PROVE  a + Hdr + hdr'[a].size <= b
    OBVIOUS
  <2>2. CASE a = new
    <3>1. b \in blocks /\ b \in Nat
      BY <1>2, <1>7, <2>1, <2>2, BlockFacts
    <3>2. c < b
      BY <1>1, <1>2, <2>1, <2>2, <3>1
    <3> QED
      BY <1>6, <2>2, <3>1, <3>2, Apart
  <2>3. CASE a = c
    <3>1. CASE b = new
      <4>1. a + Hdr + hdr'[a].size = new
        BY <1>6, <2>3
      <4>2. new <= b
        BY <1>2, <3>1
      <4> QED
        BY <4>1, <4>2
    <3>2. CASE b \in blocks
      <4>1. EndOf(c) <= b /\ b \in Nat /\ EndOf(c) \in Nat
        BY <2>1, <2>3, <3>2, Apart, BlockFacts
      <4> QED
        <5>1. a + Hdr + hdr'[a].size = new
          BY <1>6, <2>3
        <5>2. new <= b
          BY <1>2, <4>1
        <5> QED
          BY <5>1, <5>2
    <3> QED
      BY <1>7, <3>1, <3>2
  <2>4. CASE a \in blocks /\ a # c
    <3>1. a + Hdr + hdr'[a].size = EndOf(a) /\ a \in Nat /\ EndOf(a) \in Nat
      BY <1>4, <2>4, BlockFacts DEF EndOf
    <3>2. CASE b \in blocks
      BY <2>1, <2>4, <3>1, <3>2, Apart
    <3>3. CASE b = new
      <4>1. CASE a < c
        <5>1. EndOf(a) <= c
          BY <2>4, <4>1, Apart
        <5>2. EndOf(a) <= new
          BY <1>1, <1>2, <3>1, <5>1
        <5> QED
          BY <3>1, <3>3, <5>2
      <4>2. CASE c < a
        <5>1. EndOf(c) <= a /\ EndOf(c) \in Nat
          BY <2>4, <4>2, Apart, BlockFacts
        <5> QED
          BY <1>2, <2>1, <3>1, <3>3, <5>1
      <4> QED
        BY <1>1, <2>4, <3>1, <4>1, <4>2
    <3> QED
      BY <1>7, <3>2, <3>3
  <2> QED
    BY <1>7, <2>2, <2>3, <2>4
<1>11. freeList \in blocks'
  BY <1>7 DEF Tiles
<1> QED
  BY <1>8, <1>9, <1>10, <1>11 DEF Tiles

(* A block takes in the one behind it.                                      *)
LEMMA AbsorbTiles ==
  ASSUME TypeOK, Tiles, Sized, NEW a \in blocks, hdr[a].next # NULL,
         hdr' = [hdr EXCEPT ![a] = Absorbed(a)],
         blocks' = blocks \ {hdr[a].next}
  PROVE  /\ Tiles' /\ Sized' /\ a \in blocks'
         /\ hdr[hdr[a].next].next # NULL => hdr[hdr[a].next].next \in blocks'
<1> DEFINE n == hdr[a].next
<1>1. /\ a \in Nat /\ a \in Addresses /\ hdr[a].size \in Nat /\ hdr[a].free \in BOOLEAN
      /\ n = EndOf(a) /\ n \in blocks /\ a < n
  BY BlockFacts
<1>2. /\ n \in Nat /\ hdr[n].size \in Nat /\ n < EndOf(n) /\ EndOf(n) <= HeapSize
      /\ EndOf(n) \in Nat /\ hdr[n].next \in Addresses \cup {NULL}
      /\ IF hdr[n].next = NULL THEN EndOf(n) = HeapSize
         ELSE hdr[n].next = EndOf(n) /\ EndOf(n) \in blocks
  BY <1>1, BlockFacts
<1>3. hdr[n].next # NULL => hdr[n].next \in blocks' /\ hdr[n].next # n
  BY <1>2
<1>4. hdr'[a] = Absorbed(a) /\ \A b \in blocks \ {a} : hdr'[b] = hdr[b]
  BY <1>1 DEF TypeOK
<1>5. hdr'[a].size = hdr[a].size + hdr[n].size + Hdr /\ hdr'[a].next = hdr[n].next
  <2>1. hdr[a].size + hdr[n].size + Hdr \in 0 .. HeapSize
    BY <1>1, <1>2, Constants DEF EndOf
  <2>2. hdr[a].size + hdr[n].size + Hdr \in Int
    BY <2>1
  <2>3. /\ Header(hdr[a].size + hdr[n].size + Hdr, hdr[a].free, hdr[n].next).size
              = hdr[a].size + hdr[n].size + Hdr
        /\ Header(hdr[a].size + hdr[n].size + Hdr, hdr[a].free, hdr[n].next).next = hdr[n].next
    BY <1>1, <1>2, <2>1, <2>2, HeaderFields
  <2> QED
    BY <1>4, <2>3 DEF Absorbed
<1>6. a + Hdr + hdr'[a].size = EndOf(n)
  BY <1>1, <1>2, <1>5, Constants DEF EndOf
<1> HIDE DEF n
<1>7. blocks' = blocks \ {n} /\ a \in blocks' /\ a \in blocks
  BY <1>1 DEF n
<1>8. Sized'
  BY <1>1, <1>2, <1>4, <1>5, <1>7, Constants DEF Sized
<1>9. \A b \in blocks' : IF hdr'[b].next = NULL THEN b + Hdr + hdr'[b].size = HeapSize
                         ELSE hdr'[b].next = b + Hdr + hdr'[b].size /\ hdr'[b].next \in blocks'
  <2>1. ASSUME NEW b \in blocks \ {n}, b # a
        PROVE  IF hdr'[b].next = NULL THEN b + Hdr + hdr'[b].size = HeapSize
               ELSE hdr'[b].next = b + Hdr + hdr'[b].size /\ hdr'[b].next \in blocks'
    <3>1. hdr'[b] = hdr[b] /\ b + Hdr + hdr'[b].size = EndOf(b)
      BY <1>4, <2>1 DEF EndOf
    <3>2. /\ b \in Nat /\ EndOf(b) \in Nat /\ b < EndOf(b)
          /\ IF hdr[b].next = NULL THEN EndOf(b) = HeapSize
             ELSE hdr[b].next = EndOf(b) /\ EndOf(b) \in blocks
      BY <2>1, BlockFacts
    <3>3. EndOf(b) # n
      <4>1. CASE b < a
        <5>1. EndOf(b) <= a
          BY <2>1, <4>1, Apart
        <5> QED
          BY <1>1, <1>2, <3>2, <5>1
      <4>2. CASE a < b
        <5>1. EndOf(a) <= b
          BY <2>1, <4>2, Apart
        <5> QED
          BY <1>1, <1>2, <3>2, <5>1
      <4> QED
        BY <1>1, <2>1, <3>2, <4>1, <4>2
    <3> QED
      BY <1>7, <3>1, <3>2, <3>3
  <2>2. IF hdr'[a].next = NULL THEN a + Hdr + hdr'[a].size = HeapSize
        ELSE hdr'[a].next = a + Hdr + hdr'[a].size /\ hdr'[a].next \in blocks'
    BY <1>2, <1>3, <1>5, <1>6
  <2> QED
    BY <1>7, <2>1, <2>2
<1>10. \A x, y \in blocks' : x < y => x + Hdr + hdr'[x].size <= y
  <2>1. SUFFICES ASSUME NEW x \in blocks \ {n}, NEW y \in blocks \ {n}, x < y
                 PROVE  x + Hdr + hdr'[x].size <= y
    BY <1>7
  <2>2. CASE x = a
    <3>1. EndOf(a) <= y /\ y \in Nat /\ y # n
      BY <2>1, <2>2, Apart, BlockFacts
    <3>2. n < y
      BY <1>1, <1>2, <3>1
    <3>3. EndOf(n) <= y
      BY <1>1, <2>1, <3>2, Apart
    <3> QED
      BY <1>6, <2>2, <3>3
  <2>3. CASE x # a
    <3>1. x + Hdr + hdr'[x].size = EndOf(x)
      BY <1>4, <2>1, <2>3 DEF EndOf
    <3> QED
      BY <2>1, <3>1, Apart
  <2> QED
    BY <2>2, <2>3
<1>11. freeList \in blocks'
  BY <1>1, <1>2, <1>7, Constants DEF Tiles
<1>12. Tiles'
  BY <1>9, <1>10, <1>11 DEF Tiles
<1> QED
  BY <1>3, <1>7, <1>8, <1>12 DEF n

-----------------------------------------------------------------------------
(* Where a thread inside is, and what frag has done so far.                 *)
StagedFor(t) ==
  /\ pc[t] \in Section => current[t] \in blocks
  /\ pc[t] \in Section \ {"merge"} => request[t] \in Nat \ {0}
  /\ pc[t] \in {"split", "link"} => hdr[current[t]].size > request[t] + Hdr
  /\ pc[t] = "link" =>
       hdr[NewBlock(t)] = Header(hdr[current[t]].size - request[t] - Hdr, TRUE,
                                 hdr[current[t]].next)
  /\ pc[t] = "absorb" => NewBlock(t) \in blocks

BeforeInit ==
  /\ blocks = {freeList} /\ hdr[freeList].size = 0
  /\ \A t \in Threads : pc[t] \in {"none", "create", "call"}

Alone == \A t, u \in Threads : pc[t] \in Section /\ pc[u] \in Section => t = u

Tiled == Tiles /\ Sized /\ \A t \in Threads : StagedFor(t)

SInv == ~raced => Alone /\ IF inits = 0 THEN BeforeInit ELSE Tiled

LEMMA InitSInv == Init => SInv
<1> SUFFICES ASSUME Init PROVE SInv
  OBVIOUS
<1>1. \A t \in Threads : pc[t] \in {"none", "create"}
  BY DEF Init
<1>2. Header(0, FALSE, NULL).size = 0
  <2>1. 0 \in Int /\ FALSE \in BOOLEAN /\ NULL \in Addresses \cup {NULL} /\ 0 \in 0 .. HeapSize
    BY Constants
  <2> QED
    BY <2>1, HeaderFields
<1>3. hdr[freeList].size = 0
  BY <1>2, Constants DEF Init
<1> QED
  BY <1>1, <1>3 DEF Init, SInv, Alone, BeforeInit, Section

(* A thread inside moves: it is the only one, and stays or leaves.          *)
LEMMA InsideAlone ==
  ASSUME TInv, SInv, ~raced, NEW t \in Threads, pc[t] \in Section
  PROVE  /\ inits # 0 /\ Tiles /\ Sized /\ StagedFor(t) /\ TypeOK
         /\ \A u \in Threads \ {t} : pc[u] \notin Section
  BY DEF TInv, SInv, Alone, BeforeInit, Tiled, Section

LEMMA InsideStep ==
  ASSUME TInv, SInv, ~raced, NEW t \in Threads, pc[t] \in Section,
         TypedThreads(t), UNCHANGED <<inits, raced>>,
         Tiles', Sized', StagedFor(t)'
  PROVE  SInv'
<1>1. inits' # 0 /\ \A u \in Threads \ {t} : pc'[u] \notin Section
  BY InsideAlone DEF TypedThreads
<1>2. \A u \in Threads \ {t} : StagedFor(u)'
  BY <1>1 DEF StagedFor, Section
<1>3. Alone'
  BY <1>1 DEF Alone
<1> QED
  BY <1>1, <1>2, <1>3 DEF SInv, Tiled

(* A step outside that leaves the heap alone.                               *)
LEMMA OutsideStep ==
  ASSUME TInv, SInv, NEW t \in Threads, pc[t] \notin Section, pc'[t] \notin Section,
         pc'[t] \in {"none", "create", "call"} \/ pc[t] \notin {"none", "create", "call"},
         TypedThreads(t), UNCHANGED <<hdr, history>>
  PROVE  SInv'
<1>1. SUFFICES ASSUME ~raced PROVE Alone' /\ IF inits = 0 THEN BeforeInit' ELSE Tiled'
  BY DEF SInv, history
<1>2. Alone /\ IF inits = 0 THEN BeforeInit ELSE Tiled
  BY <1>1 DEF SInv
<1>3. Alone'
  BY <1>2 DEF Alone, TypedThreads
<1>4. ASSUME inits = 0 PROVE BeforeInit'
  BY <1>2, <1>4 DEF BeforeInit, TypedThreads, history
<1>5. ASSUME inits # 0 PROVE Tiled'
  <2>1. Tiles /\ Sized /\ \A u \in Threads : StagedFor(u)
    BY <1>2, <1>5 DEF Tiled
  <2>2. Tiles' /\ Sized'
    BY <2>1, SameTiles DEF history
  <2>3. StagedFor(t)'
    BY DEF StagedFor, Section
  <2>4. ASSUME NEW u \in Threads \ {t} PROVE StagedFor(u)'
    BY <2>1, <2>4 DEF StagedFor, TypedThreads, NewBlock, history
  <2> QED
    BY <2>2, <2>3, <2>4 DEF Tiled
<1> QED
  BY <1>3, <1>4, <1>5

(* The two ways in.                                                         *)
LEMMA LockAndInitSafe ==
  ASSUME TInv, SInv, NEW t \in Threads, LockAndInit(t)
  PROVE  SInv'
<1>1. SUFFICES ASSUME ~raced' PROVE Alone' /\ IF inits' = 0 THEN BeforeInit' ELSE Tiled'
  BY DEF SInv
<1>2. TypeOK /\ TypedThreads(t)
  BY LockAndInitTyped DEF TInv
<1>3. ~raced /\ \A u \in Threads : pc[u] \notin Section
  BY <1>1 DEF LockAndInit, Enters, Inside
<1>4. PICK n \in Requests(t) : request' = [request EXCEPT ![t] = n]
  BY DEF LockAndInit
<1>5. n \in Nat \ {0} /\ request'[t] = n
  BY <1>2, <1>4, RequestsPositive DEF TypeOK
<1>6. pc'[t] = "search" /\ current'[t] = freeList
  BY <1>2, GotoTyped, Constants DEF LockAndInit, Places
<1>7. \A u \in Threads \ {t} : pc'[u] \notin Section
  BY <1>2, <1>3 DEF TypedThreads
<1>8. Alone'
  BY <1>7 DEF Alone
<1>9. Alone /\ IF inits = 0 THEN BeforeInit ELSE Tiled
  BY <1>3 DEF SInv
<1>10. blocks' = blocks
  BY DEF LockAndInit
<1>11. inits' # 0 /\ Tiles' /\ Sized'
  <2>1. CASE inits = 0
    <3>1. blocks = {freeList} /\ hdr[freeList].size = 0
      BY <1>9, <2>1 DEF BeforeInit
    <3>2. /\ hdr' = [hdr EXCEPT ![freeList] = Header(HeapSize - Hdr, TRUE, NULL)]
          /\ inits' = inits + 1
      BY <3>1 DEF LockAndInit
    <3>3. /\ Header(HeapSize - Hdr, TRUE, NULL).size = HeapSize - Hdr
          /\ Header(HeapSize - Hdr, TRUE, NULL).next = NULL
      <4>1. /\ HeapSize - Hdr \in Int /\ TRUE \in BOOLEAN /\ NULL \in Addresses \cup {NULL}
            /\ HeapSize - Hdr \in 0 .. HeapSize
        BY Constants
      <4> QED
        BY <4>1, HeaderFields
    <3>4. hdr'[freeList] = Header(HeapSize - Hdr, TRUE, NULL)
      BY <1>2, <3>2, Constants DEF TypeOK
    <3>5. hdr'[freeList].size = HeapSize - Hdr /\ hdr'[freeList].next = NULL
      BY <3>3, <3>4
    <3>6. freeList + Hdr + hdr'[freeList].size = HeapSize /\ hdr'[freeList].size >= 1
      BY <3>5, Constants
    <3>7. blocks' = {freeList}
      BY <1>10, <3>1
    <3>8. Sized'
      BY <3>6, <3>7 DEF Sized
    <3>9. Tiles'
      BY <3>5, <3>6, <3>7, Constants DEF Tiles
    <3>10. inits' # 0
      BY <2>1, <3>2
    <3> QED
      BY <3>8, <3>9, <3>10
  <2>2. CASE inits # 0
    <3>1. Tiles /\ Sized
      BY <1>9, <2>2 DEF Tiled
    <3>2. hdr[freeList].size # 0
      BY <3>1 DEF Tiles, Sized
    <3>3. hdr' = hdr /\ inits' = inits
      BY <3>2 DEF LockAndInit
    <3> QED
      BY <1>10, <2>2, <3>1, <3>3, SameTiles
  <2> QED
    BY <2>1, <2>2
<1>12. StagedFor(t)'
  <2>1. freeList \in blocks'
    BY <1>11 DEF Tiles
  <2> QED
    BY <1>5, <1>6, <2>1 DEF StagedFor
<1>13. \A u \in Threads \ {t} : StagedFor(u)'
  BY <1>7 DEF StagedFor, Section
<1> QED
  BY <1>8, <1>11, <1>12, <1>13 DEF Tiled

LEMMA LockAndMarkSafe ==
  ASSUME TInv, SInv, NEW t \in Threads, LockAndMark(t)
  PROVE  SInv'
<1>1. SUFFICES ASSUME ~raced' PROVE Alone' /\ IF inits' = 0 THEN BeforeInit' ELSE Tiled'
  BY DEF SInv
<1>2. TypeOK /\ TypedThreads(t)
  BY LockAndMarkTyped DEF TInv
<1>3. ~raced /\ \A u \in Threads : pc[u] \notin Section
  BY <1>1 DEF LockAndMark, Enters, Inside
<1>4. pc'[t] = "merge" /\ current'[t] = freeList
  BY <1>2, GotoTyped, Constants DEF LockAndMark, Places
<1>5. \A u \in Threads \ {t} : pc'[u] \notin Section
  BY <1>2, <1>3 DEF TypedThreads
<1>6. Alone'
  BY <1>5 DEF Alone
<1>7. inits # 0 /\ Tiles /\ Sized
  BY <1>3 DEF SInv, BeforeInit, Tiled, LockAndMark, At
<1>8. Tiles' /\ Sized' /\ inits' = inits
  <2>1. /\ hdr' = [hdr EXCEPT ![Head(mem[t]) - Hdr].free = TRUE]
        /\ blocks' = blocks /\ inits' = inits
    BY DEF LockAndMark
  <2>2. \A b \in blocks : hdr'[b].size = hdr[b].size /\ hdr'[b].next = hdr[b].next
    BY <1>2, <2>1 DEF TypeOK
  <2> QED
    BY <1>7, <2>1, <2>2, SameTiles
<1>9. StagedFor(t)'
  <2>1. freeList \in blocks'
    BY <1>8 DEF Tiles
  <2> QED
    BY <1>4, <2>1 DEF StagedFor
<1>10. \A u \in Threads \ {t} : StagedFor(u)'
  BY <1>5 DEF StagedFor, Section
<1> QED
  BY <1>6, <1>7, <1>8, <1>9, <1>10 DEF Tiled

-----------------------------------------------------------------------------
(* The steps inside.                                                        *)
LEMMA SearchSafe ==
  ASSUME TInv, SInv, ~raced, NEW t \in Threads, Search(t)
  PROVE  SInv'
<1>1. pc[t] \in Section /\ pc[t] = "search" /\ TypedThreads(t)
  BY SearchTyped DEF Search, At, Section
<1>2. Tiles /\ Sized /\ StagedFor(t) /\ TypeOK
  BY <1>1, InsideAlone
<1>3. current[t] \in blocks /\ request[t] \in Nat \ {0}
  BY <1>1, <1>2 DEF StagedFor, Section
<1>4. hdr[current[t]].next # NULL => hdr[current[t]].next \in blocks
  BY <1>2, <1>3, BlockFacts
<1>5. PICK a \in blocks, place \in {"search", "serve"} : Goto(t, place, a)
  BY <1>3, <1>4 DEF Search
<1>6. pc'[t] = place /\ current'[t] = a
  BY <1>2, <1>5, GotoTyped DEF TypeOK, Places
<1>7. UNCHANGED <<hdr, blocks, inits, raced, request>>
  BY DEF Search, history
<1>8. Tiles' /\ Sized'
  BY <1>2, <1>7, SameTiles
<1>9. StagedFor(t)'
  BY <1>3, <1>5, <1>6, <1>7 DEF StagedFor
<1> QED
  BY <1>1, <1>7, <1>8, <1>9, InsideStep

LEMMA ServeSafe ==
  ASSUME TInv, SInv, ~raced, NEW t \in Threads, ServeExact(t) \/ ServeSplit(t) \/ ServeNull(t)
  PROVE  SInv'
<1>1. pc[t] \in Section /\ pc[t] = "serve" /\ TypedThreads(t)
  BY ServeExactTyped, ServeSplitTyped, ServeNullTyped
     DEF ServeExact, ServeSplit, ServeNull, At, Section
<1>2. Tiles /\ Sized /\ StagedFor(t) /\ TypeOK
  BY <1>1, InsideAlone
<1>3. current[t] \in blocks /\ request[t] \in Nat \ {0}
  BY <1>1, <1>2 DEF StagedFor, Section
<1>4. UNCHANGED <<blocks, inits, raced, request>>
  BY DEF ServeExact, ServeSplit, ServeNull, history
<1>5. Tiles' /\ Sized'
  <2>1. \A b \in blocks : hdr'[b].size = hdr[b].size /\ hdr'[b].next = hdr[b].next
    <3>1. CASE ServeExact(t)
      BY <1>2, <3>1 DEF ServeExact, TypeOK
    <3>2. CASE ServeSplit(t) \/ ServeNull(t)
      BY <3>2 DEF ServeSplit, ServeNull
    <3> QED
      BY <3>1, <3>2
  <2> QED
    BY <1>2, <1>4, <2>1, SameTiles
<1>6. StagedFor(t)'
  <2>1. CASE ServeSplit(t)
    <3>1. pc'[t] = "split" /\ current'[t] = current[t]
      BY <1>2, <2>1, GotoTyped DEF ServeSplit, TypeOK, Places
    <3>2. hdr' = hdr /\ hdr[current[t]].size > request[t] + Hdr
      BY <2>1 DEF ServeSplit
    <3> QED
      BY <1>3, <1>4, <3>1, <3>2 DEF StagedFor
  <2>2. CASE ServeExact(t) \/ ServeNull(t)
    <3>1. PICK place \in {"call", "free", "ended"} : Goto(t, place, freeList)
      BY <2>2 DEF ServeExact, ServeNull, Return, ReturnNull
    <3>2. pc'[t] = place
      BY <1>2, <3>1, GotoTyped, Constants DEF Places
    <3> QED
      BY <3>2 DEF StagedFor, Section
  <2> QED
    BY <2>1, <2>2
<1> QED
  BY <1>1, <1>4, <1>5, <1>6, InsideStep

LEMMA FragNewSafe ==
  ASSUME TInv, SInv, ~raced, NEW t \in Threads, FragNew(t)
  PROVE  SInv'
<1>1. pc[t] \in Section /\ pc[t] = "split" /\ TypedThreads(t)
  BY FragNewTyped DEF FragNew, At, Section
<1>2. Tiles /\ Sized /\ StagedFor(t) /\ TypeOK
  BY <1>1, InsideAlone
<1>3. /\ current[t] \in blocks /\ request[t] \in Nat \ {0}
      /\ hdr[current[t]].size > request[t] + Hdr
  BY <1>1, <1>2 DEF StagedFor, Section
<1>4. UNCHANGED <<blocks, inits, raced, request>>
  BY DEF FragNew, history
<1>5. CASE Clashes(NewBlock(t))
  <2>1. UNCHANGED <<hdr, pc, current>>
    BY <1>5 DEF FragNew
  <2>2. Tiles' /\ Sized'
    BY <1>2, <1>4, <2>1, SameTiles
  <2>3. StagedFor(t)'
    BY <1>2, <1>4, <2>1 DEF StagedFor, NewBlock
  <2> QED
    BY <1>1, <1>4, <2>2, <2>3, InsideStep
<1>6. CASE ~Clashes(NewBlock(t))
  <2>1. /\ hdr' = [hdr EXCEPT ![NewBlock(t)] =
                     Header(hdr[current[t]].size - request[t] - Hdr, TRUE, hdr[current[t]].next)]
        /\ Goto(t, "link", current[t])
    BY <1>6 DEF FragNew
  <2>2. NewBlock(t) \in Addresses /\ NewBlock(t) \notin blocks
    <3>1. NewBlock(t) \in Addresses
      BY <1>6 DEF Clashes
    <3>2. current[t] \in Nat /\ hdr[current[t]].size \in Nat /\ EndOf(current[t]) \in Nat
      BY <1>2, <1>3, BlockFacts
    <3>3. current[t] < NewBlock(t) /\ NewBlock(t) < EndOf(current[t]) /\ NewBlock(t) \in Nat
      BY <1>3, <3>2, Constants DEF NewBlock, EndOf
    <3>4. NewBlock(t) \in blocks => EndOf(current[t]) <= NewBlock(t)
      BY <1>2, <1>3, <3>3, Apart
    <3> QED
      BY <3>1, <3>2, <3>3, <3>4
  <2>3. \A b \in blocks : hdr'[b] = hdr[b]
    BY <1>2, <2>1, <2>2 DEF TypeOK
  <2>4. Tiles' /\ Sized'
    BY <1>2, <1>4, <2>3, SameTiles
  <2>5. pc'[t] = "link" /\ current'[t] = current[t]
    BY <1>2, <1>3, <2>1, GotoTyped DEF TypeOK, Places
  <2>6. /\ hdr'[NewBlock(t)] = Header(hdr[current[t]].size - request[t] - Hdr, TRUE,
                                      hdr[current[t]].next)
        /\ hdr'[current[t]] = hdr[current[t]]
    BY <1>2, <1>3, <2>1, <2>2, <2>3 DEF TypeOK
  <2>7. NewBlock(t)' = NewBlock(t)
    BY <1>4, <2>5 DEF NewBlock
  <2>8. StagedFor(t)'
    BY <1>3, <1>4, <2>5, <2>6, <2>7 DEF StagedFor
  <2> QED
    BY <1>1, <1>4, <2>4, <2>8, InsideStep
<1> QED
  BY <1>5, <1>6

LEMMA FragLinkSafe ==
  ASSUME TInv, SInv, ~raced, NEW t \in Threads, FragLink(t)
  PROVE  SInv'
<1>1. pc[t] \in Section /\ pc[t] = "link" /\ TypedThreads(t)
  BY FragLinkTyped DEF FragLink, At, Section
<1>2. Tiles /\ Sized /\ StagedFor(t) /\ TypeOK
  BY <1>1, InsideAlone
<1>3. /\ current[t] \in blocks /\ request[t] \in Nat \ {0}
      /\ hdr[current[t]].size > request[t] + Hdr
      /\ hdr[NewBlock(t)] = Header(hdr[current[t]].size - request[t] - Hdr, TRUE,
                                   hdr[current[t]].next)
  BY <1>1, <1>2 DEF StagedFor, Section
<1>4. /\ hdr' = [hdr EXCEPT ![current[t]] = Header(request[t], FALSE, NewBlock(t))]
      /\ blocks' = blocks \cup {NewBlock(t)}
      /\ UNCHANGED <<inits, raced, request>> /\ Goto(t, "absorb", current[t])
  BY DEF FragLink
<1>5. NewBlock(t) = current[t] + request[t] + Hdr /\ NewBlock(t) \in Addresses
  BY <1>1 DEF NewBlock, TInv, Placed
<1>6. Tiles' /\ Sized'
  BY <1>2, <1>3, <1>4, <1>5, SplitTiles
<1>7. pc'[t] = "absorb" /\ current'[t] = current[t]
  BY <1>2, <1>3, <1>4, GotoTyped DEF TypeOK, Places
<1>8. StagedFor(t)'
  BY <1>3, <1>4, <1>7 DEF StagedFor, NewBlock
<1> QED
  BY <1>1, <1>4, <1>6, <1>8, InsideStep

LEMMA FragAbsorbSafe ==
  ASSUME TInv, SInv, ~raced, NEW t \in Threads, FragAbsorb(t)
  PROVE  SInv'
<1>1. pc[t] \in Section /\ pc[t] = "absorb" /\ TypedThreads(t)
  BY FragAbsorbTyped DEF FragAbsorb, At, Section
<1>2. Tiles /\ Sized /\ StagedFor(t) /\ TypeOK
  BY <1>1, InsideAlone
<1>3. NewBlock(t) \in blocks
  BY <1>1, <1>2 DEF StagedFor
<1>4. UNCHANGED <<inits, raced>>
  BY DEF FragAbsorb
<1>5. Tiles' /\ Sized'
  <2>1. CASE TooSmall(NewBlock(t))
    <3>1. /\ hdr' = [hdr EXCEPT ![NewBlock(t)] = Absorbed(NewBlock(t))]
          /\ blocks' = blocks \ {hdr[NewBlock(t)].next}
          /\ hdr[NewBlock(t)].next # NULL
      BY <2>1 DEF FragAbsorb, TooSmall, NextFree
    <3> QED
      BY <1>2, <1>3, <3>1, AbsorbTiles
  <2>2. CASE ~TooSmall(NewBlock(t))
    <3>1. hdr' = hdr /\ blocks' = blocks
      BY <2>2 DEF FragAbsorb
    <3> QED
      BY <1>2, <3>1, SameTiles
  <2> QED
    BY <2>1, <2>2
<1>6. StagedFor(t)'
  <2>1. PICK place \in {"call", "free"} : Goto(t, place, freeList)
    BY DEF FragAbsorb, Return
  <2>2. pc'[t] = place
    BY <1>2, <2>1, GotoTyped, Constants DEF Places
  <2> QED
    BY <2>2 DEF StagedFor, Section
<1> QED
  BY <1>1, <1>4, <1>5, <1>6, InsideStep

LEMMA MergeSafe ==
  ASSUME TInv, SInv, ~raced, NEW t \in Threads, Merge(t)
  PROVE  SInv'
<1> DEFINE a    == current[t]
           step == IF BothFree(a) THEN hdr[hdr[a].next].next ELSE hdr[a].next
<1>1. pc[t] \in Section /\ pc[t] = "merge" /\ TypedThreads(t)
  BY MergeTyped DEF Merge, At, Section
<1>2. Tiles /\ Sized /\ StagedFor(t) /\ TypeOK
  BY <1>1, InsideAlone
<1>3. a \in blocks /\ hdr[a].next # NULL
  BY <1>1, <1>2 DEF StagedFor, Merge
<1>4. UNCHANGED <<inits, raced, request>>
  BY DEF Merge
<1>5. Tiles' /\ Sized' /\ a \in blocks' /\ (step # NULL => step \in blocks')
  <2>1. CASE BothFree(a)
    <3>1. hdr' = [hdr EXCEPT ![a] = Absorbed(a)] /\ blocks' = blocks \ {hdr[a].next}
      BY <2>1 DEF Merge
    <3> QED
      BY <1>2, <1>3, <2>1, <3>1, AbsorbTiles
  <2>2. CASE ~BothFree(a)
    <3>1. hdr' = hdr /\ blocks' = blocks
      BY <2>2 DEF Merge
    <3>2. hdr[a].next \in blocks
      BY <1>2, <1>3, BlockFacts
    <3> QED
      BY <1>2, <1>3, <2>2, <3>1, <3>2, SameTiles
  <2> QED
    BY <2>1, <2>2
<1>6. \/ UNCHANGED <<pc, current>>
      \/ step # NULL /\ Goto(t, "merge", step)
  BY DEF Merge
<1> HIDE DEF step
<1>7. StagedFor(t)'
  <2>1. CASE UNCHANGED <<pc, current>>
    BY <1>1, <1>5, <2>1 DEF StagedFor, Section
  <2>2. CASE step # NULL /\ Goto(t, "merge", step)
    <3>1. step \in blocks' /\ blocks' \subseteq Addresses
      BY <1>5, <2>2, MergeTyped DEF TypedGlobals
    <3>2. pc'[t] = "merge" /\ current'[t] = step
      BY <1>2, <2>2, <3>1, GotoTyped DEF Places
    <3> QED
      BY <3>1, <3>2 DEF StagedFor
  <2> QED
    BY <1>6, <2>1, <2>2
<1> QED
  BY <1>1, <1>4, <1>5, <1>7, InsideStep

LEMMA MergeEndSafe ==
  ASSUME TInv, SInv, ~raced, NEW t \in Threads, MergeEnd(t)
  PROVE  SInv'
<1>1. pc[t] \in Section /\ TypedThreads(t)
  BY MergeEndTyped DEF MergeEnd, At, Section
<1>2. Tiles /\ Sized /\ StagedFor(t) /\ TypeOK
  BY <1>1, InsideAlone
<1>3. UNCHANGED <<hdr, blocks, inits, raced>>
  BY DEF MergeEnd, history
<1>4. Tiles' /\ Sized'
  BY <1>2, <1>3, SameTiles
<1>5. pc'[t] = "again"
  BY <1>2, GotoTyped, Constants DEF MergeEnd, Places
<1>6. StagedFor(t)'
  BY <1>5 DEF StagedFor, Section
<1> QED
  BY <1>1, <1>3, <1>4, <1>6, InsideStep

-----------------------------------------------------------------------------
(* The steps outside.                                                       *)
LEMMA UnlockAgainSafe ==
  ASSUME TInv, SInv, NEW t \in Threads, UnlockAgain(t)
  PROVE  SInv'
<1>1. pc[t] = "again" /\ TypedThreads(t) /\ UNCHANGED <<hdr, history>>
  BY UnlockAgainTyped DEF UnlockAgain, At
<1>2. PICK place \in {"ended", "free"} : Goto(t, place, freeList)
  BY DEF UnlockAgain
<1>3. pc'[t] = place
  BY <1>2, GotoTyped, Constants DEF TInv, Places
<1> QED
  BY <1>1, <1>2, <1>3, OutsideStep DEF Section

LEMMA ThreadStepSafe ==
  ASSUME TInv, SInv, NEW t \in Threads, ThreadStep(t)
  PROVE  SInv'
<1>1. CASE LockAndInit(t) \/ LockAndMark(t) \/ UnlockAgain(t)
  BY <1>1, LockAndInitSafe, LockAndMarkSafe, UnlockAgainSafe
<1>2. CASE /\ ~(LockAndInit(t) \/ LockAndMark(t) \/ UnlockAgain(t))
           /\ ~raced
  BY <1>2, SearchSafe, ServeSafe, FragNewSafe, FragLinkSafe, FragAbsorbSafe, MergeSafe,
     MergeEndSafe DEF ThreadStep
<1>3. CASE /\ ~(LockAndInit(t) \/ LockAndMark(t) \/ UnlockAgain(t))
           /\ raced
  <2>1. raced' = raced
    BY <1>3 DEF ThreadStep, Search, ServeExact, ServeSplit, ServeNull, FragNew, FragLink,
                FragAbsorb, Merge, MergeEnd, history
  <2> QED
    BY <1>3, <2>1 DEF SInv
<1> QED
  BY <1>1, <1>2, <1>3

(* main starts a thread outside, or goes on itself.                         *)
LEMMA MainSafe ==
  ASSUME TInv, SInv, main
  PROVE  SInv'
<1>1. TypeOK /\ UNCHANGED <<locked, hdr, current, request, mem, process, history>>
  BY DEF TInv, main
<1>2. PICK u : pc' = [pc EXCEPT ![u] = "call"]
  BY DEF main
<1>3. \A v \in Threads : pc'[v] = pc[v] \/ pc'[v] = "call"
  BY <1>1, <1>2 DEF TypeOK
<1>4. SUFFICES ASSUME ~raced PROVE Alone' /\ IF inits = 0 THEN BeforeInit' ELSE Tiled'
  BY <1>1 DEF SInv, history
<1>5. Alone /\ IF inits = 0 THEN BeforeInit ELSE Tiled
  BY <1>4 DEF SInv
<1>6. Alone'
  BY <1>3, <1>5 DEF Alone, Section
<1>7. ASSUME inits = 0 PROVE BeforeInit'
  BY <1>1, <1>3, <1>5, <1>7 DEF BeforeInit, history
<1>8. ASSUME inits # 0 PROVE Tiled'
  <2>1. Tiles /\ Sized /\ \A v \in Threads : StagedFor(v)
    BY <1>5, <1>8 DEF Tiled
  <2>2. Tiles' /\ Sized'
    BY <1>1, <2>1, SameTiles DEF history
  <2>3. ASSUME NEW v \in Threads PROVE StagedFor(v)'
    BY <1>1, <1>3, <2>1, <2>3 DEF StagedFor, NewBlock, Section, history
  <2> QED
    BY <2>2, <2>3 DEF Tiled
<1> QED
  BY <1>6, <1>7, <1>8

LEMMA NextSInv == TInv /\ SInv /\ [Next]_vars => SInv'
<1> SUFFICES ASSUME TInv, SInv, [Next]_vars PROVE SInv'
  OBVIOUS
<1>1. CASE main
  BY <1>1, MainSafe
<1>2. CASE \E t \in Threads : ThreadStep(t)
  BY <1>2, ThreadStepSafe
<1>3. CASE UNCHANGED vars
  BY <1>3 DEF vars, thread, history, SInv, Alone, BeforeInit, Tiled, Tiles, Sized,
              StagedFor, NewBlock
<1> QED
  BY <1>1, <1>2, <1>3 DEF Next, Ended

LEMMA AlwaysSInv == Spec => []SInv
  BY InitSInv, NextSInv, AlwaysTInv, PTL DEF Spec

(* Until the mutex lets two threads in at once, frag and mergefrag keep the *)
(* blocks of PracticumI/malloc.c a tiling of the page at every step, for    *)
(* any threads, requests and sizes.                                         *)
THEOREM AlwaysTiledUntilRaced == Spec => []TiledUntilRaced
<1>1. SInv => TiledUntilRaced
  BY DEF SInv, Tiled, TiledUntilRaced
<1> QED
  BY <1>1, AlwaysSInv, PTL

-----------------------------------------------------------------------------
(* After a race sizes and links may be wrong, but they agree: a header that *)
(* can be reached has the size, modulo Wrap, that takes it to its next, or, *)
(* if it is the last, to the end of the page.  Each step of a split and a   *)
(* merge keeps that, also on what another thread has just changed.          *)
Target(n)   == IF n = NULL THEN HeapSize ELSE n
Gap(x)      == IF x >= 0 THEN x ELSE x + Wrap
Fits(a, h)  == h.size = Gap(Target(h.next) - a - Hdr)
Adjacent(a) == Fits(a, hdr[a])
Leads(n)    == n # NULL => n \in Addresses /\ Adjacent(n)

Reaches(t) ==
  /\ pc[t] \in Section => Adjacent(current[t])
  /\ pc[t] \in {"link", "absorb"} => Adjacent(NewBlock(t))

Shape ==
  /\ \A a \in Addresses : Adjacent(a) => Leads(hdr[a].next)
  /\ \A t \in Threads : Reaches(t)
  /\ \/ Adjacent(freeList)
     \/ hdr[freeList].size = 0 /\ \A t \in Threads : pc[t] \in {"none", "create", "call"}

LEMMA LongWrap == 2 * HeapSize < Wrap /\ 2 * HeapSize \in Nat
<1>1. /\ HeapSize \in Nat /\ Wrap \in Nat /\ NumPages \in Nat /\ NumPages > 0
      /\ Wrap > 2 * NumPages * HeapSize
  BY PagingHeapAssumption
<1>2. NumPages * HeapSize >= HeapSize
  BY <1>1
<1> QED
  BY <1>1, <1>2

LEMMA Modulo ==
  ASSUME NEW x \in Int
  PROVE  /\ 0 <= x /\ x < Wrap => x % Wrap = x
         /\ Wrap <= x /\ x < 2 * Wrap => x % Wrap = x - Wrap
         /\ 2 * Wrap <= x /\ x < 3 * Wrap => x % Wrap = x - 2 * Wrap
         /\ -Wrap <= x /\ x < 0 => x % Wrap = x + Wrap
<1>1. Wrap \in Nat /\ Wrap > 0
  BY Constants
<1>2. ASSUME 0 <= x, x < Wrap PROVE x % Wrap = x
  BY <1>1, <1>2
<1>3. ASSUME Wrap <= x, x < 2 * Wrap PROVE x % Wrap = x - Wrap
  BY <1>1, <1>3
<1>4. ASSUME 2 * Wrap <= x, x < 3 * Wrap PROVE x % Wrap = x - 2 * Wrap
  BY <1>1, <1>4
<1>5. ASSUME -Wrap <= x, x < 0 PROVE x % Wrap = x + Wrap
  BY <1>1, <1>5
<1> QED
  BY <1>2, <1>3, <1>4, <1>5

(* Distances on the page, whichever way, are shorter than Wrap.             *)
LEMMA Distance ==
  ASSUME NEW a \in Addresses, NEW n \in Addresses \cup {NULL}
  PROVE  /\ Target(n) \in 0 .. HeapSize /\ a \in 0 .. HeapSize
         /\ Target(n) - a - Hdr \in Int /\ -Wrap < Target(n) - a - Hdr
         /\ Target(n) - a - Hdr < HeapSize /\ - (2 * HeapSize) < Target(n) - a - Hdr
<1>1. Target(n) \in 0 .. HeapSize /\ a \in 0 .. HeapSize - 1
  BY Constants DEF Target, Addresses
<1> QED
  BY <1>1, LongWrap, Constants

LEMMA NewFits ==
  ASSUME TypeOK, NEW a \in Addresses, NEW n \in Nat, Adjacent(a), a + n + Hdr \in Addresses
  PROVE  Fits(a + n + Hdr, Header(hdr[a].size - n - Hdr, TRUE, hdr[a].next))
<1> DEFINE m == hdr[a].next
           T == Target(m)
           b == a + n + Hdr
           x == T - a - Hdr
           y == T - b - Hdr
           s == hdr[a].size - n - Hdr
           h == Header(s, TRUE, m)
<1>1. m \in Addresses \cup {NULL}
  BY DEF TypeOK
<1>2. hdr[a].size = Gap(x)
  BY DEF Adjacent, Fits
<1>3. h.size = s % Wrap /\ h.next = m
  BY DEF Header
<1>4. /\ T \in Nat /\ x \in Int /\ -Wrap < x /\ x < HeapSize /\ y \in Int /\ -Wrap < y
      /\ y < HeapSize /\ n \in Nat /\ Hdr \in Nat /\ HeapSize < Wrap /\ Wrap \in Nat
      /\ HeapSize \in Nat
  <2>1. T \in 0 .. HeapSize /\ x \in Int /\ -Wrap < x /\ x < HeapSize
    BY <1>1, Distance
  <2>2. y \in Int /\ -Wrap < y /\ y < HeapSize
    BY <1>1, Distance
  <2> HIDE DEF T, x, y
  <2> QED
    BY <2>1, <2>2, Constants
<1>5. x - n - Hdr = y
  <2>1. a \in Nat
    BY Constants
  <2> QED
    BY <1>4, <2>1
<1> HIDE DEF T, x, y, m, h
<1>6. s = Gap(x) - n - Hdr
  BY <1>2
<1> HIDE DEF s
<1>7. s \in Int /\ (s = y \/ s = y + Wrap) /\ s < Wrap
  <2>1. Gap(x) = x \/ (x < 0 /\ Gap(x) = x + Wrap)
    BY <1>4 DEF Gap
  <2>2. CASE Gap(x) = x
    BY <1>4, <1>5, <1>6, <2>2
  <2>3. CASE x < 0 /\ Gap(x) = x + Wrap
    BY <1>4, <1>5, <1>6, <2>3
  <2> QED
    BY <2>1, <2>2, <2>3
<1>8. s % Wrap = Gap(y)
  BY <1>4, <1>7, Modulo DEF Gap
<1>9. h.size = Gap(Target(h.next) - b - Hdr)
  BY <1>3, <1>8 DEF y, T
<1> QED
  BY <1>9 DEF Fits, h, s, m

LEMMA LinkFits ==
  ASSUME NEW a \in Addresses, NEW n \in Nat, a + n + Hdr \in Addresses
  PROVE  Fits(a, Header(n, FALSE, a + n + Hdr))
<1>1. a \in Nat /\ a + n + Hdr < HeapSize /\ HeapSize \in Nat /\ Wrap \in Nat
      /\ HeapSize < Wrap /\ Hdr \in Nat /\ a + n + Hdr # NULL
  BY Constants DEF Addresses
<1>2. n % Wrap = n /\ a + n + Hdr - a - Hdr = n /\ n >= 0
  BY <1>1, Modulo
<1> QED
  BY <1>1, <1>2 DEF Fits, Header, Target, Gap

LEMMA JoinFits ==
  ASSUME TypeOK, NEW a \in Addresses, Adjacent(a), hdr[a].next \in Addresses,
         Adjacent(hdr[a].next)
  PROVE  Fits(a, Absorbed(a))
<1> DEFINE b == hdr[a].next
           m == hdr[b].next
           T == Target(m)
           x == b - a - Hdr
           y == T - b - Hdr
           z == T - a - Hdr
           s == hdr[a].size + hdr[b].size + Hdr
<1>1. m \in Addresses \cup {NULL} /\ Target(b) = b
  BY Constants DEF TypeOK, Target
<1>2. hdr[a].size = Gap(x) /\ hdr[b].size = Gap(y)
  BY <1>1 DEF Adjacent, Fits
<1>3. Absorbed(a).size = s % Wrap /\ Absorbed(a).next = m
  BY DEF Absorbed, Header
<1>4. /\ x \in Int /\ -Wrap < x /\ x < HeapSize /\ y \in Int /\ -Wrap < y /\ y < HeapSize
      /\ z \in Int /\ -Wrap < z /\ z < HeapSize
      /\ Hdr \in Nat /\ Hdr < HeapSize /\ 2 * HeapSize < Wrap /\ Wrap \in Nat /\ HeapSize \in Nat
  BY <1>1, Distance, LongWrap, Constants
<1>5. x + y + Hdr = z
  <2>1. a \in Int /\ b \in Int /\ T \in Int
    <3>1. T \in 0 .. HeapSize /\ a \in 0 .. HeapSize /\ b \in 0 .. HeapSize
      BY <1>1, Distance
    <3> HIDE DEF T, b
    <3> QED
      BY <3>1, Constants
  <2> HIDE DEF b, T
  <2> QED
    BY <1>4, <2>1
<1>6. s = Gap(x) + Gap(y) + Hdr
  BY <1>2
<1> HIDE DEF b, m, T, x, y, z, s
<1>7. s \in Int /\ (s = z \/ s = z + Wrap \/ s = z + 2 * Wrap) /\ 0 <= s
  BY <1>4, <1>5, <1>6 DEF Gap
<1>8. s % Wrap = Gap(z)
  <2>1. /\ 0 <= s /\ s < Wrap => s % Wrap = s
        /\ Wrap <= s /\ s < 2 * Wrap => s % Wrap = s - Wrap
        /\ 2 * Wrap <= s /\ s < 3 * Wrap => s % Wrap = s - 2 * Wrap
    BY <1>7, Modulo
  <2> QED
    BY <1>4, <1>7, <2>1 DEF Gap
<1> QED
  BY <1>3, <1>8 DEF Fits, z, T

(* A new header at a that fits keeps all others so.                         *)
LEMMA WriteFits ==
  ASSUME TypeOK, \A b \in Addresses : Adjacent(b) => Leads(hdr[b].next),
         NEW a \in Addresses, NEW h \in Headers,
         Fits(a, h), Leads(h.next), hdr' = [hdr EXCEPT ![a] = h]
  PROVE  /\ \A b \in Addresses : Adjacent(b) => Adjacent(b)'
         /\ Adjacent(a)'
         /\ \A b \in Addresses : Adjacent(b)' => Leads(hdr[b].next)'
<1>1. hdr \in [Addresses -> Headers]
  BY DEF TypeOK, Headers
<1>2. hdr'[a] = h /\ \A b \in Addresses \ {a} : hdr'[b] = hdr[b]
  BY <1>1
<1>3. \A b \in Addresses : Adjacent(b)' <=> Fits(b, hdr'[b])
  BY DEF Adjacent, Fits, Gap, Target
<1>4. \A b \in Addresses : Adjacent(b) => Adjacent(b)'
  BY <1>2, <1>3 DEF Adjacent
<1>5. Adjacent(a)'
  BY <1>2, <1>3
<1>6. \A n : Leads(n) => Leads(n)'
  BY <1>4 DEF Leads
<1>7. ASSUME NEW b \in Addresses, Adjacent(b)' PROVE Leads(hdr[b].next)'
  <2>1. PICK n : n = hdr'[b].next
    OBVIOUS
  <2>2. Leads(n)
    BY <1>2, <1>3, <1>7, <2>1 DEF Adjacent
  <2>3. Leads(n)'
    BY <1>6, <2>2
  <2> QED
    BY <2>1, <2>3 DEF Leads, Adjacent
<1> QED
  BY <1>4, <1>5, <1>7

(* The flags decide nothing.                                                *)
LEMMA FlagFits ==
  ASSUME TypeOK, NEW a, NEW b \in BOOLEAN, hdr' = [hdr EXCEPT ![a].free = b]
  PROVE  \A c \in Addresses : /\ hdr'[c].size = hdr[c].size /\ hdr'[c].next = hdr[c].next
                              /\ Adjacent(c)' <=> Adjacent(c)
<1>1. hdr \in [Addresses -> Headers]
  BY DEF TypeOK, Headers
<1>2. \A c \in Addresses : hdr'[c].size = hdr[c].size /\ hdr'[c].next = hdr[c].next
  BY <1>1 DEF Headers
<1>3. \A c \in Addresses : Adjacent(c)' <=> Fits(c, hdr'[c])
  BY DEF Adjacent, Fits, Gap, Target
<1> QED
  BY <1>2, <1>3 DEF Adjacent, Fits

(* Nothing that was adjacent is lost, and no new link leads astray.         *)
Kept == /\ \A b \in Addresses : Adjacent(b) => Adjacent(b)'
        /\ \A b \in Addresses : Adjacent(b)' => Leads(hdr[b].next)'

LEMMA SameKept ==
  ASSUME Shape
  PROVE  hdr' = hdr => Kept
<1> SUFFICES ASSUME hdr' = hdr PROVE Kept
  OBVIOUS
<1>1. \A b \in Addresses : Adjacent(b)' <=> Adjacent(b)
  BY DEF Adjacent, Fits
<1> QED
  BY <1>1 DEF Kept, Shape, Leads

(* What is adjacent stays so under another name.                            *)
LEMMA KeptAt ==
  ASSUME Kept, NEW a, NEW b \in Addresses, a = b, Adjacent(a)
  PROVE  Adjacent(b)'
  BY DEF Kept

LEMMA StepShape ==
  ASSUME TInv, Shape, NEW t \in Threads, TypedThreads(t), TInv',
         Kept, Reaches(t)', Adjacent(freeList)'
  PROVE  Shape'
<1>1. ASSUME NEW u \in Threads \ {t} PROVE Reaches(u)'
  <2>1. pc'[u] = pc[u] /\ current'[u] = current[u] /\ request'[u] = request[u]
    BY DEF TypedThreads
  <2>2. Reaches(u) /\ current[u] \in Addresses
    BY DEF Shape, TInv, TypeOK
  <2>3. pc[u] \in {"link", "absorb"} => NewBlock(u) \in Addresses
    BY DEF TInv, Placed
  <2>4. NewBlock(u)' = NewBlock(u)
    BY <2>1 DEF NewBlock
  <2>5. ASSUME NEW b \in Addresses, Adjacent(b) PROVE Adjacent(b)'
    BY <2>5 DEF Kept
  <2>6. pc[u] \in Section => Adjacent(current[u])'
    BY <2>1, <2>2, <2>5 DEF Reaches, Adjacent
  <2>7. pc[u] \in {"link", "absorb"} => Adjacent(NewBlock(u))'
    BY <2>2, <2>3, <2>4, <2>5 DEF Reaches, Adjacent
  <2> QED
    BY <2>1, <2>6, <2>7 DEF Reaches
<1> QED
  BY <1>1 DEF Shape, Kept

(* A step to a place that keeps the new header out of the question.         *)
LEMMA GoneShape ==
  ASSUME TInv, Shape, TInv', NEW t \in Threads, TypedThreads(t), Kept,
         NEW place \in Places, NEW a \in Addresses, Goto(t, place, a),
         place \notin {"link", "absorb"}, place \in Section => Adjacent(a),
         Adjacent(freeList)
  PROVE  Shape'
<1>1. pc'[t] = place /\ current'[t] = a
  BY DEF TInv, TypeOK, Goto
<1>2. place \in Section => Adjacent(a)'
  BY DEF Kept
<1>3. Adjacent(current[t])' \/ place \notin Section
  BY <1>1, <1>2 DEF Adjacent
<1>4. Adjacent(freeList)'
  BY Constants DEF Kept
<1> QED
  BY <1>1, <1>3, <1>4, StepShape DEF Reaches

LEMMA ThreadShape ==
  ASSUME TInv, Shape, NEW t \in Threads, ThreadStep(t)
  PROVE  Shape'
<1>1. /\ TypeOK /\ TInv' /\ TypedThreads(t) /\ Reaches(t)
      /\ hdr \in [Addresses -> Headers] /\ current[t] \in Addresses /\ request[t] \in Nat
      /\ pc \in [Threads -> Places] /\ current \in [Threads -> Addresses]
      /\ freeList \in Addresses
      /\ \A b \in Addresses : Adjacent(b) => Leads(hdr[b].next)
      /\ pc[t] \in Section => Adjacent(current[t])
  BY ThreadStepTyped, Constants DEF Shape, Reaches, TInv, TypeOK, Headers
<1>2. pc[t] \notin {"none", "create", "call"} => Adjacent(freeList)
  BY DEF Shape
<1>3. {"call", "search", "serve", "split", "link", "absorb", "free", "merge", "again", "ended"}
        \subseteq Places
      /\ {"call", "free", "again", "ended"} \cap Section = {}
      /\ {"search", "serve", "split", "link", "absorb", "merge"} = Section
  BY DEF Places, Section
<1>4. CASE LockAndInit(t)
  <2>1. Goto(t, "search", freeList)
    BY <1>4 DEF LockAndInit
  <2> DEFINE h == Header(HeapSize - Hdr, TRUE, NULL)
  <2>2. Kept /\ Adjacent(freeList)'
    <3>1. CASE hdr[freeList].size = 0
      <4>1. hdr' = [hdr EXCEPT ![freeList] = h]
        BY <1>4, <3>1 DEF LockAndInit
      <4>2. /\ HeapSize - Hdr \in Int /\ HeapSize - Hdr \in 0 .. HeapSize
            /\ TRUE \in BOOLEAN /\ NULL \in Addresses \cup {NULL}
        BY Constants
      <4>3. h \in Headers /\ h.next = NULL /\ h.size = HeapSize - Hdr
        BY <4>2, HeaderFields
      <4>4. Fits(freeList, h)
        <5>1. Target(h.next) - freeList - Hdr = HeapSize - Hdr /\ HeapSize - Hdr >= 0
          BY <4>2, <4>3, Constants DEF Target
        <5>2. Gap(HeapSize - Hdr) = HeapSize - Hdr
          BY <5>1 DEF Gap
        <5> QED
          BY <4>3, <5>1, <5>2 DEF Fits
      <4> HIDE DEF h
      <4> QED
        BY <1>1, <4>1, <4>3, <4>4, WriteFits DEF Kept, Leads
    <3>2. CASE hdr[freeList].size # 0
      <4>1. hdr' = hdr
        BY <1>4, <3>2 DEF LockAndInit
      <4>2. Adjacent(freeList)
        BY <3>2 DEF Shape
      <4> QED
        BY <1>1, <4>1, <4>2, SameKept DEF Kept
    <3> QED
      BY <3>1, <3>2
  <2>3. pc'[t] = "search" /\ current'[t] = freeList
    BY <1>1, <2>1 DEF Goto
  <2>4. Reaches(t)'
    BY <2>2, <2>3 DEF Reaches, Adjacent
  <2> QED
    BY <1>1, <2>2, <2>4, StepShape
<1>5. CASE Search(t) \/ ServeSplit(t)
  <2>1. /\ pc[t] \in {"search", "serve"} /\ hdr' = hdr
    BY <1>5 DEF Search, ServeSplit, At
  <2>2. PICK place \in {"search", "serve", "split"}, a \in {current[t], hdr[current[t]].next} :
          Goto(t, place, a) /\ a # NULL
    BY <1>1, <1>5, Constants DEF Search, ServeSplit
  <2>3. a \in Addresses /\ Adjacent(a)
    <3>1. Adjacent(current[t]) /\ Leads(hdr[current[t]].next)
      BY <1>1, <1>3, <2>1
    <3> QED
      BY <1>1, <2>2, <3>1 DEF Leads
  <2>4. Kept
    BY <2>1, SameKept
  <2> QED
    BY <1>1, <1>2, <1>3, <2>1, <2>2, <2>3, <2>4, GoneShape
<1>6. CASE ServeExact(t) \/ LockAndMark(t)
  <2>1. \E a, b : b \in BOOLEAN /\ hdr' = [hdr EXCEPT ![a].free = b]
    BY <1>6, Zenon DEF LockAndMark, ServeExact
  <2>2. Kept
    <3>1. \A c \in Addresses : hdr'[c].next = hdr[c].next /\ (Adjacent(c)' <=> Adjacent(c))
      BY <1>1, <2>1, FlagFits
    <3> QED
      BY <1>1, <3>1 DEF Kept, Leads
  <2>3. pc[t] \in {"serve", "free"}
    BY <1>6 DEF LockAndMark, ServeExact, At
  <2>4. PICK place \in {"call", "free", "merge"} : Goto(t, place, freeList)
    BY <1>6 DEF LockAndMark, ServeExact, Return
  <2> QED
    BY <1>1, <1>2, <1>3, <2>2, <2>3, <2>4, GoneShape
<1>7. CASE ServeNull(t) \/ MergeEnd(t) \/ UnlockAgain(t)
  <2>1. hdr' = hdr /\ pc[t] \in {"serve", "merge", "again"}
    BY <1>7 DEF ServeNull, MergeEnd, UnlockAgain, At
  <2>2. PICK place \in {"ended", "again", "free"} : Goto(t, place, freeList)
    BY <1>7 DEF ServeNull, ReturnNull, MergeEnd, UnlockAgain
  <2>3. Kept
    BY <2>1, SameKept
  <2> QED
    BY <1>1, <1>2, <1>3, <2>1, <2>2, <2>3, GoneShape
<1>8. CASE FragNew(t)
  <2>1. pc[t] = "split" /\ request' = request /\ Adjacent(current[t]) /\ Adjacent(freeList)
    BY <1>1, <1>2, <1>3, <1>8 DEF FragNew, At
  <2>2. CASE Clashes(NewBlock(t))
    <3>1. hdr' = hdr /\ pc' = pc /\ current' = current
      BY <1>8, <2>2 DEF FragNew
    <3>2. Kept
      BY <3>1, SameKept
    <3>3. Reaches(t)' /\ Adjacent(freeList)'
      BY <2>1, <3>1 DEF Reaches, Adjacent
    <3> QED
      BY <1>1, <3>2, <3>3, StepShape
  <2>3. CASE ~Clashes(NewBlock(t))
    <3> DEFINE a == current[t]
               h == Header(hdr[a].size - request[t] - Hdr, TRUE, hdr[a].next)
    <3>1. hdr' = [hdr EXCEPT ![NewBlock(t)] = h] /\ Goto(t, "link", a)
      BY <1>8, <2>3 DEF FragNew
    <3>2. NewBlock(t) \in Addresses
      BY <2>3 DEF Clashes
    <3>3. Fits(NewBlock(t), h)
      BY <1>1, <2>1, <3>2, NewFits DEF NewBlock
    <3>4. h \in Headers /\ h.next = hdr[a].next
      <4>1. hdr[a].size \in Int /\ hdr[a].next \in Addresses \cup {NULL}
        <5>1. hdr[a] \in Headers
          BY <1>1
        <5> QED
          BY <5>1, Constants DEF Headers
      <4>2. hdr[a].size - request[t] - Hdr \in Int /\ TRUE \in BOOLEAN
        BY <1>1, <4>1, Constants
      <4> QED
        BY <4>1, <4>2, HeaderFields
    <3>5. Leads(h.next)
      BY <1>1, <2>1, <3>4
    <3> HIDE DEF h
    <3>6. PICK n \in Addresses : n = NewBlock(t)
      BY <3>2
    <3>7. Kept /\ Adjacent(n)'
      BY <1>1, <3>1, <3>3, <3>4, <3>5, <3>6, WriteFits DEF Kept
    <3>8. pc'[t] = "link" /\ current'[t] = a /\ NewBlock(t)' = n
      BY <1>1, <2>1, <3>1, <3>6 DEF Goto, NewBlock
    <3>9. PICK m \in Addresses : m = a
      BY <1>1
    <3>10. Adjacent(m)' /\ Adjacent(freeList)'
      BY <1>1, <2>1, <3>7, <3>9 DEF Kept
    <3>11. Reaches(t)'
      BY <3>7, <3>8, <3>9, <3>10 DEF Reaches, Adjacent
    <3> QED
      BY <1>1, <3>7, <3>10, <3>11, StepShape
  <2> QED
    BY <2>2, <2>3
<1>9. CASE FragLink(t)
  <2> DEFINE a == current[t]
             h == Header(request[t], FALSE, NewBlock(t))
  <2>1. /\ pc[t] = "link" /\ hdr' = [hdr EXCEPT ![a] = h] /\ request' = request
        /\ Goto(t, "absorb", a)
    BY <1>9 DEF FragLink, At
  <2>2. Adjacent(NewBlock(t)) /\ NewBlock(t) \in Addresses /\ Adjacent(freeList)
    BY <1>1, <1>2, <2>1 DEF Reaches, TInv, Placed
  <2>3. Fits(a, h)
    BY <1>1, <2>2, LinkFits DEF NewBlock
  <2>4. h \in Headers /\ h.next = NewBlock(t)
    <3>1. request[t] \in Int /\ FALSE \in BOOLEAN /\ NewBlock(t) \in Addresses \cup {NULL}
      BY <1>1, <2>2
    <3> QED
      BY <3>1, HeaderFields
  <2>5. Leads(h.next)
    BY <2>2, <2>4 DEF Leads
  <2> HIDE DEF h
  <2>6. PICK n \in Addresses, m \in Addresses : n = NewBlock(t) /\ m = a
    BY <1>1, <2>2
  <2>7. Kept /\ Adjacent(m)'
    BY <1>1, <2>1, <2>3, <2>4, <2>5, <2>6, WriteFits DEF Kept
  <2>8. Adjacent(n)' /\ Adjacent(freeList)'
    BY <1>1, <2>2, <2>6, <2>7 DEF Kept
  <2>9. pc'[t] = "absorb" /\ current'[t] = m /\ NewBlock(t)' = n
    BY <1>1, <2>1, <2>6 DEF Goto, NewBlock
  <2>10. Reaches(t)'
    BY <2>7, <2>8, <2>9 DEF Reaches, Adjacent
  <2> QED
    BY <1>1, <2>7, <2>8, <2>10, StepShape
<1>10. ASSUME NEW a \in Addresses, Adjacent(a), hdr[a].next # NULL
       PROVE  hdr' = [hdr EXCEPT ![a] = Absorbed(a)] => Kept
  <2> DEFINE n == hdr[a].next
  <2>1. n \in Addresses /\ Adjacent(n)
    BY <1>1, <1>10 DEF Leads
  <2>2. Leads(hdr[n].next)
    BY <1>1, <2>1
  <2>3. Fits(a, Absorbed(a))
    BY <1>1, <1>10, <2>1, JoinFits
  <2>4. Absorbed(a) \in Headers
    BY <1>1, <1>10, AbsorbedTyped
  <2>5. Absorbed(a).next = hdr[n].next
    BY DEF Absorbed, Header
  <2> DEFINE h == Absorbed(a)
  <2>6. h \in Headers /\ Fits(a, h) /\ Leads(h.next)
    BY <2>2, <2>3, <2>4, <2>5
  <2> HIDE DEF h
  <2>7. hdr' = [hdr EXCEPT ![a] = h] => Kept
    BY <1>1, <2>6, WriteFits DEF Kept
  <2> QED
    BY <2>7 DEF h
<1>11. CASE FragAbsorb(t)
  <2>1. pc[t] = "absorb" /\ NewBlock(t) \in Addresses /\ Adjacent(NewBlock(t))
    BY <1>1, <1>11 DEF FragAbsorb, At, TInv, Placed, Reaches
  <2>2. Kept
    <3>1. CASE TooSmall(NewBlock(t))
      <4>1. hdr' = [hdr EXCEPT ![NewBlock(t)] = Absorbed(NewBlock(t))]
        BY <1>11, <3>1 DEF FragAbsorb
      <4>2. hdr[NewBlock(t)].next # NULL
        BY <3>1 DEF TooSmall, NextFree
      <4> QED
        BY <1>10, <2>1, <4>1, <4>2
    <3>2. CASE ~TooSmall(NewBlock(t))
      BY <1>11, <3>2, SameKept DEF FragAbsorb
    <3> QED
      BY <3>1, <3>2
  <2>3. PICK place \in {"call", "free"} : Goto(t, place, freeList)
    BY <1>11 DEF FragAbsorb, Return
  <2> QED
    BY <1>1, <1>2, <1>3, <2>1, <2>2, <2>3, GoneShape
<1>12. CASE Merge(t)
  <2> DEFINE a == current[t]
             n == hdr[a].next
  <2>1. pc[t] = "merge" /\ n # NULL /\ Adjacent(a) /\ Adjacent(freeList)
    BY <1>1, <1>2, <1>3, <1>12 DEF Merge, At
  <2>2. n \in Addresses /\ Adjacent(n) /\ Leads(hdr[n].next)
    BY <1>1, <2>1 DEF Leads
  <2>3. Kept
    <3>1. hdr' = hdr \/ hdr' = [hdr EXCEPT ![a] = Absorbed(a)]
      BY <1>12 DEF Merge
    <3> QED
      BY <1>1, <1>10, <2>1, <3>1, SameKept
  <2>4. \/ pc' = pc /\ current' = current
        \/ \E b \in {n, hdr[n].next} : b # NULL /\ Goto(t, "merge", b)
    BY <1>12 DEF Merge
  <2>5. CASE pc' = pc /\ current' = current
    <3>1. PICK b \in Addresses : b = a /\ Adjacent(b)
      BY <1>1, <2>1
    <3>2. Adjacent(b)' /\ Adjacent(freeList)'
      BY <1>1, <2>1, <2>3, <3>1 DEF Kept
    <3>3. Reaches(t)'
      BY <2>1, <2>5, <3>1, <3>2 DEF Reaches, Adjacent
    <3> QED
      BY <1>1, <2>3, <3>2, <3>3, StepShape
  <2>6. CASE \E b \in {n, hdr[n].next} : b # NULL /\ Goto(t, "merge", b)
    <3>1. PICK b \in {n, hdr[n].next} : b # NULL /\ Goto(t, "merge", b)
      BY <2>6
    <3>2. b \in Addresses /\ Adjacent(b)
      BY <2>2, <3>1 DEF Leads
    <3> QED
      BY <1>1, <1>3, <2>1, <2>3, <3>1, <3>2, GoneShape
  <2> QED
    BY <2>4, <2>5, <2>6
<1> QED
  BY <1>4, <1>5, <1>6, <1>7, <1>8, <1>9, <1>11, <1>12 DEF ThreadStep

LEMMA AlwaysShape == Spec => [](TInv /\ Shape)
<1>1. Init => TInv /\ Shape
  <2> SUFFICES ASSUME Init PROVE TInv /\ Shape
    OBVIOUS
  <2>1. \A a \in Addresses : hdr[a].size = 0 /\ hdr[a].next = NULL
    <3>1. 0 % Wrap = 0
      BY Constants, Modulo
    <3> QED
      BY <3>1 DEF Init, Header
  <2>2. \A t \in Threads : pc[t] \in {"create", "none"}
    BY DEF Init
  <2> QED
    BY <2>1, <2>2, InitTInv, Constants DEF Shape, Reaches, Leads, Section
<1>2. TInv /\ Shape /\ [Next]_vars => (TInv /\ Shape)'
  <2> SUFFICES ASSUME TInv, Shape, [Next]_vars PROVE Shape'
    BY NextTInv
  <2>1. CASE main
    <3>1. /\ hdr' = hdr /\ current' = current /\ request' = request
          /\ \E t : pc' = [pc EXCEPT ![t] = "call"]
      BY <2>1 DEF main
    <3>2. pc \in [Threads -> Places]
      BY DEF TInv, TypeOK
    <3>3. \A t \in Threads : pc'[t] \in {pc[t], "call"}
      BY <3>1, <3>2
    <3>4. \A t \in Threads : Reaches(t)'
      BY <3>1, <3>3 DEF Shape, Reaches, Section, Adjacent, NewBlock
    <3>5. \A a \in Addresses : Adjacent(a)' => Leads(hdr[a].next)'
      BY <3>1 DEF Shape, Adjacent, Leads
    <3>6. \/ Adjacent(freeList)'
          \/ hdr'[freeList].size = 0 /\ \A t \in Threads : pc'[t] \in {"none", "create", "call"}
      BY <3>1, <3>3 DEF Shape, Adjacent
    <3> QED
      BY <3>4, <3>5, <3>6 DEF Shape
  <2>2. CASE \E t \in Threads : ThreadStep(t)
    BY <2>2, ThreadShape
  <2>3. CASE UNCHANGED vars
    BY <2>3 DEF vars, thread, Shape, Reaches, Leads, Adjacent, NewBlock
  <2> QED
    BY <2>1, <2>2, <2>3 DEF Next, Ended
<1> QED
  BY <1>1, <1>2, PTL DEF Spec

-----------------------------------------------------------------------------
(* The thread that runs unitTest5 asks for as many bytes as all pages have. *)
(* The size of a header is less than a page or, where a race has left a     *)
(* distance backwards, more than all pages.  So the thread gets NULL and    *)
(* exits, or splits a block where there is no page, before main has joined  *)
(* it.                                                                      *)
AllPages == NumPages * HeapSize

Waits(t) ==
  /\ pc[t] \in {"none", "call", "search", "serve", "split"}
  /\ pc[t] \in {"search", "serve", "split"} => request[t] = AllPages
Before5(t) == pc[Main] = "create" /\ (process = "running" => Waits(t))

LEMMA NoSuchBlock ==
  ASSUME NumPages > 1, TypeOK, NEW a \in Addresses, Adjacent(a)
  PROVE  hdr[a].size # AllPages /\ a + AllPages + Hdr \notin Addresses
<1>1. /\ HeapSize \in Nat /\ Wrap \in Nat /\ NumPages \in Nat /\ Hdr \in Nat
      /\ Wrap > 2 * NumPages * HeapSize
  BY PagingHeapAssumption
<1>2. 2 * HeapSize <= NumPages * HeapSize /\ NumPages * HeapSize \in Nat
  BY <1>1
<1>3. AllPages \in Nat /\ 2 * HeapSize <= AllPages /\ 2 * AllPages < Wrap
  <2>1. 2 * NumPages * HeapSize = 2 * (NumPages * HeapSize)
    BY <1>1
  <2> QED
    BY <1>1, <1>2, <2>1 DEF AllPages
<1> DEFINE x == Target(hdr[a].next) - a - Hdr
<1>4. hdr[a].size = Gap(x) /\ x \in Int /\ x < HeapSize /\ - (2 * HeapSize) < x
  BY Distance DEF Adjacent, Fits, TypeOK
<1> HIDE DEF x
<1>5. Gap(x) # AllPages
  <2>1. x >= 0 => x # AllPages
    BY <1>1, <1>3, <1>4
  <2>2. x + Wrap # AllPages
    BY <1>1, <1>3, <1>4
  <2> QED
    BY <2>1, <2>2 DEF Gap
<1>6. a + AllPages + Hdr \notin Addresses
  BY <1>1, <1>3 DEF Addresses
<1> QED
  BY <1>4, <1>5, <1>6

LEMMA StepBefore5 ==
  ASSUME NumPages > 1, TInv, Shape, NEW t \in Created, Kind[t] = "unitTest5", Before5(t),
         NEW u \in Threads, ThreadStep(u)
  PROVE  Before5(t)'
<1>0. /\ process = "running" /\ pc[u] \notin {"none", "create"}
      /\ pc \in [Threads -> Places] /\ request \in [Threads -> Nat] /\ TypeOK
      /\ current[t] \in Addresses
      /\ t \in Threads /\ Main \in Threads /\ t # Main
  <2>1. process = "running" /\ pc[u] \notin {"none", "create"}
    BY DEF ThreadStep, LockAndInit, Search, ServeExact, ServeSplit, ServeNull, FragNew, FragLink,
           FragAbsorb, LockAndMark, Merge, MergeEnd, UnlockAgain, At
  <2>2. t # Main
    BY PagingHeapAssumption DEF Created, Main
  <2> QED
    BY <2>1, <2>2, Constants DEF TInv, TypeOK
<1>1. pc[Main] = "create" /\ Waits(t) /\ u # Main
  BY <1>0 DEF Before5
<1>2. \A v \in Threads \ {u} : pc'[v] = pc[v] /\ request'[v] = request[v]
  <2>1. TypedThreads(u)
    BY ThreadStepTyped
  <2> QED
    BY <2>1 DEF TypedThreads
<1>3. pc'[Main] = "create"
  BY <1>0, <1>1, <1>2
<1>4. CASE u # t
  BY <1>0, <1>1, <1>2, <1>3, <1>4 DEF Waits, Before5
<1>5. CASE u = t /\ pc[t] = "call"
  <2>1. LockAndInit(t)
    BY <1>5 DEF ThreadStep, LockAndInit, Search, ServeExact, ServeSplit, ServeNull, FragNew, FragLink,
           FragAbsorb, LockAndMark, Merge, MergeEnd, UnlockAgain, At
  <2>2. Requests(t) = {AllPages}
    BY <1>0 DEF Requests, AllPages
  <2>3. pc'[t] = "search" /\ request'[t] = AllPages
    BY <1>0, <2>1, <2>2 DEF LockAndInit, Goto
  <2> QED
    BY <1>3, <2>3 DEF Waits, Before5
<1>6. CASE u = t /\ pc[t] = "search"
  <2>1. Search(t)
    BY <1>6 DEF ThreadStep, LockAndInit, Search, ServeExact, ServeSplit, ServeNull, FragNew, FragLink,
           FragAbsorb, LockAndMark, Merge, MergeEnd, UnlockAgain, At
  <2>2. pc'[t] \in {"search", "serve"} /\ request' = request
    BY <1>0, <2>1 DEF Search, Goto
  <2> QED
    BY <1>1, <1>3, <1>6, <2>2 DEF Waits, Before5
<1>7. pc[t] \in {"serve", "split"} =>
        /\ request[t] = AllPages /\ hdr[current[t]].size # AllPages
        /\ NewBlock(t) \notin Addresses
  <2>1. pc[t] \in {"serve", "split"} => Adjacent(current[t])
    BY <1>0 DEF Shape, Reaches, Section
  <2> QED
    BY <1>0, <1>1, <2>1, NoSuchBlock DEF Waits, NewBlock
<1>8. CASE u = t /\ pc[t] = "serve"
  <2>1. ServeExact(t) \/ ServeSplit(t) \/ ServeNull(t)
    BY <1>8 DEF ThreadStep, LockAndInit, Search, ServeExact, ServeSplit, ServeNull, FragNew, FragLink,
           FragAbsorb, LockAndMark, Merge, MergeEnd, UnlockAgain, At
  <2>2. CASE ServeExact(t)
    BY <1>7, <1>8, <2>2 DEF ServeExact
  <2>3. CASE ServeSplit(t)
    <3>1. pc'[t] = "split" /\ request' = request
      BY <1>0, <2>3 DEF ServeSplit, Goto
    <3> QED
      BY <1>3, <1>7, <1>8, <3>1 DEF Waits, Before5
  <2>4. CASE ServeNull(t)
    <3>1. process' # "running"
      BY <1>0, <2>4 DEF ServeNull, ReturnNull, Exits
    <3> QED
      BY <1>3, <3>1 DEF Before5
  <2> QED
    BY <2>1, <2>2, <2>3, <2>4
<1>9. CASE u = t /\ pc[t] = "split"
  <2>1. FragNew(t)
    BY <1>9 DEF ThreadStep, LockAndInit, Search, ServeExact, ServeSplit, ServeNull, FragNew, FragLink,
           FragAbsorb, LockAndMark, Merge, MergeEnd, UnlockAgain, At
  <2>2. process' # "running"
    BY <1>7, <1>9, <2>1 DEF FragNew, Clashes
  <2> QED
    BY <1>3, <2>2 DEF Before5
<1> QED
  BY <1>0, <1>1, <1>4, <1>5, <1>6, <1>8, <1>9 DEF Waits

(* main waits for unitTest5 before it goes on.                              *)
LEMMA MainBefore5 ==
  ASSUME TInv, NEW t \in Created, Kind[t] = "unitTest5", Before5(t), main
  PROVE  Before5(t)'
<1>1. /\ process = "running" /\ request' = request
      /\ pc \in [Threads -> Places] /\ created \in 0 .. Len(Kind)
  BY DEF main, At, TInv, TypeOK
<1>2. pc[Main] = "create" /\ Waits(t)
  BY <1>1 DEF Before5
<1>3. created # Len(Kind)
  BY <1>2 DEF main, Joined, Waits
<1>4. pc' = [pc EXCEPT ![created + 1] = "call"] /\ created + 1 # Main
  <2>1. Len(Kind) \in Nat
    BY PagingHeapAssumption
  <2> QED
    BY <1>1, <1>3, <2>1 DEF main, Main
<1>5. pc'[Main] = "create" /\ pc'[t] \in {pc[t], "call"}
  BY <1>1, <1>2, <1>4, Constants
<1> QED
  BY <1>1, <1>2, <1>5 DEF Waits, Before5

(* A disagreement, for any threads with unitTest5 among them, any sizes and *)
(* more than one page (NUM_PAGES is 16): main.c:405 announces "a check that *)
(* forms of heap corruption are handled", but main joins unitTest5 first,   *)
(* and exit in unitTest5 ends the process when it gets NULL.  It gets NULL  *)
(* whatever the races have left behind, or finds a size that has wrapped:   *)
(* then frag writes past the heap, and what the real process does after     *)
(* that, which may be to go on to the join, is not in the model.            *)
NotAtCheck == process = "running" => pc[Main] = "create"

(* main does not come to its last check while the process runs and nothing  *)
(* has been written past the heap or over a header.                         *)
THEOREM FinalCheckOnlyAfterOverrun ==
  NumPages > 1 /\ (\E t \in Created : Kind[t] = "unitTest5") => (Spec => []NotAtCheck)
<1> SUFFICES ASSUME NumPages > 1, NEW t \in Created, Kind[t] = "unitTest5"
             PROVE  Spec => []NotAtCheck
  OBVIOUS
<1>1. Init => Before5(t)
  <2>1. t \in Threads /\ Main \in Threads /\ t # Main
    BY Constants, PagingHeapAssumption DEF Created, Main
  <2> QED
    BY <2>1 DEF Init, Before5, Waits
<1>2. TInv /\ Shape /\ Before5(t) /\ [Next]_vars => Before5(t)'
  <2> SUFFICES ASSUME TInv, Shape, Before5(t), [Next]_vars PROVE Before5(t)'
    OBVIOUS
  <2>1. CASE main
    BY <2>1, MainBefore5
  <2>2. CASE \E u \in Threads : ThreadStep(u)
    BY <2>2, StepBefore5
  <2>3. CASE UNCHANGED vars
    BY <2>3 DEF vars, thread, Before5, Waits
  <2> QED
    BY <2>1, <2>2, <2>3 DEF Next, Ended
<1>3. Before5(t) => NotAtCheck
  BY DEF Before5, NotAtCheck
<1> QED
  BY <1>1, <1>2, <1>3, AlwaysShape, PTL DEF Spec

-----------------------------------------------------------------------------
(* Nobody is stuck: a mutex that is held has a thread inside that will      *)
(* unlock it, also after the second unlock of pm_free_lock has let several  *)
(* in, and main waits only for threads it has created.                      *)
Held   == locked => Inside # {}
Started ==
  /\ pc[Main] # "none" /\ (pc[Main] # "create" => created = Len(Kind))
  /\ \A t \in Created : pc[t] # "create" /\ (t <= created <=> pc[t] # "none")
Moving == Held /\ Started

LEMMA CreatedRange ==
  /\ Len(Kind) \in Nat /\ Created = 1 .. Len(Kind)
  /\ Main \notin Created /\ Threads = Created \cup {Main}
  BY PagingHeapAssumption DEF Created, Main, Threads

LEMMA ThreadMoving ==
  ASSUME TInv, Moving, NEW t \in Threads, ThreadStep(t)
  PROVE  Moving'
<1>1. /\ process = "running" /\ pc[t] \notin {"none", "create", "ended"}
      /\ pc \in [Threads -> Places] /\ pc' \in [Threads -> Places]
      /\ \A u \in Threads \ {t} : pc'[u] = pc[u]
      /\ created' = created
  <2>1. /\ process = "running" /\ pc[t] \notin {"none", "create", "ended"} /\ created' = created
    BY DEF ThreadStep, LockAndInit, Search, ServeExact, ServeSplit, ServeNull, FragNew, FragLink,
           FragAbsorb, LockAndMark, Merge, MergeEnd, UnlockAgain, At
  <2>2. TypedThreads(t)
    BY ThreadStepTyped
  <2> QED
    BY <2>1, <2>2 DEF TInv, TypeOK, TypedThreads
<1>2. pc'[t] \notin {"none", "create"} /\ (locked' => pc'[t] \in Section)
  <2>1. ASSUME LockAndInit(t) \/ LockAndMark(t)
        PROVE  pc'[t] \in Section
    BY <1>1, <2>1 DEF LockAndInit, LockAndMark, Goto, Section
  <2>2. ASSUME Search(t) \/ ServeSplit(t) \/ FragNew(t) \/ FragLink(t) \/ Merge(t)
        PROVE  pc'[t] \in Section
    BY <1>1, <2>2 DEF Search, ServeSplit, FragNew, FragLink, Merge, Goto, Section, At
  <2>3. ASSUME ServeExact(t) \/ FragAbsorb(t) \/ ServeNull(t)
        PROVE  locked' = FALSE /\ pc'[t] \in {"call", "free", "ended"}
    BY <1>1, <2>3 DEF ServeExact, FragAbsorb, ServeNull, Return, ReturnNull, Goto
  <2>4. ASSUME MergeEnd(t) \/ UnlockAgain(t)
        PROVE  locked' = FALSE /\ pc'[t] \in {"again", "free", "ended"}
    BY <1>1, <2>4 DEF MergeEnd, UnlockAgain, Goto
  <2> QED
    BY <2>1, <2>2, <2>3, <2>4 DEF ThreadStep, Section
<1>3. Held'
  BY <1>1, <1>2 DEF Moving, Held, Inside
<1>4. Started'
  <2>1. \A u \in Threads : pc'[u] # pc[u] => pc'[u] \notin {"none", "create"} /\ pc[u] # "create"
    BY <1>1, <1>2
  <2> QED
    BY <1>1, <2>1, Constants DEF Moving, Started
<1> QED
  BY <1>3, <1>4 DEF Moving

LEMMA MainMoving ==
  ASSUME TInv, Moving, main
  PROVE  Moving'
<1>1. /\ pc \in [Threads -> Places] /\ created \in 0 .. Len(Kind) /\ Len(Kind) \in Nat
      /\ Created = 1 .. Len(Kind) /\ Main \notin Created /\ locked' = locked
  BY CreatedRange DEF TInv, TypeOK, main
<1>2. pc[Main] = "create"
  BY DEF main, At
<1>3. CASE created < Len(Kind)
  <2>1. /\ created' = created + 1 /\ created + 1 \in Created
        /\ pc' = [pc EXCEPT ![created + 1] = "call"]
    BY <1>1, <1>3 DEF main
  <2>2. pc[created + 1] = "none"
    BY <1>1, <2>1 DEF Moving, Started
  <2>3. /\ pc'[created + 1] = "call"
        /\ \A t \in Threads \ {created + 1} : pc'[t] = pc[t]
    BY <1>1, <2>1 DEF Threads
  <2>4. Held'
    BY <1>1, <2>2, <2>3 DEF Moving, Held, Inside, Section
  <2>5. pc'[Main] = "create"
    BY <1>1, <1>2, <2>1, <2>3, Constants
  <2>6. ASSUME NEW t \in Created
        PROVE  pc'[t] # "create" /\ (t <= created' <=> pc'[t] # "none")
    <3>1. CASE t = created + 1
      BY <1>1, <2>1, <2>3, <3>1
    <3>2. CASE t # created + 1
      <4>1. pc'[t] = pc[t]
        BY <2>3, <3>2 DEF Threads
      <4>2. t <= created + 1 <=> t <= created
        BY <1>1, <3>2
      <4> QED
        BY <2>1, <4>1, <4>2 DEF Moving, Started
    <3> QED
      BY <3>1, <3>2
  <2> QED
    BY <2>4, <2>5, <2>6 DEF Moving, Started
<1>4. CASE ~(created < Len(Kind))
  <2>1. created' = created /\ pc' = [pc EXCEPT ![Main] = "call"] /\ created = Len(Kind)
    BY <1>1, <1>4 DEF main
  <2>2. /\ pc'[Main] = "call"
        /\ \A t \in Threads \ {Main} : pc'[t] = pc[t]
    BY <1>1, <2>1, Constants
  <2>3. Held'
    BY <1>1, <1>2, <2>2 DEF Moving, Held, Inside, Section
  <2>4. Started'
    BY <1>1, <2>1, <2>2 DEF Moving, Started, Threads
  <2> QED
    BY <2>3, <2>4 DEF Moving
<1> QED
  BY <1>3, <1>4

(* Some thread can go on until all have ended, for any threads, requests    *)
(* and page size: no order of the unlocks, the second one of pm_free_lock   *)
(* included, leaves the mutex held by nobody, and the joins of main wait    *)
(* only for threads that can go on.                                         *)
THEOREM SomeThreadGoesOn ==
  Spec => [](process = "running" => AllEnded \/ \E t \in Threads : MayGoOn(t))
<1>1. Init => Moving
  <2> SUFFICES ASSUME Init PROVE Moving
    OBVIOUS
  <2>1. pc[Main] = "create" /\ created = 0 /\ ~locked
    BY CreatedRange DEF Init
  <2>2. \A t \in Created : pc[t] = "none" /\ ~(t <= created)
    BY <2>1, CreatedRange DEF Init
  <2> QED
    BY <2>1, <2>2 DEF Moving, Held, Started
<1>2. TInv /\ Moving /\ [Next]_vars => Moving'
  <2> SUFFICES ASSUME TInv, Moving, [Next]_vars PROVE Moving'
    OBVIOUS
  <2>1. CASE main
    BY <2>1, MainMoving
  <2>2. CASE \E t \in Threads : ThreadStep(t)
    BY <2>2, ThreadMoving
  <2>3. CASE UNCHANGED vars
    BY <2>3 DEF vars, thread, Moving, Held, Started, Inside
  <2> QED
    BY <2>1, <2>2, <2>3 DEF Next, Ended
<1>3. TInv /\ Moving => AllEnded \/ \E t \in Threads : MayGoOn(t)
  <2> SUFFICES ASSUME TInv, Moving, \A t \in Threads : ~MayGoOn(t)
               PROVE  AllEnded
    OBVIOUS
  <2>1. ~locked
    BY DEF Moving, Held, Inside, MayGoOn
  <2>2. \A t \in Threads : pc[t] \in {"none", "create", "ended"}
    BY <2>1 DEF TInv, TypeOK, Places, MayGoOn, MutexFree, Section
  <2>3. pc[Main] = "ended"
    <3> SUFFICES ASSUME pc[Main] # "ended" PROVE FALSE
      OBVIOUS
    <3>1. pc[Main] = "create" /\ Main \in Threads
      BY <2>2, Constants DEF Moving, Started
    <3>2. created = Len(Kind)
      BY <3>1 DEF MayGoOn
    <3>3. \A t \in Created : pc[t] = "ended"
      BY <2>2, <3>2, CreatedRange DEF Moving, Started, Threads
    <3> QED
      BY <3>1, <3>3 DEF MayGoOn, Joined
  <2>4. created = Len(Kind)
    BY <2>3 DEF Moving, Started
  <2>5. \A t \in Created : pc[t] = "ended"
    BY <2>2, <2>4, CreatedRange DEF Moving, Started, Threads
  <2> QED
    BY <2>3, <2>5 DEF AllEnded, Threads
<1> QED
  BY <1>1, <1>2, <1>3, AlwaysTInv, PTL DEF Spec
=============================================================================
