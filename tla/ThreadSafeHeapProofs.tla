------------------------ MODULE ThreadSafeHeapProofs ------------------------
(***************************************************************************)
(* What the allocator of PracticumV2/mymalloc.c keeps for any set of       *)
(* threads making any calls, although the heap may be initialized several  *)
(* times: types, blocks within their heap, and a page that is never loaded. *)
(* And what it keeps if the heap is initialized once: a list that ascends; *)
(* and, for calls like main's, blocks that are not shared and page table   *)
(* entries that belong to a block somebody holds.                          *)
(***************************************************************************)
EXTENDS ThreadSafeHeap, NaturalsInduction, WellFoundedInduction, FiniteSetTheorems,
        SequenceTheorems, TLAPS

Places == {"outside", "map", "clear", "setfree", "setsize", "lock",
           "search", "split", "finish"}
Initializing == {"clear", "setfree", "setsize"}
Locked       == {"search", "split", "finish"}

(* A heap starts with its first block.                                      *)
Heads == head # NULL => head[2] = 0

(* Where a thread is in its call says what it may rely on.                  *)
ControlOf(t) ==
  /\ pc[t] # "outside" => ~Finished(t) /\ Call(t).op \in {"malloc", "load"}
  /\ pc[t] \in Initializing \cup {"lock"} \cup Locked => head # NULL
  /\ pc[t] \in {"search", "split"} => curr[t] \in Blocks
  /\ pc[t] = "split" => NewBlock(curr[t], Call(t).n) \in Blocks
Control == \A t \in Threads : ControlOf(t)

Shape == TypeOK /\ Heads /\ Control /\ InsideHeap

LEMMA CallTyped ==
  ASSUME TypeOK, NEW t \in Threads, ~Finished(t)
  PROVE  Call(t) \in CallTypes /\ Call(t).n \in Nat /\ done[t] + 1 \in 0 .. Len(Program[t])
<1>1. Program[t] \in Seq(CallTypes) /\ done[t] \in 0 .. Len(Program[t]) /\ Len(Program[t]) \in Nat
  BY HeapAssumption DEF TypeOK
<1>2. done[t] + 1 \in 1 .. Len(Program[t])
  BY <1>1 DEF Finished
<1>3. Call(t) \in CallTypes
  BY <1>1, <1>2 DEF Call
<1> QED
  BY <1>1, <1>2, <1>3 DEF CallTypes

LEMMA CompletedTyped ==
  ASSUME TypeOK, NEW t \in Threads, ~Finished(t), Completed(t)
  PROVE  done' \in [Threads -> Nat] /\ \A u \in Threads : done'[u] <= Len(Program[u])
<1>1. done[t] + 1 \in 0 .. Len(Program[t])
  BY CallTyped
<1>2. done' \in [Threads -> Nat]
  BY DEF Completed, TypeOK
<1>3. ASSUME NEW u \in Threads PROVE done'[u] <= Len(Program[u])
  BY <1>1, <1>3 DEF Completed, TypeOK
<1> QED
  BY <1>2, <1>3

(* A nonempty set of natural numbers has a least element.                   *)
LEMMA LeastNatural ==
  ASSUME NEW S \in SUBSET Nat, S # {}
  PROVE  \E i \in S : \A j \in S : i <= j
<1> DEFINE R == OpToRel(<, Nat)
<1>1. IsWellFoundedOn(R, Nat)
  BY NatLessThanWellFounded
<1>2. PICK i \in S : \A j \in S : ~ (<<j, i>> \in R)
  <2> HIDE DEF R
  <2> QED
    BY <1>1, WFMin
<1>3. ASSUME NEW j \in S PROVE i <= j
  <2>1. i \in Nat /\ j \in Nat
    OBVIOUS
  <2>2. ~(j < i)
    BY <1>2, <2>1 DEF OpToRel
  <2> QED
    BY <2>1, <2>2
<1> QED
  BY <1>3

(* The entries left after a free are a sequence of blocks.                  *)
LEMMA WithoutTyped ==
  ASSUME ptes \in Seq(Blocks), NEW b \in Blocks
  PROVE  Without(b) \in Seq(Blocks)
<1> DEFINE at == {i \in 1 .. Len(ptes) : ptes[i] = b}
           first == CHOOSE i \in at : \A j \in at : i <= j
<1>1. CASE at = {}
  BY <1>1 DEF Without
<1>2. CASE at # {}
  <2>1. at \in SUBSET Nat
    OBVIOUS
  <2> HIDE DEF at
  <2>3. \E i \in at : \A j \in at : i <= j
    BY <1>2, <2>1, LeastNatural
  <2>4. first \in at
    BY <2>3
  <2>5. first \in 1 .. Len(ptes)
    BY <2>4 DEF at
  <2> HIDE DEF first
  <2>6. SubSeq(ptes, 1, first - 1) \in Seq(Blocks) /\ SubSeq(ptes, first + 1, Len(ptes)) \in Seq(Blocks)
    BY <2>5
  <2>7. Without(b) = SubSeq(ptes, 1, first - 1) \o SubSeq(ptes, first + 1, Len(ptes))
    BY <1>2 DEF Without, first, at
  <2> QED
    BY <2>6, <2>7
<1> QED
  BY <1>1, <1>2

-----------------------------------------------------------------------------
LEMMA InitShape == Init => Shape
<1> SUFFICES ASSUME Init PROVE Shape
  OBVIOUS
<1>1. HeapSize - Hdr \in Nat
  BY HeapAssumption DEF Hdr
<1>2. TypeOK
  BY <1>1, HeapAssumption DEF Init, TypeOK, Blank
<1>3. Heads /\ Control
  BY DEF Init, Heads, Control, ControlOf, Initializing, Locked
<1>4. InsideHeap
  BY HeapAssumption DEF Init, InsideHeap, Blank, Blocks, Addresses, Hdr
<1> QED
  BY <1>2, <1>3, <1>4 DEF Shape

Header == [size : 0 .. HeapSize - Hdr, free : BOOLEAN, next : Blocks \cup {NULL},
           data : Blocks \cup {NULL, JUNK}]

LEMMA HeaderChanged ==
  ASSUME hdr \in [Blocks -> Header], NEW b \in Blocks, NEW h \in Header,
         hdr' = [hdr EXCEPT ![b] = h]
  PROVE  /\ hdr' \in [Blocks -> Header]
         /\ hdr'[b] = h
         /\ \A a \in Blocks : a # b => hdr'[a] = hdr[a]
  OBVIOUS

LEMMA HeaderEdited ==
  ASSUME NEW h \in Header
  PROVE  /\ \A f \in BOOLEAN : [h EXCEPT !.free = f] \in Header
         /\ \A x \in Blocks \cup {NULL} : [h EXCEPT !.next = x] \in Header
         /\ \A n \in 0 .. HeapSize - Hdr : [h EXCEPT !.size = n] \in Header
         /\ \A d \in Blocks \cup {NULL, JUNK} :
              [h EXCEPT !.free = FALSE, !.data = d] \in Header
         /\ \A x \in Blocks \cup {NULL}, n \in 0 .. HeapSize - Hdr :
              [h EXCEPT !.next = x, !.size = n] \in Header
  BY DEF Header

(* A step of t leaves the others where they are.                            *)
Elsewhere(t) ==
  /\ head # NULL => head' # NULL
  /\ \A u \in Threads \ {t} : pc'[u] = pc[u] /\ curr'[u] = curr[u] /\ done'[u] = done[u]

LEMMA OthersControlled ==
  ASSUME Control, NEW t \in Threads, Elsewhere(t), ControlOf(t)'
  PROVE  Control'
<1> SUFFICES ASSUME NEW u \in Threads, u # t PROVE ControlOf(u)'
  BY DEF Control
<1>1. ControlOf(u)
  BY DEF Control
<1>2. pc'[u] = pc[u] /\ curr'[u] = curr[u] /\ done'[u] = done[u] /\ (head # NULL => head' # NULL)
  BY DEF Elsewhere
<1> QED
  BY <1>1, <1>2 DEF ControlOf, Finished, Call

LEMMA ConstantFacts ==
  /\ Hdr = 1 /\ HeapSize \in Nat /\ HeapSize > 1
  /\ \A b \in Blocks : b[1] \in Threads /\ b[2] \in 0 .. HeapSize - 1 /\ b = <<b[1], b[2]>>
  /\ \A u \in Threads, a \in 0 .. HeapSize - 1 :
       <<u, a>> \in Blocks /\ <<u, a>>[1] = u /\ <<u, a>>[2] = a
  /\ NULL \notin Blocks /\ JUNK \notin Blocks /\ NULL # JUNK /\ NULL \notin Threads
  BY HeapAssumption DEF Hdr, Blocks, Addresses

(* The steps, one after the other.                                          *)
LEMMA StepShape ==
  ASSUME Shape, NEW t \in Threads, ThreadStep(t)
  PROVE  Shape'
<1> USE ConstantFacts DEF Shape
<1>c. ~Finished(t) => Call(t) \in CallTypes /\ Call(t).n \in Nat /\ done[t] + 1 \in 0 .. Len(Program[t])
  BY CallTyped
<1>d. ControlOf(t)
  BY DEF Control
<1>1. CASE CallMalloc(t)
  <2>1. TypeOK'
    BY <1>1, <1>c, <1>d DEF CallMalloc, At, Calls, Goto, memory, client, paging, TypeOK, ControlOf, Initializing, Locked
  <2>2. Heads' /\ Elsewhere(t)
    BY <1>1 DEF CallMalloc, At, Calls, Goto, memory, client, paging, TypeOK, Heads, Elsewhere
  <2>3. ControlOf(t)'
    BY <1>1, <1>d DEF CallMalloc, At, Calls, Goto, memory, client, paging, TypeOK, Finished, Call, ControlOf, Initializing, Locked
  <2>4. InsideHeap'
    BY <1>1 DEF CallMalloc, memory, InsideHeap
  <2> QED
    BY <2>1, <2>2, <2>3, <2>4, OthersControlled
<1>2. CASE MapHeap(t)
  <2>1. TypeOK'
    <3>1. <<t, 0>> \in Blocks
      OBVIOUS
    <3>2. place' \in [Threads -> {"far", "wild", "zero"}]
      BY <1>2 DEF MapHeap, TypeOK
    <3> QED
      BY <1>2, <3>1, <3>2 DEF MapHeap, Goto, client, paging, TypeOK
  <2>2. Heads' /\ Elsewhere(t)
    BY <1>2 DEF MapHeap, At, Goto, client, paging, TypeOK, Heads, Elsewhere
  <2>3. ControlOf(t)'
    <3>1. pc[t] = "map" /\ pc'[t] = "clear" /\ done' = done /\ head' = <<t, 0>> /\ <<t, 0>> \in Blocks
      BY <1>2 DEF MapHeap, At, Goto, client, TypeOK
    <3> QED
      BY <1>d, <3>1 DEF Finished, Call, ControlOf, Initializing, Locked
  <2>4. InsideHeap'
    BY <1>2 DEF MapHeap, memory, InsideHeap
  <2> QED
    BY <2>1, <2>2, <2>3, <2>4, OthersControlled
<1>3. CASE ClearTable(t)
  <2> DEFINE h == [hdr[head] EXCEPT !.next = NULL]
  <2>1. head \in Blocks /\ hdr \in [Blocks -> Header]
    BY <1>3, <1>d DEF ClearTable, At, TypeOK, Header, ControlOf, Initializing, Locked
  <2>4. h \in Header
    <3>1. hdr[head] \in Header
      BY <2>1
    <3> QED
      BY <2>1, <3>1, HeaderEdited
  <2>5. hdr' = [hdr EXCEPT ![head] = h]
    BY <1>3, <2>1 DEF ClearTable
  <2>6. /\ hdr' \in [Blocks -> Header]
        /\ hdr'[head] = h
        /\ \A a \in Blocks : a # head => hdr'[a] = hdr[a]
    BY <2>1, <2>4, <2>5, HeaderChanged
  <2>8. TypeOK'
    BY <1>3, <1>d, <2>1, <2>6 DEF ClearTable, At, Goto, client, TypeOK, Header, ControlOf, Initializing, Locked
  <2>9. Heads' /\ Elsewhere(t)
    BY <1>3 DEF ClearTable, At, Goto, client, Heads, Elsewhere, TypeOK
  <2>10. ControlOf(t)'
    BY <1>3, <1>d DEF ClearTable, At, Goto, client, TypeOK, Finished, Call, ControlOf, Initializing, Locked
  <2>11. h.size = hdr[head].size
    BY <2>1 DEF Header
  <2> HIDE DEF h
  <2>12. InsideHeap'
    BY <2>1, <2>6, <2>11 DEF InsideHeap
  <2> QED
    BY <2>8, <2>9, <2>10, <2>12, OthersControlled
<1>4. CASE SetFree(t)
  <2> DEFINE h == [hdr[head] EXCEPT !.free = TRUE]
  <2>1. head \in Blocks /\ hdr \in [Blocks -> Header]
    BY <1>4, <1>d DEF SetFree, At, TypeOK, Header, ControlOf, Initializing, Locked
  <2>4. h \in Header
    <3>1. hdr[head] \in Header
      BY <2>1
    <3> QED
      BY <2>1, <3>1, HeaderEdited
  <2>5. hdr' = [hdr EXCEPT ![head] = h]
    BY <1>4, <2>1 DEF SetFree
  <2>6. /\ hdr' \in [Blocks -> Header]
        /\ hdr'[head] = h
        /\ \A a \in Blocks : a # head => hdr'[a] = hdr[a]
    BY <2>1, <2>4, <2>5, HeaderChanged
  <2>8. TypeOK'
    BY <1>4, <1>d, <2>1, <2>6 DEF SetFree, At, Goto, client, paging, TypeOK, Header, ControlOf, Initializing, Locked
  <2>9. Heads' /\ Elsewhere(t)
    BY <1>4 DEF SetFree, At, Goto, client, paging, Heads, Elsewhere, TypeOK
  <2>10. ControlOf(t)'
    BY <1>4, <1>d DEF SetFree, At, Goto, client, paging, TypeOK, Finished, Call, ControlOf, Initializing, Locked
  <2>11. h.size = hdr[head].size
    BY <2>1 DEF Header
  <2> HIDE DEF h
  <2>12. InsideHeap'
    BY <2>1, <2>6, <2>11 DEF InsideHeap
  <2> QED
    BY <2>8, <2>9, <2>10, <2>12, OthersControlled
<1>5. CASE SetSize(t)
  <2> DEFINE h == [hdr[head] EXCEPT !.size = HeapSize - Hdr]
  <2>1. head \in Blocks /\ hdr \in [Blocks -> Header]
    BY <1>5, <1>d DEF SetSize, At, TypeOK, Header, ControlOf, Initializing, Locked
  <2>4. h \in Header
    <3>1. hdr[head] \in Header /\ HeapSize - Hdr \in 0 .. HeapSize - Hdr
      BY <2>1
    <3> QED
      BY <2>1, <3>1, HeaderEdited
  <2>5. hdr' = [hdr EXCEPT ![head] = h]
    BY <1>5, <2>1 DEF SetSize, InitSize
  <2>6. /\ hdr' \in [Blocks -> Header]
        /\ hdr'[head] = h
        /\ \A a \in Blocks : a # head => hdr'[a] = hdr[a]
    BY <2>1, <2>4, <2>5, HeaderChanged
  <2>8. TypeOK'
    BY <1>5, <1>d, <2>1, <2>6 DEF SetSize, At, Goto, client, paging, InitSize, TypeOK, Header, ControlOf, Initializing, Locked
  <2>9. Heads' /\ Elsewhere(t)
    BY <1>5 DEF SetSize, At, Goto, client, paging, InitSize, Heads, Elsewhere, TypeOK
  <2>10. ControlOf(t)'
    BY <1>5, <1>d DEF SetSize, At, Goto, client, paging, InitSize, TypeOK, Finished, Call, ControlOf, Initializing, Locked
  <2>11. h.size = HeapSize - 1
    BY <2>1 DEF Header
  <2> HIDE DEF h
  <2>12. InsideHeap'
    BY <2>1, <2>6, <2>11 DEF InsideHeap, Heads
  <2> QED
    BY <2>8, <2>9, <2>10, <2>12, OthersControlled
<1>6. CASE Lock(t)
  <2>1. TypeOK'
    BY <1>6, <1>c, <1>d DEF Lock, At, Goto, memory, client, paging, TypeOK, ControlOf, Initializing, Locked
  <2>2. Heads' /\ Elsewhere(t)
    BY <1>6 DEF Lock, At, Goto, memory, client, paging, TypeOK, Heads, Elsewhere
  <2>3. ControlOf(t)'
    BY <1>6, <1>d DEF Lock, At, Goto, memory, client, paging, TypeOK, Finished, Call, ControlOf, Initializing, Locked
  <2>4. InsideHeap'
    BY <1>6 DEF Lock, memory, InsideHeap
  <2> QED
    BY <2>1, <2>2, <2>3, <2>4, OthersControlled
<1>7. CASE Search(t)
  <2>1. TypeOK'
    BY <1>7, <1>c, <1>d DEF Search, At, Goto, memory, client, paging, TypeOK, ControlOf, Initializing, Locked
  <2>2. Heads' /\ Elsewhere(t)
    BY <1>7 DEF Search, At, Goto, memory, client, paging, TypeOK, Heads, Elsewhere
  <2>3. ControlOf(t)'
    BY <1>7, <1>d DEF Search, At, Goto, memory, client, paging, TypeOK, Finished, Call, ControlOf, Initializing, Locked
  <2>4. InsideHeap'
    BY <1>7 DEF Search, memory, InsideHeap
  <2> QED
    BY <2>1, <2>2, <2>3, <2>4, OthersControlled
<1>8. CASE Take(t)
  <2> DEFINE h == [hdr[curr[t]] EXCEPT !.free = FALSE, !.data = curr[t]]
  <2>1. curr[t] \in Blocks /\ hdr \in [Blocks -> Header]
    BY <1>8, <1>d DEF Take, At, TypeOK, Header, ControlOf, Initializing, Locked
  <2>4. h \in Header
    <3>1. hdr[curr[t]] \in Header
      BY <2>1
    <3> QED
      BY <2>1, <3>1, HeaderEdited
  <2>5. hdr' = [hdr EXCEPT ![curr[t]] = h]
    BY <1>8, <2>1 DEF Take, Taken
  <2>6. /\ hdr' \in [Blocks -> Header]
        /\ hdr'[curr[t]] = h
        /\ \A a \in Blocks : a # curr[t] => hdr'[a] = hdr[a]
    BY <2>1, <2>4, <2>5, HeaderChanged
  <2>8. TypeOK'
    BY <1>8, <1>d, <2>1, <2>6 DEF Take, At, Goto, client, paging, Taken, TypeOK, Header, ControlOf, Initializing, Locked
  <2>9. Heads' /\ Elsewhere(t)
    BY <1>8 DEF Take, At, Goto, client, paging, Taken, Heads, Elsewhere, TypeOK
  <2>10. ControlOf(t)'
    BY <1>8, <1>d DEF Take, At, Goto, client, paging, Taken, TypeOK, Finished, Call, ControlOf, Initializing, Locked
  <2>11. h.size = hdr[curr[t]].size
    BY <2>1 DEF Header
  <2> HIDE DEF h
  <2>12. InsideHeap'
    BY <2>1, <2>6, <2>11 DEF InsideHeap
  <2> QED
    BY <2>8, <2>9, <2>10, <2>12, OthersControlled
<1>9. CASE SplitNew(t)
  <2> DEFINE b == curr[t]
             n == Call(t).n
             new == NewBlock(b, n)
  <2>1. /\ b \in Blocks /\ hdr \in [Blocks -> Header] /\ n \in Nat
        /\ Fits(b, n) /\ hdr[b].size > n + 1
    BY <1>9, <1>c, <1>d DEF SplitNew, At, Larger, TypeOK, Header, ControlOf, Initializing, Locked
  <2>2. hdr[b] \in Header /\ b[2] + 1 + hdr[b].size <= HeapSize
    BY <2>1 DEF InsideHeap
  <2>3. hdr[b].size \in 0 .. HeapSize - 1 /\ hdr[b].next \in Blocks \cup {NULL}
    BY <2>2 DEF Header
  <2>4. new \in Blocks /\ new = <<b[1], b[2] + 1 + n>> /\ new[2] = b[2] + 1 + n
    BY <2>1, <2>2, <2>3 DEF NewBlock
  <2> HIDE DEF new
  <2>5. PICK d \in OldData(b, new) : hdr' = [hdr EXCEPT ![new] = NewHeader(b, n, d)]
    BY <1>9 DEF SplitNew, new
  <2>6. d \in Blocks \cup {NULL, JUNK}
    BY <2>1, <2>4 DEF OldData, Header
  <2>7. /\ NewHeader(b, n, d) \in Header
        /\ NewHeader(b, n, d).size = hdr[b].size - 1 - n
    BY <2>1, <2>3, <2>4, <2>6 DEF NewHeader, Header, new
  <2>8. /\ hdr' \in [Blocks -> Header]
        /\ hdr'[new] = NewHeader(b, n, d)
        /\ \A a \in Blocks : a # new => hdr'[a] = hdr[a]
    BY <2>1, <2>4, <2>5, <2>7, HeaderChanged
  <2>9. TypeOK'
    BY <1>9, <2>8 DEF SplitNew, Goto, client, paging, TypeOK, Header
  <2>10. Heads' /\ Elsewhere(t)
    BY <1>9 DEF SplitNew, Goto, client, Heads, Elsewhere, TypeOK
  <2>11. ControlOf(t)'
    BY <1>9, <1>d, <2>1, <2>4 DEF SplitNew, At, Goto, client, TypeOK, Finished, Call, new, ControlOf, Initializing, Locked
  <2>12. InsideHeap'
    BY <2>1, <2>2, <2>3, <2>4, <2>7, <2>8 DEF InsideHeap
  <2> QED
    BY <2>9, <2>10, <2>11, <2>12, OthersControlled
<1>10. CASE SplitOld(t)
  <2> DEFINE h == [hdr[curr[t]] EXCEPT !.next = NewBlock(curr[t], Call(t).n), !.size = Call(t).n]
  <2>1. curr[t] \in Blocks /\ hdr \in [Blocks -> Header]
    BY <1>10, <1>d DEF SplitOld, At, TypeOK, Header, ControlOf, Initializing, Locked
  <2>2. Call(t).n \in Nat /\ NewBlock(curr[t], Call(t).n) \in Blocks
    BY <1>10, <1>c, <1>d DEF SplitOld, At, ControlOf, Initializing, Locked
  <2>3. curr[t][2] + Hdr + Call(t).n < HeapSize
    BY <2>1, <2>2 DEF NewBlock
  <2>4. h \in Header
    <3>1. hdr[curr[t]] \in Header /\ Call(t).n \in 0 .. HeapSize - Hdr
      BY <2>1, <2>2, <2>3
    <3> QED
      BY <2>2, <3>1, HeaderEdited
  <2>5. hdr' = [hdr EXCEPT ![curr[t]] = h]
    BY <1>10, <2>1 DEF SplitOld
  <2>6. /\ hdr' \in [Blocks -> Header]
        /\ hdr'[curr[t]] = h
        /\ \A a \in Blocks : a # curr[t] => hdr'[a] = hdr[a]
    BY <2>1, <2>4, <2>5, HeaderChanged
  <2>8. TypeOK'
    BY <1>10, <1>d, <2>1, <2>6 DEF SplitOld, At, Goto, client, paging, TypeOK, Header, ControlOf, Initializing, Locked
  <2>9. Heads' /\ Elsewhere(t)
    BY <1>10 DEF SplitOld, At, Goto, client, paging, Heads, Elsewhere, TypeOK
  <2>10. ControlOf(t)'
    BY <1>10, <1>d DEF SplitOld, At, Goto, client, paging, TypeOK, Finished, Call, ControlOf, Initializing, Locked
  <2>11. h.size = Call(t).n
    BY <2>1 DEF Header
  <2> HIDE DEF h
  <2>12. InsideHeap'
    BY <2>1, <2>2, <2>3, <2>6, <2>11 DEF InsideHeap
  <2> QED
    BY <2>8, <2>9, <2>10, <2>12, OthersControlled
<1>11. CASE FinishNull(t)
  <2>1. TypeOK'
    <3>1. ~Finished(t) /\ Completed(t)
      BY <1>11, <1>d DEF FinishNull, ControlOf, At, Return
    <3>2. done' \in [Threads -> Nat] /\ \A u \in Threads : done'[u] <= Len(Program[u])
      BY <3>1, CompletedTyped
    <3> QED
      BY <1>11, <3>2 DEF FinishNull, Return, Goto, memory, paging, TypeOK
  <2>2. Heads' /\ Elsewhere(t)
    BY <1>11 DEF FinishNull, At, Return, Goto, Completed, memory, paging, TypeOK, Heads, Elsewhere
  <2>3. ControlOf(t)'
    BY <1>11, <1>d DEF FinishNull, At, Return, Goto, Completed, memory, paging, TypeOK, Finished, Call, ControlOf, Initializing, Locked
  <2>4. InsideHeap'
    BY <1>11 DEF FinishNull, Return, memory, InsideHeap
  <2> QED
    BY <2>1, <2>2, <2>3, <2>4, OthersControlled
<1>12. CASE FinishFar(t)
  <2>1. TypeOK'
    <3>1. ~Finished(t) /\ Completed(t)
      BY <1>12, <1>d DEF FinishFar, ControlOf, At, Return
    <3>2. done' \in [Threads -> Nat] /\ \A u \in Threads : done'[u] <= Len(Program[u])
      BY <3>1, CompletedTyped
    <3> QED
      BY <1>12, <3>2 DEF FinishFar, Return, Goto, memory, paging, TypeOK
  <2>2. Heads' /\ Elsewhere(t)
    BY <1>12 DEF FinishFar, At, Return, Goto, Completed, memory, paging, TypeOK, Heads, Elsewhere
  <2>3. ControlOf(t)'
    BY <1>12, <1>d DEF FinishFar, At, Return, Goto, Completed, memory, paging, TypeOK, Finished, Call, ControlOf, Initializing, Locked
  <2>4. InsideHeap'
    BY <1>12 DEF FinishFar, Return, memory, InsideHeap
  <2> QED
    BY <2>1, <2>2, <2>3, <2>4, OthersControlled
<1>13. CASE FinishWild(t)
  <2>1. TypeOK'
    BY <1>13, <1>c, <1>d DEF FinishWild, At, memory, thread, client, paging, TypeOK, ControlOf, Initializing, Locked
  <2>2. Heads' /\ Elsewhere(t)
    BY <1>13 DEF FinishWild, At, memory, thread, client, paging, TypeOK, Heads, Elsewhere
  <2>3. ControlOf(t)'
    BY <1>13, <1>d DEF FinishWild, At, memory, thread, client, paging, TypeOK, Finished, Call, ControlOf, Initializing, Locked
  <2>4. InsideHeap'
    BY <1>13 DEF FinishWild, memory, InsideHeap
  <2> QED
    BY <2>1, <2>2, <2>3, <2>4, OthersControlled
<1>14. CASE FinishPaged(t)
  <2>0. res[t] \in Blocks
    BY <1>14 DEF FinishPaged, PlaceOf, TypeOK
  <2>1. TypeOK'
    <3>1. ~Finished(t) /\ Completed(t)
      BY <1>14, <1>d DEF FinishPaged, ControlOf, At, Return
    <3>2. done' \in [Threads -> Nat] /\ \A u \in Threads : done'[u] <= Len(Program[u])
      BY <3>1, CompletedTyped
    <3> QED
      <4>1. ptes' \in Seq(Blocks) /\ pageMapped' = TRUE
        BY <1>14, <2>0 DEF FinishPaged, TypeOK
      <4> QED
        BY <1>14, <2>0, <3>2, <4>1 DEF FinishPaged, Return, Goto, memory, TypeOK
  <2>2. Heads' /\ Elsewhere(t)
    BY <1>14 DEF FinishPaged, At, Return, Goto, Completed, memory, TypeOK, Heads, Elsewhere
  <2>3. ControlOf(t)'
    BY <1>14, <1>d DEF FinishPaged, At, Return, Goto, Completed, memory, TypeOK, Finished, Call, ControlOf, Initializing, Locked
  <2>4. InsideHeap'
    BY <1>14 DEF FinishPaged, Return, memory, InsideHeap
  <2> QED
    BY <2>1, <2>2, <2>3, <2>4, OthersControlled
<1>15. CASE FreeNull(t)
  <2>1. TypeOK'
    <3>1. ~Finished(t) /\ Completed(t)
      BY <1>15, <1>d DEF FreeNull, At, Calls
    <3>2. done' \in [Threads -> Nat] /\ \A u \in Threads : done'[u] <= Len(Program[u])
      BY <3>1, CompletedTyped
    <3> QED
      BY <1>15, <3>2 DEF FreeNull, memory, thread, paging, TypeOK
  <2>2. Heads' /\ Elsewhere(t)
    BY <1>15 DEF FreeNull, At, Calls, Completed, memory, thread, paging, TypeOK, Heads, Elsewhere
  <2>3. ControlOf(t)'
    BY <1>15, <1>d DEF FreeNull, At, Calls, Completed, memory, thread, paging, TypeOK, Finished, Call, ControlOf, Initializing, Locked
  <2>4. InsideHeap'
    BY <1>15 DEF FreeNull, memory, InsideHeap
  <2> QED
    BY <2>1, <2>2, <2>3, <2>4, OthersControlled
<1>16. CASE FreeBlock(t)
  <2> DEFINE h == [hdr[ptr[t]] EXCEPT !.free = TRUE]
  <2>1. ptr[t] \in Blocks /\ hdr \in [Blocks -> Header]
    BY <1>16, <1>d DEF FreeBlock, At, TypeOK, Header, ControlOf, Initializing, Locked
  <2>4. h \in Header
    <3>1. hdr[ptr[t]] \in Header
      BY <2>1
    <3> QED
      BY <2>1, <3>1, HeaderEdited
  <2>5. hdr' = [hdr EXCEPT ![ptr[t]] = h]
    BY <1>16, <2>1 DEF FreeBlock
  <2>6. /\ hdr' \in [Blocks -> Header]
        /\ hdr'[ptr[t]] = h
        /\ \A a \in Blocks : a # ptr[t] => hdr'[a] = hdr[a]
    BY <2>1, <2>4, <2>5, HeaderChanged
  <2>7. ptes' \in Seq(Blocks)
    BY <1>16, <2>1, WithoutTyped DEF FreeBlock, TypeOK
  <2>8. TypeOK'
    <3>1. done' \in [Threads -> Nat] /\ \A u \in Threads : done'[u] <= Len(Program[u])
      BY <1>16, CompletedTyped DEF FreeBlock, Calls
    <3> QED
      BY <1>16, <2>6, <2>7, <3>1 DEF FreeBlock, thread, TypeOK, Header
  <2>9. Heads' /\ Elsewhere(t)
    BY <1>16 DEF FreeBlock, At, Calls, Completed, thread, Heads, Elsewhere, TypeOK
  <2>10. ControlOf(t)'
    BY <1>16, <1>d DEF FreeBlock, At, Calls, Completed, thread, TypeOK, Finished, Call, ControlOf, Initializing, Locked
  <2>11. h.size = hdr[ptr[t]].size
    BY <2>1 DEF Header
  <2> HIDE DEF h
  <2>12. InsideHeap'
    BY <2>1, <2>6, <2>11 DEF InsideHeap
  <2> QED
    BY <2>8, <2>9, <2>10, <2>12, OthersControlled
<1>17. CASE Join(t)
  <2>1. TypeOK'
    <3>1. ASSUME NEW u \in Threads
          PROVE  done'[u] = done[u] + 1 /\ done[u] + 1 \in 0 .. Len(Program[u])
      BY <1>17, CallTyped DEF Join, AtJoin, Calls
    <3>2. done' \in [Threads -> Nat] /\ \A u \in Threads : done'[u] <= Len(Program[u])
      BY <1>17, <3>1 DEF Join, TypeOK
    <3> QED
      BY <1>17, <3>2 DEF Join, memory, thread, TypeOK
  <2>2. Heads' /\ InsideHeap'
    BY <1>17 DEF Join, memory, Heads, InsideHeap
  <2>3. Control'
    BY <1>17 DEF Join, AtJoin, memory, thread, Control, ControlOf, Initializing, Locked
  <2> QED
    BY <2>1, <2>2, <2>3
<1>18. CASE Store(t)
  <2>1. TypeOK'
    <3>1. ~Finished(t) /\ Completed(t)
      BY <1>18, <1>d DEF Store, At, Calls
    <3>2. done' \in [Threads -> Nat] /\ \A u \in Threads : done'[u] <= Len(Program[u])
      BY <3>1, CompletedTyped
    <3> QED
      BY <1>18, <3>2 DEF Store, memory, thread, paging, TypeOK
  <2>2. Heads' /\ Elsewhere(t)
    BY <1>18 DEF Store, At, Calls, Completed, memory, thread, paging, TypeOK, Heads, Elsewhere
  <2>3. ControlOf(t)'
    BY <1>18, <1>d DEF Store, At, Calls, Completed, memory, thread, paging, TypeOK, Finished, Call, ControlOf, Initializing, Locked
  <2>4. InsideHeap'
    BY <1>18 DEF Store, memory, InsideHeap
  <2> QED
    BY <2>1, <2>2, <2>3, <2>4, OthersControlled
<1>19. CASE Save(t)
  <2>1. TypeOK'
    <3>1. ~Finished(t) /\ Completed(t)
      BY <1>19, <1>d DEF Save, At, Calls
    <3>2. done' \in [Threads -> Nat] /\ \A u \in Threads : done'[u] <= Len(Program[u])
      BY <3>1, CompletedTyped
    <3> QED
      BY <1>19, <3>2 DEF Save, memory, thread, paging, TypeOK
  <2>2. Heads' /\ Elsewhere(t)
    BY <1>19 DEF Save, At, Calls, Completed, memory, thread, paging, TypeOK, Heads, Elsewhere
  <2>3. ControlOf(t)'
    BY <1>19, <1>d DEF Save, At, Calls, Completed, memory, thread, paging, TypeOK, Finished, Call, ControlOf, Initializing, Locked
  <2>4. InsideHeap'
    BY <1>19 DEF Save, memory, InsideHeap
  <2> QED
    BY <2>1, <2>2, <2>3, <2>4, OthersControlled
<1> QED
  BY <1>1, <1>2, <1>3, <1>4, <1>5, <1>6, <1>7, <1>8, <1>9, <1>10, <1>11, <1>12, <1>13, <1>14, <1>15, <1>16, <1>17, <1>18, <1>19 DEF ThreadStep

LEMMA NextShape == Shape /\ [Next]_vars => Shape'
<1> SUFFICES ASSUME Shape, [Next]_vars PROVE Shape'
  OBVIOUS
<1>1. CASE UNCHANGED vars
  BY <1>1 DEF vars, memory, thread, client, paging, Shape, TypeOK, Heads, InsideHeap,
              Control, ControlOf, Finished, Call
<1>2. ASSUME NEW t \in Threads, ThreadStep(t) PROVE Shape'
  BY <1>2, StepShape
<1> QED
  BY <1>1, <1>2 DEF Next, Ended

LEMMA AlwaysShape == Spec => []Shape
<1> QED
  BY InitShape, NextShape, PTL DEF Spec

(* The types hold for any threads, calls and length of the heap.            *)
THEOREM AllocatorTypeCorrect == Spec => []TypeOK
<1>1. Shape => TypeOK
  BY DEF Shape
<1> QED
  BY <1>1, AlwaysShape, PTL

(* No block ever reaches past the end of its heap, in whatever order the    *)
(* initializations and the splits of several threads write the headers.     *)
THEOREM BlocksStayInside == Spec => []InsideHeap
<1>1. Shape => InsideHeap
  BY DEF Shape
<1> QED
  BY <1>1, AlwaysShape, PTL

-----------------------------------------------------------------------------
(* One initialization.  A thread in the section holds the mutex; nobody has *)
(* mapped a heap twice, and without one every header is blank; the first    *)
(* block is of size 0 until the end of init_heap, which is why nobody       *)
(* splits it meanwhile; and blocks that are linked are adjacent.            *)
Owned == \A t \in Threads : pc[t] \in Locked => mutex = t

Unmapped ==
  /\ \A t \in Threads : pc[t] = "map" => t \notin initers
  /\ initers = {} <=> head = NULL
  /\ head = NULL => \A b \in Blocks : hdr[b].size = 0 /\ hdr[b].next = NULL

Settling(t) ==
  pc[t] \in Initializing => t \in initers /\ hdr[head].size = 0 /\ hdr[head].next = NULL

Splitting(t) == pc[t] = "split" => hdr[curr[t]].size > Call(t).n + Hdr

Adjacent ==
  \A b \in Blocks : hdr[b].next # NULL =>
    hdr[b].next[1] = b[1] /\ hdr[b].next[2] = b[2] + Hdr + hdr[b].size

OneHeap == Adjacent /\ \A t \in Threads : Settling(t) /\ Splitting(t)

Linked == Owned /\ Unmapped /\ (Once => OneHeap)

LEMMA InitLinked == Init => Linked
<1> SUFFICES ASSUME Init PROVE Linked
  OBVIOUS
<1>1. \A b \in Blocks : hdr[b].size = 0 /\ hdr[b].next = NULL
  BY DEF Init, Blank
<1> QED
  BY <1>1 DEF Init, Linked, Owned, Unmapped, OneHeap, Adjacent, Settling, Splitting,
              Locked, Initializing

(* A step that moves no thread into init_heap or a split and changes no     *)
(* size and no link.                                                        *)
Harmless(t) ==
  /\ head' = head /\ initers' = initers
  /\ \A b \in Blocks : hdr'[b].size = hdr[b].size /\ hdr'[b].next = hdr[b].next
  /\ \A u \in Threads :
       /\ pc'[u] \in Initializing => pc[u] \in Initializing
       /\ pc'[u] = "map" => pc[u] = "map" \/ head = NULL
       /\ pc'[u] = "split" => pc[u] = "split" /\ curr'[u] = curr[u] /\ done'[u] = done[u]

LEMMA HarmlessKeeps ==
  ASSUME Shape, Linked, NEW t \in Threads, Harmless(t)
  PROVE  Unmapped' /\ (Once' => OneHeap')
<1> USE ConstantFacts DEF Shape, Linked, Harmless
<1>1. Unmapped'
  BY DEF Unmapped
<1>2. ASSUME Once' PROVE OneHeap'
  <2>1. OneHeap
    BY <1>2 DEF Once
  <2>2. Adjacent'
    BY <2>1 DEF OneHeap, Adjacent
  <2>3. ASSUME NEW u \in Threads PROVE Settling(u)' /\ Splitting(u)'
    <3>1. Settling(u) /\ Splitting(u) /\ ControlOf(u)
      BY <2>1 DEF OneHeap, Control
    <3>2. pc[u] \in Initializing => head \in Blocks
      BY <3>1 DEF ControlOf, TypeOK
    <3>3. pc[u] = "split" => curr[u] \in Blocks
      BY <3>1 DEF ControlOf
    <3>4. Settling(u)'
      BY <3>1, <3>2 DEF Settling
    <3>5. Splitting(u)'
      BY <3>1, <3>3 DEF Splitting, Call
    <3> QED
      BY <3>4, <3>5
  <2> QED
    BY <2>2, <2>3 DEF OneHeap
<1> QED
  BY <1>1, <1>2

LEMMA StepOwned ==
  ASSUME Shape, Linked, NEW t \in Threads, ThreadStep(t)
  PROVE  Owned'
<1> USE ConstantFacts DEF Shape, Linked, Owned, TypeOK, Locked
<1>1. CASE CallMalloc(t) \/ MapHeap(t) \/ ClearTable(t) \/ SetFree(t) \/ SetSize(t)
  BY <1>1 DEF CallMalloc, MapHeap, ClearTable, SetFree, SetSize, At, Goto
<1>2. CASE Lock(t)
  BY <1>2 DEF Lock, At, Goto
<1>3. CASE Search(t) \/ Take(t) \/ SplitNew(t) \/ SplitOld(t) \/ FinishWild(t)
  BY <1>3 DEF Search, Take, SplitNew, SplitOld, FinishWild, At, Goto, thread
<1>4. CASE FinishNull(t) \/ FinishFar(t) \/ FinishPaged(t)
  <2>1. /\ pc[t] = "finish" /\ pc' = [pc EXCEPT ![t] = "outside"]
    BY <1>4 DEF FinishNull, FinishFar, FinishPaged, Return, At, Goto
  <2> QED
    BY <2>1
<1>5. CASE FreeNull(t) \/ FreeBlock(t) \/ Join(t) \/ Store(t) \/ Save(t)
  BY <1>5 DEF FreeNull, FreeBlock, Join, Store, Save, thread
<1> QED
  BY <1>1, <1>2, <1>3, <1>4, <1>5 DEF ThreadStep

(* The steps that link blocks or initialize the heap, one lemma each.       *)
LEMMA MapHeapKeeps ==
  ASSUME Shape, Linked, NEW t \in Threads, MapHeap(t)
  PROVE  Unmapped' /\ (Once' => OneHeap')
<1> USE ConstantFacts DEF Shape, Linked
<1>1. /\ head' = <<t, 0>> /\ <<t, 0>> \in Blocks /\ initers' = initers \cup {t}
      /\ hdr' = hdr /\ pc[t] = "map" /\ pc' = [pc EXCEPT ![t] = "clear"]
      /\ curr' = curr /\ done' = done /\ pc \in [Threads -> Places]
  BY DEF MapHeap, At, Goto, client, TypeOK, Places
<1>2. t \notin initers
  BY <1>1 DEF Unmapped
<1>3. Unmapped'
  BY <1>1 DEF Unmapped
<1>4. ASSUME Once' PROVE OneHeap'
  <2>1. initers = {}
    BY <1>1, <1>2, <1>4 DEF Once
  <2>2. head = NULL /\ \A b \in Blocks : hdr[b].size = 0 /\ hdr[b].next = NULL
    BY <2>1 DEF Unmapped
  <2>3. Adjacent'
    BY <1>1, <2>2 DEF Adjacent
  <2>4. ASSUME NEW u \in Threads PROVE Settling(u)' /\ Splitting(u)'
    <3>1. pc[u] \notin Initializing \cup Locked
      BY <2>2 DEF Control, ControlOf
    <3>2. CASE u = t
      BY <1>1, <2>2, <3>2 DEF Settling, Splitting
    <3>3. CASE u # t
      BY <1>1, <3>1, <3>3 DEF Settling, Splitting, Locked
    <3> QED
      BY <3>2, <3>3
  <2> QED
    BY <2>3, <2>4 DEF OneHeap
<1> QED
  BY <1>3, <1>4

(* Under Once, the thread inside init_heap is the only one to write there,  *)
(* and no split is under way at head.                                       *)
LEMMA InitFieldKeeps ==
  ASSUME Shape, Linked, NEW t \in Threads, ClearTable(t) \/ SetSize(t)
  PROVE  Unmapped' /\ (Once' => OneHeap')
<1> USE ConstantFacts DEF Shape, Linked
<1>1. /\ pc[t] \in Initializing /\ head' = head /\ initers' = initers
      /\ \E w \in {"setfree", "lock"} : pc' = [pc EXCEPT ![t] = w] /\ (w = "setfree" => pc[t] = "clear")
      /\ curr' = curr /\ done' = done /\ pc \in [Threads -> Places]
  BY DEF ClearTable, SetSize, At, Goto, client, TypeOK, Initializing, Places
<1>2. head \in Blocks
  BY <1>1 DEF Control, ControlOf, TypeOK
<1>3. /\ \A b \in Blocks \ {head} : hdr'[b].size = hdr[b].size /\ hdr'[b].next = hdr[b].next
      /\ ClearTable(t) => hdr'[head].size = hdr[head].size /\ hdr'[head].next = NULL
      /\ SetSize(t) => hdr'[head].next = hdr[head].next
  BY <1>2 DEF ClearTable, SetSize, TypeOK
<1>4. Unmapped'
  BY <1>1, <1>2 DEF Unmapped
<1>5. ASSUME Once' PROVE OneHeap'
  <2>1. OneHeap
    BY <1>1, <1>5 DEF Once
  <2>2. hdr[head].size = 0 /\ hdr[head].next = NULL /\ t \in initers
    BY <1>1, <2>1 DEF OneHeap, Settling
  <2>3. hdr'[head].next = NULL
    BY <1>3, <2>2
  <2>4. Adjacent'
    BY <1>2, <1>3, <2>1, <2>3 DEF OneHeap, Adjacent
  <2>5. ASSUME NEW u \in Threads PROVE Settling(u)'
    <3>1. CASE u = t
      BY <1>1, <1>3, <2>2, <3>1 DEF Settling, Initializing, ClearTable, SetSize, At
    <3>2. CASE u # t
      <4>1. u \notin initers
        BY <1>1, <1>5, <2>2, <3>2 DEF Once
      <4> QED
        BY <1>1, <2>1, <3>2, <4>1 DEF OneHeap, Settling
    <3> QED
      BY <3>1, <3>2
  <2>6. ASSUME NEW u \in Threads PROVE Splitting(u)'
    <3> SUFFICES ASSUME pc'[u] = "split" PROVE (hdr[curr[u]].size > Call(u).n + Hdr)'
      BY DEF Splitting
    <3>1. pc[u] = "split"
      BY <1>1
    <3>2. curr[u] \in Blocks /\ ~Finished(u) /\ hdr[curr[u]].size > Call(u).n + Hdr
      BY <2>1, <3>1 DEF OneHeap, Splitting, Control, ControlOf
    <3>3. Call(u).n \in Nat
      BY <3>2, CallTyped
    <3>4. curr[u] # head
      BY <2>2, <3>2, <3>3
    <3> QED
      BY <1>1, <1>3, <3>2, <3>4 DEF Call
  <2> QED
    BY <2>4, <2>5, <2>6 DEF OneHeap
<1> QED
  BY <1>4, <1>5

(* The new block ends where the block that is split ends.                   *)
LEMMA SplitNewKeeps ==
  ASSUME Shape, Linked, NEW t \in Threads, SplitNew(t)
  PROVE  Unmapped' /\ (Once' => OneHeap')
<1> DEFINE b == curr[t]
           n == Call(t).n
           new == NewBlock(b, n)
<1> USE ConstantFacts DEF Shape, Linked
<1>1. /\ pc[t] = "search" /\ pc' = [pc EXCEPT ![t] = "split"] /\ mutex = t
      /\ head' = head /\ initers' = initers /\ curr' = curr /\ done' = done
      /\ pc \in [Threads -> Places] /\ hdr \in [Blocks -> Header]
  BY DEF SplitNew, At, Goto, client, TypeOK, Owned, Locked, Header, Places
<1>2. b \in Blocks /\ ~Finished(t) /\ head \in Blocks /\ n \in Nat /\ hdr[b].size > n + 1
  BY <1>1, CallTyped DEF SplitNew, Larger, Control, ControlOf, TypeOK, Locked
<1>3. hdr[b] \in Header /\ b[2] + 1 + hdr[b].size <= HeapSize
  BY <1>1, <1>2 DEF InsideHeap
<1>4. hdr[b].size \in 0 .. HeapSize - 1 /\ hdr[b].next \in Blocks \cup {NULL}
  BY <1>3 DEF Header
<1>5. /\ new \in Blocks /\ new[1] = b[1] /\ new[2] = b[2] + 1 + n /\ new # b /\ new # head
  BY <1>2, <1>3, <1>4 DEF NewBlock, Heads
<1>6. PICK d \in OldData(b, new) : hdr' = [hdr EXCEPT ![new] = NewHeader(b, n, d)]
  BY DEF SplitNew
<1> HIDE DEF new
<1>7. /\ hdr'[new].size = hdr[b].size - 1 - n /\ hdr'[new].next = hdr[b].next
      /\ \A a \in Blocks \ {new} : hdr'[a] = hdr[a]
  BY <1>1, <1>5, <1>6 DEF NewHeader
<1>8. Unmapped'
  BY <1>1, <1>2 DEF Unmapped
<1>9. ASSUME Once' PROVE OneHeap'
  <2>1. OneHeap
    BY <1>1, <1>9 DEF Once
  <2>2. Adjacent'
    <3>1. ASSUME NEW a \in Blocks, a # new PROVE hdr'[a] = hdr[a]
      BY <1>7, <3>1
    <3>2. hdr[b].next # NULL => hdr[b].next[1] = b[1] /\ hdr[b].next[2] = b[2] + 1 + hdr[b].size
      BY <1>2, <2>1 DEF OneHeap, Adjacent
    <3>3. hdr'[new].next # NULL =>
            hdr'[new].next[1] = new[1] /\ hdr'[new].next[2] = new[2] + 1 + hdr'[new].size
      BY <1>2, <1>4, <1>5, <1>7, <3>2
    <3> QED
      BY <2>1, <3>1, <3>3 DEF OneHeap, Adjacent
  <2>3. ASSUME NEW u \in Threads PROVE Settling(u)'
    BY <1>1, <1>2, <1>5, <1>7, <2>1 DEF OneHeap, Settling, Initializing
  <2>4. ASSUME NEW u \in Threads PROVE Splitting(u)'
    <3>1. CASE u = t
      BY <1>1, <1>2, <1>5, <1>7, <3>1 DEF Splitting, Call
    <3>2. CASE u # t
      BY <1>1, <3>2 DEF Splitting, Owned, Locked
    <3> QED
      BY <3>1, <3>2
  <2> QED
    BY <2>2, <2>3, <2>4 DEF OneHeap
<1> QED
  BY <1>8, <1>9

LEMMA SplitOldKeeps ==
  ASSUME Shape, Linked, NEW t \in Threads, SplitOld(t)
  PROVE  Unmapped' /\ (Once' => OneHeap')
<1> DEFINE b == curr[t]
           n == Call(t).n
           new == NewBlock(b, n)
<1> USE ConstantFacts DEF Shape, Linked
<1>1. /\ pc[t] = "split" /\ pc' = [pc EXCEPT ![t] = "finish"] /\ mutex = t
      /\ head' = head /\ initers' = initers /\ curr' = curr /\ done' = done
      /\ pc \in [Threads -> Places] /\ hdr \in [Blocks -> Header]
      /\ hdr' = [hdr EXCEPT ![b].next = new, ![b].size = n]
  BY DEF SplitOld, At, Goto, client, TypeOK, Owned, Locked, Header, Places
<1>2. b \in Blocks /\ ~Finished(t) /\ head \in Blocks /\ n \in Nat /\ new \in Blocks
  BY <1>1, CallTyped DEF Control, ControlOf, TypeOK, Locked
<1>3. new[1] = b[1] /\ new[2] = b[2] + 1 + n
  BY <1>2 DEF NewBlock
<1> HIDE DEF new
<1>4. /\ hdr'[b].size = n /\ hdr'[b].next = new
      /\ \A a \in Blocks \ {b} : hdr'[a] = hdr[a]
  BY <1>1, <1>2 DEF Header
<1>5. Unmapped'
  BY <1>1, <1>2 DEF Unmapped
<1>6. ASSUME Once' PROVE OneHeap'
  <2>1. OneHeap
    BY <1>1, <1>6 DEF Once
  <2>2. Adjacent'
    BY <1>2, <1>3, <1>4, <2>1 DEF OneHeap, Adjacent
  <2>3. hdr[b].size > n + 1
    BY <1>1, <2>1 DEF OneHeap, Splitting
  <2>4. ASSUME NEW u \in Threads PROVE Settling(u)'
    <3> SUFFICES ASSUME pc'[u] \in Initializing PROVE Settling(u)'
      BY DEF Settling
    <3>1. pc[u] \in Initializing
      BY <1>1 DEF Initializing
    <3>2. u \in initers /\ hdr[head].size = 0 /\ hdr[head].next = NULL
      BY <2>1, <3>1 DEF OneHeap, Settling
    <3>3. head # b
      BY <1>2, <2>3, <3>2
    <3> QED
      BY <1>1, <1>2, <1>4, <3>2, <3>3 DEF Settling
  <2>5. ASSUME NEW u \in Threads PROVE Splitting(u)'
    BY <1>1 DEF Splitting, Owned, Locked
  <2> QED
    BY <2>2, <2>4, <2>5 DEF OneHeap
<1> QED
  BY <1>5, <1>6

LEMMA StepLinked ==
  ASSUME Shape, Linked, NEW t \in Threads, ThreadStep(t)
  PROVE  Linked'
<1> USE ConstantFacts
<1>0. pc \in [Threads -> Places] /\ hdr \in [Blocks -> Header] /\ ControlOf(t)
  BY DEF Shape, TypeOK, Places, Header, Control
<1>1. CASE CallMalloc(t)
  <2>1. Harmless(t)
    BY <1>0, <1>1 DEF CallMalloc, At, Goto, memory, client, Harmless, Initializing
  <2> QED
    BY <2>1, HarmlessKeeps, StepOwned DEF Linked
<1>2. CASE MapHeap(t)
  BY <1>2, MapHeapKeeps, StepOwned DEF Linked
<1>3. CASE ClearTable(t) \/ SetSize(t)
  BY <1>3, InitFieldKeeps, StepOwned DEF Linked
<1>4. CASE SetFree(t)
  <2>1. Harmless(t)
    BY <1>0, <1>4 DEF SetFree, At, Goto, client, Harmless, Initializing, Header
  <2> QED
    BY <2>1, HarmlessKeeps, StepOwned DEF Linked
<1>5. CASE Lock(t)
  <2>1. Harmless(t)
    BY <1>0, <1>5 DEF Lock, At, Goto, memory, client, Harmless, Initializing
  <2> QED
    BY <2>1, HarmlessKeeps, StepOwned DEF Linked
<1>6. CASE Search(t)
  <2>1. Harmless(t)
    BY <1>0, <1>6 DEF Search, At, Goto, memory, client, Harmless, Initializing, Shape, TypeOK
  <2> QED
    BY <2>1, HarmlessKeeps, StepOwned DEF Linked
<1>7. CASE Take(t)
  <2>1. Harmless(t)
    BY <1>0, <1>7 DEF Take, Taken, At, Goto, client, Harmless, Initializing, Header
  <2> QED
    BY <2>1, HarmlessKeeps, StepOwned DEF Linked
<1>8. CASE SplitNew(t)
  BY <1>8, SplitNewKeeps, StepOwned DEF Linked
<1>9. CASE SplitOld(t)
  BY <1>9, SplitOldKeeps, StepOwned DEF Linked
<1>10. CASE FinishNull(t) \/ FinishFar(t) \/ FinishPaged(t)
  <2>1. Harmless(t)
    <3>1. pc'[t] = "outside" /\ \A u \in Threads \ {t} : pc'[u] = pc[u] /\ done'[u] = done[u]
      BY <1>0, <1>10 DEF FinishNull, FinishFar, FinishPaged, Return, Completed, Goto, Shape, TypeOK
    <3>2. UNCHANGED <<memory, curr>>
      BY <1>10 DEF FinishNull, FinishFar, FinishPaged, Return
    <3> QED
      BY <3>1, <3>2 DEF memory, Harmless, Initializing
  <2> QED
    BY <2>1, HarmlessKeeps, StepOwned DEF Linked
<1>11. CASE FinishWild(t)
  <2>1. Harmless(t)
    BY <1>11 DEF FinishWild, memory, thread, client, Harmless
  <2> QED
    BY <2>1, HarmlessKeeps, StepOwned DEF Linked
<1>12. CASE FreeNull(t) \/ Store(t) \/ Save(t)
  <2>1. Harmless(t)
    <3>1. pc[t] = "outside" /\ \A u \in Threads \ {t} : done'[u] = done[u]
      BY <1>12 DEF FreeNull, Store, Save, Completed, At, Shape, TypeOK
    <3>2. UNCHANGED <<memory, thread>>
      BY <1>12 DEF FreeNull, Store, Save
    <3> QED
      BY <3>1, <3>2 DEF memory, thread, Harmless, Initializing
  <2> QED
    BY <2>1, HarmlessKeeps, StepOwned DEF Linked
<1>13. CASE FreeBlock(t)
  <2>1. Harmless(t)
    BY <1>0, <1>13 DEF FreeBlock, Completed, At, thread, Harmless, Header, Shape, TypeOK
  <2> QED
    BY <2>1, HarmlessKeeps, StepOwned DEF Linked
<1>14. CASE Join(t)
  <2>1. Harmless(t)
    BY <1>14 DEF Join, AtJoin, memory, thread, Harmless
  <2> QED
    BY <2>1, HarmlessKeeps, StepOwned DEF Linked
<1> QED
  BY <1>1, <1>2, <1>3, <1>4, <1>5, <1>6, <1>7, <1>8, <1>9, <1>10, <1>11, <1>12, <1>13, <1>14
     DEF ThreadStep

LEMMA NextLinked == Shape /\ Linked /\ [Next]_vars => Linked'
<1> SUFFICES ASSUME Shape, Linked, [Next]_vars PROVE Linked'
  OBVIOUS
<1>1. CASE UNCHANGED vars
  BY <1>1 DEF vars, memory, thread, client, Linked, Owned, Unmapped, Once, OneHeap, Adjacent,
              Settling, Splitting, Call
<1>2. ASSUME NEW t \in Threads, ThreadStep(t) PROVE Linked'
  BY <1>2, StepLinked
<1> QED
  BY <1>1, <1>2 DEF Next, Ended

(* After one initialization the list ascends, for any calls: without the    *)
(* race of two init_heaps no search is endless.                             *)
THEOREM ListAlwaysAscends == Spec => []ListAscends
<1>1. Shape /\ Linked => ListAscends
  <2> SUFFICES ASSUME Shape, Linked, Once, NEW b \in Blocks, hdr[b].next # NULL
               PROVE  hdr[b].next[1] = b[1] /\ hdr[b].next[2] > b[2]
    BY DEF ListAscends
  <2>1. hdr[b].next[1] = b[1] /\ hdr[b].next[2] = b[2] + Hdr + hdr[b].size
    BY DEF Linked, OneHeap, Adjacent
  <2>2. hdr \in [Blocks -> Header]
    BY DEF Shape, TypeOK, Header
  <2>3. hdr[b].size \in Nat
    BY <2>2, ConstantFacts DEF Header
  <2> QED
    BY <2>1, <2>3, ConstantFacts
<1> QED
  BY <1>1, InitLinked, NextLinked, AlwaysShape, PTL DEF Spec

-----------------------------------------------------------------------------
(* The calls of the threads, as the sets that conditions on them speak of.  *)
LEMMA WorkloadFacts ==
  /\ \A t \in Threads : Len(Program[t]) \in Nat /\ DOMAIN Program[t] = 1 .. Len(Program[t])
  /\ \A c : c \in Mallocs <=> /\ c \in Threads \X Nat
                             /\ c[2] \in 1 .. Len(Program[c[1]]) /\ Program[c[1]][c[2]].op = "malloc"
  /\ \A n : n \in Asked <=> \E t \in Threads : \E i \in 1 .. Len(Program[t]) :
                             Program[t][i].op = "malloc" /\ n = Program[t][i].n
  /\ Asked \subseteq Nat
<1>1. \A t \in Threads : Program[t] \in Seq(CallTypes) /\ Len(Program[t]) \in Nat
                          /\ DOMAIN Program[t] = 1 .. Len(Program[t])
  BY HeapAssumption
<1>2. \A c : c \in Mallocs <=> /\ c \in Threads \X Nat
                              /\ c[2] \in 1 .. Len(Program[c[1]]) /\ Program[c[1]][c[2]].op = "malloc"
  BY <1>1 DEF Mallocs
<1>3. \A n : n \in Asked <=> \E t \in Threads : \E i \in 1 .. Len(Program[t]) :
                             Program[t][i].op = "malloc" /\ n = Program[t][i].n
  <2>1. ASSUME NEW n \in Asked
        PROVE  \E t \in Threads : \E i \in 1 .. Len(Program[t]) :
                 Program[t][i].op = "malloc" /\ n = Program[t][i].n
    <3>1. PICK c \in Mallocs : n = Program[c[1]][c[2]].n
      BY DEF Asked
    <3> QED
      BY <1>2, <3>1
  <2>2. ASSUME NEW t \in Threads, NEW i \in 1 .. Len(Program[t]), Program[t][i].op = "malloc"
        PROVE  Program[t][i].n \in Asked
    <3>1. <<t, i>> \in Mallocs
      BY <1>1, <1>2, <2>2
    <3> QED
      BY <3>1 DEF Asked
  <2> QED
    BY <2>1, <2>2
<1>4. \A t \in Threads, i \in Nat : i \in 1 .. Len(Program[t]) => Program[t][i] \in CallTypes
  BY <1>1
<1>5. \A k \in CallTypes : k.n \in Nat
  BY DEF CallTypes
<1> QED
  BY <1>1, <1>2, <1>3, <1>4, <1>5

(* A request for a whole page finds no block that fits it: no size exceeds  *)
(* the length of a heap less a header.  So the thread that loads a page     *)
(* gets NULL, and load_page_from_disk ends the process.                     *)
NotLoaded(t, i) ==
  /\ done[t] < i
  /\ done[t] + 1 = i => pc[t] # "split" /\ (pc[t] \in {"search", "finish"} => res[t] = NULL)
BeforeLoad(t, i) == process = "running" => NotLoaded(t, i)

LEMMA PageTooLarge ==
  ASSUME TypeOK, NEW b \in Blocks
  PROVE  ~(hdr[b].size >= HeapSize)
<1>1. hdr[b] \in Header /\ HeapSize \in Nat
  BY ConstantFacts DEF TypeOK, Header
<1>2. hdr[b].size \in 0 .. HeapSize - 1
  BY <1>1, ConstantFacts DEF Header
<1> QED
  BY <1>1, <1>2

LEMMA StepBeforeLoad ==
  ASSUME Shape, NEW t \in Threads, NEW i \in Nat, Loads(t, i), BeforeLoad(t, i),
         NEW u \in Threads, ThreadStep(u)
  PROVE  BeforeLoad(t, i)'
<1> SUFFICES ASSUME process' = "running" PROVE NotLoaded(t, i)'
  BY DEF BeforeLoad
<1> USE ConstantFacts DEF NotLoaded
<1>1. /\ process = "running" /\ done \in [Threads -> Nat] /\ pc \in [Threads -> Places]
      /\ res \in [Threads -> Blocks \cup {NULL, JUNK}] /\ curr \in [Threads -> Blocks \cup {NULL}]
  <2>1. process = "running"
    BY DEF ThreadStep, CallMalloc, MapHeap, ClearTable, SetFree, SetSize, Lock, Search, Take,
           SplitNew, SplitOld, FinishNull, FinishFar, FinishWild, FinishPaged, FreeNull,
           FreeBlock, Join, Store, Save, At
  <2> QED
    BY <2>1 DEF Shape, TypeOK, Places
<1>2. /\ done[t] < i
      /\ done[t] + 1 = i => pc[t] # "split" /\ (pc[t] \in {"search", "finish"} => res[t] = NULL)
  BY <1>1 DEF BeforeLoad
<1>3. ~Finished(t) /\ (done[t] + 1 = i => Call(t) = LOAD)
  BY <1>1, <1>2 DEF Loads, Finished, Call
<1>4. LOAD.op = "load" /\ LOAD.n = HeapSize
  BY DEF LOAD
<1>5. CASE u = t
  <2>1. CASE CallMalloc(t) \/ MapHeap(t) \/ ClearTable(t) \/ SetFree(t) \/ SetSize(t)
    <3>1. done' = done
      BY <2>1 DEF CallMalloc, MapHeap, ClearTable, SetFree, SetSize, client
    <3>2. pc'[t] \in {"map", "lock", "clear", "setfree", "setsize"}
      BY <1>1, <2>1 DEF CallMalloc, MapHeap, ClearTable, SetFree, SetSize, Goto
    <3> QED
      BY <1>2, <3>1, <3>2
  <2>2. CASE Lock(t)
    BY <1>1, <1>2, <2>2 DEF Lock, Goto, client
  <2>3. CASE Search(t) \/ Take(t) \/ SplitNew(t)
    <3>1. done' = done /\ pc[t] = "search"
      BY <2>3 DEF Search, Take, SplitNew, client, At
    <3>2. ASSUME done[t] + 1 = i PROVE Search(t)
      <4>1. curr[t] \in Blocks
        BY <3>1 DEF Shape, Control, ControlOf
      <4>2. ~Fits(curr[t], Call(t).n)
        BY <1>3, <1>4, <3>2, <4>1, PageTooLarge DEF Shape, Fits
      <4> QED
        BY <2>3, <4>2 DEF Take, SplitNew
    <3>3. Search(t) => res' = res /\ pc'[t] \in {"search", "finish"}
      BY <1>1 DEF Search, Goto
    <3> QED
      BY <1>2, <3>1, <3>2, <3>3
  <2>4. CASE SplitOld(t)
    BY <1>2, <2>4 DEF SplitOld, At, client
  <2>5. CASE FinishNull(t)
    <3>1. done[t] + 1 # i
      BY <1>3, <1>4, <2>5 DEF FinishNull, NullFatal
    <3>2. done'[t] = done[t] + 1 /\ pc'[t] = "outside"
      BY <1>1, <2>5 DEF FinishNull, Return, Completed, Goto
    <3> QED
      BY <1>1, <1>2, <3>1, <3>2
  <2>6. CASE FinishFar(t) \/ FinishPaged(t)
    <3>1. done[t] + 1 # i
      BY <1>2, <2>6 DEF FinishFar, FinishPaged, At
    <3>2. done'[t] = done[t] + 1 /\ pc'[t] = "outside"
      BY <1>1, <2>6 DEF FinishFar, FinishPaged, Return, Completed, Goto
    <3> QED
      BY <1>1, <1>2, <3>1, <3>2
  <2>7. CASE FinishWild(t)
    BY <2>7 DEF FinishWild
  <2>8. CASE FreeNull(t) \/ FreeBlock(t) \/ Join(t) \/ Store(t) \/ Save(t)
    <3>1. pc[t] = "outside" /\ pc'[t] = pc[t] /\ done'[t] = done[t] + 1
      BY <1>1, <2>8 DEF FreeNull, FreeBlock, Join, AtJoin, Store, Save, At, Completed, thread
    <3>2. Call(t).op # "load"
      BY <2>8 DEF FreeNull, FreeBlock, Join, AtJoin, Store, Save, Calls
    <3>3. done[t] + 1 # i
      BY <1>3, <1>4, <3>2
    <3> QED
      BY <1>1, <1>2, <3>1, <3>3
  <2> QED
    BY <1>5, <2>1, <2>2, <2>3, <2>4, <2>5, <2>6, <2>7, <2>8 DEF ThreadStep
<1>6. CASE u # t
  <2>1. CASE Join(u)
    <3>1. pc[t] = "outside" /\ pc'[t] = pc[t] /\ done'[t] = done[t] + 1 /\ Call(t).op # "load"
      BY <1>1, <2>1 DEF Join, AtJoin, thread, Calls
    <3>2. done[t] + 1 # i
      BY <1>3, <1>4, <3>1
    <3> QED
      BY <1>1, <1>2, <3>1, <3>2
  <2>2. CASE ~Join(u)
    <3>1. pc'[t] = pc[t] /\ done'[t] = done[t] /\ res'[t] = res[t]
      BY <1>1, <1>6, <2>2 DEF ThreadStep, CallMalloc, MapHeap, ClearTable, SetFree, SetSize, Lock, Search, Take,
           SplitNew, SplitOld, FinishNull, FinishFar, FinishWild, FinishPaged, FreeNull,
           FreeBlock, Store, Save, Return, Completed, Goto, thread, client
    <3> QED
      BY <1>2, <3>1
  <2> QED
    BY <2>1, <2>2
<1> QED
  BY <1>5, <1>6

(* A disagreement, for every workload: main.c:135 says "Load a page from    *)
(* disk" of the call in thread_func2, and main.c:162 that main "calls on    *)
(* translateAddress for every entry in the addresses file", which it does   *)
(* after it has joined that thread.  But load_page_from_disk asks for a     *)
(* block as long as the whole heap with its first header.  Whatever the     *)
(* other threads do and however often they initialize the heap, a thread    *)
(* that loads a page never completes the call, so it is never joined: the   *)
(* process has ended, or the thread is still on its way to the exit.        *)
LoadPending(t, i) == process = "running" => done[t] < i

(* No thread comes back from load_page_from_disk: call i, which loads a     *)
(* page, is still ahead of t as long as the process runs.                   *)
THEOREM PageNeverLoaded ==
  ASSUME NEW t \in Threads, NEW i \in Nat, Loads(t, i)
  PROVE  Spec => []LoadPending(t, i)
<1>1. Init => BeforeLoad(t, i)
  BY WorkloadFacts DEF Init, BeforeLoad, NotLoaded, Loads
<1>2. Shape /\ BeforeLoad(t, i) /\ [Next]_vars => BeforeLoad(t, i)'
  <2> SUFFICES ASSUME Shape, BeforeLoad(t, i), [Next]_vars PROVE BeforeLoad(t, i)'
    OBVIOUS
  <2>1. CASE UNCHANGED vars
    BY <2>1 DEF vars, memory, thread, client, BeforeLoad, NotLoaded
  <2>2. ASSUME NEW u \in Threads, ThreadStep(u) PROVE BeforeLoad(t, i)'
    BY <2>2, StepBeforeLoad
  <2> QED
    BY <2>1, <2>2 DEF Next, Ended
<1>3. BeforeLoad(t, i) => LoadPending(t, i)
  BY DEF BeforeLoad, NotLoaded, LoadPending
<1> QED
  BY <1>1, <1>2, <1>3, AlwaysShape, PTL DEF Spec

-----------------------------------------------------------------------------
(* Who holds what after one initialization.  A split neither marks the      *)
(* block it returns nor sets its data, so that nothing is shared depends on *)
(* the requests: they differ by at most a header and always find room in    *)
(* the last block of the list.  Then only that last block is ever split,    *)
(* nothing beyond it has been written, and a split returns NULL; a block    *)
(* in the list is of a size that is taken as it is, which marks it.         *)
Last(b) == hdr[b].size > 0 /\ hdr[b].next = NULL
Roomy   == \A b \in Blocks : Last(b) => \A n \in Asked : hdr[b].size > n + Hdr

(* A thread has a block from the moment its search has taken it.            *)
Has(t, c)  == c \in Blocks /\ (ptr[t] = c \/ (pc[t] = "finish" /\ res[t] = c))
HasNone(t) == \A c \in Blocks : ~Has(t, c)

Empty == \A t \in Threads : pc[t] \in {"search", "split"} => res[t] = NULL

Untouched == \A b \in Blocks : hdr[b] = Blank \/ (b = head /\ hdr[b] = [Blank EXCEPT !.free = TRUE])
Unready   == head = NULL \/ \E t \in Threads : pc[t] \in Initializing
Before    == Unready => Untouched /\ \A t \in Threads : HasNone(t) /\ pc[t] # "split"

LinkedSmall == \A b \in Blocks : hdr[b].next # NULL => \A n \in Asked : hdr[b].size <= n + Hdr

Pending(b, c) == \E t \in Threads : pc[t] = "split" /\ curr[t] = b /\ c = NewBlock(b, Call(t).n)
Beyond(b, c)  == c[1] = b[1] /\ c[2] > b[2]
CleanAfter(b) == hdr[b].data = NULL /\ \A c \in Blocks : Beyond(b, c) => hdr[c] = Blank \/ Pending(b, c)
LastClean     == \A b \in Blocks : Last(b) => CleanAfter(b)

Cutting  == \A t \in Threads : pc[t] = "split" => hdr[curr[t]].next = NULL
Marked   == \A t \in Threads : \A c \in Blocks : Has(t, c) => ~hdr[c].free /\ hdr[c].next # NULL
Separate == \A t, u \in Threads : \A c \in Blocks : Has(t, c) /\ Has(u, c) => t = u

Clean == Before /\ LinkedSmall /\ LastClean /\ Cutting /\ Marked /\ Separate
Sound == Empty /\ (Once => Clean)

LEMMA Typed ==
  ASSUME Shape
  PROVE  /\ pc \in [Threads -> Places] /\ hdr \in [Blocks -> Header]
         /\ head \in Blocks \cup {NULL} /\ curr \in [Threads -> Blocks \cup {NULL}]
         /\ res \in [Threads -> Blocks \cup {NULL, JUNK}]
         /\ ptr \in [Threads -> Blocks \cup {NULL, JUNK}]
         /\ done \in [Threads -> Nat] /\ initers \subseteq Threads
         /\ \A b \in Blocks : hdr[b].size \in Nat /\ hdr[b].free \in BOOLEAN
<1>1. hdr \in [Blocks -> Header]
    BY DEF Shape, TypeOK, Header
<1>2. \A b \in Blocks : hdr[b].size \in Nat /\ hdr[b].free \in BOOLEAN
    BY <1>1, ConstantFacts DEF Header
<1> QED
    BY <1>1, <1>2 DEF Shape, TypeOK, Places

LEMMA BlankFields ==
  /\ Blank.size = 0 /\ Blank.next = NULL /\ Blank.data = NULL
  /\ [Blank EXCEPT !.free = TRUE].size = 0 /\ [Blank EXCEPT !.free = TRUE].next = NULL
  /\ [Blank EXCEPT !.free = TRUE].data = NULL
  BY DEF Blank

LEMMA UntouchedFields ==
  ASSUME Untouched, NEW b \in Blocks
  PROVE  hdr[b].size = 0 /\ hdr[b].next = NULL /\ hdr[b].data = NULL
  BY BlankFields DEF Untouched

LEMMA Rewritten == ASSUME NEW h \in Header PROVE [h EXCEPT !.next = h.next] = h
  BY DEF Header

(* One thread is in the section.                                            *)
LEMMA OneInside ==
  ASSUME Linked, NEW t \in Threads, NEW u \in Threads, pc[t] \in Locked, pc[u] \in Locked
  PROVE  t = u
  BY DEF Linked, Owned

(* A request that is no larger than a block is not one for a whole page.    *)
LEMMA FittingAsked ==
  ASSUME Shape, NEW t \in Threads, pc[t] \in {"search", "split"}
  PROVE  /\ Call(t).n \in Nat /\ curr[t] \in Blocks
         /\ hdr[curr[t]].size >= Call(t).n => Call(t).n \in Asked
<1>1. ~Finished(t) /\ Call(t).op \in {"malloc", "load"} /\ curr[t] \in Blocks
  BY DEF Shape, Control, ControlOf
<1>2. Call(t) \in CallTypes /\ Call(t).n \in Nat /\ done[t] + 1 \in 0 .. Len(Program[t])
  BY <1>1, CallTyped DEF Shape
<1>3. ASSUME hdr[curr[t]].size >= Call(t).n PROVE Call(t).n \in Asked
  <2>1. Call(t).n # HeapSize
    BY <1>1, <1>3, PageTooLarge DEF Shape
  <2>2. Call(t).op = "malloc"
    BY <1>1, <1>2, <2>1 DEF CallTypes, LOAD
  <2>3. done[t] + 1 \in 1 .. Len(Program[t])
    BY <1>2, Typed
  <2> QED
    BY <1>2, <2>2, <2>3, WorkloadFacts DEF Call
<1> QED
  BY <1>1, <1>2, <1>3

-----------------------------------------------------------------------------
LEMMA InitSound == Init => Sound
<1> SUFFICES ASSUME Init PROVE Sound
  OBVIOUS
<1>1. \A b \in Blocks : hdr[b] = Blank
  BY DEF Init
<1>2. \A t \in Threads : pc[t] = "outside" /\ HasNone(t)
  BY ConstantFacts DEF Init, HasNone, Has
<1>3. Before
  BY <1>1, <1>2 DEF Before, Untouched
<1>4. LinkedSmall /\ LastClean
  BY <1>1, BlankFields DEF LinkedSmall, LastClean, Last
<1>5. Cutting /\ Marked /\ Separate /\ Empty
  BY <1>2 DEF Cutting, Marked, Separate, Empty, HasNone
<1> QED
  BY <1>3, <1>4, <1>5 DEF Sound, Clean

(* A step that writes no header, and after which nobody has more than       *)
(* before.                                                                  *)
Calm ==
  /\ hdr' = hdr /\ head' = head /\ initers' = initers
  /\ \A u \in Threads :
       /\ pc'[u] \in Initializing => pc[u] \in Initializing
       /\ pc'[u] = "split" <=> pc[u] = "split"
       /\ pc[u] = "split" => curr'[u] = curr[u] /\ done'[u] = done[u]
       /\ \A c \in Blocks : Has(u, c)' => Has(u, c)

LEMMA CalmKeeps ==
  ASSUME Shape, Linked, Sound, Calm, Once'
  PROVE  Clean'
<1>1. Clean
  BY DEF Calm, Sound, Once
<1>2. Before'
  BY <1>1 DEF Calm, Clean, Before, Unready, Untouched, HasNone
<1>3. LinkedSmall'
  BY <1>1 DEF Calm, Clean, LinkedSmall
<1>4. LastClean'
  <2> SUFFICES ASSUME NEW b \in Blocks, Last(b)' PROVE CleanAfter(b)'
    BY DEF LastClean
  <2>1. CleanAfter(b)
    BY <1>1 DEF Calm, Clean, LastClean, Last
  <2>2. ASSUME NEW c \in Blocks, Pending(b, c) PROVE Pending(b, c)'
    BY <2>2 DEF Pending, Calm, Call
  <2> QED
    BY <2>1, <2>2 DEF CleanAfter, Calm
<1>5. Cutting'
  BY <1>1 DEF Calm, Clean, Cutting
<1>6. Marked'
  BY <1>1 DEF Calm, Clean, Marked
<1>7. Separate'
  BY <1>1 DEF Calm, Clean, Separate
<1> QED
  BY <1>2, <1>3, <1>4, <1>5, <1>6, <1>7 DEF Clean

LEMMA StepEmpty ==
  ASSUME Shape, Sound, NEW t \in Threads, ThreadStep(t)
  PROVE  Empty'
<1> USE Typed DEF Sound, Empty
<1>1. CASE CallMalloc(t) \/ MapHeap(t) \/ ClearTable(t) \/ SetFree(t) \/ SetSize(t) \/ Lock(t)
  BY <1>1 DEF CallMalloc, MapHeap, ClearTable, SetFree, SetSize, Lock, Goto
<1>2. CASE Search(t) \/ SplitNew(t)
  BY <1>2 DEF Search, SplitNew, At, Goto
<1>3. CASE Take(t) \/ SplitOld(t)
  BY <1>3 DEF Take, SplitOld, Goto
<1>4. CASE FinishNull(t) \/ FinishFar(t) \/ FinishPaged(t)
  BY <1>4 DEF FinishNull, FinishFar, FinishPaged, Return, Goto
<1>5. CASE FinishWild(t) \/ FreeNull(t) \/ FreeBlock(t) \/ Join(t) \/ Store(t) \/ Save(t)
  BY <1>5 DEF FinishWild, FreeNull, FreeBlock, Join, Store, Save, thread
<1> QED
  BY <1>1, <1>2, <1>3, <1>4, <1>5 DEF ThreadStep

LEMMA StepCalm ==
  ASSUME Shape, Linked, Sound, NEW t \in Threads,
         \/ CallMalloc(t) \/ Lock(t) \/ Search(t)
         \/ FinishNull(t) \/ FinishFar(t) \/ FinishWild(t) \/ FinishPaged(t)
         \/ FreeNull(t) \/ Join(t) \/ Store(t) \/ Save(t)
  PROVE  Calm
<1> USE Typed
<1>1. CASE CallMalloc(t) \/ Lock(t)
  <2>1. /\ hdr' = hdr /\ head' = head /\ initers' = initers /\ done' = done /\ ptr' = ptr
        /\ pc[t] \in {"outside", "lock"} /\ pc'[t] \in {"map", "lock", "search"}
        /\ \A u \in Threads \ {t} : pc'[u] = pc[u] /\ curr'[u] = curr[u] /\ res'[u] = res[u]
    BY <1>1 DEF CallMalloc, Lock, At, Goto, memory, client
  <2> QED
    BY <2>1 DEF Calm, Has, Initializing
<1>2. CASE Search(t)
  <2>1. /\ hdr' = hdr /\ head' = head /\ initers' = initers /\ done' = done /\ ptr' = ptr /\ res' = res
        /\ pc[t] = "search" /\ pc'[t] \in {"finish", "search"}
        /\ \A u \in Threads \ {t} : pc'[u] = pc[u] /\ curr'[u] = curr[u]
    BY <1>2 DEF Search, At, Goto, memory, client
  <2>2. res[t] = NULL
    BY <2>1 DEF Sound, Empty
  <2> QED
    BY <2>1, <2>2, ConstantFacts DEF Calm, Has, Initializing
<1>3. CASE FinishNull(t) \/ FinishFar(t) \/ FinishPaged(t)
  <2>1. /\ hdr' = hdr /\ head' = head /\ initers' = initers /\ curr' = curr /\ res' = res
        /\ pc[t] = "finish" /\ pc'[t] = "outside" /\ ptr'[t] \in {ptr[t], res[t]}
        /\ \A u \in Threads \ {t} : pc'[u] = pc[u] /\ ptr'[u] = ptr[u] /\ done'[u] = done[u]
    BY <1>3 DEF FinishNull, FinishFar, FinishPaged, Return, Completed, At, Goto, memory
  <2> QED
    BY <2>1 DEF Calm, Has, Initializing
<1>4. CASE FinishWild(t)
  BY <1>4 DEF FinishWild, memory, thread, client, Calm, Has
<1>5. CASE FreeNull(t) \/ Store(t) \/ Save(t)
  <2>1. /\ hdr' = hdr /\ head' = head /\ initers' = initers /\ curr' = curr /\ res' = res
        /\ pc' = pc /\ pc[t] = "outside" /\ ptr' = ptr
        /\ \A u \in Threads \ {t} : done'[u] = done[u]
    BY <1>5 DEF FreeNull, Store, Save, Completed, At, memory, thread
  <2> QED
    BY <2>1 DEF Calm, Has
<1>6. CASE Join(t)
  <2>1. /\ hdr' = hdr /\ head' = head /\ initers' = initers /\ curr' = curr /\ res' = res
        /\ pc' = pc /\ ptr' = ptr /\ \A u \in Threads : pc[u] = "outside"
    BY <1>6 DEF Join, AtJoin, memory, thread
  <2> QED
    BY <2>1 DEF Calm, Has
<1> QED
  BY <1>1, <1>2, <1>3, <1>4, <1>5, <1>6

(* While the heap is being made, by one thread, nobody has anything and     *)
(* every header is blank but for the mark of the first.                     *)
LEMMA MapHeapClean ==
  ASSUME Shape, Linked, Sound, NEW t \in Threads, MapHeap(t), Once'
  PROVE  Clean'
<1> USE Typed
<1>1. /\ hdr' = hdr /\ initers' = initers \cup {t} /\ pc[t] = "map"
      /\ pc' = [pc EXCEPT ![t] = "clear"] /\ UNCHANGED <<curr, res, ptr, done>>
  BY DEF MapHeap, At, Goto, client
<1>2. initers = {}
  BY <1>1 DEF Once, Linked, Unmapped
<1>3. head = NULL /\ Once
  BY <1>2 DEF Linked, Unmapped, Once
<1>4. Untouched /\ \A u \in Threads : HasNone(u) /\ pc[u] # "split"
  BY <1>3 DEF Sound, Clean, Before, Unready
<1>5. \A b \in Blocks : hdr[b] = Blank
  BY <1>3, <1>4, ConstantFacts DEF Untouched
<1>6. \A u \in Threads : HasNone(u)' /\ pc'[u] # "split"
  BY <1>1, <1>4 DEF HasNone, Has
<1>7. Before' /\ Cutting' /\ Marked' /\ Separate'
  BY <1>1, <1>5, <1>6 DEF Before, Untouched, Cutting, Marked, Separate, HasNone
<1>8. LinkedSmall' /\ LastClean'
  BY <1>1, <1>5, BlankFields DEF LinkedSmall, LastClean, Last
<1> QED
  BY <1>7, <1>8 DEF Clean

LEMMA InitFieldClean ==
  ASSUME Shape, Linked, Sound, NEW t \in Threads, ClearTable(t) \/ SetFree(t), Once'
  PROVE  Clean'
<1> USE Typed
<1>1. /\ head' = head /\ initers' = initers /\ pc[t] \in Initializing
      /\ pc'[t] \in Initializing /\ \A u \in Threads \ {t} : pc'[u] = pc[u]
      /\ UNCHANGED <<curr, res, ptr, done>>
  BY DEF ClearTable, SetFree, At, Goto, client, Initializing
<1>2. Once /\ head \in Blocks
  BY <1>1 DEF Once, Shape, Control, ControlOf
<1>3. Untouched /\ \A u \in Threads : HasNone(u) /\ pc[u] # "split"
  BY <1>1, <1>2 DEF Sound, Clean, Before, Unready
<1>4. hdr[head] \in {Blank, [Blank EXCEPT !.free = TRUE]}
  BY <1>2, <1>3 DEF Untouched
<1>5. Untouched'
  <2>1. hdr[head] \in Header /\ hdr[head].next = NULL
    BY <1>2, <1>3, UntouchedFields
  <2>2. ASSUME ClearTable(t) PROVE hdr'[head] = hdr[head]
    <3>1. hdr'[head] = [hdr[head] EXCEPT !.next = hdr[head].next]
      BY <1>2, <2>1, <2>2 DEF ClearTable
    <3> QED
      BY <2>1, <3>1, Rewritten
  <2>3. ASSUME SetFree(t) PROVE hdr'[head] = [Blank EXCEPT !.free = TRUE]
    <3>1. hdr'[head] = [hdr[head] EXCEPT !.free = TRUE]
      BY <1>2, <2>3 DEF SetFree
    <3>2. [[Blank EXCEPT !.free = TRUE] EXCEPT !.free = TRUE] = [Blank EXCEPT !.free = TRUE]
      BY DEF Blank
    <3> QED
      BY <1>4, <3>1, <3>2
  <2>4. hdr'[head] \in {Blank, [Blank EXCEPT !.free = TRUE]}
    BY <1>4, <2>2, <2>3
  <2>5. \A b \in Blocks \ {head} : hdr'[b] = hdr[b]
    BY <1>2 DEF ClearTable, SetFree
  <2> QED
    BY <1>1, <1>3, <2>4, <2>5 DEF Untouched
<1>6. \A u \in Threads : HasNone(u)' /\ pc'[u] # "split"
  BY <1>1, <1>3 DEF HasNone, Has, Initializing
<1>7. Before' /\ Cutting' /\ Marked' /\ Separate'
  BY <1>5, <1>6 DEF Before, Cutting, Marked, Separate, HasNone
<1>8. \A b \in Blocks : hdr'[b].size = 0 /\ hdr'[b].next = NULL
  BY <1>5, BlankFields DEF Untouched
<1>9. LinkedSmall' /\ LastClean'
  BY <1>8 DEF LinkedSmall, LastClean, Last
<1> QED
  BY <1>7, <1>9 DEF Clean

LEMMA SetSizeClean ==
  ASSUME Shape, Linked, Sound, NEW t \in Threads, SetSize(t), Once'
  PROVE  Clean'
<1> USE Typed
<1>1. /\ head' = head /\ initers' = initers /\ pc[t] = "setsize" /\ pc' = [pc EXCEPT ![t] = "lock"]
      /\ UNCHANGED <<curr, res, ptr, done>>
  BY DEF SetSize, At, Goto, client
<1>2. Once /\ head \in Blocks
  BY <1>1 DEF Once, Shape, Control, ControlOf, Initializing
<1>3. Untouched /\ \A u \in Threads : HasNone(u) /\ pc[u] # "split"
  BY <1>1, <1>2 DEF Sound, Clean, Before, Unready, Initializing
<1>4. hdr'[head].next = NULL /\ hdr'[head].data = NULL /\ \A b \in Blocks \ {head} : hdr'[b] = Blank
  <2>1. hdr'[head].next = hdr[head].next /\ hdr'[head].data = hdr[head].data
    BY <1>2 DEF SetSize, Header
  <2>2. \A b \in Blocks \ {head} : hdr'[b] = hdr[b]
    BY <1>2 DEF SetSize
  <2> QED
    BY <1>2, <1>3, <2>1, <2>2, UntouchedFields DEF Untouched
<1>5. \A u \in Threads : HasNone(u)' /\ pc'[u] # "split"
  BY <1>1, <1>3 DEF HasNone, Has
<1>6. Cutting' /\ Marked' /\ Separate'
  BY <1>5 DEF Cutting, Marked, Separate, HasNone
<1>7. \A u \in Threads : pc'[u] \notin Initializing
  <2> SUFFICES ASSUME NEW u \in Threads, pc'[u] \in Initializing PROVE FALSE
    OBVIOUS
  <2>1. u # t /\ pc[u] \in Initializing
    BY <1>1 DEF Initializing
  <2>2. Settling(u) /\ Settling(t)
    BY <1>2 DEF Linked, OneHeap
  <2>3. u \in initers /\ t \in initers
    BY <1>1, <2>1, <2>2 DEF Settling, Initializing
  <2> QED
    BY <1>2, <2>1, <2>3 DEF Once
<1>8. Before'
  BY <1>1, <1>2, <1>7, ConstantFacts DEF Before, Unready
<1>9. LinkedSmall'
  BY <1>4, BlankFields DEF LinkedSmall
<1>10. LastClean'
  <2> SUFFICES ASSUME NEW b \in Blocks, Last(b)' PROVE CleanAfter(b)'
    BY DEF LastClean
  <2>1. b = head
    BY <1>4, BlankFields DEF Last
  <2>2. \A c \in Blocks : Beyond(b, c) => c # b
    BY ConstantFacts DEF Beyond
  <2> QED
    BY <1>4, <2>1, <2>2 DEF CleanAfter
<1> QED
  BY <1>6, <1>8, <1>9, <1>10 DEF Clean

-----------------------------------------------------------------------------
(* The search.  A block is never larger than 0 before the heap is ready.    *)
LEMMA ReadyWhenSized ==
  ASSUME Clean, NEW b \in Blocks, hdr[b].size > 0
  PROVE  ~Unready
  BY UntouchedFields DEF Clean, Before

LEMMA TakeClean ==
  ASSUME Alike, Shape, Linked, Sound, Once => Roomy, NEW t \in Threads, Take(t), Once'
  PROVE  Clean'
<1> DEFINE b == curr[t]
           n == Call(t).n
<1> USE Typed
<1>1. /\ head' = head /\ initers' = initers /\ pc[t] = "search" /\ pc' = [pc EXCEPT ![t] = "finish"]
      /\ Fits(b, n) /\ ~Larger(b, n) /\ res' = [res EXCEPT ![t] = b]
      /\ hdr' = [hdr EXCEPT ![b].free = FALSE, ![b].data = b]
      /\ UNCHANGED <<curr, ptr, done>>
  BY DEF Take, Taken, At, Goto, client
<1>0. Once /\ Clean /\ Roomy
  <2>1. Once
    BY <1>1 DEF Once
  <2> QED
    BY <2>1 DEF Sound
<1>2. b \in Blocks /\ n \in Nat /\ n \in Asked /\ Once /\ Clean /\ Roomy
  BY <1>0, <1>1, FittingAsked DEF Fits
<1>3. hdr[b].free /\ hdr[b].size > 0
  <2>1. n > 0 /\ hdr[b].size >= n
    BY <1>1, <1>2 DEF Fits, Alike
  <2> QED
    BY <1>1, <1>2, <2>1 DEF Fits
<1>4. hdr[b].next # NULL
  BY <1>1, <1>2, <1>3 DEF Roomy, Last, Larger
<1>5. ~Unready /\ ~Unready'
  BY <1>1, <1>2, <1>3, ReadyWhenSized DEF Unready, Initializing
<1>6. /\ ~hdr'[b].free /\ hdr'[b].next = hdr[b].next /\ hdr'[b].size = hdr[b].size
      /\ \A a \in Blocks \ {b} : hdr'[a] = hdr[a]
  BY <1>1, <1>2 DEF Header
<1>7. \A u \in Threads : pc[u] # "split" /\ pc'[u] # "split"
  BY <1>1, OneInside DEF Locked
<1>8. \A u \in Threads : ~Has(u, b)
  BY <1>2, <1>3 DEF Clean, Marked
<1>9. \A u \in Threads, c \in Blocks : Has(u, c)' => Has(u, c) \/ (u = t /\ c = b)
  BY <1>1 DEF Has
<1>10. LinkedSmall'
  BY <1>2, <1>6 DEF Clean, LinkedSmall
<1>11. LastClean'
  <2> SUFFICES ASSUME NEW a \in Blocks, Last(a)' PROVE CleanAfter(a)'
    BY DEF LastClean
  <2>1. a # b /\ Last(a) /\ hdr'[a] = hdr[a]
    BY <1>4, <1>6 DEF Last
  <2>2. CleanAfter(a)
    BY <1>2, <2>1 DEF Clean, LastClean
  <2>3. ASSUME NEW c \in Blocks, Beyond(a, c) PROVE hdr'[c] = Blank
    <3>1. hdr[c] = Blank
      BY <1>7, <2>2, <2>3 DEF CleanAfter, Pending
    <3> QED
      BY <1>4, <1>6, <3>1, BlankFields
  <2> QED
    BY <2>1, <2>2, <2>3 DEF CleanAfter
<1>12. Marked'
  BY <1>2, <1>4, <1>6, <1>9 DEF Clean, Marked
<1>13. Separate'
  BY <1>2, <1>8, <1>9 DEF Clean, Separate
<1>14. Before' /\ Cutting'
  BY <1>5, <1>7 DEF Before, Cutting
<1> QED
  BY <1>10, <1>11, <1>12, <1>13, <1>14 DEF Clean

(* A block that is large enough to be split is the last of its heap, so the *)
(* new one lies where nothing has been written.                             *)
LEMMA SplitNewClean ==
  ASSUME Alike, Shape, Linked, Sound, NEW t \in Threads, SplitNew(t), Once'
  PROVE  Clean'
<1> DEFINE b == curr[t]
           n == Call(t).n
           new == NewBlock(b, n)
<1> USE Typed
<1>1. /\ head' = head /\ initers' = initers /\ pc[t] = "search" /\ pc' = [pc EXCEPT ![t] = "split"]
      /\ Fits(b, n) /\ Larger(b, n)
      /\ UNCHANGED <<curr, res, ptr, done>>
  BY DEF SplitNew, At, Goto, client
<1>0. Once /\ Clean
  <2>1. Once
    BY <1>1 DEF Once
  <2> QED
    BY <2>1 DEF Sound
<1>2. b \in Blocks /\ n \in Nat /\ n \in Asked /\ Once /\ Clean
  BY <1>0, <1>1, FittingAsked DEF Fits
<1>3. hdr[b].size > n + 1 /\ hdr[b].size > 0 /\ hdr[b].size \in 0 .. HeapSize - 1
  <2>1. hdr[b].size \in Nat /\ hdr[b].size \in 0 .. HeapSize - 1
    BY <1>2, ConstantFacts DEF Header
  <2> QED
    BY <1>1, <1>2, <2>1, ConstantFacts DEF Larger
<1>4. hdr[b].next = NULL
  <2>1. hdr[b].next # NULL => hdr[b].size <= n + 1
    BY <1>2, ConstantFacts DEF Clean, LinkedSmall
  <2> QED
    BY <1>2, <1>3, <2>1
<1>5. ~Unready /\ ~Unready'
  BY <1>1, <1>2, <1>3, ReadyWhenSized DEF Unready, Initializing
<1>6. new \in Blocks /\ Beyond(b, new) /\ new # b
  <2>1. b[2] + 1 + hdr[b].size <= HeapSize
    BY <1>2, ConstantFacts DEF Shape, InsideHeap
  <2>2. b[2] + 1 + n < HeapSize
    BY <1>2, <1>3, <2>1, ConstantFacts
  <2> QED
    BY <1>2, <2>2, ConstantFacts DEF NewBlock, Beyond
<1> HIDE DEF new
<1>7. \A u \in Threads : pc[u] # "split" /\ (pc'[u] = "split" => u = t)
  BY <1>1, OneInside DEF Locked
<1>8. Last(b) /\ hdr[b].data = NULL /\ \A c \in Blocks : Beyond(b, c) => hdr[c] = Blank
  BY <1>2, <1>3, <1>4, <1>7 DEF Last, Clean, LastClean, CleanAfter, Pending
<1>9. hdr[new] = Blank
  BY <1>6, <1>8
<1>10. Fresh(b)
  <2> SUFFICES ASSUME NEW a \in Addresses, a > b[2] PROVE hdr[<<b[1], a>>] = Blank
    BY <1>8 DEF Fresh
  <2> QED
    BY <1>2, <1>8, ConstantFacts DEF Beyond, Blocks, Addresses
<1>11. hdr' = [hdr EXCEPT ![new] = NewHeader(b, n, NULL)]
  BY <1>9, <1>10 DEF SplitNew, OldData, new
<1>12. /\ hdr'[new].next = NULL /\ hdr'[new].data = NULL
       /\ \A a \in Blocks \ {new} : hdr'[a] = hdr[a]
  BY <1>4, <1>6, <1>11 DEF NewHeader
<1>13. \A u \in Threads, c \in Blocks : (Has(u, c)' => Has(u, c)) /\ (Has(u, c) => c # new)
  <2>1. \A u \in Threads, c \in Blocks : Has(u, c)' => Has(u, c)
    BY <1>1 DEF Has
  <2>2. \A u \in Threads, c \in Blocks : Has(u, c) => c # new
    BY <1>2, <1>9, BlankFields DEF Clean, Marked
  <2> QED
    BY <2>1, <2>2
<1>14. LinkedSmall'
  BY <1>2, <1>12 DEF Clean, LinkedSmall
<1>15. \A a, c \in Blocks : a = b /\ c = new => Pending(a, c)'
  BY <1>1 DEF Pending, Call, new
<1>16. LastClean'
  <2> SUFFICES ASSUME NEW a \in Blocks, Last(a)' PROVE CleanAfter(a)'
    BY DEF LastClean
  <2>1. CASE a = new
    <3>1. \A c \in Blocks : Beyond(a, c) => Beyond(b, c) /\ c # new
      BY <1>2, <1>6, <2>1, ConstantFacts DEF Beyond
    <3> QED
      BY <1>8, <1>12, <2>1, <3>1 DEF CleanAfter
  <2>2. CASE a = b
    BY <1>2, <1>6, <1>8, <1>12, <1>15, <2>2 DEF CleanAfter
  <2>3. CASE a # new /\ a # b
    <3>1. Last(a) /\ hdr'[a] = hdr[a]
      BY <1>12, <2>3 DEF Last
    <3>2. hdr[a].data = NULL /\ \A c \in Blocks : Beyond(a, c) => hdr[c] = Blank
      BY <1>2, <1>7, <3>1 DEF Clean, LastClean, CleanAfter, Pending
    <3>3. ~Beyond(a, b) /\ ~Beyond(b, a)
      BY <1>2, <1>3, <1>8, <3>1, <3>2, BlankFields DEF Last
    <3>4. ~Beyond(a, new)
      <4>1. a = <<a[1], a[2]>> /\ b = <<b[1], b[2]>> /\ a[2] \in Int /\ b[2] \in Int
        BY <1>2, ConstantFacts
      <4>2. a[1] = b[1] => a[2] = b[2]
        BY <3>3, <4>1 DEF Beyond
      <4>3. a[1] # b[1]
        BY <2>3, <4>1, <4>2
      <4> QED
        BY <1>6, <4>3 DEF Beyond
    <3> QED
      BY <1>12, <3>1, <3>2, <3>4 DEF CleanAfter
  <2> QED
    BY <2>1, <2>2, <2>3
<1>17. Marked'
  BY <1>2, <1>12, <1>13 DEF Clean, Marked
<1>18. Separate'
  BY <1>2, <1>13 DEF Clean, Separate
<1>19. Before' /\ Cutting'
  BY <1>1, <1>2, <1>4, <1>5, <1>6, <1>7, <1>12 DEF Before, Cutting
<1> QED
  BY <1>14, <1>16, <1>17, <1>18, <1>19 DEF Clean

LEMMA SplitOldClean ==
  ASSUME Alike, Shape, Linked, Sound, NEW t \in Threads, SplitOld(t), Once'
  PROVE  Clean'
<1> DEFINE b == curr[t]
           n == Call(t).n
           new == NewBlock(b, n)
<1> USE Typed
<1>1. /\ head' = head /\ initers' = initers /\ pc[t] = "split" /\ pc' = [pc EXCEPT ![t] = "finish"]
      /\ hdr' = [hdr EXCEPT ![b].next = new, ![b].size = n]
      /\ res' = [res EXCEPT ![t] = hdr[b].data]
      /\ UNCHANGED <<curr, ptr, done>>
  BY DEF SplitOld, At, Goto, client
<1>2. b \in Blocks /\ n \in Nat /\ Once /\ Clean
  BY <1>1, FittingAsked DEF Once, Sound, Shape, Control, ControlOf
<1>3. hdr[b].size > n + 1 /\ hdr[b].size > 0 /\ hdr[b].next = NULL
  <2>1. hdr[b].size > n + 1
    BY <1>1, <1>2, ConstantFacts DEF Linked, OneHeap, Splitting
  <2>2. hdr[b].size \in Nat
    BY <1>2
  <2> QED
    BY <1>1, <1>2, <2>1, <2>2 DEF Clean, Cutting
<1>4. n \in Asked
  BY <1>1, <1>2, <1>3, FittingAsked
<1>5. ~Unready /\ ~Unready'
  BY <1>1, <1>2, <1>3, ReadyWhenSized DEF Unready, Initializing
<1>6. new \in Blocks
  BY <1>1 DEF Shape, Control, ControlOf
<1> HIDE DEF new
<1>7. \A u \in Threads : (pc[u] = "split" => u = t) /\ pc'[u] # "split"
  BY <1>1, OneInside DEF Locked
<1>8. Last(b) /\ hdr[b].data = NULL
  BY <1>2, <1>3 DEF Last, Clean, LastClean, CleanAfter
<1>9. /\ hdr'[b].next = new /\ hdr'[b].size = n
      /\ \A a \in Blocks \ {b} : hdr'[a] = hdr[a]
  BY <1>1, <1>2 DEF Header
<1>10. \A u \in Threads, c \in Blocks : (Has(u, c)' => Has(u, c)) /\ (Has(u, c) => c # b)
  <2>1. \A u \in Threads, c \in Blocks : Has(u, c) => c # b
    BY <1>2, <1>3 DEF Clean, Marked
  <2>2. res'[t] = NULL
    BY <1>1, <1>8
  <2>3. \A u \in Threads, c \in Blocks : Has(u, c)' => Has(u, c)
    BY <1>1, <2>2, ConstantFacts DEF Has
  <2> QED
    BY <2>1, <2>3
<1>11. LinkedSmall'
  <2>1. \A m \in Asked : n <= m + Hdr
    BY <1>4 DEF Alike
  <2> QED
    BY <1>2, <1>9, <2>1 DEF Clean, LinkedSmall
<1>12. LastClean'
  <2> SUFFICES ASSUME NEW a \in Blocks, Last(a)' PROVE CleanAfter(a)'
    BY DEF LastClean
  <2>1. a # b /\ hdr'[a] = hdr[a] /\ Last(a)
    BY <1>6, <1>9, ConstantFacts DEF Last
  <2>2. CleanAfter(a)
    BY <1>2, <2>1 DEF Clean, LastClean
  <2>3. ASSUME NEW c \in Blocks, Beyond(a, c) PROVE hdr'[c] = Blank
    <3>1. ~Pending(a, c)
      BY <1>7, <2>1 DEF Pending
    <3>2. hdr[c] = Blank
      BY <2>2, <2>3, <3>1 DEF CleanAfter
    <3> QED
      BY <1>3, <1>9, <3>2, BlankFields
  <2> QED
    BY <2>1, <2>2, <2>3 DEF CleanAfter
<1>13. Marked'
  BY <1>2, <1>9, <1>10 DEF Clean, Marked
<1>14. Separate'
  BY <1>2, <1>10 DEF Clean, Separate
<1>15. Before' /\ Cutting'
  BY <1>5, <1>7 DEF Before, Cutting
<1> QED
  BY <1>11, <1>12, <1>13, <1>14, <1>15 DEF Clean

LEMMA FreeBlockClean ==
  ASSUME Shape, Linked, Sound, NEW t \in Threads, FreeBlock(t), Once'
  PROVE  Clean'
<1> DEFINE b == ptr[t]
<1> USE Typed
<1>1. /\ head' = head /\ initers' = initers /\ pc[t] = "outside" /\ mutex = NULL
      /\ hdr' = [hdr EXCEPT ![b].free = TRUE]
      /\ ptr' = [ptr EXCEPT ![t] = NULL] /\ b \in Blocks
      /\ UNCHANGED <<pc, curr, res>>
  BY DEF FreeBlock, At, thread
<1>2. Once /\ Clean /\ Has(t, b)
  BY <1>1 DEF Once, Sound, Has
<1>3. hdr[b].next # NULL
  BY <1>2, <1>1 DEF Clean, Marked
<1>4. ~Unready /\ ~Unready'
  <2>1. ~Unready
    BY <1>1, <1>2 DEF Clean, Before, HasNone
  <2> QED
    BY <1>1, <2>1 DEF Unready
<1>5. \A u \in Threads : pc[u] \notin Locked
  BY <1>1, ConstantFacts DEF Linked, Owned
<1>6. /\ hdr'[b].next = hdr[b].next /\ hdr'[b].size = hdr[b].size
      /\ \A a \in Blocks \ {b} : hdr'[a] = hdr[a]
  BY <1>1 DEF Header
<1>7. \A u \in Threads, c \in Blocks : Has(u, c)' => Has(u, c) /\ c # b
  <2> SUFFICES ASSUME NEW u \in Threads, NEW c \in Blocks, Has(u, c)' PROVE Has(u, c) /\ c # b
    OBVIOUS
  <2>1. u # t /\ ptr[u] = c
    BY <1>1, <1>5, ConstantFacts DEF Has, Locked
  <2>2. Has(u, c)
    BY <2>1 DEF Has
  <2> QED
    BY <1>2, <2>1, <2>2 DEF Clean, Separate
<1>8. LinkedSmall'
  BY <1>2, <1>6 DEF Clean, LinkedSmall
<1>9. LastClean'
  <2> SUFFICES ASSUME NEW a \in Blocks, Last(a)' PROVE CleanAfter(a)'
    BY DEF LastClean
  <2>1. a # b /\ Last(a) /\ hdr'[a] = hdr[a]
    BY <1>3, <1>6 DEF Last
  <2>2. CleanAfter(a)
    BY <1>2, <2>1 DEF Clean, LastClean
  <2>3. ASSUME NEW c \in Blocks, Beyond(a, c) PROVE hdr'[c] = Blank
    <3>1. hdr[c] = Blank
      BY <1>5, <2>2, <2>3 DEF CleanAfter, Pending, Locked
    <3> QED
      BY <1>3, <1>6, <3>1, BlankFields
  <2> QED
    BY <2>1, <2>2, <2>3 DEF CleanAfter
<1>10. Marked'
  BY <1>2, <1>6, <1>7 DEF Clean, Marked
<1>11. Separate'
  BY <1>2, <1>7 DEF Clean, Separate
<1>12. Before' /\ Cutting'
  BY <1>1, <1>4, <1>5 DEF Before, Cutting, Locked
<1> QED
  BY <1>8, <1>9, <1>10, <1>11, <1>12 DEF Clean

LEMMA StepSound ==
  ASSUME Alike, Shape, Linked, Sound, Once => Roomy, NEW t \in Threads, ThreadStep(t)
  PROVE  Sound'
<1>1. ASSUME Once' PROVE Clean'
  <2>1. CASE \/ CallMalloc(t) \/ Lock(t) \/ Search(t)
             \/ FinishNull(t) \/ FinishFar(t) \/ FinishWild(t) \/ FinishPaged(t)
             \/ FreeNull(t) \/ Join(t) \/ Store(t) \/ Save(t)
    BY <1>1, <2>1, StepCalm, CalmKeeps
  <2>2. CASE MapHeap(t)
    BY <1>1, <2>2, MapHeapClean
  <2>3. CASE ClearTable(t) \/ SetFree(t)
    BY <1>1, <2>3, InitFieldClean
  <2>4. CASE SetSize(t)
    BY <1>1, <2>4, SetSizeClean
  <2>5. CASE Take(t)
    BY <1>1, <2>5, TakeClean
  <2>6. CASE SplitNew(t)
    BY <1>1, <2>6, SplitNewClean
  <2>7. CASE SplitOld(t)
    BY <1>1, <2>7, SplitOldClean
  <2>8. CASE FreeBlock(t)
    BY <1>1, <2>8, FreeBlockClean
  <2> QED
    BY <2>1, <2>2, <2>3, <2>4, <2>5, <2>6, <2>7, <2>8 DEF ThreadStep
<1> QED
  BY <1>1, StepEmpty DEF Sound

LEMMA NextSound ==
  ASSUME Alike
  PROVE  Shape /\ Linked /\ Sound /\ (Once => Roomy) /\ [Next]_vars => Sound'
<1> SUFFICES ASSUME Shape, Linked, Sound, Once => Roomy, [Next]_vars PROVE Sound'
  OBVIOUS
<1>1. CASE UNCHANGED vars
  <2>1. Calm /\ initers' = initers /\ Empty'
    BY <1>1 DEF vars, memory, thread, client, Calm, Has, Sound, Empty
  <2> QED
    BY <2>1, CalmKeeps DEF Sound
<1>2. ASSUME NEW t \in Threads, ThreadStep(t) PROVE Sound'
  BY <1>2, StepSound
<1> QED
  BY <1>1, <1>2 DEF Next, Ended

LEMMA SoundUnshared == Sound => UnsharedAfterOneInit
<1> SUFFICES ASSUME Sound, Once PROVE NoSharedBlock /\ \A t \in Holders : ~hdr[ptr[t]].free
  BY DEF UnsharedAfterOneInit
<1>1. \A t \in Holders : t \in Threads /\ ptr[t] \in Blocks /\ Has(t, ptr[t])
  BY DEF Holders, Has
<1>2. Marked /\ Separate
  BY DEF Sound, Clean
<1>3. NoSharedBlock
  BY <1>1, <1>2 DEF NoSharedBlock, Separate
<1>4. \A t \in Holders : ~hdr[ptr[t]].free
  BY <1>1, <1>2 DEF Marked
<1> QED
  BY <1>3, <1>4

(* If the requests are alike and the last block never becomes too small for *)
(* one, the allocator shares no block once one thread has made the heap.    *)
THEOREM UnsharedWhileRoomy ==
  ASSUME Alike
  PROVE  Spec /\ [](Once => Roomy) => []UnsharedAfterOneInit
<1>1. Shape /\ Linked /\ Sound /\ (Once => Roomy) /\ [Next]_vars => Sound'
  BY NextSound
<1> QED
  BY <1>1, InitLinked, NextLinked, InitSound, SoundUnshared, AlwaysShape, PTL DEF Spec

-----------------------------------------------------------------------------
(* The last block stays large enough if the heap is long enough for all the *)
(* requests, freed or not: a request takes at most its header and the       *)
(* largest size from it, when it splits it.                                 *)
Served == {c \in Mallocs : \/ c[2] <= done[c[1]]
                           \/ c[2] = done[c[1]] + 1 /\ pc[c[1]] \in {"split", "finish"}}
AmpleFor(m, b) == hdr[b].size + (m + Hdr) * Cardinality(Served) >= HeapSize - Hdr
Ample(m) == Once => \A b \in Blocks : Last(b) => AmpleFor(m, b)

LEMMA MallocsFinite == IsFiniteSet(Mallocs)
<1> DEFINE f == [t \in Threads |-> 1 .. Len(Program[t])]
           S == {f[t] : t \in Threads}
<1>1. \A t \in Threads : Len(Program[t]) \in Nat
  BY HeapAssumption
<1>2. f \in Surjection(Threads, S)
  BY DEF Surjection
<1>3. IsFiniteSet(S)
  BY <1>2, FS_Surjection, HeapAssumption
<1>4. \A T \in S : IsFiniteSet(T)
  BY <1>1, FS_Interval
<1>5. IsFiniteSet(UNION S)
  BY <1>3, <1>4, FS_UNION
<1>6. IsFiniteSet(Threads \X UNION S)
  BY <1>5, FS_Product, HeapAssumption
<1>7. Mallocs \in SUBSET (Threads \X UNION S)
  BY WorkloadFacts
<1> QED
  BY <1>6, <1>7, FS_Subset

LEMMA ServedFinite ==
  /\ IsFiniteSet(Served) /\ Cardinality(Served) \in Nat /\ Cardinality(Mallocs) \in Nat
  /\ Cardinality(Served) <= Cardinality(Mallocs)
<1>1. Served \in SUBSET Mallocs
  BY DEF Served
<1> QED
  BY <1>1, MallocsFinite, FS_Subset, FS_CardinalityType

LEMMA MoreServed ==
  ASSUME NEW m \in Nat, NEW k \in Nat, NEW l \in Nat, k <= l
  PROVE  (m + 1) * k <= (m + 1) * l
  OBVIOUS

LEMMA AmpleIsRoomy ==
  ASSUME NEW m \in Nat, LongFor(m), Shape, Ample(m), Once
  PROVE  Roomy
<1> SUFFICES ASSUME NEW b \in Blocks, Last(b), NEW n \in Asked PROVE hdr[b].size > n + Hdr
  BY DEF Roomy
<1> DEFINE c == Cardinality(Served)
           C == Cardinality(Mallocs)
           size == hdr[b].size
<1>1. c \in Nat /\ C \in Nat /\ c <= C /\ size \in Nat /\ n \in Nat /\ n <= m /\ HeapSize \in Nat
  BY ServedFinite, Typed, ConstantFacts, WorkloadFacts DEF LongFor
<1>2. size + (m + 1) * c >= HeapSize - 1 /\ HeapSize - 1 > (m + 1) * (C + 1)
  BY ConstantFacts DEF Ample, AmpleFor, LongFor
<1> HIDE DEF c, C, size
<1>3. (m + 1) * c <= (m + 1) * C
  BY <1>1, MoreServed
<1>4. (m + 1) * (C + 1) = (m + 1) * C + m + 1
  BY <1>1
<1> DEFINE x == (m + 1) * c
           y == (m + 1) * C
<1>5. x \in Nat /\ y \in Nat
  BY <1>1
<1> HIDE DEF x, y
<1>6. size > n + 1
  BY <1>1, <1>2, <1>3, <1>4, <1>5 DEF x, y
<1> QED
  BY <1>6, ConstantFacts DEF size

LEMMA StepServes ==
  ASSUME Shape, NEW t \in Threads, ThreadStep(t)
  PROVE  Served \subseteq Served'
<1>1. ASSUME NEW u \in Threads
      PROVE  \/ done'[u] = done[u] /\ (pc[u] \in {"split", "finish"} => pc'[u] \in {"split", "finish"})
             \/ done'[u] = done[u] + 1
  <2> USE Typed
  <2>1. CASE CallMalloc(t) \/ MapHeap(t) \/ ClearTable(t) \/ SetFree(t) \/ SetSize(t) \/ Lock(t) \/ Search(t)
    BY <2>1 DEF CallMalloc, MapHeap, ClearTable, SetFree, SetSize, Lock, Search, At, Goto, client
  <2>2. CASE Take(t) \/ SplitNew(t) \/ SplitOld(t) \/ FinishWild(t)
    BY <2>2 DEF Take, SplitNew, SplitOld, FinishWild, Goto, client, thread
  <2>3. CASE FinishNull(t) \/ FinishFar(t) \/ FinishPaged(t)
    BY <2>3 DEF FinishNull, FinishFar, FinishPaged, Return, Completed, Goto
  <2>4. CASE FreeNull(t) \/ FreeBlock(t) \/ Join(t) \/ Store(t) \/ Save(t)
    BY <2>4 DEF FreeNull, FreeBlock, Join, Store, Save, Completed, thread
  <2> QED
    BY <2>1, <2>2, <2>3, <2>4 DEF ThreadStep
<1> SUFFICES ASSUME NEW c \in Served PROVE c \in Served'
  OBVIOUS
<1>2. c \in Mallocs /\ c[1] \in Threads /\ c[2] \in Nat /\ done[c[1]] \in Nat
      /\ (c[2] <= done[c[1]] \/ (c[2] = done[c[1]] + 1 /\ pc[c[1]] \in {"split", "finish"}))
  BY Typed, WorkloadFacts DEF Served
<1>3. c[2] <= done'[c[1]] \/ (c[2] = done'[c[1]] + 1 /\ pc'[c[1]] \in {"split", "finish"})
  BY <1>1, <1>2
<1> QED
  BY <1>2, <1>3 DEF Served, Mallocs

(* Most steps make no block the last and change no size of one that is.     *)
Steady == \A b \in Blocks : Last(b)' => Last(b) /\ hdr'[b].size = hdr[b].size

LEMMA StepSteady ==
  ASSUME Shape, Linked, Once, NEW t \in Threads, ThreadStep(t), ~SetSize(t), ~SplitNew(t)
  PROVE  Steady
<1> USE Typed
<1>1. CASE \/ CallMalloc(t) \/ MapHeap(t) \/ Lock(t) \/ Search(t)
           \/ FinishNull(t) \/ FinishFar(t) \/ FinishWild(t) \/ FinishPaged(t)
           \/ FreeNull(t) \/ Join(t) \/ Store(t) \/ Save(t)
  <2>1. hdr' = hdr
    BY <1>1 DEF CallMalloc, MapHeap, Lock, Search, FinishNull, FinishFar, FinishWild, FinishPaged,
                Return, FreeNull, Join, Store, Save, memory
  <2> QED
    BY <2>1 DEF Steady, Last
<1>2. CASE ClearTable(t)
  <2>1. pc[t] = "clear" /\ head \in Blocks /\ hdr[head].size = 0
    BY <1>2 DEF ClearTable, At, Shape, Control, ControlOf, Linked, OneHeap, Settling, Initializing
  <2>2. hdr'[head].size = 0 /\ \A b \in Blocks \ {head} : hdr'[b] = hdr[b]
    BY <1>2, <2>1 DEF ClearTable, Header
  <2> QED
    BY <2>2 DEF Steady, Last
<1>3. CASE SetFree(t)
  <2>1. pc[t] = "setfree" /\ head \in Blocks
    BY <1>3 DEF SetFree, At, Shape, Control, ControlOf, Initializing
  <2> QED
    BY <1>3, <2>1 DEF SetFree, Steady, Last, Header
<1>4. CASE Take(t)
  <2>1. curr[t] \in Blocks
    BY <1>4 DEF Take, At, Shape, Control, ControlOf
  <2> QED
    BY <1>4, <2>1 DEF Take, Taken, Steady, Last, Header
<1>5. CASE SplitOld(t)
  <2>1. curr[t] \in Blocks /\ NewBlock(curr[t], Call(t).n) \in Blocks
    BY <1>5 DEF SplitOld, At, Shape, Control, ControlOf
  <2>2. hdr'[curr[t]].next # NULL /\ \A b \in Blocks \ {curr[t]} : hdr'[b] = hdr[b]
    BY <1>5, <2>1, ConstantFacts DEF SplitOld, Header
  <2> QED
    BY <2>2 DEF Steady, Last
<1>6. CASE FreeBlock(t)
  BY <1>6 DEF FreeBlock, Steady, Last, Header
<1> QED
  BY <1>1, <1>2, <1>3, <1>4, <1>5, <1>6 DEF ThreadStep

LEMMA InitAmple == ASSUME NEW m \in Nat PROVE Init => Ample(m)
  BY BlankFields DEF Init, Ample, Last

LEMMA LessLeft ==
  ASSUME NEW m \in Nat, NEW k \in Nat, NEW l \in Nat, NEW s \in Nat, NEW r \in Nat, NEW n \in Nat,
         NEW H \in Nat, s + (m + 1) * k >= H, k + 1 <= l, n <= m, r = s - 1 - n
  PROVE  r + (m + 1) * l >= H
<1> DEFINE x == (m + 1) * k
           y == (m + 1) * l
<1>1. (m + 1) * (k + 1) <= y
  BY MoreServed
<1>2. (m + 1) * (k + 1) = x + m + 1
  OBVIOUS
<1>3. x \in Nat /\ y \in Nat /\ s + x >= H
  OBVIOUS
<1> HIDE DEF x, y
<1>4. r + y >= H
  BY <1>1, <1>2, <1>3
<1> QED
  BY <1>4 DEF y

(* A split serves one more request.                                         *)
LEMMA SplitServes ==
  ASSUME Shape, NEW t \in Threads, SplitNew(t)
  PROVE  /\ IsFiniteSet(Served')
         /\ Cardinality(Served) + 1 <= Cardinality(Served') /\ Cardinality(Served') \in Nat
<1> DEFINE x == <<t, done[t] + 1>>
<1> USE Typed
<1>1. /\ pc[t] = "search" /\ pc'[t] = "split" /\ done' = done
      /\ Fits(curr[t], Call(t).n)
  BY DEF SplitNew, At, Goto, client
<1>2. ~Finished(t) /\ Call(t).op \in {"malloc", "load"} /\ curr[t] \in Blocks
  BY <1>1 DEF Shape, Control, ControlOf
<1>3. Call(t) \in CallTypes /\ done[t] + 1 \in 1 .. Len(Program[t])
  BY <1>2, CallTyped DEF Shape
<1>4. Call(t).op = "malloc"
  <2>1. Call(t).n # HeapSize
    BY <1>1, <1>2, PageTooLarge DEF Shape, Fits
  <2> QED
    BY <1>2, <1>3, <2>1 DEF CallTypes, LOAD
<1>5. x \in Mallocs /\ x \notin Served /\ x \in Served'
  BY <1>1, <1>3, <1>4 DEF Mallocs, Served, Call
<1>6. Served \subseteq Served'
  BY StepServes DEF ThreadStep
<1>7. IsFiniteSet(Served) /\ IsFiniteSet(Served') /\ IsFiniteSet(Served \cup {x})
  <2>1. Served \in SUBSET Mallocs /\ Served' \in SUBSET Mallocs
    BY DEF Served, Mallocs
  <2>2. IsFiniteSet(Served) /\ IsFiniteSet(Served')
    BY <2>1, MallocsFinite, FS_Subset
  <2> QED
    BY <2>2, FS_AddElement
<1>8. Cardinality(Served \cup {x}) = Cardinality(Served) + 1
  BY <1>5, <1>7, FS_AddElement
<1>9. Served \cup {x} \in SUBSET Served'
  BY <1>5, <1>6
<1>10. Cardinality(Served \cup {x}) <= Cardinality(Served')
  BY <1>7, <1>9, FS_Subset
<1> QED
  BY <1>7, <1>8, <1>10, FS_CardinalityType

LEMMA StepAmple ==
  ASSUME NEW m \in Nat, LongFor(m), Shape, Linked, Ample(m), NEW t \in Threads, ThreadStep(t)
  PROVE  Ample(m)'
<1> USE Typed
<1> DEFINE k == Cardinality(Served)
           l == Cardinality(Served')
<1>1. k \in Nat /\ l \in Nat /\ k <= l
  <2>1. IsFiniteSet(Served) /\ IsFiniteSet(Served')
    <3>1. Served \in SUBSET Mallocs /\ Served' \in SUBSET Mallocs
      BY DEF Served, Mallocs
    <3> QED
      BY <3>1, MallocsFinite, FS_Subset
  <2>2. Served \in SUBSET Served'
    BY StepServes
  <2> QED
    BY <2>1, <2>2, FS_Subset, FS_CardinalityType
<1> SUFFICES ASSUME Once', NEW b \in Blocks, Last(b)' PROVE AmpleFor(m, b)'
  BY DEF Ample
<1>2. Once
  BY DEF Once, ThreadStep, CallMalloc, MapHeap, ClearTable, SetFree, SetSize, Lock, Search, Take,
         SplitNew, SplitOld, FinishNull, FinishFar, FinishWild, FinishPaged, FreeNull,
         FreeBlock, Join, Store, Save, Return, memory
<1> DEFINE s == hdr[b].size
           r == hdr'[b].size
<1>3. s \in Nat /\ r \in Nat /\ HeapSize - 1 \in Nat
  <2>1. hdr' \in [Blocks -> Header]
    BY StepShape DEF Shape, TypeOK, Header
  <2>2. hdr'[b].size \in 0 .. HeapSize - 1
    BY <2>1, ConstantFacts DEF Header
  <2> QED
    BY <2>2, ConstantFacts
<1> SUFFICES r + (m + 1) * l >= HeapSize - 1
  BY ConstantFacts DEF AmpleFor
<1>4. (m + 1) * k <= (m + 1) * l /\ (m + 1) * k \in Nat /\ (m + 1) * l \in Nat
  <2> HIDE DEF k, l
  <2> QED
    BY <1>1, MoreServed
<1>5. CASE SetSize(t) /\ b = head
  <2>1. r = HeapSize - 1
    BY <1>5, ConstantFacts DEF SetSize, InitSize, Header
  <2> HIDE DEF r, l, k
  <2> QED
    BY <1>3, <1>4, <2>1
<1>6. CASE SplitNew(t) /\ b = NewBlock(curr[t], Call(t).n)
  <2> DEFINE a == curr[t]
             n == Call(t).n
             q == hdr[a].size
  <2>1. /\ pc[t] = "search" /\ Fits(a, n) /\ Larger(a, n)
    BY <1>6 DEF SplitNew, At
  <2>2. n \in Nat /\ a \in Blocks /\ n \in Asked /\ q \in Nat
    BY <2>1, FittingAsked DEF Fits
  <2>3. q > n + 1 /\ n <= m
    BY <2>1, <2>2, ConstantFacts DEF Larger, LongFor
  <2>4. r = q - 1 - n /\ hdr[a].next = NULL
    BY <1>6, <2>2, ConstantFacts DEF SplitNew, NewHeader, Last
  <2>5. Last(a)
    BY <2>2, <2>3, <2>4 DEF Last
  <2>6. q + (m + 1) * k >= HeapSize - 1
    BY <1>2, <2>2, <2>5, ConstantFacts DEF Ample, AmpleFor
  <2>7. k + 1 <= l
    BY <1>6, SplitServes
  <2> HIDE DEF n, q, k, l, r
  <2> QED
    BY <1>1, <1>3, <2>2, <2>3, <2>4, <2>6, <2>7, LessLeft
<1>7. ASSUME Last(b), r = s PROVE r + (m + 1) * l >= HeapSize - 1
  <2>1. s + (m + 1) * k >= HeapSize - 1
    BY <1>2, <1>7, ConstantFacts DEF Ample, AmpleFor
  <2> DEFINE x == (m + 1) * k
             y == (m + 1) * l
  <2>2. x \in Nat /\ y \in Nat /\ x <= y /\ s + x >= HeapSize - 1
    BY <1>4, <2>1
  <2> HIDE DEF r, s, x, y
  <2>3. r + y >= HeapSize - 1
    BY <1>3, <1>7, <2>2
  <2> QED
    BY <2>3 DEF y
<1>8. CASE SetSize(t) /\ b # head
  <2>1. hdr'[b] = hdr[b]
    BY <1>8 DEF SetSize
  <2> QED
    BY <1>7, <2>1 DEF Last
<1>9. CASE SplitNew(t) /\ b # NewBlock(curr[t], Call(t).n)
  <2>1. hdr'[b] = hdr[b]
    BY <1>9 DEF SplitNew
  <2> QED
    BY <1>7, <2>1 DEF Last
<1>10. CASE ~SetSize(t) /\ ~SplitNew(t)
  BY <1>2, <1>7, <1>10, StepSteady DEF Steady
<1> QED
  BY <1>5, <1>6, <1>8, <1>9, <1>10

LEMMA NextAmple ==
  ASSUME NEW m \in Nat, LongFor(m)
  PROVE  Shape /\ Linked /\ Ample(m) /\ [Next]_vars => Ample(m)'
<1> SUFFICES ASSUME Shape, Linked, Ample(m), [Next]_vars PROVE Ample(m)'
  OBVIOUS
<1>1. CASE UNCHANGED vars
  BY <1>1 DEF vars, memory, thread, client, Ample, AmpleFor, Served, Last, Once
<1>2. ASSUME NEW t \in Threads, ThreadStep(t) PROVE Ample(m)'
  BY <1>2, StepAmple
<1> QED
  BY <1>1, <1>2 DEF Next, Ended

LEMMA AlwaysRoomy ==
  ASSUME NEW m \in Nat, LongFor(m)
  PROVE  Spec => [](Once => Roomy)
<1>1. Shape /\ Ample(m) => (Once => Roomy)
  BY AmpleIsRoomy
<1>2. Shape /\ Linked /\ Ample(m) /\ [Next]_vars => Ample(m)'
  BY NextAmple
<1>3. Init => Ample(m)
  BY InitAmple
<1> QED
  BY <1>1, <1>2, <1>3, InitLinked, NextLinked, AlwaysShape, PTL DEF Spec

(* A condition on the calls alone: requests that differ by at most a header *)
(* and, all of them together, fit into the heap with room for one more.     *)
(* main's, of 10 and of sizeof(int) bytes in a heap of 16 MB, are such.     *)
THEOREM UnsharedInLongHeap ==
  ASSUME Alike, NEW m \in Nat, LongFor(m)
  PROVE  Spec => []UnsharedAfterOneInit
<1>1. Spec => [](Once => Roomy)
  BY AlwaysRoomy
<1>2. Spec /\ [](Once => Roomy) => []UnsharedAfterOneInit
  BY UnsharedWhileRoomy
<1> QED
  BY <1>1, <1>2

-----------------------------------------------------------------------------
(* The page table.  An entry is lost track of when its holder overwrites    *)
(* the pointer, so threads must free a block before they ask for another.   *)
(* What a thread holds comes from a call it has not freed since, and a      *)
(* request for a page has no result.                                        *)
Holding(t) ==
  ptr[t] \in Blocks =>
    \E i \in 1 .. done[t] : /\ Program[t][i].op = "malloc"
                            /\ \A k \in i + 1 .. done[t] : Program[t][k].op # "free"
LoadNull(t) ==
  pc[t] \in Locked /\ Call(t).op = "load" => pc[t] # "split" /\ res[t] = NULL

Distinct == \A i, j \in 1 .. Len(ptes) : ptes[i] = ptes[j] => i = j
Held     == \A i \in 1 .. Len(ptes) : \E t \in Threads : ptr[t] = ptes[i]
Kept     == (\A t \in Threads : Holding(t) /\ LoadNull(t)) /\ (Once => Distinct /\ Held)

LEMMA InitKept == Init => Kept
<1> SUFFICES ASSUME Init PROVE Kept
  OBVIOUS
<1>1. \A t \in Threads : ptr[t] = NULL /\ pc[t] = "outside"
  BY DEF Init
<1>2. Len(ptes) = 0
  BY DEF Init
<1> QED
  BY <1>1, <1>2, ConstantFacts DEF Kept, Holding, LoadNull, Locked, Distinct, Held

LEMMA StepLoadNull ==
  ASSUME Shape, NEW t \in Threads, ThreadStep(t), NEW u \in Threads, LoadNull(u)
  PROVE  LoadNull(u)'
<1> USE Typed DEF Locked
<1>1. CASE CallMalloc(t) \/ MapHeap(t) \/ ClearTable(t) \/ SetFree(t) \/ SetSize(t) \/ Lock(t)
  BY <1>1 DEF CallMalloc, MapHeap, ClearTable, SetFree, SetSize, Lock, At, Goto, client, LoadNull, Call
<1>2. CASE Search(t) \/ Take(t) \/ SplitNew(t)
  <2>1. /\ pc[t] = "search" /\ done' = done /\ pc'[t] \in Locked
        /\ \A v \in Threads \ {t} : pc'[v] = pc[v] /\ res'[v] = res[v]
    BY <1>2 DEF Search, Take, SplitNew, At, Goto, client
  <2>2. ASSUME Call(t).op = "load" PROVE Search(t)
    <3>1. curr[t] \in Blocks /\ ~Finished(t)
      BY <2>1 DEF Shape, Control, ControlOf
    <3>2. Call(t) \in CallTypes
      BY <3>1, CallTyped DEF Shape
    <3>3. Call(t).n = HeapSize
      BY <2>2, <3>2 DEF CallTypes, LOAD
    <3> QED
      BY <1>2, <3>1, <3>3, PageTooLarge DEF Shape, Take, SplitNew, Fits
  <2>3. Search(t) => res' = res /\ pc'[t] # "split"
    BY DEF Search, Goto
  <2> QED
    BY <2>1, <2>2, <2>3 DEF LoadNull, Call
<1>3. CASE SplitOld(t)
  BY <1>3 DEF SplitOld, At, Goto, client, LoadNull, Call
<1>4. CASE FinishNull(t) \/ FinishFar(t) \/ FinishPaged(t)
  <2>1. /\ pc'[t] = "outside" /\ res' = res
        /\ \A v \in Threads \ {t} : pc'[v] = pc[v] /\ done'[v] = done[v]
    BY <1>4 DEF FinishNull, FinishFar, FinishPaged, Return, Completed, Goto
  <2> QED
    BY <2>1 DEF LoadNull, Call
<1>5. CASE FinishWild(t)
  BY <1>5 DEF FinishWild, thread, client, LoadNull, Call
<1>6. CASE FreeNull(t) \/ FreeBlock(t) \/ Store(t) \/ Save(t)
  <2>1. /\ pc[t] = "outside" /\ pc' = pc /\ res' = res
        /\ \A v \in Threads \ {t} : done'[v] = done[v]
    BY <1>6 DEF FreeNull, FreeBlock, Store, Save, At, Completed, thread
  <2> QED
    BY <2>1 DEF LoadNull, Call
<1>7. CASE Join(t)
  BY <1>7 DEF Join, AtJoin, thread, LoadNull
<1> QED
  BY <1>1, <1>2, <1>3, <1>4, <1>5, <1>6, <1>7 DEF ThreadStep

(* A call that frees nothing.                                               *)
LEMMA HoldsOn ==
  ASSUME TypeOK, NEW t \in Threads, Holding(t), done'[t] \in Nat,
         \/ done'[t] = done[t] \/ (done'[t] = done[t] + 1 /\ Call(t).op # "free"),
         ptr'[t] = ptr[t]
  PROVE  Holding(t)'
<1> SUFFICES ASSUME ptr'[t] \in Blocks PROVE Holding(t)'
  BY DEF Holding
<1>1. done[t] \in Nat
  BY DEF TypeOK
<1>2. PICK i \in 1 .. done[t] : /\ Program[t][i].op = "malloc"
                                /\ \A k \in i + 1 .. done[t] : Program[t][k].op # "free"
  BY DEF Holding
<1>3. i \in 1 .. done'[t]
  BY <1>1
<1>4. \A k \in i + 1 .. done'[t] : Program[t][k].op # "free"
  <2> SUFFICES ASSUME NEW k \in i + 1 .. done'[t] PROVE Program[t][k].op # "free"
    OBVIOUS
  <2>1. CASE k \in i + 1 .. done[t]
    BY <1>2, <2>1
  <2>2. CASE k = done[t] + 1 /\ done'[t] = done[t] + 1
    BY <2>2 DEF Call
  <2> QED
    BY <1>1, <2>1, <2>2
<1> QED
  BY <1>2, <1>3, <1>4 DEF Holding

LEMMA StepHolding ==
  ASSUME Shape, NEW t \in Threads, ThreadStep(t), NEW u \in Threads, Holding(u), LoadNull(u)
  PROVE  Holding(u)'
<1> USE Typed
<1>0. TypeOK /\ done'[u] \in Nat
  BY StepShape DEF Shape, TypeOK
<1>1. CASE \/ CallMalloc(t) \/ MapHeap(t) \/ ClearTable(t) \/ SetFree(t) \/ SetSize(t) \/ Lock(t)
           \/ Search(t) \/ Take(t) \/ SplitNew(t) \/ SplitOld(t) \/ FinishWild(t)
  <2>1. done' = done /\ ptr' = ptr
    BY <1>1 DEF CallMalloc, MapHeap, ClearTable, SetFree, SetSize, Lock, Search, Take, SplitNew,
                SplitOld, FinishWild, client
  <2> QED
    BY <1>0, <2>1, HoldsOn
<1>2. CASE FinishNull(t) \/ FinishFar(t) \/ FinishPaged(t)
  <2>1. /\ pc[t] = "finish" /\ done' = [done EXCEPT ![t] = @ + 1]
        /\ ptr' = [ptr EXCEPT ![t] = IF Call(t).op = "load" THEN @ ELSE res[t]]
    BY <1>2 DEF FinishNull, FinishFar, FinishPaged, At, Return, Completed
  <2>2. ~Finished(t) /\ Call(t).op \in {"malloc", "load"}
    BY <2>1 DEF Shape, Control, ControlOf
  <2>3. CASE u # t
    BY <1>0, <2>1, <2>3, HoldsOn
  <2>4. CASE u = t /\ Call(t).op = "load"
    BY <1>0, <2>1, <2>4, HoldsOn
  <2>5. CASE u = t /\ Call(t).op = "malloc"
    <3>1. done'[t] = done[t] + 1 /\ done[t] + 1 \in 1 .. done'[t]
      BY <2>1
    <3>2. Program[t][done[t] + 1].op = "malloc"
      BY <2>5 DEF Call
    <3>3. \A k \in (done[t] + 1) + 1 .. done'[t] : FALSE
      BY <3>1
    <3> QED
      BY <2>5, <3>1, <3>2, <3>3 DEF Holding
  <2> QED
    BY <2>2, <2>3, <2>4, <2>5
<1>3. CASE FreeNull(t) \/ FreeBlock(t)
  <2>1. CASE u = t
    <3>1. ptr'[t] = NULL
      BY <1>3 DEF FreeNull, FreeBlock
    <3> QED
      BY <2>1, <3>1, ConstantFacts DEF Holding
  <2>2. CASE u # t
    <3>1. ptr'[u] = ptr[u] /\ done'[u] = done[u]
      BY <1>3, <2>2 DEF FreeNull, FreeBlock, Completed
    <3> QED
      BY <1>0, <3>1, HoldsOn
  <2> QED
    BY <2>1, <2>2
<1>4. CASE Join(t)
  <2>1. ptr' = ptr /\ done'[u] = done[u] + 1 /\ Call(u).op = "join"
    BY <1>4 DEF Join, AtJoin, Calls
  <2> QED
    BY <1>0, <2>1, HoldsOn
<1>5. CASE Store(t) \/ Save(t)
  <2>1. ptr' = ptr /\ done' = [done EXCEPT ![t] = @ + 1] /\ Call(t).op \in {"store", "save"}
    BY <1>5 DEF Store, Save, Completed, Calls
  <2> QED
    BY <1>0, <2>1, HoldsOn
<1> QED
  BY <1>1, <1>2, <1>3, <1>4, <1>5 DEF ThreadStep

(* thread_safe_free removes the entry of the block and keeps the others.    *)
LEMMA WithoutKeeps ==
  ASSUME ptes \in Seq(Blocks), Distinct, NEW b \in Blocks
  PROVE  LET s == Without(b)
         IN  /\ \A i, j \in 1 .. Len(s) : s[i] = s[j] => i = j
             /\ \A i \in 1 .. Len(s) : s[i] # b /\ \E j \in 1 .. Len(ptes) : s[i] = ptes[j]
<1> DEFINE at == {i \in 1 .. Len(ptes) : ptes[i] = b}
           first == CHOOSE i \in at : \A j \in at : i <= j
           s == Without(b)
<1>1. CASE at = {}
  <2>1. s = ptes
    BY <1>1 DEF Without
  <2>2. \A i \in 1 .. Len(ptes) : ptes[i] # b
    BY <1>1
  <2> HIDE DEF s
  <2>3. (\A i, j \in 1 .. Len(s) : s[i] = s[j] => i = j)
        /\ \A i \in 1 .. Len(s) : s[i] # b /\ \E j \in 1 .. Len(ptes) : s[i] = ptes[j]
    BY <2>1, <2>2 DEF Distinct
  <2> QED
    BY <2>3 DEF s
<1>2. CASE at # {}
  <2>1. at \in SUBSET Nat
    OBVIOUS
  <2>2. s = SubSeq(ptes, 1, first - 1) \o SubSeq(ptes, first + 1, Len(ptes))
    BY <1>2 DEF Without
  <2> HIDE DEF at
  <2>3. \E i \in at : \A j \in at : i <= j
    BY <1>2, <2>1, LeastNatural
  <2>4. first \in at
    BY <2>3
  <2>5. first \in 1 .. Len(ptes) /\ ptes[first] = b
    BY <2>4 DEF at
  <2> HIDE DEF first, s
  <2> DEFINE L == Len(ptes)
             p == SubSeq(ptes, 1, first - 1)
             q == SubSeq(ptes, first + 1, L)
  <2>6. L \in Nat /\ first \in 1 .. L
    BY <2>5
  <2>7. p \in Seq(Blocks) /\ Len(p) = first - 1 /\ \A i \in 1 .. first - 1 : p[i] = ptes[i]
    BY <2>6, SubSeqProperties
  <2>8. q \in Seq(Blocks) /\ Len(q) = L - first /\ \A i \in 1 .. L - first : q[i] = ptes[first + i]
    BY <2>6, SubSeqProperties
  <2> HIDE DEF p, q, L
  <2>9. Len(s) = L - 1 /\ \A i \in 1 .. L - 1 : s[i] = IF i <= first - 1 THEN p[i] ELSE q[i - (first - 1)]
    <3>1. s = p \o q
      BY <2>2 DEF p, q, L
    <3>2. Len(p \o q) = Len(p) + Len(q)
          /\ \A i \in 1 .. Len(p) + Len(q) : (p \o q)[i] = IF i <= Len(p) THEN p[i] ELSE q[i - Len(p)]
      BY <2>7, <2>8, ConcatProperties
    <3>3. Len(p) + Len(q) = L - 1
      BY <2>6, <2>7, <2>8
    <3> QED
      BY <2>7, <3>1, <3>2, <3>3
  <2>10. ASSUME NEW i \in 1 .. L - 1
         PROVE  s[i] = ptes[IF i < first THEN i ELSE i + 1]
    <3>1. CASE i < first
      BY <2>6, <2>7, <2>9, <3>1
    <3>2. CASE ~(i < first)
      <4>1. i - (first - 1) \in 1 .. L - first /\ first + (i - (first - 1)) = i + 1 /\ ~(i <= first - 1)
        BY <2>6, <3>2
      <4>2. s[i] = q[i - (first - 1)]
        BY <2>9, <4>1
      <4>3. s[i] = ptes[i + 1]
        BY <2>8, <4>1, <4>2
      <4> QED
        BY <3>2, <4>3
    <3> QED
      BY <3>1, <3>2
  <2> DEFINE at2(i) == IF i < first THEN i ELSE i + 1
  <2>11. \A i \in 1 .. L - 1 : at2(i) \in 1 .. L /\ at2(i) # first
    BY <2>6
  <2>12. \A i, j \in 1 .. L - 1 : at2(i) = at2(j) => i = j
    BY <2>6
  <2>13. \A i \in 1 .. L - 1 : s[i] = ptes[at2(i)]
    BY <2>10
  <2> HIDE DEF at2
  <2>14. \A i, j \in 1 .. L : ptes[i] = ptes[j] => i = j
    BY DEF Distinct, L
  <2>15. \A i, j \in 1 .. Len(s) : s[i] = s[j] => i = j
    BY <2>9, <2>11, <2>12, <2>13, <2>14
  <2>16. \A i \in 1 .. Len(s) : s[i] # b /\ \E j \in 1 .. L : s[i] = ptes[j]
    BY <2>5, <2>6, <2>9, <2>11, <2>13, <2>14
  <2> QED
    BY <2>15, <2>16 DEF s, L
<1> QED
  BY <1>1, <1>2

(* A thread whose malloc is about to return holds nothing.                  *)
LEMMA HoldsNothing ==
  ASSUME FreesBetween, Shape, NEW t \in Threads, Holding(t), pc[t] = "finish", Call(t).op = "malloc"
  PROVE  ptr[t] \notin Blocks
<1> SUFFICES ASSUME ptr[t] \in Blocks PROVE FALSE
  OBVIOUS
<1>1. ~Finished(t)
  BY DEF Shape, Control, ControlOf
<1>2. done[t] \in Nat /\ done[t] + 1 \in 1 .. Len(Program[t])
  BY <1>1, CallTyped, Typed DEF Shape
<1>3. PICK i \in 1 .. done[t] : /\ Program[t][i].op = "malloc"
                                /\ \A k \in i + 1 .. done[t] : Program[t][k].op # "free"
  BY DEF Holding
<1> DEFINE j == done[t] + 1
<1>4. i \in 1 .. Len(Program[t]) /\ j \in 1 .. Len(Program[t]) /\ i < j
  BY <1>2
<1>5. Program[t][j].op = "malloc"
  BY DEF Call
<1>6. PICK k \in i + 1 .. j - 1 : Program[t][k].op = "free"
  <2> HIDE DEF j
  <2> QED
    BY <1>3, <1>4, <1>5 DEF FreesBetween
<1>7. k \in i + 1 .. done[t]
  BY <1>2
<1> QED
  BY <1>3, <1>6, <1>7

(* Nothing changes for the entries if those who hold one still do.          *)
LEMMA StillHeld ==
  ASSUME Distinct, Held, ptes' = ptes,
         \A u \in Threads : ptr[u] \in Blocks => ptr'[u] = ptr[u], ptes \in Seq(Blocks)
  PROVE  Distinct' /\ Held'
<1>1. Distinct'
  BY DEF Distinct
<1>2. ASSUME NEW i \in 1 .. Len(ptes) PROVE \E u \in Threads : ptr'[u] = ptes[i]
  <2>1. PICK u \in Threads : ptr[u] = ptes[i]
    BY DEF Held
  <2>2. ptes[i] \in Blocks
    OBVIOUS
  <2> QED
    BY <2>1, <2>2
<1> QED
  BY <1>1, <1>2 DEF Held

(* A new entry, in front of the others.                                     *)
LEMMA EntryAdded ==
  ASSUME Distinct, Held, ptes \in Seq(Blocks), NEW b \in Blocks, ptes' = <<b>> \o ptes,
         \A u \in Threads : ptr[u] # b,
         \A u \in Threads : ptr[u] \in Blocks => ptr'[u] = ptr[u],
         NEW t \in Threads, ptr'[t] = b
  PROVE  Distinct' /\ Held'
<1> DEFINE L == Len(ptes)
<1>1. <<b>> \in Seq(Blocks) /\ Len(<<b>>) = 1 /\ <<b>>[1] = b /\ L \in Nat
  OBVIOUS
<1>2. Len(ptes') = L + 1 /\ \A i \in 1 .. L + 1 : ptes'[i] = IF i <= 1 THEN <<b>>[i] ELSE ptes[i - 1]
  <2>1. Len(<<b>> \o ptes) = Len(<<b>>) + Len(ptes)
        /\ \A i \in 1 .. Len(<<b>>) + Len(ptes) :
             (<<b>> \o ptes)[i] = IF i <= Len(<<b>>) THEN <<b>>[i] ELSE ptes[i - Len(<<b>>)]
    BY <1>1, ConcatProperties
  <2>2. Len(<<b>>) + Len(ptes) = L + 1
    BY <1>1
  <2> QED
    BY <1>1, <2>1, <2>2
<1>3. \A i \in 1 .. L : ptes[i] \in Blocks /\ ptes[i] # b /\ \E u \in Threads : ptr[u] = ptes[i]
  BY DEF Held
<1> HIDE DEF L
<1>4. ASSUME NEW i \in 1 .. L + 1
      PROVE  (i = 1 /\ ptes'[i] = b) \/ (i - 1 \in 1 .. L /\ ptes'[i] = ptes[i - 1])
  <2>1. i = 1 \/ (i - 1 \in 1 .. L /\ ~(i <= 1))
    BY <1>1
  <2> QED
    BY <1>1, <1>2, <2>1
<1>5. Distinct'
  <2> SUFFICES ASSUME NEW i \in 1 .. L + 1, NEW j \in 1 .. L + 1, ptes'[i] = ptes'[j] PROVE i = j
    BY <1>2 DEF Distinct
  <2>1. i - 1 \in 1 .. L /\ j - 1 \in 1 .. L /\ ptes[i - 1] = ptes[j - 1] => i - 1 = j - 1
    BY DEF Distinct, L
  <2>2. i - 1 = j - 1 => i = j
    BY <1>1
  <2> QED
    BY <1>3, <1>4, <2>1, <2>2
<1>6. Held'
  <2> SUFFICES ASSUME NEW i \in 1 .. L + 1 PROVE \E u \in Threads : ptr'[u] = ptes'[i]
    BY <1>2 DEF Held
  <2> QED
    BY <1>3, <1>4
<1> QED
  BY <1>5, <1>6

LEMMA StepEntries ==
  ASSUME FreesBetween, Shape, Linked, Sound, Kept, NEW t \in Threads, ThreadStep(t), Once'
  PROVE  Distinct' /\ Held'
<1> USE Typed
<1>0. Once /\ Distinct /\ Held /\ Marked /\ Separate /\ ptes \in Seq(Blocks)
  <2>1. Once
    BY DEF Once, ThreadStep, CallMalloc, MapHeap, ClearTable, SetFree, SetSize, Lock, Search, Take,
         SplitNew, SplitOld, FinishNull, FinishFar, FinishWild, FinishPaged, FreeNull,
         FreeBlock, Join, Store, Save, Return, memory
  <2> QED
    BY <2>1 DEF Kept, Sound, Clean, Shape, TypeOK
<1>1. CASE \/ CallMalloc(t) \/ MapHeap(t) \/ ClearTable(t) \/ SetFree(t) \/ SetSize(t) \/ Lock(t)
           \/ Search(t) \/ Take(t) \/ SplitNew(t) \/ SplitOld(t) \/ FinishWild(t)
           \/ FreeNull(t) \/ Join(t) \/ Store(t) \/ Save(t)
  <2>1. ptes' = ptes /\ ptr' = ptr
    BY <1>1 DEF CallMalloc, MapHeap, ClearTable, SetFree, SetSize, Lock, Search, Take, SplitNew,
                SplitOld, FinishWild, FreeNull, Join, Store, Save, client, paging
  <2> QED
    BY <1>0, <2>1, StillHeld
<1>2. CASE FinishNull(t) \/ FinishFar(t) \/ FinishPaged(t)
  <2>1. /\ pc[t] = "finish"
        /\ ptr' = [ptr EXCEPT ![t] = IF Call(t).op = "load" THEN @ ELSE res[t]]
    BY <1>2 DEF FinishNull, FinishFar, FinishPaged, At, Return
  <2>2. Call(t).op \in {"malloc", "load"}
    BY <2>1 DEF Shape, Control, ControlOf
  <2>3. Call(t).op = "malloc" => ptr[t] \notin Blocks
    BY <2>1, HoldsNothing DEF Kept
  <2>4. \A u \in Threads : ptr[u] \in Blocks => ptr'[u] = ptr[u]
    BY <2>1, <2>2, <2>3
  <2>5. CASE ptes' = ptes
    BY <1>0, <2>4, <2>5, StillHeld
  <2>6. CASE ptes' # ptes
    <3>1. FinishPaged(t) /\ ptes' = <<res[t]>> \o ptes /\ res[t] # NULL /\ PlaceOf(res[t]) = "zero"
      BY <1>2, <2>6 DEF FinishNull, FinishFar, FinishPaged, paging
    <3>2. res[t] \in Blocks
      BY <3>1 DEF PlaceOf
    <3>3. Call(t).op = "malloc" /\ ptr'[t] = res[t]
      BY <2>1, <2>2, <3>1 DEF Kept, LoadNull, Locked
    <3>4. ASSUME NEW u \in Threads PROVE ptr[u] # res[t]
      <4>1. Has(t, res[t])
        BY <2>1, <3>2 DEF Has
      <4>2. ptr[u] = res[t] => Has(u, res[t])
        BY <3>2 DEF Has
      <4> QED
        BY <1>0, <2>3, <3>2, <3>3, <4>1, <4>2 DEF Separate
    <3> QED
      BY <1>0, <2>4, <3>1, <3>2, <3>3, <3>4, EntryAdded
  <2> QED
    BY <2>5, <2>6
<1>3. CASE FreeBlock(t)
  <2> DEFINE b == ptr[t]
             s == Without(b)
  <2>1. b \in Blocks /\ ptes' = s /\ ptr' = [ptr EXCEPT ![t] = NULL]
    BY <1>3 DEF FreeBlock
  <2>2. /\ \A i, j \in 1 .. Len(s) : s[i] = s[j] => i = j
        /\ \A i \in 1 .. Len(s) : s[i] # b /\ \E j \in 1 .. Len(ptes) : s[i] = ptes[j]
    BY <1>0, <2>1, WithoutKeeps
  <2> HIDE DEF s
  <2>3. ASSUME NEW i \in 1 .. Len(s) PROVE \E u \in Threads : ptr'[u] = s[i]
    <3>1. s[i] # b /\ \E u \in Threads : ptr[u] = s[i]
      BY <1>0, <2>2 DEF Held
    <3> QED
      BY <2>1, <3>1
  <2> QED
    BY <2>1, <2>2, <2>3 DEF Distinct, Held
<1> QED
  BY <1>1, <1>2, <1>3 DEF ThreadStep

LEMMA NextKept ==
  ASSUME FreesBetween
  PROVE  Shape /\ Linked /\ Sound /\ Kept /\ [Next]_vars => Kept'
<1> SUFFICES ASSUME Shape, Linked, Sound, Kept, [Next]_vars PROVE Kept'
  OBVIOUS
<1>1. CASE UNCHANGED vars
  BY <1>1 DEF vars, memory, thread, client, paging, Kept, Holding, LoadNull, Call, Distinct, Held, Once
<1>2. ASSUME NEW t \in Threads, ThreadStep(t) PROVE Kept'
  <2>1. \A u \in Threads : Holding(u)' /\ LoadNull(u)'
    BY <1>2, StepHolding, StepLoadNull DEF Kept
  <2>2. Once' => (Distinct /\ Held)'
    BY <1>2, StepEntries
  <2> QED
    BY <2>1, <2>2 DEF Kept
<1> QED
  BY <1>1, <1>2 DEF Next, Ended

LEMMA KeptEntries == Shape /\ Kept => EntriesAreHeld
<1> SUFFICES ASSUME Shape, Kept, Once
             PROVE  /\ \A i, j \in 1 .. Len(ptes) : i # j => ptes[i] # ptes[j]
                    /\ \A i \in 1 .. Len(ptes) : \E t \in Holders : ptr[t] = ptes[i]
  BY DEF EntriesAreHeld
<1>1. Distinct /\ Held /\ ptes \in Seq(Blocks)
  BY DEF Kept, Shape, TypeOK
<1>2. ASSUME NEW i \in 1 .. Len(ptes) PROVE \E t \in Holders : ptr[t] = ptes[i]
  <2>1. ptes[i] \in Blocks
    BY <1>1
  <2> QED
    BY <1>1, <2>1 DEF Held, Holders
<1> QED
  BY <1>1, <1>2 DEF Distinct

(* Under the same conditions, if threads free a block before they ask for   *)
(* another: one entry for an address, and none for a block nobody holds.    *)
THEOREM EntriesHeldWhileRoomy ==
  ASSUME Alike, FreesBetween
  PROVE  Spec /\ [](Once => Roomy) => []EntriesAreHeld
<1>1. Shape /\ Linked /\ Sound /\ (Once => Roomy) /\ [Next]_vars => Sound'
  BY NextSound
<1>2. Shape /\ Linked /\ Sound /\ Kept /\ [Next]_vars => Kept'
  BY NextKept
<1> QED
  BY <1>1, <1>2, InitLinked, NextLinked, InitSound, InitKept, KeptEntries, AlwaysShape, PTL DEF Spec

THEOREM EntriesHeldInLongHeap ==
  ASSUME Alike, FreesBetween, NEW m \in Nat, LongFor(m)
  PROVE  Spec => []EntriesAreHeld
<1>1. Spec => [](Once => Roomy)
  BY AlwaysRoomy
<1>2. Spec /\ [](Once => Roomy) => []EntriesAreHeld
  BY EntriesHeldWhileRoomy
<1> QED
  BY <1>1, <1>2

-----------------------------------------------------------------------------
(* The mutex of thread_safe_malloc is held by a thread that is between the  *)
(* lock and the unlock, on every path through them.                         *)
HeldInside == mutex # NULL => mutex \in Threads /\ pc[mutex] \in Locked

LEMMA StepHeldInside ==
  ASSUME Shape, Linked, HeldInside, NEW t \in Threads, ThreadStep(t)
  PROVE  HeldInside'
<1> USE ConstantFacts DEF Shape, Linked, Owned, HeldInside, TypeOK, Locked
<1>1. CASE CallMalloc(t) \/ MapHeap(t) \/ ClearTable(t) \/ SetFree(t) \/ SetSize(t)
  BY <1>1 DEF CallMalloc, MapHeap, ClearTable, SetFree, SetSize, At, Goto
<1>2. CASE Lock(t)
  BY <1>2 DEF Lock, At, Goto
<1>3. CASE Search(t) \/ Take(t) \/ SplitNew(t) \/ SplitOld(t) \/ FinishWild(t)
  BY <1>3 DEF Search, Take, SplitNew, SplitOld, FinishWild, At, Goto, thread
<1>4. CASE FinishNull(t) \/ FinishFar(t) \/ FinishPaged(t)
  BY <1>4 DEF FinishNull, FinishFar, FinishPaged, Return
<1>5. CASE FreeNull(t) \/ FreeBlock(t) \/ Join(t) \/ Store(t) \/ Save(t)
  BY <1>5 DEF FreeNull, FreeBlock, Join, Store, Save, thread
<1> QED
  BY <1>1, <1>2, <1>3, <1>4, <1>5 DEF ThreadStep

(* thread_safe_malloc and thread_safe_free: nobody is stuck on the mutex.   *)
(* While the process runs, some thread can take a step, or all have made    *)
(* their calls, are at a join, or free a pointer that is none.  For any     *)
(* calls, and however often the heap is initialized.                        *)
THEOREM NobodyStuckOnMutex ==
  Spec => [](process = "running" =>
               (\E t \in Threads : MayGoOn(t)) \/ \A t \in Threads : Waits(t))
<1>1. Init => HeldInside
  BY DEF Init, HeldInside
<1>2. Shape /\ Linked /\ HeldInside /\ [Next]_vars => HeldInside'
  <2>1. ASSUME HeldInside, UNCHANGED vars PROVE HeldInside'
    BY <2>1 DEF vars, thread, HeldInside
  <2> QED
    BY <2>1, StepHeldInside DEF Next, Ended
<1>3. Shape /\ HeldInside => (\E t \in Threads : MayGoOn(t)) \/ \A t \in Threads : Waits(t)
  <2> SUFFICES ASSUME Shape, HeldInside, \A t \in Threads : ~MayGoOn(t), NEW t \in Threads
               PROVE  Waits(t)
    OBVIOUS
  <2>1. mutex = NULL
    BY DEF HeldInside, Locked, MayGoOn
  <2>2. pc[t] = "outside"
    BY <2>1 DEF MayGoOn
  <2>3. CASE Finished(t)
    BY <2>2, <2>3 DEF Waits
  <2>4. CASE ~Finished(t)
    <3>1. Call(t).op \in {"malloc", "free", "join", "store", "save", "load"}
      BY <2>4, CallTyped DEF Shape, CallTypes
    <3>2. Call(t).op \in {"free", "join"}
      BY <2>2, <2>4, <3>1 DEF MayGoOn, Calls
    <3>3. Call(t).op = "free" => ptr[t] = JUNK
      BY <2>1, <2>2, <2>4 DEF MayGoOn, Calls, Shape, TypeOK
    <3> QED
      BY <2>2, <2>4, <3>2, <3>3 DEF Waits, Calls
  <2> QED
    BY <2>3, <2>4
<1> QED
  BY <1>1, <1>2, <1>3, InitLinked, NextLinked, AlwaysShape, PTL DEF Spec
=============================================================================
