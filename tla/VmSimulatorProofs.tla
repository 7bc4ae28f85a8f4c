-------------------------- MODULE VmSimulatorProofs --------------------------
(***************************************************************************)
(* Proofs about the address-translation simulator, for any number of       *)
(* pages, any TLB size, both replacement strategies and backing stores     *)
(* that fail: the TLB never disagrees with the page table, no page is      *)
(* loaded twice, and physical memory is never overrun.                     *)
(***************************************************************************)
EXTENDS VmSimulator, FiniteSetTheorems, FunctionTheorems, WellFoundedInduction, TLAPS

-----------------------------------------------------------------------------
(* First indices.                                                           *)

(* A nonempty set of natural numbers has a least element.                   *)
LEMMA LeastNatural ==
  ASSUME NEW S \in SUBSET Nat, S # {}
  PROVE  \E i \in S : \A j \in S : i <= j
<1> DEFINE R == OpToRel(<, Nat)
<1>1. IsWellFoundedOn(R, Nat)
  BY NatLessThanWellFounded
<1>2. PICK i \in S : \A j \in S : ~ (<<j, i>> \in R)
  <2> HIDE DEF R
  <2> QED
    BY <1>1, WFMin
<1>3. ASSUME NEW j \in S PROVE i <= j
  <2>1. i \in Nat /\ j \in Nat
    OBVIOUS
  <2>2. ~(j < i)
    BY <1>2, <2>1 DEF OpToRel
  <2> QED
    BY <2>1, <2>2
<1> QED
  BY <1>3

LEMMA FirstIsLeast ==
  ASSUME NEW S \in SUBSET Nat, S # {}
  PROVE  First(S) \in S
  BY LeastNatural DEF First

-----------------------------------------------------------------------------
(* The TLB insertions only move entries about: every entry afterwards is    *)
(* the inserted one or one that was there before, page and frame together.  *)

Inserted(p, frame) ==
  /\ tlbPage' \in [Slots -> Pages] /\ tlbFrame' \in [Slots -> Frames]
  /\ tlbAge' \in [Slots -> Nat] /\ nextTLBentry' \in 0 .. TlbSize
  /\ \A i \in Slots :
       \/ tlbPage'[i] = p /\ tlbFrame'[i] = frame
       \/ \E j \in Slots : tlbPage'[i] = tlbPage[j] /\ tlbFrame'[i] = tlbFrame[j]

(* What either array holds at slot i after an insertion that found no match. *)
LEMMA FifoMissAt ==
  ASSUME NEW S, NEW f \in [Slots -> S], NEW v \in S, NEW i \in Slots,
         nextTLBentry \in 0 .. TlbSize
  PROVE  FifoMiss(f, v)[i] =
           IF nextTLBentry < TlbSize
           THEN IF i = nextTLBentry THEN v ELSE f[i]
           ELSE IF i + 1 < TlbSize - 1 THEN f[i + 1] ELSE v
<1>1. TlbSize \in Nat \ {0} /\ i \in Nat /\ i < TlbSize
  BY SimulatorAssumption DEF Slots
<1>2. CASE nextTLBentry < TlbSize
  BY <1>1, <1>2 DEF FifoMiss
<1>3. CASE ~(nextTLBentry < TlbSize)
  <2> DEFINE g == [f EXCEPT ![TlbSize - 1] = v]
  <2>1. \A j \in Slots : g[j] = IF j = TlbSize - 1 THEN v ELSE f[j]
    OBVIOUS
  <2>2. FifoMiss(f, v) = ShiftedDown(g, 0, TlbSize - 1)
    BY <1>3 DEF FifoMiss
  <2> HIDE DEF g
  <2>3. FifoMiss(f, v)[i] = IF 0 <= i /\ i < TlbSize - 1 THEN g[i + 1] ELSE g[i]
    BY <2>2 DEF ShiftedDown
  <2>4. i < TlbSize - 1 => i + 1 \in Slots
    BY <1>1 DEF Slots
  <2> QED
    BY <1>1, <1>3, <2>1, <2>3, <2>4
<1> QED
  BY <1>2, <1>3

(* Both branches yield arrays over the same slots.                          *)
LEMMA FifoDomain ==
  ASSUME NEW S, NEW f \in [Slots -> S], NEW v, NEW at
  PROVE  /\ FifoMiss(f, v) = [i \in Slots |-> FifoMiss(f, v)[i]]
         /\ FifoHit(f, at, v) = [i \in Slots |-> FifoHit(f, at, v)[i]]
<1>1. f = [i \in Slots |-> f[i]]
  OBVIOUS
<1>2. CASE nextTLBentry < TlbSize
  <2>1. FifoMiss(f, v) = [f EXCEPT ![nextTLBentry] = v]
    BY <1>2 DEF FifoMiss
  <2> QED
    BY <1>1, <2>1 DEF FifoHit, ShiftedDown
<1>3. CASE ~(nextTLBentry < TlbSize)
  <2>1. FifoMiss(f, v) = ShiftedDown([f EXCEPT ![TlbSize - 1] = v], 0, TlbSize - 1)
    BY <1>3 DEF FifoMiss
  <2> QED
    BY <2>1 DEF FifoHit, ShiftedDown
<1> QED
  BY <1>2, <1>3

LEMMA FifoInserts ==
  ASSUME TypeOK, NEW p \in Pages, NEW frame \in Frames, tlbFIFOinsert(p, frame)
  PROVE  Inserted(p, frame)
<1>1. /\ tlbPage \in [Slots -> Pages] /\ tlbFrame \in [Slots -> Frames]
      /\ tlbAge \in [Slots -> Nat] /\ nextTLBentry \in 0 .. TlbSize
      /\ TlbSize \in Nat \ {0}
  BY SimulatorAssumption DEF TypeOK
<1>2. tlbAge' \in [Slots -> Nat] /\ nextTLBentry' \in 0 .. TlbSize
  BY <1>1 DEF tlbFIFOinsert
<1>3. /\ tlbPage' = [i \in Slots |-> tlbPage'[i]]
      /\ tlbFrame' = [i \in Slots |-> tlbFrame'[i]]
  <2>1. \/ tlbPage' = FifoMiss(tlbPage, p) /\ tlbFrame' = FifoMiss(tlbFrame, frame)
        \/ \E at : /\ tlbPage' = FifoHit(tlbPage, at, p)
                   /\ tlbFrame' = FifoHit(tlbFrame, at, frame)
    BY DEF tlbFIFOinsert, FifoArray
  <2>2. /\ \A v : FifoMiss(tlbPage, v) = [i \in Slots |-> FifoMiss(tlbPage, v)[i]]
        /\ \A v, at : FifoHit(tlbPage, at, v) = [i \in Slots |-> FifoHit(tlbPage, at, v)[i]]
    BY <1>1, FifoDomain
  <2>3. /\ \A v : FifoMiss(tlbFrame, v) = [i \in Slots |-> FifoMiss(tlbFrame, v)[i]]
        /\ \A v, at : FifoHit(tlbFrame, at, v) = [i \in Slots |-> FifoHit(tlbFrame, at, v)[i]]
    BY <1>1, FifoDomain
  <2>4. CASE tlbPage' = FifoMiss(tlbPage, p) /\ tlbFrame' = FifoMiss(tlbFrame, frame)
    BY <2>2, <2>3, <2>4
  <2>5. ASSUME NEW at, tlbPage' = FifoHit(tlbPage, at, p), tlbFrame' = FifoHit(tlbFrame, at, frame)
        PROVE  /\ tlbPage' = [i \in Slots |-> tlbPage'[i]]
               /\ tlbFrame' = [i \in Slots |-> tlbFrame'[i]]
    BY <2>2, <2>3, <2>5
  <2> QED
    BY <2>1, <2>4, <2>5
<1>4. ASSUME NEW i \in Slots
      PROVE \/ tlbPage'[i] = p /\ tlbFrame'[i] = frame
            \/ \E j \in Slots : tlbPage'[i] = tlbPage[j] /\ tlbFrame'[i] = tlbFrame[j]
  <2>1. i + 1 < TlbSize => i + 1 \in Slots
    BY <1>1 DEF Slots
  <2>2. CASE FifoMatches(p) = {}
    <3>1. tlbPage' = FifoMiss(tlbPage, p) /\ tlbFrame' = FifoMiss(tlbFrame, frame)
      BY <2>2 DEF tlbFIFOinsert, FifoArray
    <3>2. /\ tlbPage'[i] = IF nextTLBentry < TlbSize
                           THEN IF i = nextTLBentry THEN p ELSE tlbPage[i]
                           ELSE IF i + 1 < TlbSize - 1 THEN tlbPage[i + 1] ELSE p
          /\ tlbFrame'[i] = IF nextTLBentry < TlbSize
                            THEN IF i = nextTLBentry THEN frame ELSE tlbFrame[i]
                            ELSE IF i + 1 < TlbSize - 1 THEN tlbFrame[i + 1] ELSE frame
      BY <1>1, <3>1, FifoMissAt
    <3>3. i + 1 < TlbSize - 1 => i + 1 \in Slots
      BY <1>1, <2>1 DEF Slots
    <3> QED
      BY <3>2, <3>3
  <2>3. CASE FifoMatches(p) # {}
    <3> DEFINE at == First(FifoMatches(p))
               end == IF nextTLBentry < TlbSize THEN nextTLBentry ELSE TlbSize - 1
    <3>1. tlbPage' = FifoHit(tlbPage, at, p) /\ tlbFrame' = FifoHit(tlbFrame, at, frame)
      BY <2>3 DEF tlbFIFOinsert, FifoArray
    <3> HIDE DEF at
    <3>2. /\ tlbPage'[i] = IF i = end THEN p
                           ELSE IF at <= i /\ i < nextTLBentry - 1 THEN tlbPage[i + 1]
                                                                  ELSE tlbPage[i]
          /\ tlbFrame'[i] = IF i = end THEN frame
                            ELSE IF at <= i /\ i < nextTLBentry - 1 THEN tlbFrame[i + 1]
                                                                   ELSE tlbFrame[i]
      <4>1. tlbPage \in [Slots -> Pages] /\ tlbFrame \in [Slots -> Frames]
        BY <1>1
      <4> QED
        BY <3>1, <4>1 DEF FifoHit, ShiftedDown
    <3>3. i < nextTLBentry - 1 => i + 1 \in Slots
      BY <1>1, <2>1 DEF Slots
    <3> HIDE DEF end
    <3> QED
      BY <3>2, <3>3
  <2> QED
    BY <2>2, <2>3
<1>5. tlbPage' \in [Slots -> Pages] /\ tlbFrame' \in [Slots -> Frames]
  <2>1. \A i \in Slots : tlbPage'[i] \in Pages /\ tlbFrame'[i] \in Frames
    BY <1>1, <1>4
  <2> QED
    BY <1>3, <2>1
<1> QED
  BY <1>2, <1>4, <1>5 DEF Inserted

(* Some slot is at least as old as every other, so getOldestEntry finds one: *)
(* the oldest among the first n slots exists for every n, since otherwise    *)
(* there would be a least n for which it does not.                           *)
LEMMA OldestIsSlot ==
  ASSUME NEW age \in [Slots -> Nat]
  PROVE  /\ getOldestEntry(age) \in Slots
         /\ \A j \in Slots : age[j] <= age[getOldestEntry(age)]
<1>1. TlbSize \in Nat \ {0}
  BY SimulatorAssumption
<1> DEFINE Oldest(n) == \E i \in 0 .. n : \A j \in 0 .. n : age[j] <= age[i]
           Missing == {n \in Slots : ~ Oldest(n)}
<1>2. Missing = {}
  <2>1. SUFFICES ASSUME Missing # {} PROVE FALSE
    OBVIOUS
  <2>2. Missing \in SUBSET Nat
    BY DEF Slots
  <2> HIDE DEF Missing
  <2>3. PICK n \in Missing : \A m \in Missing : n <= m
    BY <2>1, <2>2, LeastNatural
  <2>4. n \in Slots /\ n \in Nat /\ n < TlbSize /\ ~ Oldest(n)
    BY <1>1, <2>3 DEF Slots, Missing
  <2>5. n # 0
    BY <2>4 DEF Slots
  <2>6. n - 1 \in Slots /\ ~(n <= n - 1)
    BY <1>1, <2>4, <2>5 DEF Slots
  <2>7. Oldest(n - 1)
    <3> HIDE DEF Oldest
    <3>1. n - 1 \notin Missing
      BY <2>3, <2>6
    <3> QED
      BY <2>6, <3>1 DEF Missing
  <2>8. PICK i \in 0 .. n - 1 : \A j \in 0 .. n - 1 : age[j] <= age[i]
    BY <2>7
  <2>9. /\ age[i] \in Nat /\ age[n] \in Nat
        /\ \A j \in 0 .. n : age[j] \in Nat /\ (j \in 0 .. n - 1 \/ j = n)
    BY <1>1, <2>4, <2>8 DEF Slots
  <2>10. Oldest(n)
    <3>1. CASE age[n] <= age[i]
      BY <2>4, <2>8, <2>9, <3>1
    <3>2. CASE ~(age[n] <= age[i])
      <4>1. \A j \in 0 .. n : age[j] <= age[n]
        BY <2>8, <2>9, <3>2
      <4> QED
        BY <2>4, <4>1
    <3> QED
      BY <3>1, <3>2
  <2> QED
    BY <2>4, <2>10
<1>3. Oldest(TlbSize - 1)
  <2> HIDE DEF Oldest
  <2>1. TlbSize - 1 \in Slots
    BY <1>1 DEF Slots
  <2> QED
    BY <1>2, <2>1 DEF Missing
<1> DEFINE Candidates == {i \in Slots : \A j \in Slots : age[j] <= age[i]}
<1>4. Candidates # {} /\ Candidates \in SUBSET Nat
  BY <1>3 DEF Slots
<1>5. getOldestEntry(age) = First(Candidates)
  BY DEF getOldestEntry
<1> HIDE DEF Candidates
<1>6. First(Candidates) \in Candidates
  BY <1>4, FirstIsLeast
<1> QED
  BY <1>5, <1>6 DEF Candidates

LEMMA ReplaceIsSlot ==
  ASSUME NEW p \in Pages, Aged(p) \in [Slots -> Nat]
  PROVE  ReplaceIndex(p) \in Slots
<1>1. FreeSlots(p) \in SUBSET Nat
  BY DEF FreeSlots, Slots
<1>2. FreeSlots(p) # {} => First(FreeSlots(p)) \in FreeSlots(p)
  BY <1>1, FirstIsLeast
<1>3. FreeSlots(p) \subseteq Slots
  BY DEF FreeSlots
<1>4. getOldestEntry(Aged(p)) \in Slots
  BY OldestIsSlot
<1> QED
  BY <1>2, <1>3, <1>4 DEF ReplaceIndex

LEMMA LruInserts ==
  ASSUME TypeOK, NEW p \in Pages, NEW frame \in Frames, tlbLRUinsert(p, frame)
  PROVE  Inserted(p, frame)
<1>1. /\ tlbPage \in [Slots -> Pages] /\ tlbFrame \in [Slots -> Frames]
      /\ tlbAge \in [Slots -> Nat] /\ nextTLBentry' \in 0 .. TlbSize
  BY DEF TypeOK, tlbLRUinsert
<1>2. Aged(p) \in [Slots -> Nat]
  BY <1>1 DEF Aged
<1>3. CASE TlbMatches(p) # {}
  BY <1>1, <1>2, <1>3 DEF tlbLRUinsert, Inserted
<1>4. CASE TlbMatches(p) = {}
  <2>1. ReplaceIndex(p) \in Slots
    BY <1>2, ReplaceIsSlot
  <2>2. /\ tlbPage' = [tlbPage EXCEPT ![ReplaceIndex(p)] = p]
        /\ tlbFrame' = [tlbFrame EXCEPT ![ReplaceIndex(p)] = frame]
        /\ tlbAge' = [Aged(p) EXCEPT ![ReplaceIndex(p)] = 0]
    BY <1>4 DEF tlbLRUinsert
  <2> QED
    BY <1>1, <1>2, <2>1, <2>2 DEF Inserted
<1> QED
  BY <1>3, <1>4

LEMMA TlbInserts ==
  ASSUME TypeOK, NEW p \in Pages, NEW frame \in Frames, tlbInsert(p, frame)
  PROVE  Inserted(p, frame)
  BY FifoInserts, LruInserts DEF tlbInsert

-----------------------------------------------------------------------------
(* The inductive invariant.  readFromStore always fills the k-th page table *)
(* entry with frame k, which is why nextPage and nextFrame, bumped in the   *)
(* same function, never part; a page is never entered twice because the     *)
(* walk precedes the fault; and the k-th frame holds the k-th page only if  *)
(* the backing store can be read.                                           *)
InOrder == nextPage = nextFrame /\ \A k \in Frames : k < nextPage => ptFrame[k] = k

MemInv == TypeOK /\ InOrder /\ LoadedOnce /\ TlbCoherent

LEMMA InitMemInv == Init => MemInv
<1> SUFFICES ASSUME Init PROVE MemInv
  OBVIOUS
<1>1. /\ 0 \in Pages /\ 0 \in Frames /\ 0 \in 0 .. FrameCount /\ 0 \in 0 .. TlbSize
      /\ 0 \in 0 .. MaxAddresses
  BY SimulatorAssumption DEF Pages, Frames
<1>2. TypeOK
  BY <1>1 DEF Init, TypeOK
<1>3. \A k \in Frames : ~ (k < nextPage)
  BY SimulatorAssumption DEF Init, Frames
<1> QED
  BY <1>2, <1>3 DEF Init, MemInv, InOrder, LoadedOnce, TlbCoherent

(* There is a frame for every page that is not loaded yet: the loaded pages *)
(* are distinct and one page is missing among them, so there are at most    *)
(* MaxPage of them, and there are more frames than that.                    *)
LEMMA FrameLeft ==
  ASSUME MemInv, NEW p \in Pages, TableMatches(p) = {}
  PROVE  nextFrame < FrameCount
<1>1. /\ MaxPage \in Nat /\ FrameCount \in Nat /\ MaxPage < FrameCount
      /\ nextPage \in 0 .. FrameCount /\ nextFrame = nextPage
      /\ ptPage \in [Frames -> Pages]
  BY SimulatorAssumption DEF MemInv, TypeOK, InOrder
<1> DEFINE Loaded == 0 .. nextPage - 1
           Others == Pages \ {p}
           page == [k \in Loaded |-> ptPage[k]]
<1>2. \A k \in Loaded : k \in Frames /\ k < nextPage
  BY <1>1 DEF Frames
<1>3. \A k \in Loaded : ptPage[k] \in Others
  BY <1>1, <1>2 DEF TableMatches
<1>4. \A j, k \in Loaded : j # k => ptPage[j] # ptPage[k]
  BY <1>2 DEF MemInv, LoadedOnce
<1>5. page \in Injection(Loaded, Others)
  BY <1>3, <1>4, Fun_IsInj
<1>6. IsFiniteSet(Pages) /\ Cardinality(Pages) = MaxPage + 1
  <2>1. 0 \in Int /\ MaxPage \in Int /\ 0 <= MaxPage
    BY <1>1
  <2> QED
    BY <2>1, <1>1, FS_Interval DEF Pages
<1>7. IsFiniteSet(Others) /\ Cardinality(Others) = MaxPage
  BY <1>1, <1>6, FS_RemoveElement
<1>8. IsFiniteSet(Loaded) /\ Cardinality(Loaded) = nextPage
  <2>1. 0 \in Int /\ nextPage - 1 \in Int
    BY <1>1
  <2>2. /\ IsFiniteSet(Loaded)
        /\ Cardinality(Loaded) = IF 0 > nextPage - 1 THEN 0 ELSE nextPage - 1 - 0 + 1
    BY <2>1, FS_Interval
  <2> QED
    BY <1>1, <2>2
<1> HIDE DEF Loaded, Others, page
<1>9. Cardinality(Loaded) <= Cardinality(Others)
  BY <1>5, <1>7, <1>8, FS_Injection
<1> QED
  BY <1>1, <1>7, <1>8, <1>9

-----------------------------------------------------------------------------
(* The steps.                                                               *)

(* The end of a translation keeps the types, given those of the memory.     *)
LEMMA ConcludeTypes ==
  ASSUME TypeOK, NEW p \in Pages, NEW frame \in Frames, Conclude(p, frame),
         translations < MaxAddresses, dram' \in [Frames -> Pages \cup {Zeroed}]
  PROVE  /\ Inserted(p, frame)
         /\ translations' \in 0 .. MaxAddresses
         /\ last' \in [page : Pages, value : Pages \cup {Zeroed}]
         /\ lastUse' \in [Pages -> Nat]
<1>1. Inserted(p, frame)
  BY TlbInserts DEF Conclude
<1>2. translations' \in 0 .. MaxAddresses /\ translations + 1 \in Nat
  BY SimulatorAssumption DEF TypeOK, Conclude
<1>3. last' \in [page : Pages, value : Pages \cup {Zeroed}]
  BY DEF Conclude
<1>4. lastUse' \in [Pages -> Nat]
  BY <1>2 DEF TypeOK, Conclude
<1> QED
  BY <1>1, <1>2, <1>3, <1>4

(* Page p is mapped to frame f after the step.                              *)
MapsAfter(p, f) == \E k \in Frames : k < nextPage' /\ ptPage'[k] = p /\ ptFrame'[k] = f

LEMMA MapsAfterIsPrimed ==
  TlbCoherent' <=> \A i \in Slots : tlbPage'[i] # 0 => MapsAfter(tlbPage'[i], tlbFrame'[i])
  BY DEF TlbCoherent, Maps, TableMatches, MapsAfter

(* If the mappings of the page table survive and the inserted entry is one  *)
(* of them, the TLB is coherent again.                                      *)
LEMMA CoherentAfter ==
  ASSUME TlbCoherent, NEW p \in Pages, NEW frame, Inserted(p, frame),
         tlbPage \in [Slots -> Pages],
         \A q, f : Maps(q, f) => MapsAfter(q, f),
         p # 0 => MapsAfter(p, frame)
  PROVE  TlbCoherent'
<1> SUFFICES ASSUME NEW i \in Slots, tlbPage'[i] # 0
             PROVE  MapsAfter(tlbPage'[i], tlbFrame'[i])
  BY MapsAfterIsPrimed
<1>1. CASE tlbPage'[i] = p /\ tlbFrame'[i] = frame
  BY <1>1
<1>2. CASE \E j \in Slots : tlbPage'[i] = tlbPage[j] /\ tlbFrame'[i] = tlbFrame[j]
  BY <1>2 DEF TlbCoherent
<1> QED
  BY <1>1, <1>2 DEF Inserted

(* The frame a hit in the TLB or in the page table arrives at is the one    *)
(* the page table gives for the page.                                       *)
LEMMA TlbHitFrame ==
  ASSUME MemInv, NEW p \in Pages, TlbMatches(p) # {}
  PROVE  /\ tlbFrame[First(TlbMatches(p))] \in Frames
         /\ p # 0 => Maps(p, tlbFrame[First(TlbMatches(p))])
<1>1. First(TlbMatches(p)) \in TlbMatches(p)
  <2>1. TlbMatches(p) \in SUBSET Nat
    BY DEF TlbMatches, Slots
  <2> QED
    BY <2>1, FirstIsLeast
<1> QED
  BY <1>1 DEF TlbMatches, MemInv, TypeOK, TlbCoherent

LEMMA TableHitFrame ==
  ASSUME MemInv, NEW p \in Pages, TableMatches(p) # {}
  PROVE  /\ ptFrame[First(TableMatches(p))] \in Frames
         /\ Maps(p, ptFrame[First(TableMatches(p))])
<1>1. First(TableMatches(p)) \in TableMatches(p)
  <2>1. TableMatches(p) \in SUBSET Nat
    BY DEF TableMatches, Frames
  <2> QED
    BY <2>1, FirstIsLeast
<1>2. First(TableMatches(p)) \in Frames
  BY <1>1 DEF TableMatches
<1> QED
  BY <1>1, <1>2 DEF Maps, MemInv, TypeOK

(* Both hits leave the memory alone.                                        *)
LEMMA HitStep ==
  ASSUME MemInv, NEW p \in Pages, TlbHit(p) \/ TableHit(p)
  PROVE  MemInv'
<1>1. UNCHANGED <<memory, faults, readFailed>> /\ translations < MaxAddresses
  BY DEF TlbHit, TableHit
<1>2. hits' \in Nat /\ misses' \in Nat
  BY DEF TlbHit, TableHit, MemInv, TypeOK
<1>3. PICK frame \in Frames : Conclude(p, frame) /\ (p # 0 => Maps(p, frame))
  <2>1. CASE TlbHit(p)
    BY <2>1, TlbHitFrame DEF TlbHit
  <2>2. CASE TableHit(p)
    BY <2>2, TableHitFrame DEF TableHit
  <2> QED
    BY <2>1, <2>2
<1>4. /\ Inserted(p, frame)
      /\ translations' \in 0 .. MaxAddresses
      /\ last' \in [page : Pages, value : Pages \cup {Zeroed}]
      /\ lastUse' \in [Pages -> Nat]
  BY <1>1, <1>3, ConcludeTypes DEF MemInv, TypeOK, memory
<1>5. TypeOK'
  BY <1>1, <1>2, <1>3, <1>4 DEF MemInv, TypeOK, Inserted, memory, Conclude
<1>6. InOrder' /\ LoadedOnce'
  BY <1>1 DEF MemInv, InOrder, LoadedOnce, memory
<1>7. TlbCoherent'
  <2>1. \A q, f : Maps(q, f) => MapsAfter(q, f)
    BY <1>1 DEF Maps, TableMatches, MapsAfter, memory
  <2> QED
    BY <1>3, <1>4, <2>1, CoherentAfter DEF MemInv, TypeOK
<1> QED
  BY <1>5, <1>6, <1>7 DEF MemInv

(* A page fault appends a page that was not there, whether or not the read  *)
(* of the backing store succeeds.                                           *)
LEMMA FaultStep ==
  ASSUME MemInv, NEW p \in Pages, NEW ok \in BOOLEAN, PageFault(p, ok)
  PROVE  MemInv'
<1>1. /\ readFromStore(p, ok) /\ Conclude(p, nextFrame' - 1)
      /\ TableMatches(p) = {} /\ translations < MaxAddresses
  BY DEF PageFault
<1>2. nextFrame < FrameCount
  BY <1>1, FrameLeft
<1>3. nextFrame \in Frames /\ nextPage = nextFrame /\ nextFrame' - 1 = nextFrame
      /\ nextFrame \in Nat /\ FrameCount \in Nat
  BY <1>1, <1>2, SimulatorAssumption DEF MemInv, TypeOK, InOrder, Frames, readFromStore
<1>4. /\ ptPage' \in [Frames -> Pages] /\ ptFrame' \in [Frames -> Frames]
      /\ nextPage' = nextPage + 1 /\ nextFrame' = nextFrame + 1
      /\ nextPage' \in 0 .. FrameCount /\ nextFrame' \in 0 .. FrameCount
      /\ dram' \in [Frames -> Pages \cup {Zeroed}]
      /\ fileReadBuffer' \in Pages \cup {Zeroed}
  BY <1>1, <1>2, <1>3 DEF MemInv, TypeOK, readFromStore
<1>5. hits' \in Nat /\ misses' \in Nat /\ faults' \in Nat
  BY DEF MemInv, TypeOK, PageFault
<1>6. /\ Inserted(p, nextFrame)
      /\ translations' \in 0 .. MaxAddresses
      /\ last' \in [page : Pages, value : Pages \cup {Zeroed}]
      /\ lastUse' \in [Pages -> Nat]
  BY <1>1, <1>3, <1>4, ConcludeTypes DEF MemInv
<1>7. TypeOK'
  <2>1. algo_choice' = algo_choice /\ readFailed' \in BOOLEAN
    BY <1>1 DEF Conclude, PageFault, MemInv, TypeOK
  <2> QED
    BY <1>4, <1>5, <1>6, <2>1 DEF MemInv, TypeOK, Inserted
<1>8. /\ \A k \in Frames : k < nextPage =>
            ptPage'[k] = ptPage[k] /\ ptFrame'[k] = ptFrame[k] /\ k < nextPage'
      /\ ptPage'[nextPage] = p /\ ptFrame'[nextPage] = nextPage
      /\ \A k \in Frames : k < nextPage' => k < nextPage \/ k = nextPage
  BY <1>1, <1>3, <1>4 DEF MemInv, TypeOK, readFromStore, Frames
<1>9. InOrder'
  BY <1>3, <1>4, <1>8 DEF MemInv, InOrder
<1>10. LoadedOnce'
  <2>1. \A k \in Frames : k < nextPage => ptPage[k] # p
    BY <1>1 DEF TableMatches
  <2>2. SUFFICES ASSUME NEW j \in Frames, NEW k \in Frames, j < nextPage', k < nextPage', j # k
                 PROVE  ptPage'[j] # ptPage'[k] /\ ptFrame'[j] # ptFrame'[k]
    BY DEF LoadedOnce
  <2>3. ptFrame'[j] = j /\ ptFrame'[k] = k
    BY <1>9, <2>2 DEF InOrder
  <2>4. ptPage'[j] # ptPage'[k]
    BY <1>8, <2>1, <2>2 DEF MemInv, LoadedOnce
  <2> QED
    BY <2>2, <2>3, <2>4
<1>11. TlbCoherent'
  <2>1. \A q, f : Maps(q, f) => MapsAfter(q, f)
    BY <1>8 DEF Maps, TableMatches, MapsAfter
  <2>2. MapsAfter(p, nextFrame)
    BY <1>3, <1>4, <1>8 DEF MapsAfter
  <2> QED
    BY <1>6, <2>1, <2>2, CoherentAfter DEF MemInv, TypeOK
<1> QED
  BY <1>7, <1>9, <1>10, <1>11 DEF MemInv

LEMMA NextMemInv == MemInv /\ [Next]_vars => MemInv'
<1> SUFFICES ASSUME MemInv, [Next]_vars PROVE MemInv'
  OBVIOUS
<1>1. ASSUME NEW p \in Pages, TlbHit(p) \/ TableHit(p) PROVE MemInv'
  BY <1>1, HitStep
<1>2. ASSUME NEW p \in Pages, NEW ok \in BOOLEAN, PageFault(p, ok) PROVE MemInv'
  BY <1>2, FaultStep
<1>3. CASE UNCHANGED vars
  <2>1. \A q, f : Maps(q, f) => MapsAfter(q, f)
    BY <1>3 DEF vars, memory, Maps, TableMatches, MapsAfter
  <2>2. TlbCoherent'
    BY <1>3, <2>1, MapsAfterIsPrimed DEF vars, tlb, MemInv, TlbCoherent
  <2> QED
    BY <1>3, <2>2 DEF vars, tlb, memory, stats, MemInv, TypeOK, InOrder, LoadedOnce
<1> QED
  BY <1>1, <1>2, <1>3 DEF Next, EndOfFile

(* MemInv holds throughout.                                                 *)
THEOREM MemoryInvariance == Spec => []MemInv
<1> QED
  BY InitMemInv, NextMemInv, PTL DEF Spec

(* The tables, the memory and the statistics keep their types: in           *)
(* particular no index leaves its array.                                    *)
THEOREM SimulatorTypeCorrect == Spec => []TypeOK
<1>1. MemInv => TypeOK
  BY DEF MemInv
<1> QED
  BY <1>1, MemoryInvariance, PTL

(* Neither replacement strategy ever leaves a slot that disagrees with the  *)
(* page table.                                                              *)
THEOREM TlbAlwaysCoherent == Spec => []TlbCoherent
<1>1. MemInv => TlbCoherent
  BY DEF MemInv
<1> QED
  BY <1>1, MemoryInvariance, PTL

(* No page gets two entries of the page table, or shares its frame.         *)
THEOREM NeverLoadedTwice == Spec => []LoadedOnce
<1>1. MemInv => LoadedOnce
  BY DEF MemInv
<1> QED
  BY <1>1, MemoryInvariance, PTL

(* readFromStore, which does not check, never writes past dram: a pigeon-   *)
(* hole argument, since pages are loaded once and there are no more of      *)
(* them than frames.                                                        *)
THEOREM FramesAlwaysSuffice == Spec => []FramesSuffice
<1>1. MemInv => FramesSuffice
  BY FrameLeft DEF FramesSuffice
<1> QED
  BY <1>1, MemoryInvariance, PTL

-----------------------------------------------------------------------------
(* What is read, as long as the backing store can be read.                  *)

(* Every frame in use holds the bytes of the page it is mapped to.          *)
FramesHoldTheirPages == \A k \in Frames : k < nextPage => dram[ptFrame[k]] = ptPage[k]

ValueInv == MemInv /\ (~readFailed => FramesHoldTheirPages) /\ ReadsOwnPage

LEMMA InitValueInv == Init => ValueInv
<1> SUFFICES ASSUME Init PROVE ValueInv
  OBVIOUS
<1>1. \A k \in Frames : ~ (k < nextPage)
  BY SimulatorAssumption DEF Init, Frames
<1> QED
  BY <1>1, InitMemInv DEF Init, ValueInv, FramesHoldTheirPages, ReadsOwnPage

LEMMA MapsHolds ==
  ASSUME FramesHoldTheirPages, NEW p, NEW f, Maps(p, f)
  PROVE  dram[f] = p
  BY DEF FramesHoldTheirPages, Maps, TableMatches

(* After a step without a failed read the frames are right, and so is the   *)
(* value returned.                                                          *)
ReadsRight == FramesHoldTheirPages' /\ (last'.page # 0 => last'.value = last'.page)

LEMMA HitReadsRight ==
  ASSUME MemInv, FramesHoldTheirPages, NEW p \in Pages, TlbHit(p) \/ TableHit(p)
  PROVE  ReadsRight
<1>1. UNCHANGED memory
  BY DEF TlbHit, TableHit
<1>2. FramesHoldTheirPages'
  BY <1>1 DEF FramesHoldTheirPages, memory
<1>3. CASE TlbHit(p)
  <2>1. p # 0 => dram[tlbFrame[First(TlbMatches(p))]] = p
    BY <1>3, TlbHitFrame, MapsHolds DEF TlbHit
  <2> QED
    BY <1>1, <1>2, <1>3, <2>1 DEF TlbHit, Conclude, ReadsRight, memory
<1>4. CASE TableHit(p)
  <2>1. dram[ptFrame[First(TableMatches(p))]] = p
    BY <1>4, TableHitFrame, MapsHolds DEF TableHit
  <2> QED
    BY <1>1, <1>2, <1>4, <2>1 DEF TableHit, Conclude, ReadsRight, memory
<1> QED
  BY <1>3, <1>4

LEMMA FaultReadsRight ==
  ASSUME MemInv, MemInv', FramesHoldTheirPages, NEW p \in Pages, PageFault(p, TRUE)
  PROVE  ReadsRight
<1>1. /\ readFromStore(p, TRUE) /\ Conclude(p, nextFrame' - 1)
      /\ TableMatches(p) = {}
  BY DEF PageFault
<1>2. /\ nextFrame < FrameCount /\ FrameCount \in Nat /\ nextFrame \in Nat
      /\ nextFrame \in Frames /\ nextPage = nextFrame /\ nextFrame' - 1 = nextFrame
  BY <1>1, FrameLeft, SimulatorAssumption DEF MemInv, TypeOK, InOrder, Frames, readFromStore
<1>3. dram'[nextFrame] = p
  BY <1>1, <1>2 DEF MemInv, TypeOK, readFromStore
<1>4. ASSUME NEW k \in Frames, k < nextPage' PROVE dram'[ptFrame'[k]] = ptPage'[k]
  <2>1. ptFrame'[k] = k
    BY <1>4 DEF MemInv, InOrder
  <2>2. CASE k = nextFrame
    BY <1>1, <1>2, <1>3, <2>1, <2>2 DEF MemInv, TypeOK, readFromStore
  <2>3. CASE k # nextFrame
    <3>1. k < nextPage
      BY <1>1, <1>2, <1>4, <2>3 DEF readFromStore, Frames
    <3>2. ptFrame[k] = k /\ dram[k] = ptPage[k]
      BY <3>1 DEF MemInv, InOrder, FramesHoldTheirPages
    <3> QED
      BY <1>1, <1>2, <2>1, <2>3, <3>2 DEF MemInv, TypeOK, readFromStore
  <2> QED
    BY <2>2, <2>3
<1> QED
  BY <1>1, <1>2, <1>3, <1>4 DEF FramesHoldTheirPages, ReadsRight, Conclude

LEMMA NextValueInv == ValueInv /\ [Next]_vars => ValueInv'
<1> SUFFICES ASSUME ValueInv, [Next]_vars PROVE ValueInv'
  OBVIOUS
<1>1. MemInv /\ MemInv'
  BY NextMemInv DEF ValueInv
<1>2. ASSUME NEW p \in Pages, TlbHit(p) \/ TableHit(p) PROVE ~readFailed' => ReadsRight
  <2>1. readFailed' = readFailed
    BY <1>2 DEF TlbHit, TableHit
  <2> QED
    BY <1>1, <1>2, <2>1, HitReadsRight DEF ValueInv
<1>3. ASSUME NEW p \in Pages, NEW ok \in BOOLEAN, PageFault(p, ok)
      PROVE  ~readFailed' => ReadsRight
  <2>1. ~readFailed' => ok = TRUE /\ ~readFailed
    BY <1>3 DEF PageFault
  <2> QED
    BY <1>1, <1>3, <2>1, FaultReadsRight DEF ValueInv
<1>4. ASSUME UNCHANGED vars PROVE ValueInv'
  BY <1>1, <1>4 DEF ValueInv, FramesHoldTheirPages, ReadsOwnPage, vars, memory
<1>5. (~readFailed' => ReadsRight) => ValueInv'
  BY <1>1 DEF ValueInv, ReadsRight, ReadsOwnPage
<1> QED
  BY <1>2, <1>3, <1>4, <1>5 DEF Next, EndOfFile

(* As long as no read of the backing store fails, every byte that           *)
(* translateAddress returns for an address outside page 0 belongs to that   *)
(* address's page, whatever the TLB did in between.                         *)
THEOREM AlwaysReadsOwnPage == Spec => []ReadsOwnPage
<1>1. ValueInv => ReadsOwnPage
  BY DEF ValueInv
<1> QED
  BY InitValueInv, NextValueInv, <1>1, PTL DEF Spec

-----------------------------------------------------------------------------
(* LRU.  The age of a slot is the number of translations since its page was *)
(* last used: every other page ages with each, the page itself is reset.    *)
AgesTell ==
  /\ \A p, q \in Pages : p # q /\ lastUse[p] = lastUse[q] => lastUse[p] = 0
  /\ \A p \in Pages : lastUse[p] <= translations
  /\ \A i \in Slots : tlbPage[i] # 0 =>
       lastUse[tlbPage[i]] > 0 /\ tlbAge[i] + lastUse[tlbPage[i]] = translations
  /\ \A i, j \in Slots : tlbPage[i] # 0 /\ i # j => tlbPage[i] # tlbPage[j]

LruInv == MemInv /\ (algo_choice = "LRU" => AgesTell)

LEMMA InitLruInv == Init => LruInv
<1> SUFFICES ASSUME Init PROVE AgesTell
  BY InitMemInv DEF LruInv
<1> QED
  BY DEF Init, AgesTell

(* What an insertion does to the slots: one gets the page, all others age.  *)
UsedAt(r, p) ==
  /\ tlbPage'[r] = p /\ tlbAge'[r] = 0
  /\ \A i \in Slots \ {r} :
       /\ tlbPage'[i] = tlbPage[i]
       /\ tlbPage[i] # 0 => tlbPage[i] # p /\ tlbAge'[i] = tlbAge[i] + 1

LEMMA LruUses ==
  ASSUME TypeOK, AgesTell, NEW p \in Pages, NEW frame, tlbLRUinsert(p, frame)
  PROVE  \E r \in Slots : /\ UsedAt(r, p)
                          /\ r = IF TlbMatches(p) # {} THEN First(TlbMatches(p)) ELSE ReplaceIndex(p)
<1>1. tlbPage \in [Slots -> Pages] /\ tlbAge \in [Slots -> Nat]
  BY DEF TypeOK
<1>2. \A i, j \in Slots : tlbPage[i] # 0 /\ i # j => tlbPage[i] # tlbPage[j]
  BY DEF AgesTell
<1>3. CASE TlbMatches(p) # {}
  <2> DEFINE at == First(TlbMatches(p))
  <2>1. at \in Slots /\ tlbPage[at] = p
    <3>1. TlbMatches(p) \in SUBSET Nat
      BY DEF TlbMatches, Slots
    <3> QED
      BY <1>3, <3>1, FirstIsLeast DEF TlbMatches
  <2>2. tlbPage' = tlbPage /\ tlbAge' = Aged(p)
    BY <1>3 DEF tlbLRUinsert
  <2>3. \A i \in Slots : tlbAge'[i] = IF tlbPage[i] # p /\ tlbPage[i] # 0 THEN tlbAge[i] + 1
                                      ELSE IF i = at THEN 0 ELSE tlbAge[i]
    BY <1>3, <2>2 DEF Aged
  <2> HIDE DEF at
  <2>4. UsedAt(at, p)
    BY <1>1, <1>2, <2>1, <2>2, <2>3 DEF UsedAt
  <2> QED
    BY <1>3, <2>1, <2>4 DEF at
<1>4. CASE TlbMatches(p) = {}
  <2> DEFINE r == ReplaceIndex(p)
  <2>1. \A i \in Slots : tlbPage[i] # p
    BY <1>4 DEF TlbMatches
  <2>2. Aged(p) \in [Slots -> Nat]
    BY <1>1 DEF Aged
  <2>3. r \in Slots
    BY <2>2, ReplaceIsSlot
  <2>4. /\ tlbPage' = [tlbPage EXCEPT ![r] = p]
        /\ tlbAge' = [Aged(p) EXCEPT ![r] = 0]
    BY <1>4 DEF tlbLRUinsert
  <2>5. \A i \in Slots : tlbPage[i] # 0 => Aged(p)[i] = tlbAge[i] + 1
    BY <2>1 DEF Aged
  <2> HIDE DEF r
  <2>6. UsedAt(r, p)
    BY <1>1, <2>1, <2>2, <2>3, <2>4, <2>5 DEF UsedAt
  <2> QED
    BY <1>4, <2>3, <2>6 DEF r
<1> QED
  BY <1>3, <1>4

(* The ages go on telling when pages were used.                             *)
LEMMA LruStep ==
  ASSUME TypeOK, AgesTell, NEW p \in Pages, NEW frame, tlbLRUinsert(p, frame),
         translations' = translations + 1,
         lastUse' = [lastUse EXCEPT ![p] = translations + 1]
  PROVE  AgesTell'
<1>1. PICK r \in Slots : UsedAt(r, p)
  BY LruUses
<1>2. /\ tlbPage \in [Slots -> Pages] /\ tlbAge \in [Slots -> Nat]
      /\ lastUse \in [Pages -> Nat] /\ translations \in Nat
  BY SimulatorAssumption DEF TypeOK
<1>3. /\ lastUse'[p] = translations + 1
      /\ \A q \in Pages \ {p} : lastUse'[q] = lastUse[q]
      /\ \A q \in Pages : lastUse[q] \in Nat /\ lastUse[q] <= translations
  BY <1>2 DEF AgesTell
<1>4. \A q, s \in Pages : q # s /\ lastUse'[q] = lastUse'[s] => lastUse'[q] = 0
  <2> SUFFICES ASSUME NEW q \in Pages, NEW s \in Pages, q # s, lastUse'[q] = lastUse'[s]
               PROVE  lastUse'[q] = 0
    OBVIOUS
  <2>1. q # p /\ s # p
    BY <1>2, <1>3
  <2> QED
    BY <1>3, <2>1 DEF AgesTell
<1>5. \A q \in Pages : lastUse'[q] <= translations'
  BY <1>2, <1>3
<1>6. ASSUME NEW i \in Slots, tlbPage'[i] # 0
      PROVE  lastUse'[tlbPage'[i]] > 0 /\ tlbAge'[i] + lastUse'[tlbPage'[i]] = translations'
  <2>1. CASE i = r
    BY <1>1, <1>2, <1>3, <2>1 DEF UsedAt
  <2>2. CASE i # r
    <3>1. /\ tlbPage'[i] = tlbPage[i] /\ tlbPage[i] # p /\ tlbPage[i] # 0
          /\ tlbAge'[i] = tlbAge[i] + 1
      BY <1>1, <1>6, <2>2 DEF UsedAt
    <3>2. tlbPage[i] \in Pages /\ lastUse'[tlbPage'[i]] = lastUse[tlbPage[i]]
      BY <1>2, <1>3, <3>1
    <3>3. lastUse[tlbPage[i]] > 0 /\ tlbAge[i] + lastUse[tlbPage[i]] = translations
      BY <3>1 DEF AgesTell
    <3>4. tlbAge[i] \in Nat /\ lastUse[tlbPage[i]] \in Nat
      BY <1>2, <3>2
    <3> QED
      BY <1>2, <3>1, <3>2, <3>3, <3>4
  <2> QED
    BY <2>1, <2>2
<1>7. ASSUME NEW i \in Slots, NEW j \in Slots, tlbPage'[i] # 0, i # j
      PROVE  tlbPage'[i] # tlbPage'[j]
  BY <1>1, <1>7 DEF UsedAt, AgesTell
<1> QED
  BY <1>4, <1>5, <1>6, <1>7 DEF AgesTell

(* A page that loses its slot was the oldest of all, and no two were used   *)
(* at once.                                                                 *)
LEMMA LruEvicts ==
  ASSUME TypeOK, AgesTell, NEW p \in Pages, NEW frame, tlbLRUinsert(p, frame),
         NEW out \in Resident \ Resident', NEW kept \in Resident \cap Resident'
  PROVE  lastUse[out] < lastUse[kept]
<1>1. PICK r \in Slots : /\ UsedAt(r, p)
                         /\ r = IF TlbMatches(p) # {} THEN First(TlbMatches(p)) ELSE ReplaceIndex(p)
  BY LruUses
<1>2. /\ tlbPage \in [Slots -> Pages] /\ tlbAge \in [Slots -> Nat]
      /\ lastUse \in [Pages -> Nat] /\ translations \in Nat
  BY SimulatorAssumption DEF TypeOK
<1>3. PICK i \in Slots : tlbPage[i] = out /\ out # 0
  BY DEF Resident
<1>4. PICK j \in Slots : tlbPage[j] = kept /\ kept # 0
  BY DEF Resident
<1>5. out # kept /\ \A k \in Slots : tlbPage'[k] # out
  BY <1>3 DEF Resident
<1>6. i = r
  BY <1>1, <1>3, <1>5 DEF UsedAt
<1>7. TlbMatches(p) = {}
  <2>1. TlbMatches(p) # {} => tlbPage' = tlbPage
    BY DEF tlbLRUinsert
  <2> QED
    BY <1>3, <1>5, <2>1
<1>8. r = getOldestEntry(Aged(p))
  <2>1. FreeSlots(p) \in SUBSET Nat
    BY DEF FreeSlots, Slots
  <2>2. FreeSlots(p) # {} => First(FreeSlots(p)) \in FreeSlots(p)
    BY <2>1, FirstIsLeast
  <2>3. FreeSlots(p) # {} => tlbPage[r] = 0
    BY <1>1, <1>7, <2>2 DEF ReplaceIndex, FreeSlots
  <2> QED
    BY <1>1, <1>3, <1>6, <1>7, <2>3 DEF ReplaceIndex
<1>9. Aged(p)[j] <= Aged(p)[r]
  <2>1. Aged(p) \in [Slots -> Nat]
    BY <1>2 DEF Aged
  <2> QED
    BY <1>8, <2>1, OldestIsSlot
<1>10. Aged(p)[j] = tlbAge[j] + 1 /\ Aged(p)[r] = tlbAge[r] + 1
  <2>1. tlbPage[j] # p /\ tlbPage[r] # p
    BY <1>7 DEF TlbMatches
  <2> QED
    BY <1>3, <1>4, <1>6, <2>1 DEF Aged
<1>11. /\ tlbAge[r] + lastUse[out] = translations /\ tlbAge[j] + lastUse[kept] = translations
       /\ lastUse[kept] > 0
  BY <1>3, <1>4, <1>6 DEF AgesTell
<1>12. /\ out \in Pages /\ kept \in Pages
       /\ lastUse[out] \in Nat /\ lastUse[kept] \in Nat /\ tlbAge[r] \in Nat /\ tlbAge[j] \in Nat
  BY <1>2, <1>3, <1>4
<1>13. lastUse[out] <= lastUse[kept]
  BY <1>2, <1>9, <1>10, <1>11, <1>12
<1>14. lastUse[out] # lastUse[kept]
  BY <1>5, <1>11, <1>12 DEF AgesTell
<1> QED
  BY <1>12, <1>13, <1>14

(* Every translation ends with Conclude.                                    *)
LEMMA Concludes ==
  ASSUME NEW p \in Pages, TlbHit(p) \/ TableHit(p) \/ \E ok \in BOOLEAN : PageFault(p, ok)
  PROVE  \E frame : Conclude(p, frame)
  BY DEF TlbHit, TableHit, PageFault

LEMMA NextLruInv == LruInv /\ [Next]_vars => LruInv'
<1> SUFFICES ASSUME LruInv, [Next]_vars, algo_choice' = "LRU" PROVE AgesTell'
  BY NextMemInv DEF LruInv
<1>1. CASE UNCHANGED vars
  BY <1>1 DEF LruInv, AgesTell, vars, tlb, stats
<1>2. ASSUME NEW p \in Pages, TlbHit(p) \/ TableHit(p) \/ \E ok \in BOOLEAN : PageFault(p, ok)
      PROVE  AgesTell'
  <2>1. PICK frame : Conclude(p, frame)
    BY <1>2, Concludes
  <2>2. /\ algo_choice = "LRU" /\ tlbLRUinsert(p, frame)
        /\ translations' = translations + 1
        /\ lastUse' = [lastUse EXCEPT ![p] = translations + 1]
    BY <2>1 DEF Conclude, tlbInsert
  <2> QED
    BY <2>2, LruStep DEF LruInv, MemInv
<1> QED
  BY <1>1, <1>2 DEF Next, EndOfFile

(* tlbLRUinsert, main.c:462: whatever was hit, replaced or freed before,    *)
(* with page 0 in slots of its own or not, the page that loses its slot was *)
(* used before every page that keeps one, for any TLB and any input.        *)
THEOREM AlwaysEvictsLeastRecent == Spec => EvictsLeastRecent
<1> DEFINE Least == algo_choice = "LRU" =>
             \A out \in Resident \ Resident', kept \in Resident \cap Resident' :
               lastUse[out] < lastUse[kept]
<1>1. LruInv /\ [Next]_vars => [Least]_vars
  <2> SUFFICES ASSUME LruInv, Next, algo_choice = "LRU",
                      NEW out \in Resident \ Resident', NEW kept \in Resident \cap Resident'
               PROVE  lastUse[out] < lastUse[kept]
    OBVIOUS
  <2>1. CASE EndOfFile
    BY <2>1 DEF EndOfFile, vars, tlb, Resident
  <2>2. ASSUME NEW p \in Pages, TlbHit(p) \/ TableHit(p) \/ \E ok \in BOOLEAN : PageFault(p, ok)
        PROVE  lastUse[out] < lastUse[kept]
    <3>1. PICK frame : Conclude(p, frame)
      BY <2>2, Concludes
    <3>2. tlbLRUinsert(p, frame)
      BY <3>1 DEF Conclude, tlbInsert
    <3> QED
      BY <3>2, LruEvicts DEF LruInv, MemInv
  <2> QED
    BY <2>1, <2>2 DEF Next
<1> QED
  BY <1>1, InitLruInv, NextLruInv, PTL DEF Spec, EvictsLeastRecent
=============================================================================
