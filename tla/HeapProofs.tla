----------------------------- MODULE HeapProofs -----------------------------
(***************************************************************************)
(* Proofs about the heap of A7/malloc.c, for any size of mem and any       *)
(* requests: splits and merges never lose or overlap memory, and as long   *)
(* as the last block has not been used up allocations are exclusive.       *)
(***************************************************************************)
EXTENDS HeapLoops, FiniteSetTheorems, WellFoundedInduction, TLAPS

-----------------------------------------------------------------------------
(* Least and greatest elements.                                             *)

LEMMA LeastExists ==
  ASSUME NEW S \in SUBSET Nat, S # {}
  PROVE  Least(S) \in S /\ \A b \in S : Least(S) <= b
<1> DEFINE R == OpToRel(<, Nat)
<1>1. IsWellFoundedOn(R, Nat)
  BY NatLessThanWellFounded
<1>2. PICK a \in S : \A b \in S : ~ (<<b, a>> \in R)
  <2> HIDE DEF R
  <2> QED
    BY <1>1, WFMin
<1>3. ASSUME NEW b \in S PROVE a <= b
  <2>1. a \in Nat /\ b \in Nat
    OBVIOUS
  <2>2. ~(b < a)
    BY <1>2, <2>1 DEF OpToRel
  <2> QED
    BY <2>1, <2>2
<1> QED
  BY <1>3 DEF Least

LEMMA GreatestExists ==
  ASSUME NEW S, NEW N \in Nat, S \subseteq 0 .. N, S # {}
  PROVE  \E a \in S : \A b \in S : b <= a
<1> DEFINE Room == {N - a : a \in S}
<1>1. Room \in SUBSET Nat /\ Room # {}
  <2>1. \A a \in S : N - a \in Nat
    OBVIOUS
  <2> QED
    BY <2>1
<1>2. PICK r \in Room : \A q \in Room : r <= q
  <2> HIDE DEF Room
  <2> QED
    BY <1>1, LeastExists
<1>3. PICK a \in S : r = N - a
  BY <1>2
<1>4. ASSUME NEW b \in S PROVE b <= a
  <2>1. a \in 0 .. N /\ b \in 0 .. N /\ N - a <= N - b
    BY <1>2, <1>3
  <2> QED
    BY <2>1
<1> QED
  BY <1>3, <1>4

-----------------------------------------------------------------------------
(* A list of blocks in address order that covers mem.                       *)

EndIn(h, a) == a + Hdr + h[a].size

TilesMem(h) ==
  /\ DOMAIN h \subseteq Addresses /\ freeList \in DOMAIN h
  /\ h \in [DOMAIN h -> [size : Nat, free : BOOLEAN, next : Addresses \cup {NULL}]]
  /\ \A a \in DOMAIN h : IF h[a].next = NULL
                         THEN EndIn(h, a) = HeapSize
                         ELSE h[a].next = EndIn(h, a) /\ h[a].next \in DOMAIN h
  /\ \A a, b \in DOMAIN h : a < b => EndIn(h, a) <= b

LEMMA Constants ==
  /\ HeapSize \in Nat /\ Hdr \in Nat /\ 0 < Hdr /\ Hdr < HeapSize
  /\ Addresses \subseteq Nat /\ freeList = 0 /\ freeList \in Addresses
  /\ NULL \notin Addresses
  BY HeapAssumption DEF Addresses, freeList

LEMMA FreshTiles == TilesMem(Fresh)
  BY Constants DEF TilesMem, Fresh, Block, EndIn

(* There is a last block, and it is the only one.                           *)
LEMMA LastExists ==
  ASSUME NEW h, TilesMem(h)
  PROVE  LastOf(h) \in DOMAIN h /\ h[LastOf(h)].next = NULL
<1>1. DOMAIN h \subseteq 0 .. HeapSize /\ DOMAIN h # {} /\ HeapSize \in Nat
  BY Constants DEF TilesMem, Addresses
<1>2. PICK a \in DOMAIN h : \A b \in DOMAIN h : b <= a
  BY <1>1, GreatestExists
<1>3. h[a].next = NULL
  <2>1. SUFFICES ASSUME h[a].next # NULL PROVE FALSE
    OBVIOUS
  <2>2. h[a].next = a + Hdr + h[a].size /\ h[a].next \in DOMAIN h /\ h[a].size \in Nat
    BY <2>1 DEF TilesMem, EndIn
  <2>3. a \in Nat
    BY <1>1
  <2> QED
    BY <1>2, <2>2, <2>3, Constants
<1> QED
  BY <1>3 DEF LastOf

(* The search arrives at a block of the list.                               *)
LEMMA FoundIsBlock ==
  ASSUME NEW h, TilesMem(h), NEW n \in Nat
  PROVE  /\ Found(h, n) \in DOMAIN h
         /\ h[Found(h, n)].free \/ h[Found(h, n)].next = NULL
<1>1. CASE Suitable(h, n) # {}
  <2>1. Suitable(h, n) \in SUBSET Nat
    BY Constants DEF Suitable, TilesMem
  <2>2. Least(Suitable(h, n)) \in Suitable(h, n)
    BY <1>1, <2>1, LeastExists
  <2> QED
    BY <1>1, <2>2 DEF Found, Suitable
<1>2. CASE Suitable(h, n) = {}
  BY <1>2, LastExists DEF Found
<1> QED
  BY <1>1, <1>2

(* Setting a flag does not move anything.                                   *)
LEMMA FlagTiles ==
  ASSUME NEW h, TilesMem(h), NEW a \in DOMAIN h, NEW f \in BOOLEAN
  PROVE  LET g == [h EXCEPT ![a].free = f]
         IN  /\ TilesMem(g) /\ DOMAIN g = DOMAIN h
             /\ \A b \in DOMAIN h : /\ g[b].size = h[b].size /\ g[b].next = h[b].next
                                    /\ g[b].free = IF b = a THEN f ELSE h[b].free
<1> DEFINE g == [h EXCEPT ![a].free = f]
<1>1. h \in [DOMAIN h -> [size : Nat, free : BOOLEAN, next : Addresses \cup {NULL}]]
  BY DEF TilesMem
<1>2. g \in [DOMAIN h -> [size : Nat, free : BOOLEAN, next : Addresses \cup {NULL}]]
  BY <1>1
<1>3. \A b \in DOMAIN h : /\ g[b].size = h[b].size /\ g[b].next = h[b].next
                          /\ g[b].free = IF b = a THEN f ELSE h[b].free
  BY <1>1
<1> HIDE DEF g
<1>4. DOMAIN g = DOMAIN h
  BY <1>2
<1>5. TilesMem(g)
  BY <1>2, <1>3, <1>4 DEF TilesMem, EndIn
<1> QED
  BY <1>3, <1>4, <1>5 DEF g

(* frag puts a new block in the list, in the tail of the old one.           *)
LEMMA FragTiles ==
  ASSUME NEW h, TilesMem(h), NEW slot \in DOMAIN h, NEW n \in Nat,
         Splittable(h[slot].size, n)
  PROVE  /\ TilesMem(frag(h, slot, n))
         /\ slot + n + Hdr \notin DOMAIN h
         /\ DOMAIN frag(h, slot, n) = DOMAIN h \cup {slot + n + Hdr}
         /\ frag(h, slot, n)[slot] = Block(n, FALSE, slot + n + Hdr)
         /\ frag(h, slot, n)[slot + n + Hdr] =
              Block(h[slot].size - n - Hdr, TRUE, h[slot].next)
         /\ \A b \in DOMAIN h : b # slot => frag(h, slot, n)[b] = h[b]
<1> DEFINE new == slot + n + Hdr
           g == frag(h, slot, n)
<1>1. /\ h \in [DOMAIN h -> [size : Nat, free : BOOLEAN, next : Addresses \cup {NULL}]]
      /\ DOMAIN h \subseteq Nat /\ slot \in Nat /\ h[slot].size \in Nat
      /\ n + Hdr < h[slot].size
  BY Constants DEF TilesMem, Splittable
<1>2. \A b \in DOMAIN h : slot < b => slot + Hdr + h[slot].size <= b
  BY DEF TilesMem, EndIn
<1>3. new \notin DOMAIN h
  BY <1>1, <1>2, Constants
<1>4. new \in Addresses
  <2>1. slot + Hdr + h[slot].size <= HeapSize
    BY <1>1, Constants DEF TilesMem, EndIn, Addresses
  <2> QED
    BY <1>1, <2>1, Constants DEF Addresses
<1>5. /\ DOMAIN g = DOMAIN h \cup {new}
      /\ g[slot] = Block(n, FALSE, new)
      /\ g[new] = Block(h[slot].size - n - Hdr, TRUE, h[slot].next)
      /\ \A b \in DOMAIN h : b # slot => g[b] = h[b]
      /\ g = [a \in DOMAIN h \cup {new} |-> g[a]]
  BY <1>3 DEF frag
<1> HIDE DEF g, new
<1>6. /\ g[slot].size = n /\ g[slot].next = new
      /\ g[new].size = h[slot].size - n - Hdr /\ g[new].next = h[slot].next
      /\ g[slot] \in [size : Nat, free : BOOLEAN, next : Addresses \cup {NULL}]
      /\ g[new] \in [size : Nat, free : BOOLEAN, next : Addresses \cup {NULL}]
  BY <1>1, <1>4, <1>5, Constants DEF Block
<1>7. g \in [DOMAIN g -> [size : Nat, free : BOOLEAN, next : Addresses \cup {NULL}]]
  <2>1. \A b \in DOMAIN g : g[b] \in [size : Nat, free : BOOLEAN, next : Addresses \cup {NULL}]
    BY <1>1, <1>5, <1>6
  <2> QED
    BY <1>5, <2>1
<1>8. ASSUME NEW a \in DOMAIN g
      PROVE IF g[a].next = NULL THEN EndIn(g, a) = HeapSize
                                ELSE g[a].next = EndIn(g, a) /\ g[a].next \in DOMAIN g
  <2>1. CASE a = slot
    <3>1. EndIn(g, slot) = new /\ new # NULL
      BY <1>1, <1>4, <1>6, Constants DEF EndIn, new
    <3> QED
      BY <1>5, <1>6, <2>1, <3>1
  <2>2. CASE a = new
    <3>1. EndIn(g, new) = EndIn(h, slot)
      BY <1>1, <1>6, Constants DEF EndIn, new
    <3> QED
      BY <1>5, <1>6, <2>2, <3>1 DEF TilesMem
  <2>3. CASE a \in DOMAIN h /\ a # slot
    <3>1. g[a] = h[a]
      BY <1>5, <2>3
    <3> QED
      BY <1>5, <2>3, <3>1 DEF TilesMem, EndIn
  <2> QED
    BY <1>5, <2>1, <2>2, <2>3
<1>9. ASSUME NEW a \in DOMAIN g, NEW b \in DOMAIN g, a < b
      PROVE EndIn(g, a) <= b
  <2>1. CASE a = slot
    <3>1. EndIn(g, a) = new
      BY <1>1, <1>6, <2>1, Constants DEF EndIn, new
    <3>2. b = new \/ slot + Hdr + h[slot].size <= b
      BY <1>2, <1>5, <1>9, <2>1
    <3>3. b \in Nat /\ new \in Nat
      BY <1>1, <1>4, <1>5, Constants
    <3> QED
      BY <1>1, <3>1, <3>2, <3>3, Constants DEF new
  <2>2. CASE a = new
    <3>1. EndIn(g, new) = slot + Hdr + h[slot].size
      BY <1>1, <1>6, Constants DEF EndIn, new
    <3>2. b \in DOMAIN h /\ slot < b
      BY <1>1, <1>4, <1>5, <1>9, <2>2, Constants DEF new
    <3> QED
      BY <1>2, <2>2, <3>1, <3>2
  <2>3. CASE a \in DOMAIN h /\ a # slot
    <3>1. EndIn(g, a) = EndIn(h, a)
      BY <1>5, <2>3 DEF EndIn
    <3>2. CASE b \in DOMAIN h
      BY <1>9, <2>3, <3>1, <3>2 DEF TilesMem
    <3>3. CASE b = new
      <4>1. a < slot
        BY <1>1, <1>2, <1>9, <2>3, <3>3, Constants DEF new
      <4>2. EndIn(h, a) <= slot
        BY <2>3, <4>1 DEF TilesMem
      <4>3. EndIn(h, a) \in Nat
        BY <1>1, <2>3, Constants DEF EndIn
      <4> QED
        BY <1>1, <3>1, <3>3, <4>2, <4>3, Constants DEF new
    <3> QED
      BY <1>5, <3>2, <3>3
  <2> QED
    BY <1>5, <2>1, <2>2, <2>3
<1>10. TilesMem(g)
  BY <1>4, <1>5, <1>7, <1>8, <1>9 DEF TilesMem
<1> QED
  BY <1>3, <1>5, <1>10 DEF g, new

-----------------------------------------------------------------------------
(* Merging.                                                                 *)

(* The run of free blocks before the successor of a.                        *)
LEMMA RunOfNext ==
  ASSUME NEW h, TilesMem(h), NEW a \in DOMAIN h, h[a].next # NULL
  PROVE  /\ h[a].free => RunBefore(h, h[a].next) = RunBefore(h, a) \cup {a}
         /\ ~h[a].free => RunBefore(h, h[a].next) = {}
<1> DEFINE c == h[a].next
<1>1. /\ c \in DOMAIN h /\ c = a + Hdr + h[a].size /\ a \in Nat /\ h[a].size \in Nat
      /\ DOMAIN h \subseteq Nat
  BY Constants DEF TilesMem, EndIn
<1>2. a < c
  BY <1>1, Constants
<1>3. \A x \in DOMAIN h : x < c <=> x <= a
  <2>1. \A x \in DOMAIN h : a < x => c <= x
    BY <1>1 DEF TilesMem, EndIn
  <2> HIDE DEF c
  <2> QED
    BY <1>1, <1>2, <2>1
<1> HIDE DEF c
<1>4. ASSUME h[a].free PROVE RunBefore(h, c) = RunBefore(h, a) \cup {a}
  <2>1. ASSUME NEW x \in RunBefore(h, c) PROVE x \in RunBefore(h, a) \cup {a}
    <3>1. x \in DOMAIN h /\ x <= a /\ \A d \in DOMAIN h : x <= d /\ d < c => h[d].free
      BY <1>3, <2>1 DEF RunBefore
    <3>2. CASE x = a
      BY <3>2
    <3>3. CASE x # a
      <4>1. x < a
        BY <1>1, <3>1, <3>3
      <4>2. \A d \in DOMAIN h : d < a => d < c
        BY <1>1, <1>2
      <4> QED
        BY <3>1, <4>1, <4>2 DEF RunBefore
    <3> QED
      BY <3>2, <3>3
  <2>2. ASSUME NEW x \in RunBefore(h, a) PROVE x \in RunBefore(h, c)
    <3>1. x \in DOMAIN h /\ x < a /\ \A d \in DOMAIN h : x <= d /\ d < a => h[d].free
      BY <2>2 DEF RunBefore
    <3>2. x < c
      BY <1>1, <1>2, <3>1
    <3>3. \A d \in DOMAIN h : x <= d /\ d < c => h[d].free
      <4>1. \A d \in DOMAIN h : d < c => d < a \/ d = a
        BY <1>1, <1>3
      <4> QED
        BY <1>4, <3>1, <4>1
    <3> QED
      BY <3>1, <3>2, <3>3 DEF RunBefore
  <2>3. a \in RunBefore(h, c)
    <3>1. \A d \in DOMAIN h : a <= d /\ d < c => d = a
      BY <1>1, <1>3
    <3> QED
      BY <1>2, <1>4, <3>1 DEF RunBefore
  <2> QED
    BY <2>1, <2>2, <2>3
<1>5. ASSUME ~h[a].free PROVE RunBefore(h, c) = {}
  <2>1. SUFFICES ASSUME NEW x \in RunBefore(h, c) PROVE FALSE
    OBVIOUS
  <2>2. x \in DOMAIN h /\ x <= a /\ \A d \in DOMAIN h : x <= d /\ d < c => h[d].free
    BY <1>3 DEF RunBefore
  <2> QED
    BY <1>2, <1>5, <2>2
<1> QED
  BY <1>4, <1>5 DEF c

(* Only free blocks are absorbed, never the first, never the successor of   *)
(* one in use, and never two in a row.                                      *)
LEMMA AbsorbedBlocks ==
  ASSUME NEW h, TilesMem(h)
  PROVE  /\ \A b \in Absorbed(h) : b \in DOMAIN h /\ h[b].free
         /\ freeList \notin Absorbed(h)
         /\ \A a \in DOMAIN h : h[a].next \in Absorbed(h) =>
              /\ h[a].next # NULL /\ h[a].free
              /\ a \notin Absorbed(h)
<1>1. \A b \in Absorbed(h) : b \in DOMAIN h /\ h[b].free
  BY DEF Absorbed
<1>2. DOMAIN h \subseteq Nat /\ IsFiniteSet(DOMAIN h) /\ NULL \notin DOMAIN h
  <2>1. IsFiniteSet(Addresses)
    BY Constants, FS_Interval DEF Addresses
  <2> QED
    BY <2>1, Constants, FS_Subset DEF TilesMem
<1>3. freeList \notin Absorbed(h)
  <2>1. RunBefore(h, freeList) = {}
    BY <1>2, Constants DEF RunBefore
  <2> QED
    BY <2>1, FS_EmptySet DEF Absorbed
<1>4. ASSUME NEW a \in DOMAIN h, h[a].next \in Absorbed(h)
      PROVE h[a].next # NULL /\ h[a].free /\ a \notin Absorbed(h)
  <2>1. h[a].next # NULL
    BY <1>1, <1>2, <1>4
  <2>2. Cardinality(RunBefore(h, h[a].next)) % 2 = 1
    BY <1>4 DEF Absorbed
  <2>3. h[a].free
    <3>1. Cardinality({}) = 0
      BY FS_EmptySet
    <3> QED
      BY <2>1, <2>2, <3>1, RunOfNext
  <2>4. RunBefore(h, h[a].next) = RunBefore(h, a) \cup {a}
    BY <2>1, <2>3, RunOfNext
  <2>5. a \notin RunBefore(h, a) /\ IsFiniteSet(RunBefore(h, a))
    <3>1. RunBefore(h, a) \subseteq DOMAIN h
      BY DEF RunBefore
    <3>2. a \notin RunBefore(h, a)
      BY <1>2 DEF RunBefore
    <3> QED
      BY <1>2, <3>1, <3>2, FS_Subset
  <2>6. /\ Cardinality(RunBefore(h, a)) \in Nat
        /\ Cardinality(RunBefore(h, h[a].next)) = Cardinality(RunBefore(h, a)) + 1
    BY <2>4, <2>5, FS_AddElement, FS_CardinalityType
  <2>7. Cardinality(RunBefore(h, a)) % 2 # 1
    BY <2>2, <2>6
  <2> QED
    BY <2>1, <2>3, <2>7 DEF Absorbed
<1> QED
  BY <1>1, <1>3, <1>4

(* The list mergefrag leaves, block by block.                               *)
LEMMA MergeTiles ==
  ASSUME NEW h, TilesMem(h)
  PROVE  /\ TilesMem(mergefrag(h))
         /\ DOMAIN mergefrag(h) = DOMAIN h \ Absorbed(h)
         /\ \A a \in DOMAIN h \ Absorbed(h) :
              /\ mergefrag(h)[a].free = h[a].free
              /\ h[a].next \notin Absorbed(h) => mergefrag(h)[a] = h[a]
              /\ h[a].next \in Absorbed(h) =>
                    mergefrag(h)[a].size = h[a].size + h[h[a].next].size + Hdr
<1> DEFINE g == mergefrag(h)
           A == Absorbed(h)
           BlockSet == [size : Nat, free : BOOLEAN, next : Addresses \cup {NULL}]
<1>1. /\ DOMAIN h \subseteq Nat /\ NULL \notin DOMAIN h
      /\ h \in [DOMAIN h -> BlockSet]
  BY Constants DEF TilesMem
<1>2. /\ \A b \in A : b \in DOMAIN h /\ h[b].free
      /\ freeList \notin A
      /\ \A a \in DOMAIN h : h[a].next \in A => h[a].next # NULL /\ h[a].free /\ a \notin A
  BY AbsorbedBlocks
<1>3. /\ g = [a \in DOMAIN h \ A |-> g[a]] /\ DOMAIN g = DOMAIN h \ A
      /\ \A a \in DOMAIN h \ A :
            g[a] = IF h[a].next \in A
                   THEN Block(h[a].size + h[h[a].next].size + Hdr, h[a].free, h[h[a].next].next)
                   ELSE h[a]
  BY DEF mergefrag
<1> HIDE DEF g, A
<1>4. ASSUME NEW a \in DOMAIN g
      PROVE /\ g[a] \in BlockSet /\ g[a].free = h[a].free
            /\ h[a].next \notin A => g[a] = h[a]
            /\ h[a].next \in A => /\ g[a].size = h[a].size + h[h[a].next].size + Hdr
                                  /\ g[a].next = h[h[a].next].next
  <2>1. a \in DOMAIN h /\ h[a] \in BlockSet
    BY <1>1, <1>3
  <2>2. CASE h[a].next \in A
    <3>1. h[h[a].next] \in BlockSet
      BY <1>1, <1>2, <2>2
    <3>2. h[a].size + h[h[a].next].size + Hdr \in Nat
      BY <2>1, <3>1, Constants
    <3> QED
      BY <1>3, <2>1, <2>2, <3>1, <3>2 DEF Block
  <2>3. CASE h[a].next \notin A
    BY <1>3, <2>1, <2>3
  <2> QED
    BY <2>2, <2>3
<1>5. ASSUME NEW a \in DOMAIN g, h[a].next \in A
      PROVE /\ h[a].next \in DOMAIN h /\ a < h[a].next
            /\ EndIn(g, a) = EndIn(h, h[a].next)
  <2>1. a \in DOMAIN h /\ h[a].next \in DOMAIN h /\ h[a].next # NULL
    BY <1>2, <1>3, <1>5
  <2>2. h[a].next = a + Hdr + h[a].size
    BY <2>1 DEF TilesMem, EndIn
  <2>3. h[a].size \in Nat /\ h[h[a].next].size \in Nat /\ a \in Nat
    BY <1>1, <2>1
  <2>4. EndIn(g, a) = a + Hdr + (h[a].size + h[h[a].next].size + Hdr)
    BY <1>4, <1>5 DEF EndIn
  <2>5. EndIn(h, h[a].next) = h[a].next + Hdr + h[h[a].next].size
    BY DEF EndIn
  <2> QED
    BY <2>1, <2>2, <2>3, <2>4, <2>5, Constants
<1>6. g \in [DOMAIN g -> BlockSet]
  BY <1>3, <1>4
<1>7. ASSUME NEW a \in DOMAIN g
      PROVE IF g[a].next = NULL THEN EndIn(g, a) = HeapSize
                                ELSE g[a].next = EndIn(g, a) /\ g[a].next \in DOMAIN g
  <2>1. CASE h[a].next \in A
    <3>1. h[a].next \in DOMAIN h /\ EndIn(g, a) = EndIn(h, h[a].next)
          /\ g[a].next = h[h[a].next].next
      BY <1>4, <1>5, <2>1
    <3>2. h[h[a].next].next \notin A
      BY <1>2, <2>1, <3>1
    <3> QED
      BY <1>3, <3>1, <3>2 DEF TilesMem
  <2>2. CASE h[a].next \notin A
    <3>1. g[a] = h[a] /\ EndIn(g, a) = EndIn(h, a) /\ a \in DOMAIN h
      BY <1>3, <1>4, <2>2 DEF EndIn
    <3> QED
      BY <1>3, <2>2, <3>1 DEF TilesMem
  <2> QED
    BY <2>1, <2>2
<1>8. ASSUME NEW a \in DOMAIN g, NEW b \in DOMAIN g, a < b
      PROVE EndIn(g, a) <= b
  <2>1. a \in DOMAIN h /\ b \in DOMAIN h /\ a \in Nat /\ b \in Nat /\ EndIn(h, a) <= b
    BY <1>1, <1>3, <1>8 DEF TilesMem
  <2>2. CASE h[a].next \in A
    <3>1. h[a].next \in DOMAIN h /\ h[a].next # NULL /\ EndIn(g, a) = EndIn(h, h[a].next)
      BY <1>2, <1>5, <2>1, <2>2
    <3>2. h[a].next = EndIn(h, a)
      BY <2>1, <3>1 DEF TilesMem
    <3>3. h[a].next # b
      BY <1>3, <2>2
    <3>4. h[a].next < b
      BY <1>1, <2>1, <3>1, <3>2, <3>3
    <3> QED
      BY <2>1, <3>1, <3>4 DEF TilesMem
  <2>3. CASE h[a].next \notin A
    BY <1>4, <2>1, <2>3 DEF EndIn
  <2> QED
    BY <2>2, <2>3
<1>9. TilesMem(g)
  <2>1. DOMAIN g \subseteq Addresses /\ freeList \in DOMAIN g
    BY <1>2, <1>3 DEF TilesMem
  <2> QED
    BY <1>6, <1>7, <1>8, <2>1 DEF TilesMem
<1>10. \A a \in DOMAIN h \ A :
         /\ g[a].free = h[a].free
         /\ h[a].next \notin A => g[a] = h[a]
         /\ h[a].next \in A => g[a].size = h[a].size + h[h[a].next].size + Hdr
  BY <1>3, <1>4
<1> QED
  BY <1>3, <1>9, <1>10 DEF g, A

-----------------------------------------------------------------------------
(* The loops.                                                               *)

(* The successor of a block is the next one in the order of the addresses,  *)
(* and the block without one comes last.                                    *)
LEMMA NextBlock ==
  ASSUME NEW h, TilesMem(h), NEW a \in DOMAIN h
  PROVE  /\ a \in Nat
         /\ h[a].next # NULL => /\ h[a].next \in DOMAIN h /\ h[a].next \in Nat /\ a < h[a].next
                                /\ \A b \in DOMAIN h : b \in Nat /\ (b < h[a].next <=> b <= a)
         /\ h[a].next = NULL => \A b \in DOMAIN h : b \in Nat /\ b <= a
<1>1. /\ DOMAIN h \subseteq 0 .. HeapSize - 1 /\ a \in Nat /\ h[a].size \in Nat
      /\ DOMAIN h \subseteq Nat
  BY Constants DEF TilesMem, Addresses
<1>2. \A b \in DOMAIN h : a < b => a + Hdr + h[a].size <= b
  BY DEF TilesMem, EndIn
<1>3. ASSUME h[a].next # NULL
      PROVE  /\ h[a].next \in DOMAIN h /\ a < h[a].next
             /\ \A b \in DOMAIN h : b < h[a].next <=> b <= a
  <2>1. h[a].next \in DOMAIN h /\ h[a].next = a + Hdr + h[a].size
    BY <1>3 DEF TilesMem, EndIn
  <2> QED
    BY <1>1, <1>2, <2>1, Constants
<1>4. ASSUME h[a].next = NULL PROVE \A b \in DOMAIN h : b <= a
  <2>1. a + Hdr + h[a].size = HeapSize
    BY <1>4 DEF TilesMem, EndIn
  <2> QED
    BY <1>1, <1>2, <2>1, Constants
<1> QED
  BY <1>1, <1>3, <1>4

(* Where a search that has come to a goes on to: the first suitable block   *)
(* from there on, or the last one.                                          *)
FoundFrom(h, n, a) ==
  LET ahead == {b \in Suitable(h, n) : a <= b}
  IN  IF ahead # {} THEN Least(ahead) ELSE LastOf(h)

LEMMA SearchStep ==
  ASSUME NEW h, TilesMem(h), NEW n \in Nat, NEW a \in DOMAIN h
  PROVE  FoundFrom(h, n, a) = IF (h[a].size < n \/ ~h[a].free) /\ h[a].next # NULL
                              THEN FoundFrom(h, n, h[a].next) ELSE a
<1> DEFINE ahead == {b \in Suitable(h, n) : a <= b}
<1>1. h[a].size \in Nat /\ h[a].free \in BOOLEAN /\ DOMAIN h \subseteq Nat /\ a \in Nat
  BY Constants DEF TilesMem
<1>2. a \in Suitable(h, n) <=> ~(h[a].size < n \/ ~h[a].free)
  BY <1>1 DEF Suitable
<1>3. Suitable(h, n) \subseteq DOMAIN h
  BY DEF Suitable
<1>4. CASE a \in Suitable(h, n)
  <2>1. a \in ahead /\ ahead \in SUBSET Nat
    BY <1>1, <1>3, <1>4
  <2>2. Least(ahead) \in ahead /\ \A b \in ahead : Least(ahead) <= b
    <3> HIDE DEF ahead
    <3> QED
      BY <2>1, LeastExists
  <2>3. Least(ahead) = a
    BY <1>1, <2>1, <2>2
  <2> QED
    BY <1>2, <1>4, <2>1, <2>3 DEF FoundFrom
<1>5. CASE a \notin Suitable(h, n) /\ h[a].next = NULL
  <2>1. ahead = {}
    <3>1. \A b \in DOMAIN h : b <= a
      BY <1>5, NextBlock
    <3> QED
      BY <1>1, <1>3, <1>5, <3>1
  <2>2. LastOf(h) = a
    <3>1. LastOf(h) \in DOMAIN h /\ h[LastOf(h)].next = NULL
      BY LastExists
    <3>2. a <= LastOf(h) /\ LastOf(h) <= a
      BY <1>5, <3>1, NextBlock
    <3> QED
      BY <1>1, <3>1, <3>2
  <2> QED
    BY <1>5, <2>1, <2>2 DEF FoundFrom
<1>6. CASE a \notin Suitable(h, n) /\ h[a].next # NULL
  <2>1. {b \in Suitable(h, n) : h[a].next <= b} = ahead
    <3>1. \A b \in DOMAIN h : b < h[a].next <=> b <= a
      BY <1>6, NextBlock
    <3>2. h[a].next \in Nat
      BY <1>6, NextBlock
    <3>3. \A b \in Suitable(h, n) : b # a /\ b \in Nat /\ (b < h[a].next <=> b <= a)
      BY <1>1, <1>3, <1>6, <3>1
    <3> QED
      BY <1>1, <3>2, <3>3
  <2>2. FoundFrom(h, n, h[a].next) = FoundFrom(h, n, a)
    BY <2>1 DEF FoundFrom
  <2> QED
    BY <1>2, <1>6, <2>2
<1> QED
  BY <1>4, <1>5, <1>6

(* The loop of pm_malloc comes to its end, and at the block Found names.    *)
LEMMA SearchIsFound ==
  ASSUME NEW h, TilesMem(h), NEW n \in Nat
  PROVE  Search(h, n) = Found(h, n)
<1> DEFINE Goes(a)  == (h[a].size < n \/ ~h[a].free) /\ h[a].next # NULL
           Loop(f)  == f = [a \in DOMAIN h |-> IF Goes(a) THEN f[h[a].next] ELSE a]
           from     == CHOOSE f : Loop(f)
           Wrong    == {a \in DOMAIN h : from[a] # FoundFrom(h, n, a)}
<1>1. Search(h, n) = from[freeList]
  BY DEF Search
<1>2. Loop(from)
  <2> DEFINE found == [a \in DOMAIN h |-> FoundFrom(h, n, a)]
  <2>1. \A a \in DOMAIN h : Goes(a) => h[a].next \in DOMAIN h
    BY DEF TilesMem
  <2>2. \A a \in DOMAIN h : FoundFrom(h, n, a) = IF Goes(a) THEN FoundFrom(h, n, h[a].next) ELSE a
    BY SearchStep
  <2>3. Loop(found)
    BY <2>1, <2>2
  <2> HIDE DEF found, Loop
  <2> QED
    BY <2>3
<1>3. \A a \in DOMAIN h : from[a] = IF Goes(a) THEN from[h[a].next] ELSE a
  <2> HIDE DEF from
  <2> QED
    BY <1>2
<1> HIDE DEF from
<1>4. Wrong = {}
  <2>1. SUFFICES ASSUME Wrong # {} PROVE FALSE
    OBVIOUS
  <2>2. Wrong \subseteq 0 .. HeapSize /\ HeapSize \in Nat
    BY Constants DEF TilesMem, Addresses
  <2>3. PICK a \in Wrong : \A b \in Wrong : b <= a
    <3> HIDE DEF Wrong
    <3> QED
      BY <2>1, <2>2, GreatestExists
  <2>4. CASE ~Goes(a)
    BY <1>3, <2>4, SearchStep
  <2>5. CASE Goes(a)
    <3>1. h[a].next \in DOMAIN h /\ ~(h[a].next <= a)
      <4>1. h[a].next \in DOMAIN h /\ a < h[a].next /\ a \in Nat /\ h[a].next \in Nat
        BY <2>5, NextBlock
      <4> QED
        BY <4>1
    <3>2. h[a].next \notin Wrong
      BY <2>3, <3>1
    <3>3. from[h[a].next] = FoundFrom(h, n, h[a].next)
      BY <3>1, <3>2
    <3> QED
      BY <1>3, <2>5, <3>3, SearchStep
  <2> QED
    BY <2>4, <2>5
<1>5. FoundFrom(h, n, freeList) = Found(h, n)
  <2>1. {b \in Suitable(h, n) : freeList <= b} = Suitable(h, n)
    BY Constants DEF Suitable, TilesMem
  <2> QED
    BY <2>1 DEF FoundFrom, Found
<1>6. freeList \in DOMAIN h
  BY DEF TilesMem
<1> QED
  BY <1>1, <1>4, <1>5, <1>6

(* A function iterated N times, from a start in the set it maps to itself.  *)
Iterates(f, S, step, s0, N) ==
  /\ f \in [0 .. N -> S] /\ f[0] = s0
  /\ \A k \in 1 .. N : f[k] = step[f[k - 1]]

LEMMA IterationExists ==
  ASSUME NEW S, NEW step \in [S -> S], NEW s0 \in S, NEW N \in Nat
  PROVE  \E f : Iterates(f, S, step, s0, N)
<1> DEFINE Iter(f, M) == Iterates(f, S, step, s0, M)
           Missing == {M \in Nat : ~ \E f : Iter(f, M)}
<1>1. Missing = {}
  <2>1. SUFFICES ASSUME Missing # {} PROVE FALSE
    OBVIOUS
  <2>2. PICK M \in Missing : \A K \in Missing : M <= K
    <3>1. Missing \in SUBSET Nat
      OBVIOUS
    <3> HIDE DEF Missing
    <3> QED
      BY <2>1, <3>1, LeastExists
  <2>3. M \in Nat /\ ~ \E f : Iter(f, M)
    OBVIOUS
  <2>4. M # 0
    <3>1. Iter([k \in 0 .. 0 |-> s0], 0)
      BY DEF Iterates
    <3> HIDE DEF Iter
    <3> QED
      BY <2>3, <3>1
  <2>5. M - 1 \in Nat /\ M - 1 \notin Missing
    <3>1. M - 1 \in Nat /\ ~(M <= M - 1)
      BY <2>3, <2>4
    <3> HIDE DEF Missing
    <3> QED
      BY <2>2, <3>1
  <2>6. PICK f : Iter(f, M - 1)
    BY <2>5
  <2> DEFINE g == [k \in 0 .. M |-> IF k = M THEN step[f[M - 1]] ELSE f[k]]
  <2> USE DEF Iterates
  <2>7. \A k \in 0 .. M - 1 : k \in 0 .. M /\ g[k] = f[k] /\ f[k] \in S
    BY <2>3, <2>6
  <2>8. M \in 0 .. M /\ M - 1 \in 0 .. M - 1 /\ g[M] = step[f[M - 1]] /\ g[M] \in S
    BY <2>3, <2>5, <2>6
  <2>9. DOMAIN g = 0 .. M /\ g = [k \in 0 .. M |-> g[k]]
    OBVIOUS
  <2> HIDE DEF g
  <2>10. g \in [0 .. M -> S]
    <3>1. \A k \in 0 .. M : g[k] \in S
      <4>1. \A k \in 0 .. M : k = M \/ k \in 0 .. M - 1
        BY <2>3
      <4> QED
        BY <2>7, <2>8, <4>1
    <3> QED
      BY <2>9, <3>1
  <2>11. \A k \in 1 .. M : g[k] = step[g[k - 1]]
    <3>1. \A k \in 1 .. M : k = M \/ (k \in 1 .. M - 1 /\ k \in 0 .. M - 1)
      BY <2>3
    <3>2. \A k \in 1 .. M : k - 1 \in 0 .. M - 1
      BY <2>3
    <3>3. \A k \in 1 .. M - 1 : f[k] = step[f[k - 1]]
      BY <2>6
    <3> QED
      BY <2>7, <2>8, <3>1, <3>2, <3>3
  <2>12. g[0] = s0
    <3>1. 0 \in 0 .. M - 1
      BY <2>5
    <3> QED
      BY <2>6, <2>7, <3>1
  <2>13. Iter(g, M)
    BY <2>10, <2>11, <2>12
  <2> HIDE DEF Iter
  <2> QED
    BY <2>3, <2>13
<1> QED
  BY <1>1

(* Of a block that stays, mergefrag takes in the successor if both are free.*)
LEMMA AbsorbedNext ==
  ASSUME NEW h, TilesMem(h), NEW a \in DOMAIN h \ Absorbed(h), h[a].next # NULL
  PROVE  h[a].next \in Absorbed(h) <=> h[a].free /\ h[h[a].next].free
<1> DEFINE d == h[a].next
<1>1. d \in Absorbed(h) => h[a].free /\ h[d].free
  BY AbsorbedBlocks
<1>2. ASSUME h[a].free, h[d].free PROVE d \in Absorbed(h)
  <2>1. IsFiniteSet(RunBefore(h, a)) /\ a \notin RunBefore(h, a) /\ a \in Nat
    <3>1. IsFiniteSet(Addresses)
      BY Constants, FS_Interval DEF Addresses
    <3>2. RunBefore(h, a) \subseteq Addresses /\ a \in Nat
      BY Constants DEF RunBefore, TilesMem
    <3>3. a \notin RunBefore(h, a)
      BY <3>2 DEF RunBefore
    <3> QED
      BY <3>1, <3>2, <3>3, FS_Subset
  <2>2. Cardinality(RunBefore(h, a)) \in Nat /\ Cardinality(RunBefore(h, a)) % 2 # 1
    BY <1>2, <2>1, FS_CardinalityType DEF Absorbed
  <2>3. RunBefore(h, d) = RunBefore(h, a) \cup {a}
    BY <1>2, RunOfNext
  <2>4. Cardinality(RunBefore(h, d)) = Cardinality(RunBefore(h, a)) + 1
    BY <2>1, <2>3, FS_AddElement
  <2>5. Cardinality(RunBefore(h, d)) % 2 = 1
    BY <2>2, <2>4
  <2>6. d \in DOMAIN h
    BY DEF TilesMem
  <2> QED
    BY <1>2, <2>5, <2>6 DEF Absorbed
<1> QED
  BY <1>1, <1>2

(* What the loop of mergefrag has made of h when it comes to c: before c    *)
(* the list is as mergefrag leaves it, from c on as it was.                 *)
MergedUpTo(h, c) ==
  [a \in DOMAIN h \ {b \in Absorbed(h) : b < c} |-> IF a < c THEN mergefrag(h)[a] ELSE h[a]]
At(h, c) == [heap |-> MergedUpTo(h, c), curr |-> c]
LoopStates(h) ==
  {At(h, c) : c \in DOMAIN h \ Absorbed(h)}
    \cup {s \in {[heap |-> mergefrag(h), curr |-> NULL]} : MergeCrashes(h)}

LEMMA MergedFields ==
  ASSUME NEW h, TilesMem(h), NEW c \in DOMAIN h
  PROVE  LET m == MergedUpTo(h, c)
         IN  /\ DOMAIN m = DOMAIN h \ {b \in Absorbed(h) : b < c}
             /\ \A a \in DOMAIN m : m[a] = IF a < c THEN mergefrag(h)[a] ELSE h[a]
             /\ c \in DOMAIN m /\ m[c] = h[c]
             /\ h[c].next # NULL => h[c].next \in DOMAIN m /\ m[h[c].next] = h[h[c].next]
<1>1. ~(c < c)
  BY NextBlock
<1>2. h[c].next # NULL => h[c].next \in DOMAIN h /\ ~(h[c].next < c)
  BY NextBlock
<1> QED
  BY <1>1, <1>2 DEF MergedUpTo

(* At the last block the loop is over, and the list is merged.              *)
LEMMA RoundAtLast ==
  ASSUME NEW h, TilesMem(h), NEW c \in DOMAIN h \ Absorbed(h), h[c].next = NULL
  PROVE  Over(At(h, c)) /\ MergedUpTo(h, c) = mergefrag(h) /\ ~MergeCrashes(h)
<1>1. Over(At(h, c))
  <2>1. MergedUpTo(h, c)[c].next = NULL
    BY MergedFields
  <2> QED
    BY <2>1 DEF Over, At
<1>2. \A b \in DOMAIN h : b <= c /\ (b < c \/ b = c)
  <2>1. c \in Nat /\ \A b \in DOMAIN h : b \in Nat /\ b <= c
    BY NextBlock
  <2> QED
    BY <2>1
<1>3. Absorbed(h) \subseteq DOMAIN h /\ NULL \notin Absorbed(h)
  BY AbsorbedBlocks, Constants DEF TilesMem
<1>4. {b \in Absorbed(h) : b < c} = Absorbed(h)
  BY <1>2, <1>3
<1>5. mergefrag(h)[c] = h[c]
  BY <1>3 DEF mergefrag
<1>6. MergedUpTo(h, c) = [a \in DOMAIN h \ Absorbed(h) |-> mergefrag(h)[a]]
  BY <1>2, <1>4, <1>5 DEF MergedUpTo
<1>7. MergedUpTo(h, c) = mergefrag(h)
  BY <1>6 DEF mergefrag
<1>8. ~MergeCrashes(h)
  <2>1. SUFFICES ASSUME NEW a \in Absorbed(h), h[a].next = NULL PROVE FALSE
    BY DEF MergeCrashes
  <2>2. a <= c /\ c <= a /\ a \in Nat /\ c \in Nat
    BY <1>3, <2>1, NextBlock
  <2> QED
    BY <2>2
<1> QED
  BY <1>1, <1>7, <1>8

(* Elsewhere a round goes to the next block that stays, or off the list.    *)
LEMMA RoundMovesOn ==
  ASSUME NEW h, TilesMem(h), NEW c \in DOMAIN h \ Absorbed(h), h[c].next # NULL,
         h[c].next \notin Absorbed(h)
  PROVE  Round(At(h, c)) = At(h, h[c].next)
<1> DEFINE d == h[c].next
           m == MergedUpTo(h, c)
<1>1. /\ c \in DOMAIN m /\ m[c] = h[c] /\ d \in DOMAIN m /\ m[d] = h[d]
      /\ DOMAIN m = DOMAIN h \ {b \in Absorbed(h) : b < c}
      /\ \A a \in DOMAIN m : m[a] = IF a < c THEN mergefrag(h)[a] ELSE h[a]
  BY MergedFields
<1>2. ~(h[c].free /\ h[d].free)
  BY AbsorbedNext
<1>3. Round(At(h, c)) = [heap |-> m, curr |-> d]
  <2>1. At(h, c).heap = m /\ At(h, c).curr = c
    BY DEF At
  <2>2. c # NULL
    BY Constants DEF TilesMem
  <2> HIDE DEF m
  <2> QED
    BY <1>1, <1>2, <2>1, <2>2 DEF Round, Over
<1>4. Absorbed(h) \subseteq DOMAIN h
  BY AbsorbedBlocks
<1>5. c \in Nat /\ d \in Nat /\ \A b \in DOMAIN h : b \in Nat /\ (b < d <=> b <= c)
  BY NextBlock
<1>6. mergefrag(h)[c] = h[c]
  BY DEF mergefrag
<1> HIDE DEF d
<1>7. \A b \in DOMAIN h : b # c => (b < d <=> b < c)
  BY <1>5
<1>8. {b \in Absorbed(h) : b < d} = {b \in Absorbed(h) : b < c}
  BY <1>4, <1>7
<1>9. \A a \in DOMAIN m : (IF a < d THEN mergefrag(h)[a] ELSE h[a])
                           = (IF a < c THEN mergefrag(h)[a] ELSE h[a])
  BY <1>1, <1>6, <1>7
<1>10. MergedUpTo(h, d) = m
  BY <1>8, <1>9 DEF MergedUpTo
<1> QED
  BY <1>3, <1>10 DEF At, d

LEMMA RoundJoins ==
  ASSUME NEW h, TilesMem(h), NEW c \in DOMAIN h \ Absorbed(h), h[c].next \in Absorbed(h)
  PROVE  Round(At(h, c)) = IF h[h[c].next].next = NULL
                           THEN [heap |-> mergefrag(h), curr |-> NULL]
                           ELSE At(h, h[h[c].next].next)
<1> DEFINE d == h[c].next
           e == h[d].next
           m == MergedUpTo(h, c)
           j == Joined(m, c)
           B == Block(h[c].size + h[d].size + Hdr, TRUE, e)
<1>1. d # NULL /\ h[c].free /\ d \in DOMAIN h /\ h[d].free /\ e \notin Absorbed(h)
  BY AbsorbedBlocks, Constants DEF TilesMem
<1>2. /\ c \in DOMAIN m /\ m[c] = h[c] /\ d \in DOMAIN m /\ m[d] = h[d]
      /\ DOMAIN m = DOMAIN h \ {b \in Absorbed(h) : b < c}
      /\ \A a \in DOMAIN m : m[a] = IF a < c THEN mergefrag(h)[a] ELSE h[a]
  <2>1. h[c].next # NULL
    BY <1>1
  <2> QED
    BY <2>1, MergedFields
<1>3. c \in Nat /\ d \in Nat /\ c < d /\ \A b \in DOMAIN h : b \in Nat /\ (b < d <=> b <= c)
  BY <1>1, NextBlock
<1>4. h[c].free = TRUE
  BY <1>1 DEF TilesMem
<1>5. mergefrag(h)[c] = B
  BY <1>4 DEF mergefrag
<1> HIDE DEF m
<1>6. j = [a \in DOMAIN m \ {d} |-> IF a = c THEN B ELSE m[a]]
  BY <1>2 DEF Joined
<1>7. j[c] = B /\ B.next = e
  BY <1>2, <1>3, <1>6 DEF Block
<1>8. Round(At(h, c)) = [heap |-> j, curr |-> e]
  <2>1. At(h, c).heap = m /\ At(h, c).curr = c
    BY DEF At, m
  <2>2. c # NULL
    BY Constants DEF TilesMem
  <2> HIDE DEF j, B
  <2> QED
    BY <1>1, <1>2, <1>7, <2>1, <2>2 DEF Round, Over, j
<1>9. Absorbed(h) \subseteq DOMAIN h
  BY AbsorbedBlocks
<1> HIDE DEF B, j, d, e
<1>10. \A b \in DOMAIN h : b < c \/ b = c \/ b = d \/ (d < b /\ ~(b < c))
  BY <1>3
<1>11. CASE e = NULL
  <2>1. \A b \in DOMAIN h : b < c \/ b = c \/ b = d
    <3>1. \A b \in DOMAIN h : b <= d
      BY <1>1, <1>11, NextBlock DEF e
    <3> QED
      BY <1>3, <1>10, <3>1
  <2>2. DOMAIN m \ {d} = DOMAIN h \ Absorbed(h)
    BY <1>2, <1>9, <2>1 DEF d
  <2>3. \A a \in DOMAIN h \ Absorbed(h) : (IF a = c THEN B ELSE m[a]) = mergefrag(h)[a]
    BY <1>2, <1>5, <2>1, <2>2
  <2>4. j = [a \in DOMAIN h \ Absorbed(h) |-> mergefrag(h)[a]]
    BY <1>6, <2>2, <2>3
  <2>5. j = mergefrag(h)
    BY <2>4 DEF mergefrag
  <2> QED
    BY <1>8, <1>11, <2>5 DEF e, d
<1>12. CASE e # NULL
  <2>1. \A b \in DOMAIN h : b < e <=> (b < c \/ b = c \/ b = d)
    <3>1. e \in Nat /\ \A b \in DOMAIN h : b < e <=> b <= d
      BY <1>1, <1>12, NextBlock DEF e
    <3> QED
      BY <1>3, <1>10, <3>1
  <2>2. DOMAIN m \ {d} = DOMAIN h \ {b \in Absorbed(h) : b < e}
    BY <1>2, <1>9, <2>1 DEF d
  <2>3. \A a \in DOMAIN m \ {d} : (IF a = c THEN B ELSE m[a])
                                     = (IF a < e THEN mergefrag(h)[a] ELSE h[a])
    BY <1>2, <1>5, <2>1
  <2>4. j = MergedUpTo(h, e)
    BY <1>6, <2>2, <2>3 DEF MergedUpTo
  <2> QED
    BY <1>8, <1>12, <2>4 DEF At, e, d
<1> QED
  BY <1>11, <1>12

(* So a round leads from one of these states to another, further on.        *)
LEMMA RoundOfLoop ==
  ASSUME NEW h, TilesMem(h), NEW s \in LoopStates(h)
  PROVE  /\ Round(s) \in LoopStates(h)
         /\ Over(s) => Round(s) = s
         /\ Over(s) => s.heap = mergefrag(h) /\ (s.curr = NULL <=> MergeCrashes(h))
         /\ ~Over(s) => /\ s.curr \in DOMAIN h
                        /\ \/ Over(Round(s))
                           \/ Round(s).curr \in DOMAIN h /\ s.curr < Round(s).curr
<1>1. Over(s) => Round(s) = s
  BY DEF Round
<1>2. ASSUME s = [heap |-> mergefrag(h), curr |-> NULL], MergeCrashes(h)
      PROVE  Over(s) /\ s.heap = mergefrag(h) /\ s.curr = NULL
  BY <1>2 DEF Over
<1>3. ASSUME NEW c \in DOMAIN h \ Absorbed(h), s = At(h, c)
      PROVE  /\ Round(s) \in LoopStates(h)
             /\ Over(s) => s.heap = mergefrag(h) /\ (s.curr = NULL <=> MergeCrashes(h))
             /\ ~Over(s) => /\ s.curr \in DOMAIN h
                            /\ \/ Over(Round(s))
                               \/ Round(s).curr \in DOMAIN h /\ s.curr < Round(s).curr
  <2>1. s.curr = c /\ s.heap = MergedUpTo(h, c) /\ c # NULL /\ NULL \notin DOMAIN h
    BY <1>3, Constants DEF At, TilesMem
  <2>2. CASE h[c].next = NULL
    <3>1. Over(s) /\ s.heap = mergefrag(h) /\ ~MergeCrashes(h)
      BY <1>3, <2>1, <2>2, RoundAtLast
    <3>2. Round(s) \in LoopStates(h)
      BY <1>1, <1>3, <3>1 DEF LoopStates
    <3> QED
      BY <2>1, <3>1, <3>2
  <2>3. ASSUME h[c].next # NULL PROVE ~Over(s)
    <3>1. MergedUpTo(h, c)[c] = h[c]
      BY MergedFields
    <3> QED
      BY <2>1, <2>3, <3>1 DEF Over
  <2>4. CASE h[c].next # NULL /\ h[c].next \notin Absorbed(h)
    <3>1. Round(s) = At(h, h[c].next) /\ h[c].next \in DOMAIN h /\ c < h[c].next
      BY <1>3, <2>4, RoundMovesOn, NextBlock
    <3>2. Round(s) \in LoopStates(h) /\ Round(s).curr = h[c].next
      BY <2>4, <3>1 DEF LoopStates, At
    <3> QED
      BY <2>1, <2>3, <2>4, <3>1, <3>2
  <2>5. CASE h[c].next \in Absorbed(h)
    <3> DEFINE d == h[c].next
               e == h[d].next
    <3>1. /\ d # NULL /\ d \in DOMAIN h /\ e \notin Absorbed(h)
          /\ Round(s) = IF e = NULL THEN [heap |-> mergefrag(h), curr |-> NULL] ELSE At(h, e)
      BY <1>3, <2>5, RoundJoins, AbsorbedBlocks
    <3>2. c < d /\ c \in Nat /\ d \in Nat
      BY <3>1, NextBlock
    <3> HIDE DEF d
    <3>3. CASE e = NULL
      <4>1. MergeCrashes(h)
        BY <2>5, <3>3 DEF MergeCrashes, d
      <4>2. Round(s) \in LoopStates(h) /\ Over(Round(s))
        BY <3>1, <3>3, <4>1 DEF LoopStates, Over
      <4> QED
        BY <2>1, <2>3, <3>1, <4>2 DEF d
    <3>4. CASE e # NULL
      <4>1. e \in DOMAIN h /\ e \in Nat /\ d < e
        BY <3>1, <3>4, NextBlock
      <4>2. c < e
        BY <3>2, <4>1
      <4>3. Round(s) \in LoopStates(h) /\ Round(s).curr = e
        BY <3>1, <3>4, <4>1 DEF LoopStates, At
      <4> HIDE DEF e
      <4> QED
        BY <2>1, <2>3, <3>1, <4>1, <4>2, <4>3 DEF d
    <3> QED
      BY <3>3, <3>4
  <2> QED
    BY <2>2, <2>4, <2>5
<1>4. \/ \E c \in DOMAIN h \ Absorbed(h) : s = At(h, c)
      \/ s = [heap |-> mergefrag(h), curr |-> NULL] /\ MergeCrashes(h)
  BY DEF LoopStates
<1>5. CASE \E c \in DOMAIN h \ Absorbed(h) : s = At(h, c)
  BY <1>1, <1>3, <1>5
<1>6. CASE s = [heap |-> mergefrag(h), curr |-> NULL] /\ MergeCrashes(h)
  BY <1>1, <1>2, <1>6
<1> QED
  BY <1>4, <1>5, <1>6

(* The loop of mergefrag comes to its end within HeapSize rounds, and then  *)
(* the list is the one mergefrag(h) defines.                                *)
LEMMA MergeLoopMerges ==
  ASSUME NEW h, TilesMem(h)
  PROVE  LET m == MergeLoop(h)
         IN  /\ Over(m) /\ m.heap = mergefrag(h)
             /\ m.curr = NULL <=> MergeCrashes(h)
<1> DEFINE s0 == [heap |-> h, curr |-> freeList]
           S == LoopStates(h)
           Loop(f) == f = [k \in 0 .. HeapSize |-> IF k = 0 THEN s0 ELSE Round(f[k - 1])]
           after == CHOOSE f : Loop(f)
<1>1. MergeLoop(h) = after[HeapSize]
  BY DEF MergeLoop
<1>2. s0 \in S
  <2>1. freeList \in DOMAIN h \ Absorbed(h)
    BY AbsorbedBlocks DEF TilesMem
  <2>2. \A a \in DOMAIN h : a \in Nat /\ ~(a < freeList)
    BY Constants DEF TilesMem
  <2>3. Absorbed(h) \subseteq DOMAIN h
    BY AbsorbedBlocks
  <2>4. {b \in Absorbed(h) : b < freeList} = {}
    BY <2>2, <2>3
  <2>5. MergedUpTo(h, freeList) = [a \in DOMAIN h |-> h[a]]
    BY <2>2, <2>4 DEF MergedUpTo
  <2>6. h = [a \in DOMAIN h |-> h[a]]
    BY DEF TilesMem
  <2>7. s0 = At(h, freeList)
    BY <2>5, <2>6 DEF At
  <2> HIDE DEF s0
  <2> QED
    BY <2>1, <2>7 DEF LoopStates
<1>3. \A s \in S : Round(s) \in S
  BY RoundOfLoop
<1> HIDE DEF s0, S
<1>4. \E f : Loop(f)
  <2> DEFINE step == [s \in S |-> Round(s)]
  <2>1. step \in [S -> S]
    BY <1>3
  <2>2. PICK f : Iterates(f, S, step, s0, HeapSize)
    <3> HIDE DEF step
    <3> QED
      BY <1>2, <2>1, IterationExists, Constants
  <2>3. \A k \in 0 .. HeapSize : f[k] = IF k = 0 THEN s0 ELSE Round(f[k - 1])
    <3>1. \A k \in 0 .. HeapSize : k = 0 \/ (k \in 1 .. HeapSize /\ k - 1 \in 0 .. HeapSize)
      BY Constants
    <3>2. \A k \in 1 .. HeapSize : f[k - 1] \in S
      BY <2>2, <3>1, Constants DEF Iterates
    <3>3. f[0] = s0 /\ \A k \in 1 .. HeapSize : f[k] = step[f[k - 1]]
      BY <2>2 DEF Iterates
    <3> QED
      BY <3>1, <3>2, <3>3
  <2>4. f = [k \in 0 .. HeapSize |-> f[k]]
    BY <2>2 DEF Iterates
  <2> HIDE DEF step
  <2> QED
    BY <2>3, <2>4
<1>5. Loop(after)
  <2> HIDE DEF Loop
  <2> QED
    BY <1>4
<1> HIDE DEF after
<1>6. after[0] = s0 /\ \A k \in 1 .. HeapSize : after[k] = Round(after[k - 1])
  BY <1>5, Constants
<1> DEFINE Good(k) == after[k] \in S /\ (Over(after[k]) \/ k <= after[k].curr)
           Bad == {k \in 0 .. HeapSize : ~Good(k)}
<1>7. Good(0)
  <2>1. 0 <= s0.curr
    BY Constants DEF s0
  <2> QED
    BY <1>2, <1>6, <2>1
<1>8. ASSUME NEW k \in 1 .. HeapSize, Good(k - 1) PROVE Good(k)
  <2> DEFINE s == after[k - 1]
  <2>1. after[k] = Round(s) /\ s \in S /\ (Over(s) \/ k - 1 <= s.curr)
    BY <1>6, <1>8
  <2> HIDE DEF s
  <2>2. /\ Round(s) \in S
        /\ Over(s) => Round(s) = s
        /\ ~Over(s) => /\ s.curr \in DOMAIN h
                       /\ \/ Over(Round(s))
                          \/ Round(s).curr \in DOMAIN h /\ s.curr < Round(s).curr
    BY <2>1, RoundOfLoop DEF S
  <2>3. \A a \in DOMAIN h : a \in Nat
    BY Constants DEF TilesMem
  <2>4. CASE Over(s)
    BY <2>1, <2>2, <2>4
  <2>5. CASE ~Over(s) /\ ~Over(Round(s))
    <3>1. k <= Round(s).curr
      BY <2>1, <2>2, <2>3, <2>5
    <3> QED
      BY <2>1, <2>2, <3>1
  <2>6. CASE Over(Round(s))
    BY <2>1, <2>2, <2>6
  <2> QED
    BY <2>4, <2>5, <2>6
<1> HIDE DEF Good
<1>9. Bad = {}
  <2>1. SUFFICES ASSUME Bad # {} PROVE FALSE
    OBVIOUS
  <2>2. PICK k \in Bad : \A l \in Bad : k <= l
    <3>1. Bad \in SUBSET Nat
      BY Constants
    <3> HIDE DEF Bad
    <3> QED
      BY <2>1, <3>1, LeastExists
  <2>3. k \in 0 .. HeapSize /\ ~Good(k) /\ k # 0
    BY <1>7
  <2>4. k \in 1 .. HeapSize /\ k - 1 \in 0 .. HeapSize /\ ~(k <= k - 1)
    BY <2>3, Constants
  <2>5. Good(k - 1)
    <3>1. k - 1 \notin Bad
      <4> HIDE DEF Bad
      <4> QED
        BY <2>2, <2>4
    <3> QED
      BY <2>4, <3>1
  <2> QED
    BY <1>8, <2>3, <2>4, <2>5
<1> DEFINE m == after[HeapSize]
<1>10. m \in S /\ (Over(m) \/ HeapSize <= m.curr)
  <2>1. Good(HeapSize)
    BY <1>9, Constants
  <2> QED
    BY <2>1 DEF Good
<1> HIDE DEF m
<1>11. Over(m)
  <2>1. SUFFICES ASSUME ~Over(m) PROVE FALSE
    OBVIOUS
  <2>2. m.curr \in DOMAIN h /\ HeapSize <= m.curr
    BY <1>10, <2>1, RoundOfLoop DEF S
  <2> QED
    BY <2>2, Constants DEF TilesMem, Addresses
<1>12. m.heap = mergefrag(h) /\ (m.curr = NULL <=> MergeCrashes(h))
  BY <1>10, <1>11, RoundOfLoop DEF S
<1>13. MergeLoop(h) = m
  BY <1>1 DEF m
<1> QED
  BY <1>11, <1>12, <1>13

-----------------------------------------------------------------------------
(* The structure of the list.                                               *)

ListInv ==
  /\ IF initialized THEN TilesMem(heap) ELSE heap[freeList].size = 0
  /\ initialized \in BOOLEAN /\ crashed \in BOOLEAN
  /\ ~initialized => live = {}

(* Before it searches, pm_malloc has a list that covers mem.                *)
LEMMA InitHeapTiles == ListInv => TilesMem(initHeap)
  BY FreshTiles DEF ListInv, initHeap

LEMMA MallocKeepsList ==
  ASSUME ListInv, NEW n \in Sizes, pm_malloc(n)
  PROVE  ListInv'
<1>1. n \in Nat /\ TilesMem(initHeap)
  BY HeapAssumption, InitHeapTiles
<1>2. Found(initHeap, n) \in DOMAIN initHeap
  BY <1>1, FoundIsBlock
<1>3. \/ heap' = [initHeap EXCEPT ![Found(initHeap, n)].free = FALSE]
      \/ /\ Splittable(initHeap[Found(initHeap, n)].size, n)
         /\ heap' = frag(initHeap, Found(initHeap, n), n)
      \/ heap' = initHeap
  BY DEF pm_malloc
<1>4. TilesMem(heap')
  <2>1. CASE heap' = [initHeap EXCEPT ![Found(initHeap, n)].free = FALSE]
    BY <1>1, <1>2, <2>1, FlagTiles
  <2>2. CASE /\ Splittable(initHeap[Found(initHeap, n)].size, n)
             /\ heap' = frag(initHeap, Found(initHeap, n), n)
    BY <1>1, <1>2, <2>2, FragTiles
  <2>3. CASE heap' = initHeap
    BY <1>1, <2>3
  <2> QED
    BY <1>3, <2>1, <2>2, <2>3
<1>5. TilesMem(heap)'
  BY <1>4 DEF TilesMem, EndIn
<1>6. initialized' = TRUE /\ crashed' = crashed
  BY DEF pm_malloc
<1> QED
  BY <1>5, <1>6 DEF ListInv

LEMMA MarkedTiles ==
  ASSUME NEW h, TilesMem(h), NEW a
  PROVE  /\ TilesMem(Marked(h, a)) /\ DOMAIN Marked(h, a) = DOMAIN h
         /\ \A b \in DOMAIN h : /\ Marked(h, a)[b].size = h[b].size
                                /\ Marked(h, a)[b].next = h[b].next
                                /\ Marked(h, a)[b].free = IF b = a THEN TRUE ELSE h[b].free
  BY FlagTiles DEF Marked

LEMMA FreeKeepsList ==
  ASSUME ListInv, NEW al \in live, pm_free(al)
  PROVE  ListInv'
<1>1. TilesMem(heap) /\ initialized
  BY DEF ListInv
<1>2. heap' = mergefrag(Marked(heap, al.ptr - Hdr))
  BY DEF pm_free
<1>3. TilesMem(heap')
  BY <1>1, <1>2, MarkedTiles, MergeTiles
<1>4. TilesMem(heap)'
  BY <1>3 DEF TilesMem, EndIn
<1>5. initialized' = initialized /\ crashed' \in BOOLEAN
  BY DEF pm_free, MergeCrashes
<1> QED
  BY <1>1, <1>4, <1>5 DEF ListInv

LEMMA InitListInv == Init => ListInv
<1> SUFFICES ASSUME Init PROVE ListInv
  OBVIOUS
<1>1. heap[freeList] = Block(0, FALSE, NULL)
  BY DEF Init
<1>2. heap[freeList].size = 0
  BY <1>1 DEF Block
<1> QED
  BY <1>2 DEF Init, ListInv

LEMMA NextListInv == ListInv /\ [Next]_vars => ListInv'
<1> SUFFICES ASSUME ListInv, [Next]_vars PROVE ListInv'
  OBVIOUS
<1>1. ASSUME NEW n \in Sizes, pm_malloc(n) PROVE ListInv'
  BY <1>1, MallocKeepsList
<1>2. ASSUME NEW al \in live, pm_free(al) PROVE ListInv'
  BY <1>2, FreeKeepsList
<1>3. CASE UNCHANGED vars
  BY <1>3 DEF vars, ListInv, TilesMem, EndIn
<1> QED
  BY <1>1, <1>2, <1>3 DEF Next, Ended

(* Whatever is allocated and freed, in whatever order, the blocks of the    *)
(* list cover mem without gaps or overlaps, even when pm_free dies in       *)
(* mergefrag, even when pm_malloc(0) makes init run again, and even when a  *)
(* block has been given out twice.                                          *)
THEOREM AlwaysTiled == Spec => []Tiled
<1>1. ListInv => Tiled
  BY DEF ListInv, Tiled, TilesMem, EndIn, End, Blocks, IsLast
<1> QED
  BY <1>1, InitListInv, NextListInv, PTL DEF Spec

(* In every heap the allocator comes to, the search and the merge loop end, *)
(* the former at the block the first-fit rule names, the latter with every  *)
(* second block of each run of free ones joined to the one before it, or at *)
(* NULL if the last block has gone that way.                                *)
THEOREM LoopsAlwaysAgree == Spec => []LoopsAgree
<1>1. ASSUME ListInv PROVE LoopsAgree
  <2>1. ASSUME NEW n \in Sizes PROVE Search(initHeap, n) = Found(initHeap, n)
    BY <1>1, InitHeapTiles, SearchIsFound, HeapAssumption
  <2>2. ASSUME NEW al \in live
        PROVE  LET h == Marked(heap, al.ptr - Hdr)
                   m == MergeLoop(h)
               IN  /\ Over(m) /\ m.heap = mergefrag(h)
                   /\ m.curr = NULL <=> MergeCrashes(h)
    <3>1. TilesMem(heap)
      BY <1>1, <2>2 DEF ListInv
    <3>2. TilesMem(Marked(heap, al.ptr - Hdr))
      BY <3>1, MarkedTiles
    <3> QED
      BY <3>2, MergeLoopMerges
  <2> QED
    BY <2>1, <2>2 DEF LoopsAgree
<1> QED
  BY <1>1, InitListInv, NextListInv, PTL DEF Spec

-----------------------------------------------------------------------------
(* Exclusive allocation.  If the client never asks for 0 units no block is  *)
(* empty, so init is called only once; until the last block is taken it is  *)
(* free, so the search never arrives at a block in use.                     *)

NoEmptyBlock == initialized => \A a \in Blocks : heap[a].size > 0
LastIsFree   == initialized => \A a \in Blocks : IsLast(a) => heap[a].free
PointersTyped == \A x \in live : x.ptr \in Nat
ExclusiveInv == /\ ListInv /\ NoEmptyBlock /\ PointersTyped
                /\ ~tailTaken => Exclusive /\ LastIsFree

(* The list pm_malloc searches, and its properties.                         *)
LEMMA SearchedList ==
  ASSUME ExclusiveInv
  PROVE  /\ TilesMem(initHeap)
         /\ \A a \in DOMAIN initHeap : initHeap[a].size > 0
         /\ ~tailTaken => \A a \in DOMAIN initHeap :
                            initHeap[a].next = NULL => initHeap[a].free
         /\ live # {} => initHeap = heap
<1>1. TilesMem(initHeap)
  BY InitHeapTiles DEF ExclusiveInv
<1>2. CASE initialized
  <2>1. heap[freeList].size > 0
    BY <1>2, Constants DEF ExclusiveInv, ListInv, NoEmptyBlock, Blocks, TilesMem
  <2>2. initHeap = heap
    BY <2>1 DEF initHeap
  <2> QED
    BY <1>1, <1>2, <2>2 DEF ExclusiveInv, NoEmptyBlock, LastIsFree, Blocks, IsLast
<1>3. CASE ~initialized
  <2>1. live = {} /\ heap[freeList].size = 0
    BY <1>3 DEF ExclusiveInv, ListInv
  <2>2. initHeap = Fresh
    BY <2>1 DEF initHeap
  <2>3. DOMAIN Fresh = {freeList} /\ Fresh[freeList] = Block(HeapSize - Hdr, TRUE, NULL)
    BY DEF Fresh
  <2>4. HeapSize - Hdr > 0
    BY Constants
  <2> QED
    BY <1>1, <2>1, <2>2, <2>3, <2>4 DEF Block
<1> QED
  BY <1>2, <1>3

LEMMA MallocExclusive ==
  ASSUME ExclusiveInv, NEW n \in Sizes, n # 0, pm_malloc(n)
  PROVE  ExclusiveInv'
<1> DEFINE h == initHeap
           cur == Found(initHeap, n)
<1>1. /\ ListInv' /\ n \in Nat /\ n > 0
  BY HeapAssumption, MallocKeepsList DEF ExclusiveInv
<1>2. /\ TilesMem(h)
      /\ \A a \in DOMAIN h : h[a].size > 0
      /\ ~tailTaken => \A a \in DOMAIN h : h[a].next = NULL => h[a].free
      /\ live # {} => h = heap
  BY SearchedList
<1>3. cur \in DOMAIN h /\ (h[cur].free \/ h[cur].next = NULL)
  BY <1>1, <1>2, FoundIsBlock
<1>4. cur \in Nat /\ h[cur].size \in Nat
  BY <1>2, <1>3, Constants DEF TilesMem
<1>5. ~tailTaken => \A x \in live : /\ x.ptr - Hdr \in DOMAIN h /\ ~h[x.ptr - Hdr].free
                                   /\ h[x.ptr - Hdr].size = x.size
                                   /\ x.ptr - Hdr # cur
  <2>1. SUFFICES ASSUME ~tailTaken, NEW x \in live
                 PROVE  /\ x.ptr - Hdr \in DOMAIN h /\ ~h[x.ptr - Hdr].free
                        /\ h[x.ptr - Hdr].size = x.size
                        /\ x.ptr - Hdr # cur
    OBVIOUS
  <2>2. h = heap /\ h[cur].free
    BY <1>2, <1>3, <2>1
  <2> QED
    BY <2>1, <2>2 DEF ExclusiveInv, Exclusive, Blocks
<1>6. \/ /\ heap' = [h EXCEPT ![cur].free = FALSE] /\ h[cur].size = n
         /\ tailTaken' = (tailTaken \/ h[cur].next = NULL)
         /\ live' = live \cup {[id |-> calls, ptr |-> cur + Hdr, size |-> n]}
      \/ /\ Splittable(h[cur].size, n) /\ heap' = frag(h, cur, n) /\ tailTaken' = tailTaken
         /\ live' = live \cup {[id |-> calls, ptr |-> cur + Hdr, size |-> n]}
      \/ heap' = h /\ tailTaken' = tailTaken /\ live' = live
  <2>1. cur + Hdr # NULL
    BY <1>4, HeapAssumption
  <2> QED
    BY <2>1 DEF pm_malloc, Return
<1> HIDE DEF h, cur
<1>7. CASE /\ heap' = [h EXCEPT ![cur].free = FALSE] /\ h[cur].size = n
           /\ tailTaken' = (tailTaken \/ h[cur].next = NULL)
           /\ live' = live \cup {[id |-> calls, ptr |-> cur + Hdr, size |-> n]}
  <2>1. /\ DOMAIN heap' = DOMAIN h
        /\ \A b \in DOMAIN h : /\ heap'[b].size = h[b].size /\ heap'[b].next = h[b].next
                               /\ heap'[b].free = IF b = cur THEN FALSE ELSE h[b].free
    BY <1>2, <1>3, <1>7, FlagTiles
  <2>2. NoEmptyBlock' /\ PointersTyped'
    BY <1>2, <1>4, <1>7, <2>1, Constants DEF NoEmptyBlock, Blocks, ExclusiveInv, PointersTyped
  <2>3. ASSUME ~tailTaken' PROVE Exclusive' /\ LastIsFree'
    <3>1. ~tailTaken /\ h[cur].next # NULL
      BY <1>7, <2>3
    <3>2. LastIsFree'
      BY <1>2, <2>1, <3>1 DEF LastIsFree, Blocks, IsLast
    <3>3. ASSUME NEW x \in live'
          PROVE  /\ x.ptr - Hdr \in DOMAIN heap' /\ ~heap'[x.ptr - Hdr].free
                 /\ heap'[x.ptr - Hdr].size = x.size
      <4>1. CASE x \in live
        BY <1>5, <2>1, <3>1, <4>1
      <4>2. CASE x.ptr = cur + Hdr /\ x.size = n
        <5>1. x.ptr - Hdr = cur
          BY <1>4, <4>2, Constants
        <5> QED
          BY <1>3, <1>7, <2>1, <4>2, <5>1
      <4> QED
        BY <1>7, <4>1, <4>2
    <3>4. \A x \in live : x.ptr # cur + Hdr
      BY <1>4, <1>5, <3>1, Constants
    <3>5. \A x, y \in live' : x # y => x.ptr # y.ptr
      BY <1>7, <3>1, <3>4 DEF ExclusiveInv, Exclusive
    <3> QED
      BY <3>2, <3>3, <3>5 DEF Exclusive, Blocks
  <2> QED
    BY <1>1, <2>2, <2>3 DEF ExclusiveInv
<1>8. CASE /\ Splittable(h[cur].size, n) /\ heap' = frag(h, cur, n) /\ tailTaken' = tailTaken
           /\ live' = live \cup {[id |-> calls, ptr |-> cur + Hdr, size |-> n]}
  <2> DEFINE new == cur + n + Hdr
  <2>1. /\ new \notin DOMAIN h /\ DOMAIN heap' = DOMAIN h \cup {new}
        /\ heap'[cur] = Block(n, FALSE, new)
        /\ heap'[new] = Block(h[cur].size - n - Hdr, TRUE, h[cur].next)
        /\ \A b \in DOMAIN h : b # cur => heap'[b] = h[b]
    <3>1. TilesMem(h) /\ cur \in DOMAIN h /\ n \in Nat /\ Splittable(h[cur].size, n)
      BY <1>1, <1>2, <1>3, <1>8
    <3>2. /\ new \notin DOMAIN h /\ DOMAIN frag(h, cur, n) = DOMAIN h \cup {new}
          /\ frag(h, cur, n)[cur] = Block(n, FALSE, new)
          /\ frag(h, cur, n)[new] = Block(h[cur].size - n - Hdr, TRUE, h[cur].next)
          /\ \A b \in DOMAIN h : b # cur => frag(h, cur, n)[b] = h[b]
      <4>1. new \notin DOMAIN h
        BY <3>1, FragTiles
      <4> QED
        BY <3>1, <4>1 DEF frag
    <3>3. heap' = frag(h, cur, n)
      BY <1>8
    <3> HIDE DEF new
    <3> QED
      BY <3>2, <3>3, Zenon
  <2>2. new # NULL /\ new # cur /\ h[cur].size - n - Hdr > 0
    BY <1>1, <1>3, <1>4, <1>8, <2>1, HeapAssumption DEF Splittable
  <2> HIDE DEF new
  <2>3. NoEmptyBlock' /\ PointersTyped'
    BY <1>1, <1>2, <1>4, <1>8, <2>1, <2>2, Constants
    DEF NoEmptyBlock, Blocks, Block, ExclusiveInv, PointersTyped
  <2>4. ASSUME ~tailTaken' PROVE Exclusive' /\ LastIsFree'
    <3>1. ~tailTaken
      BY <1>8, <2>4
    <3>2. LastIsFree'
      BY <1>2, <2>1, <2>2, <3>1 DEF LastIsFree, Blocks, IsLast, Block
    <3>3. ASSUME NEW x \in live'
          PROVE  /\ x.ptr - Hdr \in DOMAIN heap' /\ ~heap'[x.ptr - Hdr].free
                 /\ heap'[x.ptr - Hdr].size = x.size
      <4>1. CASE x \in live
        BY <1>5, <2>1, <3>1, <4>1
      <4>2. CASE x.ptr = cur + Hdr /\ x.size = n
        <5>1. x.ptr - Hdr = cur
          BY <1>4, <4>2, Constants
        <5> QED
          BY <1>3, <2>1, <4>2, <5>1 DEF Block
      <4> QED
        BY <1>8, <4>1, <4>2
    <3>4. \A x \in live : x.ptr # cur + Hdr
      BY <1>4, <1>5, <3>1, Constants
    <3>5. \A x, y \in live' : x # y => x.ptr # y.ptr
      BY <1>8, <3>1, <3>4 DEF ExclusiveInv, Exclusive
    <3> QED
      BY <3>2, <3>3, <3>5 DEF Exclusive, Blocks
  <2> QED
    BY <1>1, <2>3, <2>4 DEF ExclusiveInv
<1>9. CASE heap' = h /\ tailTaken' = tailTaken /\ live' = live
  <2>1. NoEmptyBlock' /\ PointersTyped'
    BY <1>2, <1>9 DEF NoEmptyBlock, Blocks, ExclusiveInv, PointersTyped
  <2>2. ASSUME ~tailTaken' PROVE Exclusive' /\ LastIsFree'
    BY <1>2, <1>5, <1>9, <2>2 DEF ExclusiveInv, Exclusive, LastIsFree, Blocks, IsLast
  <2> QED
    BY <1>1, <2>1, <2>2 DEF ExclusiveInv
<1> QED
  BY <1>6, <1>7, <1>8, <1>9

LEMMA FreeExclusive ==
  ASSUME ExclusiveInv, NEW al \in live, pm_free(al)
  PROVE  ExclusiveInv'
<1> DEFINE h == Marked(heap, al.ptr - Hdr)
           A == Absorbed(h)
<1>1. /\ initialized /\ TilesMem(heap) /\ initialized' = initialized /\ tailTaken' = tailTaken
      /\ heap' = mergefrag(h) /\ live' = live \ {al}
  BY DEF ExclusiveInv, ListInv, pm_free
<1>2. /\ TilesMem(h) /\ DOMAIN h = DOMAIN heap
      /\ \A b \in DOMAIN h : /\ h[b].size = heap[b].size /\ h[b].next = heap[b].next
                             /\ h[b].free = IF b = al.ptr - Hdr THEN TRUE ELSE heap[b].free
  <2>1. TilesMem(heap)
    BY <1>1
  <2>2. /\ TilesMem(h) /\ DOMAIN h = DOMAIN heap
        /\ \A b \in DOMAIN heap : /\ h[b].size = heap[b].size /\ h[b].next = heap[b].next
                                  /\ h[b].free = IF b = al.ptr - Hdr THEN TRUE ELSE heap[b].free
    <3>1. \A a : /\ TilesMem(Marked(heap, a)) /\ DOMAIN Marked(heap, a) = DOMAIN heap
                 /\ \A b \in DOMAIN heap :
                      /\ Marked(heap, a)[b].size = heap[b].size
                      /\ Marked(heap, a)[b].next = heap[b].next
                      /\ Marked(heap, a)[b].free = IF b = a THEN TRUE ELSE heap[b].free
      BY <2>1, MarkedTiles
    <3> QED
      BY <3>1
  <2> HIDE DEF h
  <2> QED
    BY <2>2
<1> HIDE DEF h
<1>3. /\ DOMAIN heap' = DOMAIN h \ A
      /\ \A a \in DOMAIN h \ A :
           /\ heap'[a].free = h[a].free
           /\ h[a].next \notin A => heap'[a] = h[a]
           /\ h[a].next \in A => heap'[a].size = h[a].size + h[h[a].next].size + Hdr
  BY <1>1, <1>2, MergeTiles
<1>4. /\ \A b \in A : b \in DOMAIN h /\ h[b].free
      /\ \A a \in DOMAIN h : h[a].next \in A => h[a].free
  BY <1>2, AbsorbedBlocks
<1> HIDE DEF A
<1>5. ListInv'
  BY FreeKeepsList DEF ExclusiveInv
<1>6. \A a \in DOMAIN h : h[a].size \in Nat /\ h[a].size > 0
  BY <1>1, <1>2 DEF ExclusiveInv, NoEmptyBlock, Blocks, TilesMem
<1>7. NoEmptyBlock'
  <2>1. SUFFICES ASSUME NEW a \in DOMAIN h \ A PROVE heap'[a].size > 0
    BY <1>3 DEF NoEmptyBlock, Blocks
  <2>2. CASE h[a].next \in A
    <3>1. h[h[a].next].size \in Nat /\ h[a].size \in Nat /\ h[a].size > 0
      BY <1>4, <1>6, <2>2
    <3> QED
      BY <1>3, <2>2, <3>1, Constants
  <2>3. CASE h[a].next \notin A
    BY <1>3, <1>6, <2>3
  <2> QED
    BY <2>2, <2>3
<1>8. PointersTyped'
  BY <1>1 DEF ExclusiveInv, PointersTyped
<1>9. ASSUME ~tailTaken PROVE Exclusive' /\ LastIsFree'
  <2>1. ASSUME NEW x \in live'
        PROVE  /\ x.ptr - Hdr \in DOMAIN heap' /\ ~heap'[x.ptr - Hdr].free
               /\ heap'[x.ptr - Hdr].size = x.size
    <3> DEFINE b == x.ptr - Hdr
    <3>1. x \in live /\ x # al
      BY <1>1, <2>1
    <3>2. b \in DOMAIN heap /\ ~heap[b].free /\ heap[b].size = x.size /\ x.ptr # al.ptr
      BY <1>9, <3>1 DEF ExclusiveInv, Exclusive, Blocks
    <3>3. b # al.ptr - Hdr
      BY <3>1, <3>2, Constants DEF ExclusiveInv, PointersTyped
    <3> HIDE DEF b
    <3>4. b \in DOMAIN h /\ ~h[b].free /\ h[b].size = x.size
      BY <1>2, <3>2, <3>3
    <3>5. b \notin A /\ h[b].next \notin A
      BY <1>4, <3>4
    <3>6. b \in DOMAIN heap' /\ heap'[b] = h[b]
      BY <1>3, <3>4, <3>5
    <3> QED
      BY <3>4, <3>6 DEF b
  <2>2. \A x, y \in live' : x # y => x.ptr # y.ptr
    BY <1>1, <1>9 DEF ExclusiveInv, Exclusive
  <2>3. LastIsFree'
    <3>1. SUFFICES ASSUME NEW a \in DOMAIN h \ A, heap'[a].next = NULL PROVE heap'[a].free
      BY <1>3 DEF LastIsFree, Blocks, IsLast
    <3>2. CASE h[a].next \in A
      BY <1>3, <1>4, <3>2
    <3>3. CASE h[a].next \notin A
      <4>1. h[a].next = NULL /\ heap'[a].free = h[a].free
        BY <1>3, <3>1, <3>3
      <4>2. heap[a].next = NULL
        BY <1>2, <4>1
      <4>3. heap[a].free
        BY <1>1, <1>2, <1>9, <4>2 DEF ExclusiveInv, LastIsFree, Blocks, IsLast
      <4> QED
        BY <1>2, <4>1, <4>3
    <3> QED
      BY <3>2, <3>3
  <2> QED
    BY <2>1, <2>2, <2>3 DEF Exclusive, Blocks
<1> QED
  BY <1>1, <1>5, <1>7, <1>8, <1>9 DEF ExclusiveInv

(* The same, for as long as nobody has asked for 0 units.                   *)
RegularInv == ListInv /\ (~zeroAsked => ExclusiveInv)

LEMMA InitRegularInv == Init => RegularInv
  BY InitListInv
  DEF Init, RegularInv, ExclusiveInv, NoEmptyBlock, PointersTyped, Exclusive, LastIsFree

LEMMA NextRegularInv == RegularInv /\ [Next]_vars => RegularInv'
<1> SUFFICES ASSUME RegularInv, [Next]_vars PROVE RegularInv'
  OBVIOUS
<1>1. ListInv'
  BY NextListInv DEF RegularInv
<1>2. ASSUME NEW n \in Sizes, pm_malloc(n), ~zeroAsked' PROVE ExclusiveInv'
  <2>1. ~zeroAsked /\ n # 0
    BY <1>2 DEF pm_malloc
  <2> QED
    BY <1>2, <2>1, MallocExclusive DEF RegularInv
<1>3. ASSUME NEW al \in live, pm_free(al), ~zeroAsked' PROVE ExclusiveInv'
  <2>1. ~zeroAsked
    BY <1>3 DEF pm_free
  <2> QED
    BY <1>3, <2>1, FreeExclusive DEF RegularInv
<1>4. ASSUME UNCHANGED vars, ~zeroAsked' PROVE ExclusiveInv'
  BY <1>1, <1>4 DEF RegularInv, vars, ExclusiveInv, NoEmptyBlock, PointersTyped, Exclusive,
                    LastIsFree, Blocks, IsLast
<1> QED
  BY <1>1, <1>2, <1>3, <1>4 DEF Next, Ended, RegularInv

(* Allocations are exclusive until a request happens to fit the last block  *)
(* exactly, or somebody asks for 0 units.                                   *)
THEOREM ExclusiveWhileTailFree == Spec => []ExclusiveUntilTailTaken
<1>1. RegularInv => ExclusiveUntilTailTaken
  BY DEF RegularInv, ExclusiveInv, ExclusiveUntilTailTaken
<1> QED
  BY InitRegularInv, NextRegularInv, <1>1, PTL DEF Spec

(* What that means for the client: its allocations lie in mem, and no unit  *)
(* belongs to two of them.                                                  *)
Apart == ~tailTaken /\ ~zeroAsked =>
  /\ \A x \in live : Units(x) \subseteq Addresses
  /\ \A x, y \in live : x # y => Units(x) \cap Units(y) = {}

LEMMA ExclusiveIsApart == RegularInv => Apart
<1> SUFFICES ASSUME RegularInv, ~tailTaken, ~zeroAsked
             PROVE  /\ \A x \in live : Units(x) \subseteq Addresses
                    /\ \A x, y \in live : x # y => Units(x) \cap Units(y) = {}
  BY DEF Apart
<1>1. live # {} => TilesMem(heap)
  BY DEF RegularInv, ListInv
<1>2. Exclusive /\ PointersTyped
  BY DEF RegularInv, ExclusiveInv
<1>3. ASSUME NEW x \in live
      PROVE  /\ x.ptr - Hdr \in DOMAIN heap /\ x.ptr \in Nat /\ x.size \in Nat
             /\ x.ptr - Hdr \in Nat /\ EndIn(heap, x.ptr - Hdr) = x.ptr + x.size
             /\ x.ptr + x.size <= HeapSize
  <2>1. TilesMem(heap) /\ x.ptr \in Nat /\ x.ptr - Hdr \in DOMAIN heap
        /\ heap[x.ptr - Hdr].size = x.size
    BY <1>1, <1>2, <1>3 DEF Exclusive, PointersTyped, Blocks
  <2>2. x.size \in Nat /\ x.ptr - Hdr \in Nat
    BY <2>1, Constants DEF TilesMem
  <2>3. EndIn(heap, x.ptr - Hdr) = x.ptr + x.size
    BY <2>1, <2>2, Constants DEF EndIn
  <2>4. x.ptr + x.size <= HeapSize
    <3>1. CASE heap[x.ptr - Hdr].next = NULL
      BY <2>1, <2>2, <2>3, <3>1, Constants DEF TilesMem
    <3>2. CASE heap[x.ptr - Hdr].next # NULL
      <4>1. x.ptr + x.size \in Addresses
        BY <2>1, <2>3, <3>2 DEF TilesMem
      <4> QED
        BY <4>1, Constants DEF Addresses
    <3> QED
      BY <3>1, <3>2
  <2> QED
    BY <2>1, <2>2, <2>3, <2>4
<1>4. ASSUME NEW x \in live PROVE Units(x) \subseteq Addresses
  BY <1>3, Constants DEF Units, Addresses
<1>5. ASSUME NEW x \in live, NEW y \in live, x.ptr < y.ptr
      PROVE  Units(x) \cap Units(y) = {}
  <2>1. x.ptr - Hdr < y.ptr - Hdr
    BY <1>3, <1>5, Constants
  <2>2. x.ptr + x.size <= y.ptr - Hdr
    BY <1>1, <1>3, <2>1 DEF TilesMem
  <2> QED
    BY <1>3, <2>2, Constants DEF Units
<1>6. ASSUME NEW x \in live, NEW y \in live, x # y PROVE x.ptr < y.ptr \/ y.ptr < x.ptr
  <2>1. x.ptr # y.ptr
    BY <1>2, <1>6 DEF Exclusive
  <2> QED
    BY <1>3, <2>1
<1> QED
  BY <1>4, <1>5, <1>6

(* Until the last block is taken exactly or 0 units are asked for, no unit  *)
(* of mem is given out twice, and none outside mem.                         *)
THEOREM AllocationsApart == Spec => []Apart
  BY InitRegularInv, NextRegularInv, ExclusiveIsApart, PTL DEF Spec

(* init runs a second time only if somebody has asked for 0 units, even     *)
(* after the last block has been given out twice.                           *)
THEOREM NoReinitWithoutZero == Spec => []ReinitOnlyAfterZero
<1>1. RegularInv => ReinitOnlyAfterZero
  <2>1. TilesMem(heap) => freeList \in Blocks
    BY DEF TilesMem, Blocks
  <2> QED
    BY <2>1 DEF RegularInv, ListInv, ExclusiveInv, NoEmptyBlock, ReinitOnlyAfterZero
<1> QED
  BY InitRegularInv, NextRegularInv, <1>1, PTL DEF Spec
=============================================================================
