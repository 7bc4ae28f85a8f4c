----------------------------- MODULE VmSimulator -----------------------------
(***************************************************************************)
(* The address-translation simulator of PracticumV2: main's loop over the  *)
(* input file (main.c:246), translateAddress, readFromStore and the two    *)
(* TLB replacement strategies, over the tables createVMtable makes.        *)
(*                                                                         *)
(* A page's 256 bytes are abstracted to the page's number: dram[f] = p     *)
(* says that frame f holds the bytes of page p.  Offsets within a page are *)
(* therefore left out; getPageNumber yields a member of Pages whatever     *)
(* line atoi is given.                                                     *)
(***************************************************************************)
EXTENDS Integers, FiniteSets

CONSTANTS MaxPage,      \* pages are 0..MaxPage (PAGE_TABLE_SIZE - 1 = 255)
          TlbSize,      \* TLB_SIZE
          FrameCount,   \* TOTAL_FRAME_COUNT
          MaxAddresses, \* bound: lines of the input file
          Zeroed        \* the content of a frame or buffer never loaded

Pages  == 0 .. MaxPage
Slots  == 0 .. TlbSize - 1
Frames == 0 .. FrameCount - 1

ASSUME SimulatorAssumption ==
  /\ MaxPage \in Nat
  /\ TlbSize \in Nat \ {0}
  /\ FrameCount \in Nat /\ MaxPage < FrameCount
  /\ MaxAddresses \in Nat
  /\ Zeroed \notin Pages

VARIABLES
  algo_choice,                              \* asked once: "FIFO" or "LRU"
  tlbPage, tlbFrame, tlbAge, nextTLBentry,  \* tlbTable
  ptPage, ptFrame, nextPage,                \* pageTable
  dram, nextFrame, fileReadBuffer,          \* physical memory, file buffer
  hits, misses, faults, translations,       \* the statistics
  last,                                     \* last translation: page, value
  lastUse,                                  \* history: when a page was last translated
  readFailed                                \* history: a read of the store has failed

tlb    == <<tlbPage, tlbFrame, tlbAge, nextTLBentry>>
memory == <<ptPage, ptFrame, nextPage, dram, nextFrame, fileReadBuffer>>
stats  == <<hits, misses, faults, translations>>
vars   == <<algo_choice, tlb, memory, stats, last, lastUse, readFailed>>

-----------------------------------------------------------------------------
(* createVMtable clears the page numbers only; the frame numbers and ages   *)
(* are whatever the allocator returned, which is fresh, zero-filled mmap    *)
(* memory.  dramAllocate clears the frames.                                 *)
Init ==
  /\ algo_choice \in {"FIFO", "LRU"}
  /\ tlbPage = [i \in Slots |-> 0]
  /\ tlbFrame = [i \in Slots |-> 0]
  /\ tlbAge = [i \in Slots |-> 0]
  /\ nextTLBentry = 0
  /\ ptPage = [k \in Frames |-> 0]
  /\ ptFrame = [k \in Frames |-> 0]
  /\ nextPage = 0
  /\ dram = [f \in Frames |-> Zeroed]
  /\ nextFrame = 0
  /\ fileReadBuffer = Zeroed
  /\ hits = 0 /\ misses = 0 /\ faults = 0 /\ translations = 0
  /\ last = [page |-> 0, value |-> Zeroed]
  /\ lastUse = [p \in Pages |-> 0]
  /\ readFailed = FALSE

(* The first index of S, where a C loop over ascending indices breaks.      *)
First(S) == CHOOSE i \in S : \A j \in S : i <= j

(* The scan of all TLB_SIZE slots, whether or not an entry was put there.   *)
TlbMatches(p) == {i \in Slots : tlbPage[i] = p}

(* The walk of the page table up to nextPage.                               *)
\* Mutant: the walk stops one entry early.
WalkShort(p) == {k \in Frames : k < nextPage - 1 /\ ptPage[k] = p}
TableMatches(p) == {k \in Frames : k < nextPage /\ ptPage[k] = p}

-----------------------------------------------------------------------------
(* tlbFIFOinsert.  Both arrays are treated alike: f is tlbPage or tlbFrame  *)
(* and v the page or frame to insert.                                       *)

(* for (i = from; i < to; i++) f[i] = f[i + 1];                             *)
ShiftedDown(f, from, to) ==
  [i \in Slots |-> IF from <= i /\ i < to THEN f[i + 1] ELSE f[i]]

FifoMatches(p) == {i \in TlbMatches(p) : i < nextTLBentry}

FifoMiss(f, v) ==
  IF nextTLBentry < TlbSize
  THEN [f EXCEPT ![nextTLBentry] = v]
  ELSE ShiftedDown([f EXCEPT ![TlbSize - 1] = v], 0, TlbSize - 1)

FifoHit(f, at, v) ==
  [ShiftedDown(f, at, nextTLBentry - 1)
     EXCEPT ![IF nextTLBentry < TlbSize THEN nextTLBentry ELSE TlbSize - 1] = v]

FifoArray(f, p, v) ==
  IF FifoMatches(p) = {} THEN FifoMiss(f, v)
                         ELSE FifoHit(f, First(FifoMatches(p)), v)

\* Mutant: the two arrays are not moved alike.
FIFOinsertPageOnly(p, frame) ==
  /\ tlbPage' = FifoArray(tlbPage, p, p)
  /\ tlbFrame' = FifoMiss(tlbFrame, frame)
  /\ nextTLBentry' = IF nextTLBentry < TlbSize THEN nextTLBentry + 1 ELSE nextTLBentry
  /\ UNCHANGED tlbAge

tlbFIFOinsert(p, frame) ==
  /\ tlbPage' = FifoArray(tlbPage, p, p)
  /\ tlbFrame' = FifoArray(tlbFrame, p, frame)
  /\ nextTLBentry' = IF nextTLBentry < TlbSize THEN nextTLBentry + 1 ELSE nextTLBentry
  /\ UNCHANGED tlbAge

-----------------------------------------------------------------------------
(* tlbLRUinsert.  A slot whose page number is 0 counts as free.             *)

FreeSlots(p) == {i \in Slots : tlbPage[i] = 0 /\ p # 0}

(* The seek loop: every other entry ages, the first match is reset.         *)
Aged(p) ==
  [i \in Slots |->
     IF tlbPage[i] # p /\ tlbPage[i] # 0 THEN tlbAge[i] + 1
     ELSE IF TlbMatches(p) # {} /\ i = First(TlbMatches(p)) THEN 0
     ELSE tlbAge[i]]

\* Mutant: no comparison of ages.
FirstSlot(age) == 0
getOldestEntry(age) == First({i \in Slots : \A j \in Slots : age[j] <= age[i]})

(* The slot a page that is not in the TLB goes to.                          *)
ReplaceIndex(p) == IF FreeSlots(p) # {} THEN First(FreeSlots(p))
                                        ELSE getOldestEntry(Aged(p))

\* Mutant: the frame number is not replaced.
LRUinsertPageOnly(p, frame) ==
  /\ tlbAge' = Aged(p)
  /\ tlbPage' = IF TlbMatches(p) # {} THEN tlbPage
                ELSE [tlbPage EXCEPT ![ReplaceIndex(p)] = p]
  /\ UNCHANGED <<tlbFrame, nextTLBentry>>

tlbLRUinsert(p, frame) ==
  /\ IF TlbMatches(p) # {}
     THEN /\ tlbAge' = Aged(p)
          /\ UNCHANGED <<tlbPage, tlbFrame>>
     ELSE /\ tlbPage' = [tlbPage EXCEPT ![ReplaceIndex(p)] = p]
          /\ tlbFrame' = [tlbFrame EXCEPT ![ReplaceIndex(p)] = frame]
          /\ tlbAge' = [Aged(p) EXCEPT ![ReplaceIndex(p)] = 0]
  /\ UNCHANGED nextTLBentry

tlbInsert(p, frame) ==
  IF algo_choice = "FIFO" THEN tlbFIFOinsert(p, frame) ELSE tlbLRUinsert(p, frame)

-----------------------------------------------------------------------------
(* readFromStore: a failed fseek or fread is reported and the stale buffer  *)
(* is copied into the frame all the same.                                   *)
readFromStore(p, ok) ==
  /\ fileReadBuffer' = IF ok THEN p ELSE fileReadBuffer
  /\ dram' = [dram EXCEPT ![nextFrame] = fileReadBuffer']
  /\ ptPage' = [ptPage EXCEPT ![nextPage] = p]
  /\ ptFrame' = [ptFrame EXCEPT ![nextPage] = nextFrame]
  /\ nextFrame' = nextFrame + 1
  /\ nextPage' = nextPage + 1

(* The end of translateAddress, with the frame it arrived at; memory may    *)
(* have changed before it.  lastUse is history, not in the code.            *)
Conclude(p, frame) ==
  /\ tlbInsert(p, frame)
  /\ last' = [page |-> p, value |-> dram'[frame]]
  /\ translations' = translations + 1
  /\ lastUse' = [lastUse EXCEPT ![p] = translations + 1]
  /\ UNCHANGED algo_choice

(* translateAddress, by where the page is found.                            *)
TlbHit(p) ==
  /\ translations < MaxAddresses
  /\ TlbMatches(p) # {}
  /\ hits' = hits + 1
  /\ UNCHANGED <<memory, misses, faults, readFailed>>
  /\ Conclude(p, tlbFrame[First(TlbMatches(p))])

TableHit(p) ==
  /\ translations < MaxAddresses
  /\ TlbMatches(p) = {} /\ TableMatches(p) # {}
  /\ misses' = misses + 1
  /\ UNCHANGED <<memory, hits, faults, readFailed>>
  /\ Conclude(p, ptFrame[First(TableMatches(p))])

PageFault(p, ok) ==
  /\ translations < MaxAddresses
  /\ TlbMatches(p) = {} /\ TableMatches(p) = {}
  /\ misses' = misses + 1
  /\ faults' = faults + 1
  /\ UNCHANGED hits
  /\ readFromStore(p, ok)
  /\ readFailed' = (readFailed \/ ~ok)
  /\ Conclude(p, nextFrame' - 1)

(* fgets returns NULL: main prints the statistics and ends.                 *)
EndOfFile == translations = MaxAddresses /\ UNCHANGED vars

Next == \/ \E p \in Pages : \/ TlbHit(p)
                            \/ TableHit(p)
                            \/ \E ok \in BOOLEAN : PageFault(p, ok)
        \/ EndOfFile

Spec == Init /\ [][Next]_vars

-----------------------------------------------------------------------------
(* The tables, the memory and the statistics have their types.              *)
TypeOK ==
  /\ algo_choice \in {"FIFO", "LRU"} /\ readFailed \in BOOLEAN
  /\ tlbPage \in [Slots -> Pages] /\ tlbFrame \in [Slots -> Frames]
  /\ tlbAge \in [Slots -> Nat] /\ nextTLBentry \in 0 .. TlbSize
  /\ ptPage \in [Frames -> Pages] /\ ptFrame \in [Frames -> Frames]
  /\ nextPage \in 0 .. FrameCount /\ nextFrame \in 0 .. FrameCount
  /\ dram \in [Frames -> Pages \cup {Zeroed}]
  /\ fileReadBuffer \in Pages \cup {Zeroed}
  /\ hits \in Nat /\ misses \in Nat /\ faults \in Nat
  /\ translations \in 0 .. MaxAddresses
  /\ last \in [page : Pages, value : Pages \cup {Zeroed}]
  /\ lastUse \in [Pages -> Nat]

(* Page p is in the page table, at frame f.                                 *)
Maps(p, f) == \E k \in TableMatches(p) : ptFrame[k] = f

(* The TLB never disagrees with the page table, however entries were        *)
(* shifted, duplicated, overwritten or aged out.  A slot with page number 0 *)
(* is excepted: it may be an empty one.                                     *)
TlbCoherent == \A i \in Slots : tlbPage[i] # 0 => Maps(tlbPage[i], tlbFrame[i])

(* No page is loaded twice and each page has a frame of its own.            *)
LoadedOnce == \A j, k \in Frames :
  j < nextPage /\ k < nextPage /\ j # k =>
    ptPage[j] # ptPage[k] /\ ptFrame[j] # ptFrame[k]

(* There is no replacement of frames and no bounds check in readFromStore:  *)
(* nothing but the fact that a page is never loaded twice keeps nextFrame   *)
(* inside dram.  While some page is not loaded there is a frame left.       *)
FramesSuffice == (\E p \in Pages : TableMatches(p) = {}) => nextFrame < FrameCount

(* As long as the backing store can be read, the byte translateAddress      *)
(* returns for an address outside page 0 comes from that address's page.    *)
ReadsOwnPage == ~readFailed /\ last.page # 0 => last.value = last.page

(* translateAddress: "This function takes the virtual address and           *)
(* translates into physical addressing, and retrieves the translatedValue   *)
(* stored".  For every page, page 0 included, the value comes from it.      *)
RetrievesStoredValue ==
  ~readFailed /\ translations > 0 => last.value = last.page

Resident == {tlbPage[i] : i \in Slots} \ {0}

(* LRU: when a page loses its slot, every page that keeps one was used more *)
(* recently.  The ages are per slot and reset, incremented and compared in  *)
(* three places.                                                            *)
EvictsLeastRecent ==
  [][algo_choice = "LRU" =>
       \A out \in Resident \ Resident', kept \in Resident \cap Resident' :
         lastUse[out] < lastUse[kept]]_vars
=============================================================================
