------------------------- MODULE DeviceServiceProofs -------------------------
(***************************************************************************)
(* The server of PracticumIIV3 for any clients, messages, buffer and       *)
(* number of descriptors: its types, and, as long as every handler starts  *)
(* in time, who owns which descriptor and whose messages are answered.     *)
(*                                                                         *)
(* The argument follows the connection main has accepted last: from accept *)
(* to the end of its handler the number in main's client_sock stands for   *)
(* it, which is where the handler takes its own client_sock from.          *)
(***************************************************************************)
EXTENDS DeviceService, SequenceTheorems, WellFoundedInduction, TLAPS

(* Places behind the first strtok, where there is a message, and those from *)
(* the receipt of a message on.                                             *)
Behind   == {"words", "GET", "PUT", "send", "size", "answer", "farewell"}
Handling == Behind \cup {"parse"}
Fresh    == {"check", "devices", "spawn"}

(* What the types rest on.                                                  *)
Understood == \A t \in Threads : pc[t] \in Behind => message[t] # NULL
Sending    == \A c \in Clients : pc[c] = "send" => Len(held[c]) = 3

TInv == TypeOK /\ Understood /\ Sending

(* A connection waits for accept once, and has no handler before.           *)
Arrivals ==
  /\ \A i \in DOMAIN backlog : /\ pc[backlog[i]] = "none" /\ phase[backlog[i]] # "idle"
                               /\ backlog[i] # current
  /\ \A i, j \in DOMAIN backlog : backlog[i] = backlog[j] => i = j
  /\ \A c \in Clients : phase[c] = "idle" => pc[c] = "none" /\ current # c

(* Main is with the client it has accepted last, and no other connection    *)
(* gets the number it holds.                                                *)
MainServes ==
  /\ pc[Main] \notin {"accept", "accepting"} => current \in Clients
  /\ pc[Main] \in Fresh => pc[current] = "none"
  /\ current \in Clients =>
       sock[Main] \in Numbers /\ (fd[sock[Main]] \in Clients => fd[sock[Main]] = current)
  /\ conn[Main] # NULL => pc[Main] \in {"recv", "read", "size"} /\ conn[Main] = current

(* What a client has sent is its own, and what main handles came from the   *)
(* client it is with, unless that has left and main's buffer is an old one. *)
Origins ==
  /\ \A c \in Clients : \A i \in DOMAIN stream[c] : stream[c][i] # NULL => stream[c][i].from = c
  /\ pc[Main] \in Handling =>
       \/ message[Main] = NULL
       \/ message[Main].from = current
       \/ phase[current] = "left"

(* As long as no handler has started late: main's number stands for the     *)
(* last connection until the handler of that has closed it,                 *)
Connected ==
  current \in Clients /\ (pc[Main] \in Fresh \/ pc[current] \notin {"none", "ended"})
    => fd[sock[Main]] = current

(* a handler has to do with its own client only,                            *)
HandlerServes == \A c \in Clients :
  /\ Active(c) => sock[c] \in Numbers /\ fd[sock[c]] = c
  /\ conn[c] \in {NULL, c}
  /\ message[c] # NULL => message[c].from = c

(* and every file is open for one thread, or was left open.                 *)
FilesOwned ==
  /\ \A t \in Threads : \A n \in Opens(t) : fd[n] = "file" /\ n \notin leaked
  /\ \A t, u \in Threads : t # u => Opens(t) \cap Opens(u) = {}
  /\ \A n \in Numbers : fd[n] = "file" => n \in leaked \/ \E t \in Threads : n \in Opens(t)
  /\ \A n \in leaked : fd[n] = "file"

InTime == ~late => Connected /\ HandlerServes /\ FilesOwned

IInv == TInv /\ Arrivals /\ MainServes /\ Origins /\ InTime

-----------------------------------------------------------------------------
LEMMA Distinct ==
  /\ Main \notin Clients /\ NULL \notin Clients /\ NULL # Main
  /\ "file" \notin Clients /\ "reserved" \notin Clients /\ NULL # "file" /\ NULL # "reserved"
  /\ Threads = Clients \cup {Main}
  /\ MaxFd \in Nat \ {0} /\ Buffer \in Nat \ {0} /\ Numbers = 1 .. MaxFd
  /\ Numbers \subseteq Nat /\ 0 \notin Numbers /\ 0 .. MaxFd = Numbers \cup {0}
  BY DeviceServiceAssumption DEF Threads, Numbers

LEMMA LeastNumber ==
  ASSUME NEW S \in SUBSET Nat, S # {}
  PROVE  \E i \in S : \A j \in S : i <= j
<1> DEFINE R == OpToRel(<, Nat)
<1>1. IsWellFoundedOn(R, Nat)
  BY NatLessThanWellFounded
<1>2. PICK i \in S : \A j \in S : ~ (<<j, i>> \in R)
  <2> HIDE DEF R
  <2> QED
    BY <1>1, WFMin
<1>3. ASSUME NEW j \in S PROVE i <= j
  <2>1. i \in Nat /\ j \in Nat
    OBVIOUS
  <2>2. ~(j < i)
    BY <1>2, <2>1 DEF OpToRel
  <2> QED
    BY <2>1, <2>2
<1> QED
  BY <1>3

LEMMA OneElement ==
  ASSUME NEW S, NEW e \in S
  PROVE  <<e>> \in Seq(S)
  OBVIOUS

(* The kernel gives out the lowest free number.                             *)
LEMMA LowestIsFree ==
  ASSUME Free # {}
  PROVE  Lowest \in Numbers /\ fd[Lowest] = NULL
<1>1. Free \in SUBSET Nat
  BY Distinct DEF Free
<1>2. \E i \in Free : \A j \in Free : i <= j
  BY <1>1, LeastNumber
<1>3. Lowest \in Free
  BY <1>2 DEF Lowest
<1> QED
  BY <1>3 DEF Free

(* What a thread holds are numbers.                                         *)
LEMMA OpensAreNumbers ==
  ASSUME TypeOK, NEW t \in Threads
  PROVE  /\ Opens(t) \subseteq Numbers
         /\ \A i \in DOMAIN held[t] : held[t][i] # Failed => held[t][i] \in Opens(t)
<1>1. held[t] \in Seq(0 .. MaxFd)
  BY DEF TypeOK
<1>2. \A i \in DOMAIN held[t] : held[t][i] \in 0 .. MaxFd
  <2>1. DOMAIN held[t] = 1 .. Len(held[t])
    BY <1>1
  <2> QED
    BY <1>1, <2>1, ElementOfSeq
<1> QED
  BY <1>2, Distinct DEF Opens, Failed

-----------------------------------------------------------------------------
(* Types.                                                                   *)
LEMMA InitTInv == Init => TInv
<1> SUFFICES ASSUME Init PROVE TInv
  OBVIOUS
<1>1. pc \in [Threads -> Places] /\ \A t \in Threads : pc[t] \in {"accept", "none"}
  BY DEF Init, Places
<1>2. /\ held \in [Threads -> Seq(0 .. MaxFd)] /\ stream \in [Clients -> Seq(Piece)]
      /\ backlog \in Seq(Clients)
  BY DEF Init
<1>3. /\ message \in [Threads -> Piece] /\ conn \in [Threads -> Clients \cup {NULL}]
      /\ got \in [Clients -> SUBSET (Clients \cup {NULL})]
  BY DEF Init, Piece
<1>4. filled \in [Clients -> 0 .. Buffer] /\ sock \in [Threads -> 0 .. MaxFd]
  BY Distinct DEF Init
<1>5. TypeOK
  BY <1>1, <1>2, <1>3, <1>4 DEF Init, TypeOK
<1>6. Understood /\ Sending
  BY <1>1, Distinct DEF Understood, Sending, Behind
<1> QED
  BY <1>5, <1>6 DEF TInv

(* What a step of thread t has to show for its place, message and files.    *)
TypedStep(t) ==
  /\ pc' \in [Threads -> Places] /\ message' \in [Threads -> Piece]
  /\ held' \in [Threads -> Seq(0 .. MaxFd)]
  /\ fd' \in [Numbers -> Clients \cup {NULL, "file", "reserved"}] /\ leaked' \subseteq Numbers
  /\ \A u \in Threads \ {t} : pc'[u] = pc[u] /\ message'[u] = message[u] /\ held'[u] = held[u]
  /\ pc'[t] \in Behind => message'[t] # NULL
  /\ pc'[t] = "send" /\ t # Main => Len(held'[t]) = 3

LEMMA StepUnderstood ==
  ASSUME TInv, NEW t \in Threads, TypedStep(t)
  PROVE  Understood' /\ Sending'
<1>1. Understood'
  BY DEF TInv, Understood, TypedStep
<1>2. Sending'
  BY Distinct DEF TInv, Sending, TypedStep
<1> QED
  BY <1>1, <1>2

(* Steps that leave places, messages and files alone.                       *)
LEMMA StillUnderstood ==
  ASSUME TInv, UNCHANGED <<pc, message, held>>
  PROVE  Understood' /\ Sending'
  BY DEF TInv, Understood, Sending

-----------------------------------------------------------------------------
(* What threads do with descriptors, whichever action it is.                *)
Opened(t) == \E n \in Numbers :
  /\ fd[n] = NULL /\ fd' = [fd EXCEPT ![n] = "file"]
  /\ held' = [held EXCEPT ![t] = Append(@, n)] /\ UNCHANGED leaked
OpenFailed(t) == held' = [held EXCEPT ![t] = Append(@, Failed)] /\ UNCHANGED <<fd, leaked>>
AllClosed(t)  == Close(Opens(t)) /\ held' = [held EXCEPT ![t] = <<>>] /\ UNCHANGED leaked
HandlerEnds(t) ==
  /\ t # Main /\ pc' = [pc EXCEPT ![t] = "ended"]
  /\ \E closed \in SUBSET Opens(t) :
       /\ Close(closed \cup {sock[t]}) /\ held' = [held EXCEPT ![t] = <<>>]
       /\ leaked' = leaked \cup (Opens(t) \ closed)

MovesFiles(t) ==
  UNCHANGED files \/ Opened(t) \/ OpenFailed(t) \/ AllClosed(t) \/ HandlerEnds(t)

LEMMA MovedFilesTyped ==
  ASSUME TypeOK, NEW t \in Threads, MovesFiles(t)
  PROVE  /\ held' \in [Threads -> Seq(0 .. MaxFd)]
         /\ fd' \in [Numbers -> Clients \cup {NULL, "file", "reserved"}] /\ leaked' \subseteq Numbers
         /\ \A u \in Threads \ {t} : held'[u] = held[u]
<1>1. /\ held \in [Threads -> Seq(0 .. MaxFd)] /\ leaked \subseteq Numbers
      /\ fd \in [Numbers -> Clients \cup {NULL, "file", "reserved"}]
  BY DEF TypeOK
<1>2. ASSUME NEW n \in 0 .. MaxFd
      PROVE  [held EXCEPT ![t] = Append(@, n)] \in [Threads -> Seq(0 .. MaxFd)]
  <2>1. Append(held[t], n) \in Seq(0 .. MaxFd)
    BY <1>1, <1>2, AppendProperties
  <2> QED
    BY <1>1, <2>1
<1>3. [held EXCEPT ![t] = <<>>] \in [Threads -> Seq(0 .. MaxFd)]
  <2>1. <<>> \in Seq(0 .. MaxFd)
    OBVIOUS
  <2> QED
    BY <1>1, <2>1
<1>4. CASE UNCHANGED files
  BY <1>1, <1>4 DEF files
<1>5. CASE Opened(t)
  BY <1>1, <1>2, <1>5, Distinct DEF Opened
<1>6. CASE OpenFailed(t)
  BY <1>1, <1>2, <1>6, Distinct DEF OpenFailed, Failed
<1>7. CASE AllClosed(t)
  BY <1>1, <1>3, <1>7 DEF AllClosed, Close
<1>8. CASE HandlerEnds(t)
  BY <1>1, <1>3, <1>8, OpensAreNumbers DEF HandlerEnds, Close
<1> QED
  BY <1>4, <1>5, <1>6, <1>7, <1>8 DEF MovesFiles

LEMMA FinishMoves ==
  ASSUME NEW t \in Threads, NEW closed \in SUBSET Opens(t), Finish(t, closed)
  PROVE  IF t = Main THEN up' = FALSE /\ UNCHANGED <<pc, files>>
                     ELSE HandlerEnds(t) /\ UNCHANGED up
  BY DEF Finish, HandlerEnds, Goto

(* With three opens done the devices are among what the thread holds.       *)
LEMMA DevicesOpen ==
  ASSUME TypeOK, NEW t \in Threads, Len(held[t]) = 3
  PROVE  DevicesOf(t) \subseteq Opens(t)
<1>1. 1 \in DOMAIN held[t] /\ 2 \in DOMAIN held[t]
  BY DEF TypeOK
<1> QED
  BY <1>1, OpensAreNumbers DEF DevicesOf

(* The steps of a thread that serves: all but those with which main comes   *)
(* to a connection and a handler to its socket.                             *)
Works(t) ==
  \/ ThreadStep(t)
  \/ t = Main /\ (writeDevices \/ farewell)
  \/ t \in Clients /\ (readFile(t) \/ close(t))

Idle == {"none", "new", "ended", "accept", "accepting", "check", "spawn"}

(* Where they take the thread; nobody else moves.                           *)
Moves(t) ==
  /\ pc[t] \notin Idle /\ up' \in BOOLEAN
  /\ \/ pc' = pc /\ (pc[t] = "send" => UNCHANGED files)
     \/ \E place \in Places \ {"none", "new", "ended", "check", "devices", "accepting"} :
          /\ pc' = [pc EXCEPT ![t] = place]
          /\ place = "spawn" => pc[t] = "devices" /\ t = Main
          /\ place = "send" => UNCHANGED files /\ Len(held[t]) = Wanted(t) /\ pc[t] = "GET"
     \/ HandlerEnds(t)

LEMMA WorkMoves ==
  ASSUME TInv, NEW t \in Threads, Works(t)
  PROVE  Moves(t) /\ MovesFiles(t) /\ UNCHANGED <<sockets, clients>>
<1>1. TypeOK /\ {} \in SUBSET Opens(t) /\ up \in BOOLEAN
  BY DEF TInv, TypeOK
<1> DEFINE Here == Places \ {"none", "new", "ended", "check", "devices", "accepting"}
<1>2. /\ Done(t) \in Here \ {"spawn", "send"}
      /\ {"spawn", "send", "recv", "read", "parse", "words", "GET", "PUT", "size", "answer",
          "farewell"} \subseteq Here
  BY DEF Done, Places
<1>3. ASSUME NEW closed \in SUBSET Opens(t), Finish(t, closed), pc[t] \notin Idle
      PROVE  Moves(t) /\ MovesFiles(t)
  BY <1>1, <1>3, FinishMoves DEF Moves, MovesFiles
<1>4. ASSUME NEW place \in Here \ {"spawn", "send"}, Goto(t, place), UNCHANGED up, pc[t] \notin Idle
      PROVE  Moves(t)
  BY <1>1, <1>4 DEF Moves, Goto
<1>5. CASE open(t)
  <2>1. Moves(t)
    BY <1>1, <1>5 DEF open, Opening, Moves, control, Idle
  <2>2. MovesFiles(t)
    BY <1>5, LowestIsFree DEF open, MovesFiles, Opened, OpenFailed
  <2> QED
    BY <1>5, <2>1, <2>2 DEF open
<1>6. CASE enter(t)
  BY <1>1, <1>6 DEF enter, Receiving, Moves, MovesFiles, Idle
<1>7. CASE receiveFails(t)
  <2>1. pc[t] \notin Idle /\ UNCHANGED <<sockets, clients>>
    BY <1>7 DEF receiveFails, Receiving, Idle
  <2>2. CASE pc[t] = "size"
    BY <1>2, <1>4, <1>7, <2>1, <2>2 DEF receiveFails, MovesFiles, AllClosed
  <2>3. CASE pc[t] # "size"
    BY <1>1, <1>3, <1>7, <2>1, <2>3 DEF receiveFails
  <2> QED
    BY <2>1, <2>2, <2>3
<1>8. CASE take(t)
  <2>1. pc[t] \notin Idle /\ UNCHANGED <<sockets, clients, up, files>>
    BY <1>8 DEF take, Receiving, Idle
  <2>2. \E place \in {"read", "recv", "parse"} : Goto(t, place)
    BY <1>8 DEF take
  <2> QED
    BY <1>2, <1>4, <2>1, <2>2 DEF MovesFiles
<1>9. CASE takeNothing(t)
  <2>1. pc[t] \notin Idle /\ UNCHANGED <<sockets, clients>>
    BY <1>9 DEF takeNothing, Receiving, Idle
  <2>2. Finish(t, {}) \/ (Goto(t, "parse") /\ UNCHANGED <<up, files>>)
    BY <1>9 DEF takeNothing
  <2> QED
    BY <1>1, <1>2, <1>3, <1>4, <2>1, <2>2 DEF MovesFiles
<1>10. CASE takeSize(t)
  <2>1. pc[t] \notin Idle /\ UNCHANGED <<sockets, clients, up>> /\ Goto(t, "answer") /\ AllClosed(t)
    BY <1>10 DEF takeSize, At, Idle, AllClosed
  <2> QED
    BY <1>2, <1>4, <2>1 DEF MovesFiles
<1>11. CASE parse(t)
  <2>1. pc[t] \notin Idle /\ UNCHANGED <<sockets, clients>>
    BY <1>11 DEF parse, At, Idle
  <2>2. Finish(t, {}) \/ (Goto(t, "words") /\ UNCHANGED <<up, files>>)
    BY <1>11 DEF parse
  <2> QED
    BY <1>1, <1>2, <1>3, <1>4, <2>1, <2>2 DEF MovesFiles
<1>12. CASE words(t)
  <2>1. pc[t] \notin Idle /\ UNCHANGED <<sockets, clients>> /\ pc[t] = "words"
    BY <1>12 DEF words, At, Idle
  <2>2. message[t] \in [cmd : Commands, more : 0 .. 2, from : Clients \cup {NULL}]
    BY <2>1 DEF TInv, TypeOK, Piece, Understood, Behind
  <2>3. PICK w \in 0 .. 2 : \/ Finish(t, {})
                            \/ Branch(t, w) # "ended" /\ Goto(t, Branch(t, w)) /\ UNCHANGED <<up, files>>
    BY <1>12, <2>2 DEF words
  <2>4. Branch(t, w) \in {"ended", "GET", "PUT", "answer", "farewell", "accept"}
    BY <2>2 DEF Branch, Commands
  <2>5. CASE Finish(t, {})
    BY <1>1, <1>3, <2>1, <2>5
  <2>6. CASE Branch(t, w) # "ended" /\ Goto(t, Branch(t, w)) /\ UNCHANGED <<up, files>>
    BY <1>2, <1>4, <2>1, <2>4, <2>6 DEF MovesFiles, Places
  <2> QED
    BY <2>1, <2>3, <2>5, <2>6
<1>13. CASE answer(t)
  BY <1>2, <1>4, <1>13 DEF answer, At, MovesFiles, Idle
<1>14. CASE getOpened(t)
  <2>1. pc[t] \notin Idle /\ UNCHANGED <<sockets, clients>> /\ pc[t] = "GET" /\ Len(held[t]) = Wanted(t)
    BY <1>14 DEF getOpened, AllOpen, Idle
  <2>2. t # Main => DevicesOf(t) \subseteq Opens(t)
    BY <1>1, <2>1, DevicesOpen DEF Wanted
  <2>3. CASE Finish(t, {}) \/ (t # Main /\ Finish(t, DevicesOf(t)))
    BY <1>1, <1>3, <2>1, <2>2, <2>3
  <2>4. CASE Goto(t, "send") /\ UNCHANGED <<up, files>>
    BY <1>1, <1>2, <2>1, <2>4 DEF Moves, MovesFiles, Goto
  <2> QED
    BY <1>14, <2>1, <2>3, <2>4 DEF getOpened
<1>15. CASE send(t)
  BY <1>1, <1>15 DEF send, At, Moves, MovesFiles, control, Idle
<1>16. CASE sendFails(t)
  <2>1. pc[t] \notin Idle /\ UNCHANGED <<sockets, clients>> /\ pc[t] = "send"
    BY <1>16 DEF sendFails, At, Idle
  <2>2. t # Main => DevicesOf(t) \subseteq Opens(t)
    BY <1>1, <2>1, DevicesOpen DEF TInv, Sending, Threads
  <2> QED
    BY <1>1, <1>3, <1>16, <2>1, <2>2 DEF sendFails
<1>17. CASE endSend(t)
  <2>1. pc[t] \notin Idle /\ UNCHANGED <<sockets, clients, up>> /\ Goto(t, Done(t))
    BY <1>17 DEF endSend, At, Idle
  <2>2. AllClosed(t) \/ UNCHANGED files
    BY <1>17 DEF endSend, AllClosed, files
  <2> QED
    BY <1>2, <1>4, <2>1, <2>2 DEF MovesFiles
<1>18. CASE putOpened(t)
  <2>1. pc[t] \notin Idle /\ UNCHANGED <<sockets, clients, up>>
    BY <1>18 DEF putOpened, AllOpen, Idle
  <2>2. (AllClosed(t) /\ Goto(t, Done(t))) \/ (UNCHANGED files /\ Goto(t, "size"))
    BY <1>18 DEF putOpened, AllClosed, files
  <2> QED
    BY <1>2, <1>4, <2>1, <2>2 DEF MovesFiles
<1>19. CASE sigpipe(t)
  BY <1>1, <1>19 DEF sigpipe, Moves, MovesFiles, control, Idle
<1>20. CASE t = Main /\ writeDevices
  <2>1. pc[t] = "devices" /\ pc[t] \notin Idle /\ UNCHANGED <<sockets, clients>>
    BY <1>20 DEF writeDevices, Idle
  <2>2. \/ up' = FALSE /\ UNCHANGED <<pc, files>>
        \/ AllClosed(t) /\ Goto(t, "spawn") /\ UNCHANGED up
    BY <1>20 DEF writeDevices, AllClosed, BothClosed
  <2> QED
    BY <1>1, <1>2, <1>20, <2>1, <2>2 DEF Moves, MovesFiles, Goto
<1>21. CASE t = Main /\ farewell
  BY <1>1, <1>21 DEF farewell, At, Moves, MovesFiles, control, Idle
<1>22. CASE t \in Clients /\ readFile(t)
  BY <1>2, <1>4, <1>22 DEF readFile, At, MovesFiles, Idle
<1>23. CASE t \in Clients /\ close(t)
  BY <1>1, <1>3, <1>23 DEF close, At, Idle
<1> QED
  BY <1>5, <1>6, <1>7, <1>8, <1>9, <1>10, <1>11, <1>12, <1>13, <1>14, <1>15, <1>16, <1>17, <1>18,
     <1>19, <1>20, <1>21, <1>22, <1>23 DEF Works, ThreadStep

-----------------------------------------------------------------------------
(* All steps of a serving thread but the receipts leave messages alone.     *)
Quiet(t) ==
  /\ UNCHANGED <<conn, message, stream, filled>> /\ cutter' \in {cutter, t, NULL}
  /\ pc' = pc \/ pc[t] \notin {"recv", "read", "size"}
  /\ pc'[t] \in Behind => pc[t] \in Behind \/ (pc[t] = "parse" /\ message[t] # NULL)
  /\ pc'[t] = "parse" => pc[t] = "parse"
  /\ UNCHANGED <<got, broken>> \/ (pc[t] \in Behind /\ Deliver(t))

Receives(t) ==
  \/ enter(t) \/ receiveFails(t) \/ take(t) \/ takeNothing(t) \/ takeSize(t)
  \/ t \in Clients /\ readFile(t)

LEMMA WorkHears ==
  ASSUME TInv, NEW t \in Threads, Works(t)
  PROVE  Quiet(t) \/ Receives(t)
<1>1. pc \in [Threads -> Places] /\ Done(t) \notin Behind
  BY DEF TInv, TypeOK, Done, Behind
<1>2. ASSUME NEW closed, Finish(t, closed)
      PROVE  pc' = pc \/ pc'[t] = "ended"
  BY <1>1, <1>2 DEF Finish, Goto
<1>3. "ended" \notin Behind /\ \A place : Goto(t, place) => pc'[t] = place
  BY <1>1 DEF Behind, Goto
<1> DEFINE Past == pc' = pc \/ pc'[t] # "parse"
<1>4. Done(t) # "parse" /\ \A closed : Finish(t, closed) => Past
  BY <1>2 DEF Done
<1>5. CASE open(t)
  <2>1. UNCHANGED <<conn, message, stream, filled, cutter, got, broken>> /\ pc' = pc
    BY <1>5 DEF open, control, parser
  <2> QED
    BY <2>1 DEF Quiet
<1>6. CASE parse(t)
  <2>1. /\ UNCHANGED <<conn, message, stream, filled, got, broken>> /\ cutter' \in {cutter, t}
        /\ pc[t] = "parse"
    BY <1>6 DEF parse, At
  <2>2. (\E closed : Finish(t, closed)) \/ message[t] # NULL
    BY <1>6 DEF parse
  <2> QED
    BY <1>2, <1>3, <2>1, <2>2 DEF Quiet
<1>7. CASE words(t)
  <2>1. /\ UNCHANGED <<conn, message, stream, filled, got, broken>> /\ cutter' = NULL
        /\ pc[t] = "words"
    BY <1>7 DEF words, At
  <2>2. message[t] \in [cmd : Commands, more : 0 .. 2, from : Clients \cup {NULL}]
    BY <2>1 DEF TInv, TypeOK, Piece, Understood, Behind
  <2>3. \A w \in 0 .. 2 : Branch(t, w) # "parse"
    BY <2>2 DEF Branch, Commands
  <2>4. Past
    BY <1>3, <1>7, <1>4, <2>2, <2>3 DEF words
  <2> QED
    BY <2>1, <2>4 DEF Quiet, Behind
<1>8. CASE answer(t)
  BY <1>1, <1>3, <1>8, <1>4 DEF answer, At, Quiet, Behind, parser
<1>9. CASE getOpened(t)
  <2>1. Past
    BY <1>3, <1>9, <1>4 DEF getOpened
  <2> QED
    BY <1>9, <2>1 DEF getOpened, AllOpen, Quiet, Behind, parser
<1>10. CASE send(t)
  BY <1>10 DEF send, At, Quiet, Behind, parser, control
<1>11. CASE sendFails(t)
  <2>1. Past
    BY <1>11, <1>4 DEF sendFails
  <2> QED
    BY <1>11, <2>1 DEF sendFails, At, Quiet, Behind, parser
<1>12. CASE endSend(t)
  BY <1>3, <1>12, <1>4 DEF endSend, At, Quiet, Behind, parser
<1>13. CASE putOpened(t)
  BY <1>3, <1>13, <1>4 DEF putOpened, AllOpen, Quiet, Behind, parser
<1>14. CASE sigpipe(t)
  BY <1>14 DEF sigpipe, Quiet, parser, control
<1>15. CASE t = Main /\ writeDevices
  <2>1. /\ UNCHANGED <<conn, message, stream, filled, cutter, got, broken>>
        /\ pc[t] = "devices" /\ (pc' = pc \/ Goto(t, "spawn"))
    BY <1>15 DEF writeDevices, parser
  <2> QED
    BY <1>1, <2>1 DEF Quiet, Goto, Behind
<1>16. CASE t = Main /\ farewell
  BY <1>16 DEF farewell, At, Quiet, Behind, parser, control
<1>17. CASE t \in Clients /\ close(t)
  <2>1. /\ UNCHANGED <<conn, message, stream, filled, cutter, got, broken>>
        /\ pc[t] = "close" /\ Finish(t, {})
    BY <1>17 DEF close, At, parser
  <2> QED
    BY <1>2, <1>3, <2>1 DEF Quiet, Behind
<1> QED
  BY <1>5, <1>6, <1>7, <1>8, <1>9, <1>10, <1>11, <1>12, <1>13, <1>14, <1>15, <1>16, <1>17
     DEF Works, ThreadStep, Receives

(* The pieces of a stream.                                                  *)
LEMMA Pieces ==
  ASSUME NEW s \in Seq(Piece)
  PROVE  /\ s # <<>> => Head(s) \in Piece /\ Tail(s) \in Seq(Piece)
         /\ \A k \in 1 .. Len(s) : SubSeq(s, k + 1, Len(s)) \in Seq(Piece) /\ s # <<>>
         /\ \A c \in Clients : \A rest \in Remainders(c) : rest \o Tail(s) \in Seq(Piece) \/ s = <<>>
<1>1. s # <<>> => Head(s) \in Piece /\ Tail(s) \in Seq(Piece)
  BY HeadTailProperties
<1>2. ASSUME NEW k \in 1 .. Len(s)
      PROVE  SubSeq(s, k + 1, Len(s)) \in Seq(Piece) /\ s # <<>>
  <2>1. \A i \in k + 1 .. Len(s) : s[i] \in Piece
    BY <1>2, ElementOfSeq
  <2>2. k + 1 \in Int /\ Len(s) \in Int
    BY <1>2
  <2> QED
    BY <1>2, <2>1, <2>2, SubSeqProperties
<1>3. ASSUME NEW c \in Clients, NEW rest \in Remainders(c), s # <<>>
      PROVE  rest \o Tail(s) \in Seq(Piece)
  <2>1. NULL \in Piece /\ [cmd |-> "other", more |-> 2, from |-> c] \in Piece
    BY DEF Piece, Commands
  <2> DEFINE last == [cmd |-> "other", more |-> 2, from |-> c]
  <2>2. rest \in Seq(Piece)
    <3>1. rest = <<>> \/ rest = <<NULL>> \/ rest = <<last>>
      BY DEF Remainders
    <3>2. last \in Piece /\ NULL \in Piece
      BY <2>1
    <3>3. <<>> \in Seq(Piece) /\ <<NULL>> \in Seq(Piece) /\ <<last>> \in Seq(Piece)
      <4> HIDE DEF last
      <4> QED
        BY <3>2
    <3> QED
      BY <3>1, <3>3, Zenon
  <2> QED
    BY <1>1, <1>3, <2>2, ConcatProperties
<1> QED
  BY <1>1, <1>2, <1>3

LEMMA DeliverTyped ==
  ASSUME TInv, NEW t \in Threads, pc[t] \in Behind, Deliver(t)
  PROVE  broken' \subseteq Clients /\ got' \in [Clients -> SUBSET (Clients \cup {NULL})]
<1>1. message[t] \in [cmd : Commands, more : 0 .. 2, from : Clients \cup {NULL}]
  BY DEF TInv, TypeOK, Understood, Piece
<1>2. broken \subseteq Clients /\ got \in [Clients -> SUBSET (Clients \cup {NULL})]
  BY DEF TInv, TypeOK
<1>3. message[t].from \in Clients \cup {NULL}
  BY <1>1
<1> QED
  BY <1>2, <1>3 DEF Deliver

LEMMA MovedPlaces ==
  ASSUME TInv, NEW t \in Threads, Moves(t)
  PROVE  /\ pc' \in [Threads -> Places] /\ pc'[t] \notin {"none", "new"}
         /\ \A u \in Threads \ {t} : pc'[u] = pc[u]
         /\ pc'[t] \in Fresh => pc[t] \in Fresh /\ (pc'[t] = "spawn" => t = Main)
         /\ pc[t] \notin Idle
         /\ pc'[t] = "ended" => HandlerEnds(t)
         /\ t # Main /\ pc'[t] = "send" => Len(held[t]) = 3 /\ UNCHANGED files
         /\ pc'[t] # "accepting"
<1>1. pc \in [Threads -> Places] /\ "ended" \in Places
  BY DEF TInv, TypeOK, Places
<1>2. CASE pc' = pc /\ (pc[t] = "send" => UNCHANGED files)
  BY <1>1, <1>2, Distinct DEF Moves, Idle, TInv, Sending
<1>3. ASSUME NEW place \in Places \ {"none", "new", "ended", "check", "devices", "accepting"},
             pc' = [pc EXCEPT ![t] = place],
             place = "spawn" => pc[t] = "devices" /\ t = Main,
             place = "send" => UNCHANGED files /\ Len(held[t]) = Wanted(t) /\ pc[t] = "GET"
      PROVE  /\ pc' \in [Threads -> Places] /\ pc'[t] \notin {"none", "new"}
             /\ \A u \in Threads \ {t} : pc'[u] = pc[u]
             /\ pc'[t] \in Fresh => pc[t] \in Fresh /\ (pc'[t] = "spawn" => t = Main)
             /\ pc'[t] = "ended" => HandlerEnds(t)
             /\ t # Main /\ pc'[t] = "send" => Len(held[t]) = 3 /\ UNCHANGED files
             /\ pc'[t] # "accepting"
  <2>1. pc'[t] = place
    BY <1>1, <1>3
  <2>2. t # Main /\ place = "send" => Wanted(t) = 3
    BY <1>3 DEF Wanted
  <2> QED
    BY <1>1, <1>3, <2>1, <2>2 DEF Fresh
<1>4. CASE HandlerEnds(t)
  <2>1. pc' = [pc EXCEPT ![t] = "ended"]
    BY <1>4 DEF HandlerEnds
  <2> QED
    BY <1>1, <1>4, <2>1 DEF Fresh, Moves
<1> QED
  BY <1>2, <1>3, <1>4 DEF Moves

(* Receipts: what they leave of the connection, the message, the stream.    *)
LEMMA ReceiveTyped ==
  ASSUME TInv, NEW t \in Threads, Receives(t)
  PROVE  /\ conn' \in [Threads -> Clients \cup {NULL}] /\ message' \in [Threads -> Piece]
         /\ filled' \in [Clients -> 0 .. Buffer] /\ stream' \in [Clients -> Seq(Piece)]
         /\ UNCHANGED <<cutter, got, broken>>
         /\ \A u \in Threads \ {t} : message'[u] = message[u]
         /\ pc'[t] \in Behind => pc[t] \in Behind /\ UNCHANGED message
<1>1. /\ conn \in [Threads -> Clients \cup {NULL}] /\ message \in [Threads -> Piece]
      /\ filled \in [Clients -> 0 .. Buffer] /\ stream \in [Clients -> Seq(Piece)]
      /\ pc \in [Threads -> Places]
  BY DEF TInv, TypeOK
<1>2. CASE enter(t)
  BY <1>1, <1>2 DEF enter, parser
<1>3. CASE receiveFails(t)
  <2>1. /\ conn' = [conn EXCEPT ![t] = NULL]
        /\ UNCHANGED <<message, filled, cutter, stream, got, broken>>
    BY <1>3 DEF receiveFails, parser
  <2>2. pc' = pc \/ pc' = [pc EXCEPT ![t] = Done(t)] \/ pc' = [pc EXCEPT ![t] = "ended"]
    BY <1>3 DEF receiveFails, Finish, Goto
  <2>3. Done(t) \notin Behind /\ "ended" \notin Behind
    BY DEF Done, Behind
  <2> QED
    BY <1>1, <2>1, <2>2, <2>3
<1>4. CASE take(t)
  <2> DEFINE s == stream[conn[t]]
  <2>1. /\ conn[t] \in Clients /\ conn' = [conn EXCEPT ![t] = NULL]
        /\ UNCHANGED <<cutter, got, broken>>
    BY <1>1, <1>4 DEF take
  <2>2. PICK k \in 1 .. Len(s) :
          /\ k <= Room(t)
          /\ stream' = [stream EXCEPT ![conn[t]] = SubSeq(@, k + 1, Len(@))]
          /\ message' \in {message, [message EXCEPT ![t] = Head(s)]}
          /\ IF t # Main /\ pc[t] = "recv"
             THEN filled' = [filled EXCEPT ![t] = @ + k] /\ (Goto(t, "read") \/ Goto(t, "recv"))
             ELSE UNCHANGED filled /\ Goto(t, "parse")
    BY <1>4 DEF take
  <2>3. s \in Seq(Piece)
    BY <1>1, <2>1
  <2>4. Head(s) \in Piece /\ SubSeq(s, k + 1, Len(s)) \in Seq(Piece)
    BY <2>3, Pieces
  <2>5. stream' \in [Clients -> Seq(Piece)]
    BY <1>1, <2>1, <2>2, <2>4
  <2>6. filled' \in [Clients -> 0 .. Buffer]
    <3>1. CASE t # Main /\ pc[t] = "recv"
      <4>1. t \in Clients /\ filled[t] \in 0 .. Buffer /\ k \in Nat /\ k <= Buffer - filled[t]
        BY <1>1, <2>2, <3>1, Distinct DEF Room
      <4>2. filled[t] + k \in 0 .. Buffer
        BY <4>1, Distinct
      <4> QED
        BY <1>1, <2>2, <3>1, <4>2
    <3>2. CASE ~(t # Main /\ pc[t] = "recv")
      BY <1>1, <2>2, <3>2
    <3> QED
      BY <3>1, <3>2
  <2>7. message' \in [Threads -> Piece] /\ \A u \in Threads \ {t} : message'[u] = message[u]
    BY <1>1, <2>2, <2>4
  <2>8. pc'[t] \notin Behind
    BY <1>1, <2>2 DEF Goto, Behind
  <2> QED
    BY <1>1, <2>1, <2>5, <2>6, <2>7, <2>8
<1>5. CASE takeNothing(t)
  <2>1. /\ conn' = [conn EXCEPT ![t] = NULL] /\ UNCHANGED <<filled, cutter, stream, got, broken>>
        /\ message' \in {message, [message EXCEPT ![t].more = 0]}
        /\ message' = message \/ message[t] # NULL
        /\ Receiving(t) /\ pc[t] # "size"
        /\ pc' = pc \/ Goto(t, "ended") \/ Goto(t, "parse")
    BY <1>5 DEF takeNothing, Finish
  <2>2. message[t] # NULL => [message[t] EXCEPT !.more = 0] \in Piece
    <3>1. message[t] # NULL =>
            message[t] \in [cmd : Commands, more : 0 .. 2, from : Clients \cup {NULL}]
      BY <1>1 DEF Piece
    <3>2. 0 \in 0 .. 2
      OBVIOUS
    <3> QED
      BY <3>1, <3>2 DEF Piece
  <2>3. message' \in [Threads -> Piece] /\ \A u \in Threads \ {t} : message'[u] = message[u]
    BY <1>1, <2>1, <2>2
  <2>4. pc'[t] \notin Behind
    BY <1>1, <2>1 DEF Goto, Behind, Receiving
  <2> QED
    BY <1>1, <2>1, <2>3, <2>4
<1>6. CASE takeSize(t)
  <2>1. /\ conn[t] \in Clients /\ conn' = [conn EXCEPT ![t] = NULL] /\ pc[t] = "size"
        /\ UNCHANGED <<message, filled, cutter, got, broken>>
    BY <1>1, <1>6 DEF takeSize, At, parser
  <2>2. CASE UNCHANGED stream
    BY <1>1, <2>1, <2>2 DEF Behind
  <2>3. ASSUME stream[conn[t]] # <<>>, NEW rest \in Remainders(conn[t]),
               stream' = [stream EXCEPT ![conn[t]] = rest \o Tail(@)]
        PROVE  stream' \in [Clients -> Seq(Piece)]
    <3>1. stream[conn[t]] \in Seq(Piece)
      BY <1>1, <2>1
    <3>2. rest \o Tail(stream[conn[t]]) \in Seq(Piece)
      BY <2>1, <2>3, <3>1, Pieces
    <3> QED
      BY <1>1, <2>1, <2>3, <3>2
  <2>4. stream' \in [Clients -> Seq(Piece)]
    BY <1>1, <1>6, <2>3 DEF takeSize
  <2> QED
    BY <1>1, <2>1, <2>4 DEF Behind
<1>7. CASE t \in Clients /\ readFile(t)
  <2>1. /\ UNCHANGED <<conn, filled, cutter, stream, got, broken>> /\ Goto(t, "parse")
        /\ \E m \in Words : message' = [message EXCEPT ![t] =
                              [cmd |-> m.cmd, more |-> m.more, from |-> NULL]]
    BY <1>7 DEF readFile
  <2>2. \A m \in Words : [cmd |-> m.cmd, more |-> m.more, from |-> NULL] \in Piece
    BY DEF Words, Piece
  <2> QED
    BY <1>1, <2>1, <2>2 DEF Goto, Behind
<1> QED
  BY <1>2, <1>3, <1>4, <1>5, <1>6, <1>7 DEF Receives

LEMMA WorkTInv ==
  ASSUME TInv, NEW t \in Threads, Works(t)
  PROVE  TInv'
<1>1. Moves(t) /\ MovesFiles(t) /\ UNCHANGED <<sockets, clients>> /\ TypeOK
  BY WorkMoves DEF TInv
<1>2. /\ held' \in [Threads -> Seq(0 .. MaxFd)]
      /\ fd' \in [Numbers -> Clients \cup {NULL, "file", "reserved"}] /\ leaked' \subseteq Numbers
      /\ \A u \in Threads \ {t} : held'[u] = held[u]
  BY <1>1, MovedFilesTyped
<1>3. /\ pc' \in [Threads -> Places] /\ \A u \in Threads \ {t} : pc'[u] = pc[u]
      /\ t # Main /\ pc'[t] = "send" => Len(held'[t]) = 3
  BY <1>1, MovedPlaces DEF files
<1>4. /\ conn' \in [Threads -> Clients \cup {NULL}] /\ message' \in [Threads -> Piece]
      /\ filled' \in [Clients -> 0 .. Buffer] /\ stream' \in [Clients -> Seq(Piece)]
      /\ cutter' \in Threads \cup {NULL} /\ broken' \subseteq Clients
      /\ got' \in [Clients -> SUBSET (Clients \cup {NULL})]
      /\ \A u \in Threads \ {t} : message'[u] = message[u]
      /\ pc'[t] \in Behind => message'[t] # NULL
  <2>1. CASE Quiet(t)
    <3>1. broken' \subseteq Clients /\ got' \in [Clients -> SUBSET (Clients \cup {NULL})]
      BY <1>1, <2>1, DeliverTyped DEF Quiet, TypeOK
    <3>2. pc'[t] \in Behind => message'[t] # NULL
      BY <2>1 DEF Quiet, TInv, Understood
    <3> QED
      BY <1>1, <2>1, <3>1, <3>2 DEF Quiet, TypeOK
  <2>2. CASE Receives(t)
    BY <1>1, <2>2, ReceiveTyped DEF TypeOK, TInv, Understood
  <2> QED
    BY <2>1, <2>2, WorkHears
<1>5. TypedStep(t)
  BY <1>2, <1>3, <1>4 DEF TypedStep
<1>6. Understood' /\ Sending'
  BY <1>5, StepUnderstood
<1>7. TypeOK'
  <2>1. up' \in BOOLEAN
    BY <1>1 DEF Moves
  <2> QED
    BY <1>1, <1>2, <1>3, <1>4, <2>1 DEF TypeOK, sockets, clients
<1> QED
  BY <1>6, <1>7 DEF TInv

(* The other steps: main's way to a connection, a handler's to its socket,  *)
(* and what clients do.                                                     *)
ClientMoves(c) == ClientStep(c) \/ Leave(c)

LEMMA ArriveTInv ==
  ASSUME TInv, reserve \/ accept \/ check \/ spawn \/ \E c \in Clients : start(c)
  PROVE  TInv'
<1>1. /\ pc \in [Threads -> Places] /\ conn \in [Threads -> Clients \cup {NULL}]
      /\ sock \in [Threads -> 0 .. MaxFd] /\ backlog \in Seq(Clients)
      /\ fd \in [Numbers -> Clients \cup {NULL, "file", "reserved"}]
      /\ up \in BOOLEAN /\ current \in Clients \cup {NULL} /\ late \in BOOLEAN
  BY DEF TInv, TypeOK
<1>2. {"accept", "accepting", "check", "devices", "recv", "new"} \subseteq Places \ Behind
  BY DEF Places, Behind
<1>3. SUFFICES ASSUME NEW place \in {"accept", "accepting", "check", "devices", "recv"},
                      NEW t \in Threads,
                      \/ pc' = pc
                      \/ pc' = [pc EXCEPT ![t] = place]
                      \/ pc' = [pc EXCEPT ![t] = place, ![current] = "new"],
                      up' \in BOOLEAN, sock' \in [Threads -> 0 .. MaxFd],
                      fd' \in [Numbers -> Clients \cup {NULL, "file", "reserved"}],
                      backlog' \in Seq(Clients), current' \in Clients \cup {NULL},
                      late' \in BOOLEAN,
                      UNCHANGED <<conn, parser, held, leaked, stream, phase, broken, got>>
               PROVE  TInv'
  <2>1. CASE reserve
    <3>1. Main \in Threads /\ UNCHANGED sockets /\ UNCHANGED clients
      BY <2>1, Distinct DEF reserve
    <3>2. up' \in BOOLEAN /\ fd' \in [Numbers -> Clients \cup {NULL, "file", "reserved"}]
      BY <1>1, <2>1 DEF reserve
    <3>3. pc' = pc \/ pc' = [pc EXCEPT ![Main] = "accepting"]
      BY <2>1 DEF reserve, Goto
    <3> QED
      BY <1>1, <1>3, <2>1, <3>1, <3>2, <3>3 DEF reserve, sockets, clients
  <2>2. CASE accept
    <3>1. Head(backlog) \in Clients /\ Tail(backlog) \in Seq(Clients)
      BY <1>1, <2>2, HeadTailProperties DEF accept
    <3>2. PICK n \in Numbers : /\ fd' = [fd EXCEPT ![n] = Head(backlog)]
                               /\ sock' = [sock EXCEPT ![Main] = n]
      BY <2>2 DEF accept
    <3>3. /\ fd' \in [Numbers -> Clients \cup {NULL, "file", "reserved"}]
          /\ sock' \in [Threads -> 0 .. MaxFd] /\ Main \in Threads
      BY <1>1, <3>1, <3>2, Distinct
    <3> QED
      BY <1>1, <1>3, <2>2, <3>1, <3>3 DEF accept, Goto
  <2>3. CASE check
    <3>1. fd' \in [Numbers -> Clients \cup {NULL, "file", "reserved"}] /\ Main \in Threads
      BY <1>1, <2>3, Distinct DEF check, Close
    <3> QED
      BY <1>1, <1>3, <2>3, <3>1 DEF check, Goto, sockets, clients
  <2>4. CASE spawn
    <3>1. \/ pc' = pc
          \/ pc' = [pc EXCEPT ![Main] = "recv"]
          \/ pc' = [pc EXCEPT ![Main] = "recv", ![current] = "new"]
      BY <2>4 DEF spawn, Goto
    <3>2. UNCHANGED <<conn, sockets, parser, files, clients, stream, broken, got>>
      BY <2>4 DEF spawn
    <3>3. up' \in BOOLEAN
      BY <1>1, <2>4 DEF spawn
    <3> QED
      BY <1>1, <1>3, <3>1, <3>2, <3>3, Distinct DEF sockets, files, clients
  <2>5. ASSUME NEW c \in Clients, start(c)
        PROVE  TInv'
    <3>1. c \in Threads /\ Main \in Threads
      BY Distinct
    <3>2. sock' \in [Threads -> 0 .. MaxFd] /\ late' \in BOOLEAN
      BY <1>1, <2>5, <3>1 DEF start
    <3> QED
      BY <1>1, <1>3, <2>5, <3>1, <3>2 DEF start, Goto, files, clients
  <2> QED
    BY <2>1, <2>2, <2>3, <2>4, <2>5
<1>4. pc' \in [Threads -> Places] /\ \A u \in Threads : pc'[u] \in Behind => pc'[u] = pc[u]
  <2>1. place \in Places /\ place \notin Behind /\ "new" \in Places /\ "new" \notin Behind
    BY <1>2
  <2>2. CASE pc' = pc
    BY <1>1, <2>2
  <2>3. CASE pc' = [pc EXCEPT ![t] = place]
    BY <1>1, <2>1, <2>3
  <2>4. CASE pc' = [pc EXCEPT ![t] = place, ![current] = "new"]
    BY <1>1, <2>1, <2>4
  <2> QED
    BY <1>3, <2>2, <2>3, <2>4
<1>5. Understood'
  BY <1>3, <1>4 DEF TInv, Understood, parser
<1>6. "send" \in Behind
  BY DEF Behind
<1>7. Sending'
  BY <1>3, <1>4, <1>6, Distinct DEF TInv, Sending
<1>8. TypeOK'
  BY <1>3, <1>4 DEF TInv, TypeOK, parser
<1> QED
  BY <1>5, <1>7, <1>8 DEF TInv

(* Clients leave everything at the server alone but what comes to it.       *)
LEMMA ClientEffect ==
  ASSUME TInv, NEW c \in Clients, ClientMoves(c)
  PROVE  /\ UNCHANGED <<up, control, sockets, parser, files, got>>
         /\ phase' \in [Clients -> {"idle", "connected", "waiting", "left"}]
         /\ \A d \in Clients : phase'[d] = phase[d] \/ (phase'[d] # "idle" /\ phase[d] # "left")
         /\ \/ UNCHANGED backlog
            \/ phase[c] = "idle" /\ phase'[c] # "idle" /\ backlog' = Append(backlog, c)
         /\ \/ UNCHANGED stream
            \/ \E shape \in Seq(Words \cup {NULL}) : stream' = [stream EXCEPT ![c] =
                 [i \in DOMAIN shape |-> IF shape[i] = NULL THEN NULL
                            ELSE [cmd |-> shape[i].cmd, more |-> shape[i].more, from |-> c]]]
         /\ broken' \in {broken, broken \cup {c}}
<1>1. phase \in [Clients -> {"idle", "connected", "waiting", "left"}]
  BY DEF TInv, TypeOK
<1>2. CASE Connect(c)
  BY <1>1, <1>2 DEF Connect
<1>3. ASSUME NEW shape \in Seq(Words \cup {NULL}), NEW next \in {"waiting", "left"}, Send(c, shape, next)
      PROVE  /\ UNCHANGED <<up, control, sockets, parser, files, got, backlog, broken>>
             /\ phase' \in [Clients -> {"idle", "connected", "waiting", "left"}]
             /\ \A d \in Clients : phase'[d] = phase[d] \/ (phase'[d] # "idle" /\ phase[d] # "left")
             /\ stream' = [stream EXCEPT ![c] =
                 [i \in DOMAIN shape |-> IF shape[i] = NULL THEN NULL
                            ELSE [cmd |-> shape[i].cmd, more |-> shape[i].more, from |-> c]]]
  BY <1>1, <1>3 DEF Send
<1>4. CASE Ask(c) \/ Tell(c)
  <2>1. PICK shape \in Seq(Words \cup {NULL}), next \in {"waiting", "left"} : Send(c, shape, next)
    <3>1. \A cmd \in {"other", "MD"} : [cmd |-> cmd, more |-> 2] \in Words
      BY DEF Words, Commands
    <3>2. \A cmd \in {"other", "MD"} : <<[cmd |-> cmd, more |-> 2]>> \in Seq(Words \cup {NULL})
      <4> SUFFICES ASSUME NEW cmd \in {"other", "MD"}
                   PROVE  <<[cmd |-> cmd, more |-> 2]>> \in Seq(Words \cup {NULL})
        OBVIOUS
      <4>1. [cmd |-> cmd, more |-> 2] \in Words \cup {NULL}
        BY <3>1
      <4> QED
        BY <4>1, OneElement, Zenon
    <3>3. Shapes \cup {WrittenLine} \subseteq Seq(Words \cup {NULL})
      BY <3>2, DeviceServiceAssumption DEF WrittenLine
    <3> QED
      BY <1>4, <3>3, <3>2 DEF Ask, Tell
  <2> QED
    BY <1>3, <2>1
<1>5. CASE Leave(c) \/ AtEnd(c)
  BY <1>1, <1>5 DEF Leave, AtEnd, Open
<1> QED
  BY <1>2, <1>4, <1>5 DEF ClientMoves, ClientStep

LEMMA ClientTInv ==
  ASSUME TInv, NEW c \in Clients, ClientMoves(c)
  PROVE  TInv'
<1>1. UNCHANGED <<up, control, sockets, parser, files, got>>
  BY ClientEffect
<1>2. backlog' \in Seq(Clients)
  <2>1. backlog' = backlog \/ backlog' = Append(backlog, c)
    BY ClientEffect
  <2>2. backlog \in Seq(Clients)
    BY DEF TInv, TypeOK
  <2> QED
    BY <2>1, <2>2, AppendProperties
<1>3. stream' \in [Clients -> Seq(Piece)]
  <2>1. stream \in [Clients -> Seq(Piece)]
    BY DEF TInv, TypeOK
  <2>2. ASSUME NEW shape \in Seq(Words \cup {NULL})
        PROVE  [i \in DOMAIN shape |-> IF shape[i] = NULL THEN NULL
                  ELSE [cmd |-> shape[i].cmd, more |-> shape[i].more, from |-> c]] \in Seq(Piece)
    <3>1. DOMAIN shape = 1 .. Len(shape) /\ Len(shape) \in Nat
      BY <2>2
    <3>2. ASSUME NEW i \in 1 .. Len(shape)
          PROVE  (IF shape[i] = NULL THEN NULL
                  ELSE [cmd |-> shape[i].cmd, more |-> shape[i].more, from |-> c]) \in Piece
      <4>1. shape[i] \in Words \cup {NULL}
        BY <3>2, ElementOfSeq
      <4> QED
        BY <4>1 DEF Words, Piece
    <3> QED
      BY <3>1, <3>2
  <2>3. \/ UNCHANGED stream
        \/ \E shape \in Seq(Words \cup {NULL}) : stream' = [stream EXCEPT ![c] =
             [i \in DOMAIN shape |-> IF shape[i] = NULL THEN NULL
                        ELSE [cmd |-> shape[i].cmd, more |-> shape[i].more, from |-> c]]]
    BY ClientEffect
  <2> QED
    BY <2>1, <2>2, <2>3
<1>4. broken' \subseteq Clients /\ phase' \in [Clients -> {"idle", "connected", "waiting", "left"}]
  <2>1. broken' \in {broken, broken \cup {c}} /\ broken \subseteq Clients
    BY ClientEffect DEF TInv, TypeOK
  <2>2. phase' \in [Clients -> {"idle", "connected", "waiting", "left"}]
    BY ClientEffect
  <2> QED
    BY <2>1, <2>2
<1>5. TypeOK'
  BY <1>1, <1>2, <1>3, <1>4 DEF TInv, TypeOK, control, sockets, parser, files
<1> QED
  BY <1>1, <1>5, StillUnderstood DEF TInv, control, parser, files

(* Every step is of one of the three kinds.                                 *)
LEMMA Steps ==
  ASSUME Next
  PROVE  \/ \E t \in Threads : Works(t)
         \/ reserve \/ accept \/ check \/ spawn \/ \E c \in Clients : start(c)
         \/ \E c \in Clients : ClientMoves(c)
  BY Distinct DEF Next, MainStep, HandlerStep, Works, ClientMoves

LEMMA StepTInv ==
  ASSUME TInv, [Next]_vars
  PROVE  TInv'
<1>1. CASE UNCHANGED vars
  <2>1. TypeOK'
    BY <1>1 DEF TInv, TypeOK, vars, control, sockets, parser, files, clients
  <2> QED
    BY <1>1, <2>1, StillUnderstood DEF TInv, vars, control, parser, files
<1> QED
  BY <1>1, Steps, WorkTInv, ArriveTInv, ClientTInv

(* server.c and fgets.c: whatever clients send and however threads and      *)
(* descriptors mix, no thread goes behind strtok without a message, no      *)
(* handler counts more bytes than its buffer holds, and only numbers of the *)
(* process's descriptors are held, closed or lost.                          *)
THEOREM DeviceTypeCorrect == Spec => []TypeOK
<1>1. TInv /\ [Next]_vars => TInv'
  BY StepTInv
<1>2. TInv => TypeOK
  BY DEF TInv
<1> QED
  BY <1>1, <1>2, InitTInv, PTL DEF Spec

-----------------------------------------------------------------------------
(* Who is connected to what.                                                *)
LEMMA InitIInv == Init => IInv
<1> SUFFICES ASSUME Init PROVE IInv
  OBVIOUS
<1>1. /\ \A c \in Clients : pc[c] = "none" /\ conn[c] = NULL /\ message[c] = NULL /\ stream[c] = <<>>
      /\ pc[Main] = "accept" /\ conn[Main] = NULL /\ backlog = <<>> /\ current = NULL
      /\ \A t \in Threads : held[t] = <<>>
      /\ \A n \in Numbers : fd[n] = NULL
      /\ leaked = {}
  BY Distinct DEF Init
<1>2. Arrivals
  BY <1>1, Distinct DEF Arrivals
<1>3. MainServes /\ Connected
  BY <1>1, Distinct DEF MainServes, Connected, Fresh
<1>4. Origins
  BY <1>1 DEF Origins, Handling, Behind
<1>5. HandlerServes
  BY <1>1 DEF HandlerServes, Active
<1>6. FilesOwned
  BY <1>1, Distinct DEF FilesOwned, Opens
<1> QED
  BY <1>2, <1>3, <1>4, <1>5, <1>6, InitTInv DEF IInv, InTime

(* Where a working thread goes, for the others and for main.                *)
LEMMA WorkArrivals ==
  ASSUME IInv, NEW t \in Threads, Works(t)
  PROVE  Arrivals'
<1>1. UNCHANGED <<backlog, phase, current>>
  BY WorkMoves DEF IInv, sockets, clients
<1>2. backlog \in Seq(Clients) /\ pc[t] \notin Idle
  BY WorkMoves, MovedPlaces DEF IInv, TInv, TypeOK
<1>3. \A c \in Clients : pc[c] = "none" => pc'[c] = "none"
  BY <1>2, WorkMoves, MovedPlaces, Distinct DEF IInv, Idle
<1>4. \A i \in DOMAIN backlog : backlog[i] \in Clients
  BY <1>2
<1> QED
  BY <1>1, <1>3, <1>4 DEF IInv, Arrivals

(* What threads open, close or fail to open never becomes a connection.     *)
LEMMA NoNewConnection ==
  ASSUME TypeOK, NEW t \in Threads, MovesFiles(t), NEW n \in Numbers, fd'[n] \in Clients
  PROVE  fd'[n] = fd[n]
<1>1. fd \in [Numbers -> Clients \cup {NULL, "file", "reserved"}]
  BY DEF TypeOK
<1> QED
  BY <1>1, Distinct DEF MovesFiles, files, Opened, OpenFailed, AllClosed, HandlerEnds, Close

LEMMA WorkMainServes ==
  ASSUME IInv, NEW t \in Threads, Works(t)
  PROVE  MainServes'
<1>1. /\ UNCHANGED <<sock, current>> /\ MovesFiles(t) /\ TypeOK /\ MainServes /\ Main \in Threads
      /\ Moves(t) /\ TInv
  BY WorkMoves, Distinct DEF IInv, TInv, sockets
<1>2. /\ pc[t] \notin Idle /\ \A u \in Threads \ {t} : pc'[u] = pc[u]
      /\ pc'[t] \in Fresh => pc[t] \in Fresh
  BY <1>1, MovedPlaces
<1>3. pc'[Main] \notin {"accept", "accepting"} => current \in Clients
  BY <1>1, <1>2 DEF MainServes, Idle
<1>4. pc'[Main] \in Fresh => pc'[current] = "none"
  <2>1. ASSUME pc'[Main] \in Fresh PROVE pc[Main] \in Fresh
    BY <1>1, <1>2, <2>1
  <2>2. ASSUME pc'[Main] \in Fresh
        PROVE  pc[current] = "none" /\ current \in Threads
    BY <1>1, <2>1, <2>2, Distinct DEF MainServes, Fresh
  <2> QED
    BY <1>2, <2>2 DEF Idle
<1>5. current \in Clients =>
        sock[Main] \in Numbers /\ (fd'[sock[Main]] \in Clients => fd'[sock[Main]] = current)
  BY <1>1, NoNewConnection DEF MainServes
<1>6. conn'[Main] # NULL => pc'[Main] \in {"recv", "read", "size"} /\ conn'[Main] = current
  <2>1. conn \in [Threads -> Clients \cup {NULL}]
    BY <1>1 DEF TypeOK
  <2>2. CASE Quiet(t)
    BY <1>1, <1>2, <2>2 DEF Quiet, MainServes
  <2>3. CASE enter(t)
    <3>1. /\ conn' = [conn EXCEPT ![t] = fd[sock[t]]] /\ fd[sock[t]] \in Clients
          /\ pc[t] \in {"recv", "read", "size"} /\ pc' = pc
      BY <2>3 DEF enter, Receiving
    <3>2. t = Main => current \in Clients
      BY <1>1, <3>1 DEF MainServes
    <3> QED
      BY <1>1, <2>1, <3>1, <3>2 DEF MainServes
  <2>4. CASE receiveFails(t) \/ take(t) \/ takeNothing(t) \/ takeSize(t)
    <3>1. conn' = [conn EXCEPT ![t] = NULL]
      BY <2>4 DEF receiveFails, take, takeNothing, takeSize
    <3> QED
      BY <1>1, <1>2, <2>1, <3>1 DEF MainServes
  <2>5. CASE t \in Clients /\ readFile(t)
    <3>1. conn' = conn /\ t # Main
      BY <2>5, Distinct DEF readFile
    <3> QED
      BY <1>1, <1>2, <3>1 DEF MainServes
  <2> QED
    BY <1>1, <2>2, <2>3, <2>4, <2>5, WorkHears DEF Receives
<1> QED
  BY <1>1, <1>3, <1>4, <1>5, <1>6 DEF MainServes

(* Pieces keep their origin when they move up.                              *)
From(s, c) == \A i \in DOMAIN s : s[i] # NULL => s[i].from = c

LEMMA ConsFrom ==
  ASSUME NEW c, NEW e \in Piece, e # NULL => e.from = c, NEW r \in Seq(Piece), From(r, c)
  PROVE  From(<<e>> \o r, c)
<1>1. <<e>> \in Seq(Piece) /\ Len(<<e>>) = 1 /\ <<e>>[1] = e
  BY OneElement
<1>2. DOMAIN r = 1 .. Len(r) /\ Len(r) \in Nat
  OBVIOUS
<1>3. /\ DOMAIN (<<e>> \o r) = 1 .. Len(r) + 1
      /\ \A i \in 1 .. Len(r) + 1 : (<<e>> \o r)[i] = IF i = 1 THEN e ELSE r[i - 1]
  BY <1>1, <1>2
<1>4. ASSUME NEW i \in 1 .. Len(r) + 1
      PROVE  i = 1 \/ i - 1 \in DOMAIN r
  BY <1>2
<1> QED
  BY <1>3, <1>4 DEF From

LEMMA OriginKept ==
  ASSUME NEW s \in Seq(Piece), NEW c \in Clients, From(s, c), s # <<>>
  PROVE  /\ Head(s) # NULL => Head(s).from = c
         /\ \A k \in 1 .. Len(s) : From(SubSeq(s, k + 1, Len(s)), c)
         /\ \A rest \in Remainders(c) : From(rest \o Tail(s), c)
<1>1. DOMAIN s = 1 .. Len(s) /\ Len(s) \in Nat /\ 1 \in DOMAIN s /\ Head(s) = s[1]
  BY HeadTailProperties
<1>2. Head(s) # NULL => Head(s).from = c
  BY <1>1 DEF From
<1>3. ASSUME NEW k \in 1 .. Len(s)
      PROVE  From(SubSeq(s, k + 1, Len(s)), c)
  <2> DEFINE r == SubSeq(s, k + 1, Len(s))
  <2>1. k + 1 \in Int /\ Len(s) \in Int /\ k \in Nat
    BY <1>1
  <2>2. Len(r) = Len(s) - k /\ DOMAIN r = 1 .. Len(s) - k
    <3>1. \A i \in k + 1 .. Len(s) : s[i] \in Piece
      BY <1>3, ElementOfSeq
    <3>2. Len(r) = IF k + 1 <= Len(s) THEN Len(s) - (k + 1) + 1 ELSE 0
      BY <2>1, <3>1, SubSeqProperties
    <3>3. r \in Seq(Piece)
      BY <2>1, <3>1, SubSeqProperties
    <3>4. k \in Nat /\ k <= Len(s) /\ 1 <= k
      BY <1>1, <1>3
    <3> DEFINE n == Len(s)
    <3> HIDE DEF r, n
    <3>5. n \in Nat
      BY <1>1 DEF n
    <3>6. (IF k + 1 <= n THEN n - (k + 1) + 1 ELSE 0) = n - k
      <4>1. k <= n
        BY <3>4 DEF n
      <4> QED
        BY <3>4, <3>5, <4>1
    <3>7. Len(r) = Len(s) - k
      BY <3>2, <3>6 DEF n
    <3> QED
      BY <3>7, <3>3
  <2>3. ASSUME NEW i \in 1 .. Len(s) - k PROVE r[i] = s[k + i] /\ k + i \in DOMAIN s
    BY <1>1, <1>3, <2>1, <2>3
  <2> QED
    BY <2>2, <2>3 DEF From
<1>4. ASSUME NEW rest \in Remainders(c)
      PROVE  From(rest \o Tail(s), c)
  <2>1. /\ DOMAIN Tail(s) = 1 .. Len(s) - 1 /\ Len(Tail(s)) = Len(s) - 1
        /\ \A i \in 1 .. Len(s) - 1 : Tail(s)[i] = s[i + 1]
    BY <1>1
  <2>2. \A i \in DOMAIN Tail(s) : Tail(s)[i] # NULL => Tail(s)[i].from = c
    <3> SUFFICES ASSUME NEW i \in 1 .. Len(s) - 1, s[i + 1] # NULL
                 PROVE  s[i + 1].from = c
      BY <2>1
    <3> QED
      BY <1>1 DEF From
  <2>3. From(Tail(s), c) /\ Tail(s) \in Seq(Piece)
    BY <2>2, HeadTailProperties DEF From
  <2> DEFINE last == [cmd |-> "other", more |-> 2, from |-> c]
  <2>4. last \in Piece /\ last.from = c /\ NULL \in Piece
    BY DEF Piece, Commands
  <2>5. rest = <<>> \/ rest = <<NULL>> \/ rest = <<last>>
    BY DEF Remainders
  <2> HIDE DEF last
  <2>6. CASE rest = <<>>
    BY <2>3, <2>6
  <2>7. CASE rest = <<NULL>>
    BY <2>3, <2>4, <2>7, ConsFrom
  <2>8. CASE rest = <<last>>
    BY <2>3, <2>4, <2>8, ConsFrom
  <2> QED
    BY <2>5, <2>6, <2>7, <2>8
<1> QED
  BY <1>2, <1>3, <1>4

LEMMA WorkOrigins ==
  ASSUME IInv, NEW t \in Threads, Works(t)
  PROVE  Origins'
<1>1. /\ UNCHANGED <<current, phase>> /\ TInv /\ TypeOK /\ MainServes /\ Main \in Threads
      /\ Moves(t) /\ \A c \in Clients : From(stream[c], c)
  BY WorkMoves, Distinct DEF IInv, TInv, sockets, clients, Origins, From
<1>2. /\ stream \in [Clients -> Seq(Piece)] /\ conn \in [Threads -> Clients \cup {NULL}]
      /\ message \in [Threads -> Piece] /\ pc \in [Threads -> Places]
      /\ \A u \in Threads \ {t} : pc'[u] = pc[u]
  BY <1>1, MovedPlaces DEF TypeOK
<1>3. \A c \in Clients : From(stream'[c], c)
  <2>1. ASSUME UNCHANGED stream PROVE \A c \in Clients : From(stream'[c], c)
    BY <1>1, <2>1
  <2>2. ASSUME NEW s \in Seq(Piece), conn[t] \in Clients, From(s, conn[t]),
               stream' = [stream EXCEPT ![conn[t]] = s]
        PROVE  \A c \in Clients : From(stream'[c], c)
    BY <1>1, <1>2, <2>2
  <2>3. CASE take(t)
    <3>1. conn[t] \in Clients
      BY <1>2, <2>3 DEF take
    <3>2. PICK k \in 1 .. Len(stream[conn[t]]) :
            stream' = [stream EXCEPT ![conn[t]] = SubSeq(@, k + 1, Len(@))]
      BY <2>3 DEF take
    <3>3. stream[conn[t]] \in Seq(Piece) /\ stream[conn[t]] # <<>> /\ From(stream[conn[t]], conn[t])
      BY <1>1, <1>2, <3>1
    <3>4. /\ SubSeq(stream[conn[t]], k + 1, Len(stream[conn[t]])) \in Seq(Piece)
          /\ From(SubSeq(stream[conn[t]], k + 1, Len(stream[conn[t]])), conn[t])
      BY <3>1, <3>3, Pieces, OriginKept
    <3> QED
      BY <2>2, <3>1, <3>2, <3>4
  <2>4. CASE takeSize(t)
    <3>1. conn[t] \in Clients
      BY <1>2, <2>4 DEF takeSize
    <3>2. ASSUME stream[conn[t]] # <<>>, NEW rest \in Remainders(conn[t]),
                 stream' = [stream EXCEPT ![conn[t]] = rest \o Tail(@)]
          PROVE  \A c \in Clients : From(stream'[c], c)
      <4>1. stream[conn[t]] \in Seq(Piece) /\ From(stream[conn[t]], conn[t])
        BY <1>1, <1>2, <3>1
      <4>2. /\ rest \o Tail(stream[conn[t]]) \in Seq(Piece)
            /\ From(rest \o Tail(stream[conn[t]]), conn[t])
        BY <3>1, <3>2, <4>1, Pieces, OriginKept
      <4> QED
        BY <2>2, <3>1, <3>2, <4>2
    <3> QED
      BY <2>1, <2>4, <3>2 DEF takeSize
  <2>5. CASE Quiet(t) \/ enter(t) \/ receiveFails(t) \/ takeNothing(t) \/ readFile(t)
    BY <2>1, <2>5 DEF Quiet, enter, receiveFails, takeNothing, readFile
  <2> QED
    BY <1>1, <2>3, <2>4, <2>5, WorkHears DEF Receives
<1> DEFINE Own == message[Main] = NULL \/ message[Main].from = current \/ phase[current] = "left"
<1>4. ASSUME pc[Main] \in Handling PROVE Own
  BY <1>4 DEF IInv, Origins
<1>5. ASSUME pc'[Main] \in Handling
      PROVE  message'[Main] = NULL \/ message'[Main].from = current \/ phase[current] = "left"
  <2>1. CASE t # Main
    <3>1. message'[Main] = message[Main] /\ pc'[Main] = pc[Main]
      <4>1. CASE Quiet(t)
        BY <1>1, <1>2, <2>1, <4>1 DEF Quiet
      <4>2. CASE Receives(t)
        BY <1>1, <1>2, <2>1, <4>2, ReceiveTyped
      <4> QED
        BY <1>1, <4>1, <4>2, WorkHears
    <3> QED
      BY <1>4, <1>5, <3>1
  <2>2. CASE t = Main /\ UNCHANGED message /\ pc[Main] \in Handling
    BY <1>4, <2>2
  <2>3. CASE t = Main /\ Quiet(t)
    <3>1. pc[Main] \in Handling /\ UNCHANGED message
      BY <1>5, <2>3 DEF Quiet, Handling
    <3> QED
      BY <2>2, <2>3, <3>1
  <2>4. CASE t = Main /\ take(t)
    <3>1. conn[Main] \in Clients /\ message' = [message EXCEPT ![Main] = Head(stream[conn[Main]])]
          /\ stream[conn[Main]] # <<>>
      <4>1. conn[Main] \in Clients /\ stream[conn[Main]] \in Seq(Piece)
        BY <1>2, <2>4, Distinct DEF take
      <4>2. PICK k \in 1 .. Len(stream[conn[Main]]) :
              message' = [message EXCEPT ![Main] = Head(stream[conn[Main]])]
        BY <2>4 DEF take
      <4> QED
        BY <4>1, <4>2, Pieces
    <3>2. conn[Main] = current
      BY <1>1, <3>1, Distinct DEF MainServes
    <3>3. message'[Main] = Head(stream[conn[Main]])
      BY <1>1, <1>2, <3>1
    <3>4. Head(stream[conn[Main]]) # NULL => Head(stream[conn[Main]]).from = conn[Main]
      BY <1>1, <1>2, <3>1, OriginKept
    <3> QED
      BY <3>2, <3>3, <3>4
  <2>5. CASE t = Main /\ takeNothing(t)
    <3>1. conn[Main] \in Clients /\ Gone(conn[Main])
      BY <1>2, <2>5 DEF takeNothing
    <3>2. conn[Main] = current /\ current \in Clients
      BY <1>1, <3>1, Distinct DEF MainServes
    <3>3. phase[current] \in {"idle", "connected", "waiting", "left"}
      BY <1>1, <3>2 DEF TypeOK
    <3>4. phase[current] # "idle"
      BY <3>2 DEF IInv, Arrivals
    <3> QED
      BY <3>1, <3>2, <3>3, <3>4 DEF Gone, Open
  <2>6. CASE t = Main /\ (enter(t) \/ receiveFails(t) \/ takeSize(t))
    <3>1. UNCHANGED message
      BY <2>6 DEF enter, receiveFails, takeSize, parser
    <3>2. pc[Main] \in Handling
      <4>1. CASE enter(t)
        BY <1>5, <4>1 DEF enter
      <4>2. CASE receiveFails(t)
        <5>1. pc' = pc \/ pc' = [pc EXCEPT ![Main] = "accept"]
          BY <2>6, <4>2 DEF receiveFails, Finish, Goto, Done
        <5> QED
          BY <1>1, <1>2, <1>5, <5>1 DEF Handling, Behind
      <4>3. CASE takeSize(t)
        BY <2>6, <4>3 DEF takeSize, At, Handling, Behind
      <4> QED
        BY <2>6, <4>1, <4>2, <4>3
    <3> QED
      BY <2>2, <2>6, <3>1, <3>2
  <2> QED
    BY <1>1, <2>1, <2>3, <2>4, <2>5, <2>6, Distinct, WorkHears DEF Receives
<1> QED
  BY <1>1, <1>3, <1>5 DEF Origins, From

(* In time: a connection's number is closed by its handler only,            *)
LEMMA ConnectionStays ==
  ASSUME TypeOK, HandlerServes, FilesOwned, NEW t \in Threads, pc[t] \notin Idle, MovesFiles(t),
         NEW n \in Numbers, fd[n] \in Clients, HandlerEnds(t) => fd[n] # t
  PROVE  fd'[n] = fd[n]
<1>1. fd \in [Numbers -> Clients \cup {NULL, "file", "reserved"}]
  BY DEF TypeOK
<1>2. n \notin Opens(t)
  BY Distinct DEF FilesOwned
<1>3. CASE UNCHANGED files \/ Opened(t) \/ OpenFailed(t) \/ AllClosed(t)
  BY <1>1, <1>2, <1>3, Distinct DEF files, Opened, OpenFailed, AllClosed, Close
<1>4. CASE HandlerEnds(t)
  <2>1. t \in Clients /\ fd[sock[t]] = t
    BY <1>4, Distinct DEF HandlerEnds, HandlerServes, Active, Idle
  <2>2. n # sock[t]
    BY <1>4, <2>1
  <2> QED
    BY <1>1, <1>2, <1>4, <2>2 DEF HandlerEnds, Close
<1> QED
  BY <1>3, <1>4 DEF MovesFiles

(* and files are closed by the thread that has opened them, or lost.        *)
LEMMA FilesStayOwned ==
  ASSUME TypeOK, HandlerServes, FilesOwned, NEW t \in Threads, pc[t] \notin Idle, MovesFiles(t)
  PROVE  FilesOwned'
<1>1. /\ fd \in [Numbers -> Clients \cup {NULL, "file", "reserved"}] /\ leaked \subseteq Numbers
      /\ held \in [Threads -> Seq(0 .. MaxFd)]
  BY DEF TypeOK
<1>2. \A u \in Threads \ {t} : held'[u] = held[u] /\ Opens(u)' = Opens(u)
  BY MovedFilesTyped DEF Opens
<1>3. \A u \in Threads : Opens(u) \subseteq Numbers
  BY OpensAreNumbers
<1>4. /\ \A u \in Threads : \A m \in Opens(u) : fd[m] = "file" /\ m \notin leaked
      /\ \A u, v \in Threads : u # v => Opens(u) \cap Opens(v) = {}
      /\ \A m \in Numbers : fd[m] = "file" => m \in leaked \/ \E u \in Threads : m \in Opens(u)
      /\ \A m \in leaked : fd[m] = "file"
  BY DEF FilesOwned
<1>5. ASSUME NEW n, held' = [held EXCEPT ![t] = Append(@, n)]
      PROVE  Opens(t)' = (Opens(t) \cup {n}) \ {Failed}
  <2>1. held[t] \in Seq(0 .. MaxFd) /\ held'[t] = Append(held[t], n)
    BY <1>1, <1>5
  <2>2. /\ DOMAIN held[t] = 1 .. Len(held[t]) /\ DOMAIN held'[t] = 1 .. Len(held[t]) + 1
        /\ held'[t][Len(held[t]) + 1] = n /\ Len(held[t]) \in Nat
        /\ \A i \in 1 .. Len(held[t]) : held'[t][i] = held[t][i]
    BY <2>1
  <2>3. {held'[t][i] : i \in DOMAIN held'[t]} = {held[t][i] : i \in DOMAIN held[t]} \cup {n}
    <3> DEFINE len == Len(held[t])
    <3>1. len \in Nat /\ 1 .. len + 1 = 1 .. len \cup {len + 1}
      BY <2>2
    <3> HIDE DEF len
    <3>2. /\ DOMAIN held[t] = 1 .. len /\ DOMAIN held'[t] = 1 .. len \cup {len + 1}
          /\ held'[t][len + 1] = n /\ \A i \in 1 .. len : held'[t][i] = held[t][i]
      BY <2>2, <3>1 DEF len
    <3> QED
      BY <3>2
  <2> QED
    BY <2>3 DEF Opens
<1>6. ASSUME held' = [held EXCEPT ![t] = <<>>]
      PROVE  Opens(t)' = {}
  BY <1>1, <1>6 DEF Opens
<1>7. CASE UNCHANGED files
  BY <1>7 DEF files, FilesOwned, Opens
<1>8. CASE Opened(t)
  <2>1. PICK n \in Numbers : /\ fd[n] = NULL /\ fd' = [fd EXCEPT ![n] = "file"]
                             /\ held' = [held EXCEPT ![t] = Append(@, n)] /\ UNCHANGED leaked
    BY <1>8 DEF Opened
  <2>2. Opens(t)' = Opens(t) \cup {n}
    <3>1. Failed \notin Opens(t) /\ n # Failed
      BY <1>3, Distinct DEF Failed
    <3> QED
      BY <1>5, <2>1, <3>1
  <2>3. /\ \A u \in Threads : n \notin Opens(u)
        /\ n \notin leaked
    BY <2>1, Distinct DEF FilesOwned
  <2>4. \A m \in Numbers : fd'[m] = IF m = n THEN "file" ELSE fd[m]
    BY <1>1, <2>1
  <2>5. \A u \in Threads : Opens(u)' = IF u = t THEN Opens(t) \cup {n} ELSE Opens(u)
    BY <1>2, <2>2
  <2>6. \A u \in Threads : \A m \in Opens(u)' : fd'[m] = "file" /\ m \notin leaked'
    BY <1>3, <1>4, <2>1, <2>3, <2>4, <2>5
  <2>7. \A u, v \in Threads : u # v => Opens(u)' \cap Opens(v)' = {}
    BY <1>4, <2>3, <2>5
  <2>8. \A m \in Numbers : fd'[m] = "file" => m \in leaked' \/ \E u \in Threads : m \in Opens(u)'
    BY <1>4, <2>1, <2>4, <2>5
  <2>9. \A m \in leaked' : fd'[m] = "file"
    BY <1>1, <1>4, <2>1, <2>4
  <2> QED
    BY <2>6, <2>7, <2>8, <2>9 DEF FilesOwned
<1>9. CASE OpenFailed(t)
  <2>1. Opens(t)' = Opens(t)
    BY <1>5, <1>9 DEF OpenFailed, Opens
  <2>2. \A u \in Threads : Opens(u)' = Opens(u)
    BY <1>2, <2>1
  <2> QED
    BY <1>9, <2>2 DEF OpenFailed, FilesOwned
<1>10. CASE AllClosed(t)
  <2>1. \A u \in Threads : Opens(u)' = IF u = t THEN {} ELSE Opens(u)
    BY <1>2, <1>6, <1>10 DEF AllClosed
  <2>2. leaked' = leaked /\ \A n \in Numbers : fd'[n] = IF n \in Opens(t) THEN NULL ELSE fd[n]
    BY <1>4, <1>10 DEF AllClosed, Close
  <2>3. \A u \in Threads : \A m \in Opens(u)' : fd'[m] = "file" /\ m \notin leaked'
    BY <1>3, <1>4, <2>1, <2>2
  <2>4. \A u, v \in Threads : u # v => Opens(u)' \cap Opens(v)' = {}
    BY <1>4, <2>1
  <2>5. \A m \in Numbers : fd'[m] = "file" => m \in leaked' \/ \E u \in Threads : m \in Opens(u)'
    BY <1>4, <2>1, <2>2, Distinct
  <2>6. \A m \in leaked' : fd'[m] = "file"
    BY <1>1, <1>4, <2>2
  <2> QED
    BY <2>3, <2>4, <2>5, <2>6 DEF FilesOwned
<1>11. CASE HandlerEnds(t)
  <2>1. PICK closed \in SUBSET Opens(t) :
          /\ Close(closed \cup {sock[t]}) /\ held' = [held EXCEPT ![t] = <<>>]
          /\ leaked' = leaked \cup (Opens(t) \ closed)
    BY <1>11 DEF HandlerEnds
  <2>2. \A u \in Threads : Opens(u)' = IF u = t THEN {} ELSE Opens(u)
    BY <1>2, <1>6, <2>1
  <2>3. t \in Clients /\ sock[t] \in Numbers /\ fd[sock[t]] = t
    BY <1>11, Distinct DEF HandlerEnds, HandlerServes, Active, Idle
  <2>4. \A n \in Numbers : fd'[n] = IF n \in closed \cup {sock[t]} THEN NULL ELSE fd[n]
    <3>1. \A n \in closed \cup {sock[t]} : fd[n] # "reserved"
      BY <1>4, <2>3, Distinct
    <3> QED
      BY <2>1, <3>1 DEF Close
  <2>5. sock[t] \notin leaked /\ \A u \in Threads : sock[t] \notin Opens(u)
    BY <2>3, Distinct DEF FilesOwned
  <2>6. \A u \in Threads : \A m \in Opens(u)' : fd'[m] = "file" /\ m \notin leaked'
    BY <1>1, <1>3, <1>4, <2>1, <2>2, <2>4, <2>5
  <2>7. \A u, v \in Threads : u # v => Opens(u)' \cap Opens(v)' = {}
    BY <1>4, <2>2
  <2>8. \A m \in Numbers : fd'[m] = "file" => m \in leaked' \/ \E u \in Threads : m \in Opens(u)'
    BY <1>4, <2>1, <2>2, <2>4, Distinct
  <2>9. \A m \in leaked' : fd'[m] = "file"
    BY <1>1, <1>3, <1>4, <2>1, <2>4, <2>5
  <2> QED
    BY <2>6, <2>7, <2>8, <2>9 DEF FilesOwned
<1> QED
  BY <1>7, <1>8, <1>9, <1>10, <1>11 DEF MovesFiles

LEMMA WorkInTime ==
  ASSUME IInv, NEW t \in Threads, Works(t)
  PROVE  InTime'
<1>1. /\ UNCHANGED <<sock, current, late>> /\ TInv /\ TypeOK /\ MainServes /\ Main \in Threads
      /\ Moves(t) /\ MovesFiles(t)
  BY WorkMoves, Distinct DEF IInv, TInv, sockets
<1>2. SUFFICES ASSUME ~late, Connected, HandlerServes, FilesOwned
               PROVE  Connected' /\ HandlerServes' /\ FilesOwned'
  BY <1>1 DEF IInv, InTime
<1>3. /\ pc[t] \notin Idle /\ \A u \in Threads \ {t} : pc'[u] = pc[u]
      /\ pc'[t] \notin {"none", "new"} /\ (pc'[t] \in Fresh => pc[t] \in Fresh)
      /\ HandlerEnds(t) => pc'[t] = "ended" /\ t \in Clients
  <2>1. HandlerEnds(t) => pc'[t] = "ended" /\ t \in Clients
    BY <1>1, Distinct DEF HandlerEnds, TypeOK
  <2> QED
    BY <1>1, <2>1, MovedPlaces
<1>4. FilesOwned'
  BY <1>1, <1>2, <1>3, FilesStayOwned
<1>5. Connected'
  <2> SUFFICES ASSUME current \in Clients,
                      pc'[Main] \in Fresh \/ pc'[current] \notin {"none", "ended"}
               PROVE  fd'[sock[Main]] = current
    BY <1>1 DEF Connected
  <2>1. pc'[Main] \in Fresh => pc[Main] \in Fresh
    BY <1>1, <1>3
  <2>2. pc'[current] \notin {"none", "ended"} => pc[current] \notin {"none", "ended"}
    BY <1>3, Distinct DEF Idle
  <2>3. fd[sock[Main]] = current /\ sock[Main] \in Numbers
    BY <1>1, <1>2, <2>1, <2>2 DEF Connected, MainServes
  <2>4. ~(HandlerEnds(t) /\ current = t)
    BY <1>1, <1>3, <2>1 DEF MainServes, Idle
  <2> QED
    BY <1>1, <1>2, <1>3, <2>3, <2>4, ConnectionStays
<1>6. ASSUME NEW c \in Clients
      PROVE  /\ Active(c)' => sock[c] \in Numbers /\ fd'[sock[c]] = c
             /\ conn'[c] \in {NULL, c}
             /\ message'[c] # NULL => message'[c].from = c
  <2>1. c \in Threads /\ c # Main /\ (Active(c)' => Active(c))
    BY <1>3, Distinct DEF Active, Idle
  <2>2. Active(c)' => sock[c] \in Numbers /\ fd'[sock[c]] = c
    <3>1. SUFFICES ASSUME Active(c)', sock[c] \in Numbers, fd[sock[c]] = c
                   PROVE  fd'[sock[c]] = c
      BY <1>2, <2>1 DEF HandlerServes
    <3>2. HandlerEnds(t) => t # c
      BY <1>3, <3>1 DEF Active
    <3> QED
      BY <1>1, <1>2, <1>3, <3>1, <3>2, ConnectionStays
  <2>3. /\ conn \in [Threads -> Clients \cup {NULL}] /\ message \in [Threads -> Piece]
        /\ stream \in [Clients -> Seq(Piece)] /\ conn[c] \in {NULL, c}
        /\ message[c] # NULL => message[c].from = c
    BY <1>1, <1>2 DEF TypeOK, HandlerServes
  <2>4. conn'[c] \in {NULL, c}
    <3>1. CASE Quiet(t) \/ readFile(t)
      BY <2>3, <3>1 DEF Quiet, readFile
    <3>2. CASE enter(t)
      <4>1. t = c => fd[sock[t]] = c
        BY <1>2, <1>3 DEF HandlerServes, Active, Idle
      <4> QED
        BY <2>1, <2>3, <3>2, <4>1 DEF enter
    <3>3. CASE receiveFails(t) \/ take(t) \/ takeNothing(t) \/ takeSize(t)
      <4>1. conn' = [conn EXCEPT ![t] = NULL]
        BY <3>3 DEF receiveFails, take, takeNothing, takeSize
      <4> QED
        BY <2>1, <2>3, <4>1
    <3> QED
      BY <1>1, <3>1, <3>2, <3>3, WorkHears DEF Receives
  <2>5. message'[c] # NULL => message'[c].from = c
    <3>1. CASE message'[c] = message[c]
      BY <2>3, <3>1
    <3>2. CASE t # c
      BY <1>1, <2>1, <2>3, <3>2, WorkHears, ReceiveTyped DEF Quiet
    <3>3. CASE t = c /\ (Quiet(t) \/ enter(t) \/ receiveFails(t) \/ takeSize(t) \/ takeNothing(t))
      <4>1. UNCHANGED message
        BY <2>1, <3>3 DEF Quiet, enter, receiveFails, takeSize, takeNothing, parser
      <4> QED
        BY <3>1, <4>1
    <3>4. CASE t = c /\ take(t)
      <4>1. conn[c] = c /\ stream[c] \in Seq(Piece)
        BY <2>3, <3>4 DEF take
      <4>2. PICK k \in 1 .. Len(stream[c]) : message' \in {message, [message EXCEPT ![c] = Head(stream[c])]}
        BY <3>4, <4>1 DEF take
      <4>3. From(stream[c], c) /\ stream[c] # <<>>
        BY <4>1, <4>2, Pieces DEF IInv, Origins, From
      <4>4. Head(stream[c]) # NULL => Head(stream[c]).from = c
        BY <4>1, <4>3, OriginKept
      <4> QED
        BY <2>1, <2>3, <4>2, <4>4
    <3>5. CASE t = c /\ readFile(t)
      BY <1>2, <3>5, Distinct DEF readFile, At, HandlerServes, Active
    <3> QED
      BY <1>1, <3>2, <3>3, <3>4, <3>5, WorkHears DEF Receives
  <2> QED
    BY <2>2, <2>4, <2>5
<1>7. HandlerServes'
  BY <1>1, <1>6 DEF HandlerServes
<1> QED
  BY <1>4, <1>5, <1>7

(* An answer goes to the connection its sender's number stands for.         *)
LEMMA WorkAnswers ==
  ASSUME IInv, AnswersReachAsker, NEW t \in Threads, Works(t)
  PROVE  AnswersReachAsker'
<1>1. UNCHANGED <<current, late>> /\ TInv /\ TypeOK /\ Main \in Threads
  BY WorkMoves, Distinct DEF IInv, TInv, sockets
<1>2. SUFFICES ASSUME ~late PROVE \A c \in Clients : got'[c] \subseteq {c}
  BY <1>1 DEF AnswersReachAsker
<1>3. \A c \in Clients : got[c] \subseteq {c}
  BY <1>2 DEF AnswersReachAsker
<1>4. CASE UNCHANGED got
  BY <1>3, <1>4
<1>5. CASE pc[t] \in Behind /\ Deliver(t)
  <2>1. got \in [Clients -> SUBSET (Clients \cup {NULL})] /\ message[t] # NULL
    BY <1>1, <1>5 DEF TInv, TypeOK, Understood
  <2>2. SUFFICES ASSUME Peer(t) \in Clients, Open(Peer(t))
                 PROVE  message[t].from = Peer(t)
    BY <1>3, <1>5, <2>1 DEF Deliver
  <2>3. CASE t = Main
    <3>1. pc[Main] \in Handling /\ pc[Main] \notin {"accept", "accepting"}
      BY <1>5, <2>3 DEF Handling, Behind
    <3>2. Peer(t) = current
      BY <2>2, <2>3, <3>1 DEF IInv, MainServes, Peer
    <3>3. phase[current] # "left"
      BY <2>2, <3>2 DEF Open
    <3> QED
      BY <2>1, <2>3, <3>1, <3>2, <3>3 DEF IInv, Origins
  <2>4. CASE t # Main
    <3>1. t \in Clients /\ Active(t)
      BY <1>5, <2>4, Distinct DEF Active, Behind
    <3> QED
      BY <1>2, <2>1, <3>1 DEF IInv, InTime, HandlerServes, Peer
  <2> QED
    BY <2>3, <2>4
<1>6. Receives(t) => UNCHANGED got
  BY <1>1, ReceiveTyped
<1> QED
  BY <1>1, <1>4, <1>5, <1>6, WorkHears DEF Quiet

-----------------------------------------------------------------------------
(* The arrival of a connection.  Files do not care what becomes of numbers  *)
(* that stand for something else,                                           *)
LEMMA OtherNumbers ==
  ASSUME FilesOwned, TypeOK, UNCHANGED <<held, leaked>>,
         \A n \in Numbers : fd'[n] = fd[n] \/ (fd[n] # "file" /\ fd'[n] # "file")
  PROVE  FilesOwned'
<1>1. \A t \in Threads : Opens(t)' = Opens(t) /\ Opens(t) \subseteq Numbers
  BY OpensAreNumbers DEF Opens
<1>2. leaked' = leaked /\ leaked \subseteq Numbers
  BY DEF TypeOK
<1>3. \A n \in Numbers : fd'[n] = "file" <=> fd[n] = "file"
  OBVIOUS
<1>4. \A t \in Threads : \A n \in Opens(t)' : fd'[n] = "file" /\ n \notin leaked'
  BY <1>1, <1>2, <1>3 DEF FilesOwned
<1>5. \A t, u \in Threads : t # u => Opens(t)' \cap Opens(u)' = {}
  BY <1>1 DEF FilesOwned
<1>6. \A n \in Numbers : fd'[n] = "file" => n \in leaked' \/ \E t \in Threads : n \in Opens(t)'
  BY <1>1, <1>2, <1>3 DEF FilesOwned
<1>7. \A n \in leaked' : fd'[n] = "file"
  BY <1>2, <1>3 DEF FilesOwned
<1> QED
  BY <1>4, <1>5, <1>6, <1>7 DEF FilesOwned

(* nor do handlers, if it was not their client's connection.                *)
LEMMA OtherConnections ==
  ASSUME HandlerServes, UNCHANGED <<conn, message>>,
         \A c \in Clients : pc'[c] = pc[c] /\ sock'[c] = sock[c],
         \A c \in Clients : \A n \in Numbers : Active(c) /\ fd[n] = c => fd'[n] = c
  PROVE  HandlerServes'
  BY DEF HandlerServes, Active

(* Connections that wait are clients'.                                      *)
LEMMA Waiting ==
  ASSUME TypeOK
  PROVE  /\ DOMAIN backlog = 1 .. Len(backlog) /\ Len(backlog) \in Nat
         /\ \A i \in DOMAIN backlog : backlog[i] \in Clients
<1>1. backlog \in Seq(Clients)
  BY DEF TypeOK
<1>2. DOMAIN backlog = 1 .. Len(backlog) /\ Len(backlog) \in Nat
  BY <1>1
<1> QED
  BY <1>1, <1>2, ElementOfSeq

LEMMA ReserveKeeps ==
  ASSUME IInv, reserve
  PROVE  Arrivals' /\ MainServes' /\ Origins' /\ InTime'
<1>1. /\ UNCHANGED <<conn, sock, current, late, message, held, leaked, backlog, phase, stream>>
      /\ pc[Main] = "accept"
  BY DEF reserve, At, sockets, parser, clients
<1>2. TypeOK /\ pc \in [Threads -> Places] /\ Main \in Threads
      /\ fd \in [Numbers -> Clients \cup {NULL, "file", "reserved"}]
  BY Distinct DEF IInv, TInv, TypeOK
<1>3. pc'[Main] \in {"accept", "accepting"} /\ \A c \in Clients : pc'[c] = pc[c]
  <2>1. pc' = pc \/ pc' = [pc EXCEPT ![Main] = "accepting"]
    BY DEF reserve, Goto
  <2> QED
    BY <1>1, <1>2, <2>1, Distinct
<1>4. \A n \in Numbers : fd'[n] = fd[n] \/ (fd[n] = NULL /\ fd'[n] = "reserved")
  <2>1. fd' = fd \/ (Free # {} /\ fd' = [fd EXCEPT ![Lowest] = "reserved"])
    BY DEF reserve
  <2> QED
    BY <1>2, <2>1, LowestIsFree
<1>5. Arrivals'
  BY <1>1, <1>2, <1>3, Waiting DEF IInv, Arrivals
<1>6. MainServes'
  BY <1>1, <1>3, <1>4, Distinct DEF IInv, MainServes, Fresh
<1>7. Origins'
  BY <1>1, <1>3 DEF IInv, Origins, Handling, Behind
<1>8. ASSUME ~late, Connected, HandlerServes, FilesOwned
      PROVE  Connected' /\ HandlerServes' /\ FilesOwned'
  <2>1. Connected'
    BY <1>1, <1>3, <1>4, <1>8, Distinct DEF IInv, MainServes, Connected, Fresh
  <2>2. HandlerServes'
    BY <1>1, <1>3, <1>4, <1>8, OtherConnections, Distinct
  <2>3. FilesOwned'
    BY <1>1, <1>2, <1>4, <1>8, OtherNumbers, Distinct
  <2> QED
    BY <2>1, <2>2, <2>3
<1> QED
  BY <1>1, <1>5, <1>6, <1>7, <1>8 DEF IInv, InTime

LEMMA AcceptKeeps ==
  ASSUME IInv, accept
  PROVE  Arrivals' /\ MainServes' /\ Origins' /\ InTime'
<1>1. /\ UNCHANGED <<conn, late, message, held, leaked, phase, stream>>
      /\ pc[Main] = "accepting" /\ backlog # <<>>
      /\ current' = Head(backlog) /\ backlog' = Tail(backlog)
  BY DEF accept, At, parser
<1>2. /\ TypeOK /\ pc \in [Threads -> Places] /\ sock \in [Threads -> 0 .. MaxFd] /\ Main \in Threads
      /\ fd \in [Numbers -> Clients \cup {NULL, "file", "reserved"}] /\ backlog \in Seq(Clients)
  BY Distinct DEF IInv, TInv, TypeOK
<1>3. pc'[Main] = "check" /\ \A c \in Clients : pc'[c] = pc[c]
  BY <1>2, Distinct DEF accept, Goto
<1>4. PICK n \in Numbers : /\ fd[n] = "reserved" /\ fd' = [fd EXCEPT ![n] = Head(backlog)]
                           /\ sock' = [sock EXCEPT ![Main] = n]
  BY DEF accept
<1>5. 1 \in DOMAIN backlog /\ Head(backlog) = backlog[1] /\ Head(backlog) \in Clients
  BY <1>1, <1>2, HeadTailProperties, Waiting
<1>6. /\ pc[Head(backlog)] = "none" /\ phase[Head(backlog)] # "idle"
  BY <1>5 DEF IInv, Arrivals
<1>7. /\ sock'[Main] = n /\ fd'[n] = Head(backlog)
      /\ \A m \in Numbers \ {n} : fd'[m] = fd[m]
      /\ \A c \in Clients : sock'[c] = sock[c]
  BY <1>2, <1>4, Distinct
<1>8. Arrivals'
  <2>1. \A i \in DOMAIN Tail(backlog) : /\ Tail(backlog)[i] = backlog[i + 1]
                                        /\ i + 1 \in DOMAIN backlog /\ i + 1 # 1 /\ i \in Int
    <3>1. /\ Len(backlog) \in Nat /\ DOMAIN backlog = 1 .. Len(backlog)
          /\ DOMAIN Tail(backlog) = 1 .. Len(backlog) - 1
          /\ \A i \in 1 .. Len(backlog) - 1 : Tail(backlog)[i] = backlog[i + 1]
      BY <1>1, <1>2
    <3> QED
      BY <3>1
  <2>2. \A i \in DOMAIN backlog' : /\ pc'[backlog'[i]] = "none" /\ phase'[backlog'[i]] # "idle"
                                   /\ backlog'[i] # current'
    <3> SUFFICES ASSUME NEW i \in DOMAIN Tail(backlog)
                 PROVE  /\ pc'[backlog[i + 1]] = "none" /\ phase[backlog[i + 1]] # "idle"
                        /\ backlog[i + 1] # backlog[1]
      BY <1>1, <1>5, <2>1
    <3>1. i + 1 \in DOMAIN backlog /\ i + 1 # 1
      BY <2>1
    <3>2. backlog[i + 1] \in Clients
      BY <1>2, <3>1, Waiting
    <3> QED
      BY <1>3, <1>5, <3>1, <3>2 DEF IInv, Arrivals
  <2>3. \A i, j \in DOMAIN backlog' : backlog'[i] = backlog'[j] => i = j
    <3> SUFFICES ASSUME NEW i \in DOMAIN Tail(backlog), NEW j \in DOMAIN Tail(backlog),
                        backlog[i + 1] = backlog[j + 1]
                 PROVE  i = j
      BY <1>1, <2>1
    <3>1. i + 1 = j + 1
      BY <2>1 DEF IInv, Arrivals
    <3> QED
      BY <2>1, <3>1
  <2>4. \A c \in Clients : phase'[c] = "idle" => pc'[c] = "none" /\ current' # c
    BY <1>1, <1>3, <1>6 DEF IInv, Arrivals
  <2> QED
    BY <2>2, <2>3, <2>4 DEF Arrivals
<1>9. MainServes' /\ Connected'
  <2>1. conn[Main] = NULL
    BY <1>1 DEF IInv, MainServes
  <2> QED
    BY <1>1, <1>3, <1>5, <1>6, <1>7, <2>1 DEF MainServes, Connected
<1>10. Origins'
  BY <1>1, <1>3 DEF IInv, Origins, Handling, Behind
<1>11. ASSUME ~late, HandlerServes, FilesOwned
       PROVE  HandlerServes' /\ FilesOwned'
  <2>1. HandlerServes'
    BY <1>1, <1>3, <1>4, <1>7, <1>11, OtherConnections, Distinct
  <2>2. FilesOwned'
    BY <1>1, <1>2, <1>4, <1>5, <1>7, <1>11, OtherNumbers, Distinct
  <2> QED
    BY <2>1, <2>2
<1> QED
  BY <1>1, <1>8, <1>9, <1>10, <1>11 DEF IInv, InTime

LEMMA CheckKeeps ==
  ASSUME IInv, check
  PROVE  Arrivals' /\ MainServes' /\ Origins' /\ InTime'
<1>1. /\ UNCHANGED <<conn, sock, current, late, message, held, leaked, backlog, phase, stream>>
      /\ pc[Main] = "check"
  BY DEF check, At, sockets, parser, clients
<1>2. /\ TypeOK /\ pc \in [Threads -> Places] /\ Main \in Threads
      /\ fd \in [Numbers -> Clients \cup {NULL, "file", "reserved"}]
  BY Distinct DEF IInv, TInv, TypeOK
<1>3. /\ \/ pc'[Main] = "accept" /\ Close({sock[Main]})
         \/ pc'[Main] = "devices" /\ fd' = fd
      /\ \A c \in Clients : pc'[c] = pc[c]
  BY <1>2, Distinct DEF check, Goto
<1>4. \A n \in Numbers : fd'[n] = fd[n] \/ (n = sock[Main] /\ fd'[n] = NULL)
  BY <1>3 DEF Close
<1>5. current \in Clients /\ sock[Main] \in Numbers /\ pc[current] = "none"
  BY <1>1 DEF IInv, MainServes, Fresh
<1>6. Arrivals'
  BY <1>1, <1>2, <1>3, Waiting DEF IInv, Arrivals
<1>7. MainServes'
  <2>1. conn[Main] = NULL
    BY <1>1 DEF IInv, MainServes
  <2> QED
    BY <1>1, <1>3, <1>4, <1>5, <2>1, Distinct DEF IInv, MainServes
<1>8. Origins'
  BY <1>1, <1>3 DEF IInv, Origins, Handling, Behind
<1>9. ASSUME ~late, Connected, HandlerServes, FilesOwned
      PROVE  Connected' /\ HandlerServes' /\ FilesOwned'
  <2>1. fd[sock[Main]] = current
    BY <1>1, <1>5, <1>9 DEF Connected, Fresh
  <2>2. Connected'
    BY <1>1, <1>3, <1>5, <2>1 DEF Connected, Fresh
  <2>3. HandlerServes'
    <3>1. \A c \in Clients : \A n \in Numbers : Active(c) /\ fd[n] = c => fd'[n] = c
      BY <1>4, <1>5, <2>1 DEF Active
    <3> QED
      BY <1>1, <1>3, <1>9, <3>1, OtherConnections
  <2>4. FilesOwned'
    BY <1>1, <1>2, <1>4, <1>5, <1>9, <2>1, OtherNumbers, Distinct
  <2> QED
    BY <2>2, <2>3, <2>4
<1> QED
  BY <1>1, <1>6, <1>7, <1>8, <1>9 DEF IInv, InTime

LEMMA SpawnKeeps ==
  ASSUME IInv, spawn
  PROVE  Arrivals' /\ MainServes' /\ Origins' /\ InTime'
<1>1. /\ UNCHANGED <<conn, sock, current, late, message, held, fd, leaked, backlog, phase, stream>>
      /\ pc[Main] = "spawn"
  BY DEF spawn, At, sockets, parser, files, clients
<1>2. TypeOK /\ pc \in [Threads -> Places] /\ Main \in Threads
  BY Distinct DEF IInv, TInv, TypeOK
<1>3. current \in Clients /\ pc[current] = "none" /\ conn[Main] = NULL
  BY <1>1 DEF IInv, MainServes, Fresh
<1>4. /\ pc'[current] \in {"none", "new"} /\ \A c \in Clients \ {current} : pc'[c] = pc[c]
      /\ pc'[Main] = "recv" \/ (pc'[Main] = "spawn" /\ pc'[current] = "none")
  BY <1>1, <1>2, <1>3, Distinct DEF spawn, Goto
<1>5. Arrivals'
  BY <1>1, <1>2, <1>4, Waiting DEF IInv, Arrivals
<1>6. MainServes'
  BY <1>1, <1>3, <1>4 DEF IInv, MainServes, Fresh
<1>7. Origins'
  BY <1>1, <1>4 DEF IInv, Origins, Handling, Behind
<1>8. ASSUME ~late, Connected, HandlerServes, FilesOwned
      PROVE  Connected' /\ HandlerServes' /\ FilesOwned'
  <2>1. Connected'
    BY <1>1, <1>3, <1>8 DEF Connected, Fresh
  <2>2. HandlerServes'
    BY <1>1, <1>4, <1>8 DEF HandlerServes, Active
  <2>3. FilesOwned'
    BY <1>1, <1>2, <1>8, OtherNumbers
  <2> QED
    BY <2>1, <2>2, <2>3
<1> QED
  BY <1>1, <1>5, <1>6, <1>7, <1>8 DEF IInv, InTime

(* A handler that starts in time finds in main's client_sock the number of  *)
(* its own client.                                                          *)
LEMMA StartKeeps ==
  ASSUME IInv, NEW c \in Clients, start(c)
  PROVE  Arrivals' /\ MainServes' /\ Origins' /\ InTime'
<1>1. /\ UNCHANGED <<conn, current, message, held, fd, leaked, backlog, phase, stream>>
      /\ pc[c] = "new" /\ late' = (late \/ current # c)
  BY DEF start, At, parser, files, clients
<1>2. /\ TypeOK /\ pc \in [Threads -> Places] /\ sock \in [Threads -> 0 .. MaxFd]
      /\ Main \in Threads /\ c \in Threads /\ c # Main
  BY Distinct DEF IInv, TInv, TypeOK
<1>3. /\ pc'[c] = "recv" /\ \A u \in Threads \ {c} : pc'[u] = pc[u] /\ sock'[u] = sock[u]
      /\ sock'[c] = sock[Main]
  BY <1>2 DEF start, Goto
<1>4. pc'[Main] = pc[Main] /\ sock'[Main] = sock[Main] /\ Clients \subseteq Threads
  BY <1>2, <1>3, Distinct
<1>5. Arrivals'
  <2>1. \A d \in Clients : pc[d] = "none" => pc'[d] = "none"
    BY <1>1, <1>3, <1>4
  <2> QED
    BY <1>1, <1>2, <2>1, Waiting DEF IInv, Arrivals
<1>6. MainServes'
  <2>1. pc'[Main] \in Fresh => pc'[current] = "none"
    <3>1. pc[Main] \in Fresh => current \in Clients /\ pc[current] = "none"
      BY DEF IInv, MainServes, Fresh
    <3> QED
      BY <1>1, <1>3, <1>4, <3>1
  <2> QED
    BY <1>1, <1>4, <2>1 DEF IInv, MainServes
<1>7. Origins'
  BY <1>1, <1>4 DEF IInv, Origins
<1>8. ASSUME ~late'
      PROVE  Connected' /\ HandlerServes' /\ FilesOwned'
  <2>1. ~late /\ current = c /\ Connected /\ HandlerServes /\ FilesOwned
    BY <1>1, <1>8 DEF IInv, InTime
  <2>2. fd[sock[Main]] = c /\ sock[Main] \in Numbers
    BY <1>1, <2>1 DEF IInv, MainServes, Connected
  <2>3. Connected'
    BY <1>1, <1>4, <2>1, <2>2 DEF Connected
  <2>4. HandlerServes'
    BY <1>1, <1>3, <1>4, <2>1, <2>2 DEF HandlerServes, Active
  <2>5. FilesOwned'
    BY <1>1, <1>2, <2>1, OtherNumbers
  <2> QED
    BY <2>3, <2>4, <2>5
<1> QED
  BY <1>5, <1>6, <1>7, <1>8 DEF InTime

(* Clients connect once, send what is their own, and do not come back.      *)
LEMMA ClientKeeps ==
  ASSUME IInv, NEW c \in Clients, ClientMoves(c)
  PROVE  Arrivals' /\ MainServes' /\ Origins' /\ InTime'
<1>1. UNCHANGED <<pc, conn, sock, current, late, message, held, fd, leaked>>
  BY ClientEffect DEF IInv, control, sockets, parser, files
<1>2. TInv /\ TypeOK /\ Main \in Threads /\ backlog \in Seq(Clients)
  BY Distinct DEF IInv, TInv, TypeOK
<1>3. \A d \in Clients : phase'[d] = phase[d] \/ (phase'[d] # "idle" /\ phase[d] # "left")
  BY <1>2, ClientEffect
<1>4. Arrivals'
  <2>1. CASE UNCHANGED backlog
    BY <1>1, <1>2, <1>3, <2>1, Waiting DEF IInv, Arrivals
  <2>2. CASE phase[c] = "idle" /\ phase'[c] # "idle" /\ backlog' = Append(backlog, c)
    <3> DEFINE len == Len(backlog)
    <3>1. /\ len \in Nat /\ DOMAIN backlog = 1 .. len
          /\ DOMAIN backlog' = 1 .. len + 1
          /\ backlog'[len + 1] = c /\ \A i \in 1 .. len : backlog'[i] = backlog[i]
      BY <1>2, <2>2
    <3> HIDE DEF len
    <3>2. 1 .. len + 1 = 1 .. len \cup {len + 1}
      BY <3>1
    <3>3. pc[c] = "none" /\ current # c /\ \A i \in DOMAIN backlog : backlog[i] # c
      BY <2>2 DEF IInv, Arrivals
    <3>4. \A i \in DOMAIN backlog : backlog[i] \in Clients
      BY <1>2, Waiting
    <3>5. \A i \in DOMAIN backlog' : /\ pc'[backlog'[i]] = "none" /\ phase'[backlog'[i]] # "idle"
                                     /\ backlog'[i] # current'
      BY <1>1, <1>3, <2>2, <3>1, <3>2, <3>3, <3>4 DEF IInv, Arrivals
    <3>6. \A i, j \in DOMAIN backlog' : backlog'[i] = backlog'[j] => i = j
      BY <3>1, <3>2, <3>3 DEF IInv, Arrivals
    <3>7. \A d \in Clients : phase'[d] = "idle" => pc'[d] = "none" /\ current' # d
      BY <1>1, <1>3 DEF IInv, Arrivals
    <3> QED
      BY <3>5, <3>6, <3>7 DEF Arrivals
  <2> QED
    BY <1>2, <2>1, <2>2, ClientEffect
<1>5. MainServes'
  BY <1>1 DEF IInv, MainServes
<1>6. Origins'
  <2>1. stream \in [Clients -> Seq(Piece)] /\ \A d \in Clients : From(stream[d], d)
    BY <1>2 DEF IInv, TypeOK, Origins, From
  <2>2. \A d \in Clients : From(stream'[d], d)
    <3>1. ASSUME NEW shape \in Seq(Words \cup {NULL}),
                 stream' = [stream EXCEPT ![c] =
                   [i \in DOMAIN shape |-> IF shape[i] = NULL THEN NULL
                      ELSE [cmd |-> shape[i].cmd, more |-> shape[i].more, from |-> c]]]
          PROVE  \A d \in Clients : From(stream'[d], d)
      <4>1. /\ DOMAIN stream'[c] = DOMAIN shape
            /\ \A i \in DOMAIN shape : \/ stream'[c][i] = NULL
                                       \/ stream'[c][i] = [cmd |-> shape[i].cmd,
                                             more |-> shape[i].more, from |-> c]
        BY <2>1, <3>1
      <4>2. From(stream'[c], c)
        <5>1. \A cmd, more : [cmd |-> cmd, more |-> more, from |-> c].from = c
          OBVIOUS
        <5>2. \A i \in DOMAIN stream'[c] : stream'[c][i] # NULL => stream'[c][i].from = c
          <6> SUFFICES ASSUME NEW i \in DOMAIN shape, stream'[c][i] # NULL
                       PROVE  stream'[c][i].from = c
            BY <4>1
          <6>1. stream'[c][i] = [cmd |-> shape[i].cmd, more |-> shape[i].more, from |-> c]
            BY <4>1, Zenon
          <6> QED
            BY <5>1, <6>1, Zenon
        <5> QED
          BY <5>2 DEF From
      <4>3. \A d \in Clients \ {c} : stream'[d] = stream[d]
        BY <2>1, <3>1
      <4> QED
        BY <2>1, <4>2, <4>3
    <3> QED
      BY <1>2, <2>1, <3>1, ClientEffect
  <2>3. phase[current] = "left" /\ current \in Clients => phase'[current] = "left"
    BY <1>3
  <2>4. pc[Main] \in Handling => current \in Clients
    BY DEF IInv, MainServes, Handling, Behind
  <2>5. pc[Main] \in Handling =>
          message[Main] = NULL \/ message[Main].from = current \/ phase[current] = "left"
    BY DEF IInv, Origins
  <2>6. pc'[Main] \in Handling =>
          message'[Main] = NULL \/ message'[Main].from = current' \/ phase'[current'] = "left"
    BY <1>1, <2>3, <2>4, <2>5
  <2> QED
    BY <2>2, <2>6 DEF Origins, From
<1>7. InTime'
  <2>1. ~late' => Connected' /\ HandlerServes'
    BY <1>1 DEF IInv, InTime, Connected, HandlerServes, Active
  <2>2. ~late' => FilesOwned'
    BY <1>1, <1>2, OtherNumbers DEF IInv, InTime
  <2> QED
    BY <2>1, <2>2 DEF InTime
<1> QED
  BY <1>4, <1>5, <1>6, <1>7

(* Nothing happens.                                                         *)
LEMMA StutterKeeps ==
  ASSUME IInv, UNCHANGED vars
  PROVE  Arrivals' /\ MainServes' /\ Origins' /\ InTime'
<1>1. UNCHANGED <<pc, conn, sock, current, late, message, held, fd, leaked, backlog, phase, stream>>
  BY DEF vars, control, sockets, parser, files, clients
<1>2. Arrivals' /\ MainServes' /\ Origins'
  BY <1>1 DEF IInv, Arrivals, MainServes, Origins
<1>3. InTime'
  BY <1>1 DEF IInv, InTime, Connected, HandlerServes, Active, FilesOwned, Opens
<1> QED
  BY <1>2, <1>3

LEMMA StepIInv ==
  ASSUME IInv, [Next]_vars
  PROVE  IInv'
<1>1. TInv'
  <2>1. TInv
    BY DEF IInv
  <2> QED
    BY <2>1, StepTInv
<1>2. Arrivals' /\ MainServes' /\ Origins' /\ InTime'
  BY Steps, WorkArrivals, WorkMainServes, WorkOrigins, WorkInTime, ReserveKeeps, AcceptKeeps,
     CheckKeeps, SpawnKeeps, StartKeeps, ClientKeeps, StutterKeeps
<1> QED
  BY <1>1, <1>2 DEF IInv

(* Nothing but an answer is delivered.                                      *)
LEMMA StepAnswers ==
  ASSUME IInv, AnswersReachAsker, [Next]_vars
  PROVE  AnswersReachAsker'
<1>1. CASE \E t \in Threads : Works(t)
  BY <1>1, WorkAnswers
<1>2. ASSUME UNCHANGED got, late => late' PROVE AnswersReachAsker'
  BY <1>2 DEF AnswersReachAsker
<1>3. CASE reserve \/ accept \/ check \/ spawn \/ UNCHANGED vars
  BY <1>2, <1>3 DEF reserve, accept, check, spawn, vars, sockets
<1>4. CASE \E c \in Clients : start(c)
  BY <1>2, <1>4 DEF start
<1>5. CASE \E c \in Clients : ClientMoves(c)
  BY <1>2, <1>5, ClientEffect DEF IInv, sockets
<1> QED
  BY <1>1, <1>3, <1>4, <1>5, Steps

(* server.c:189 closes by number, and main's client_sock is the handler's:  *)
(* whatever the clients do, whatever fails to open and in whatever order    *)
(* the threads go, as long as no handler has read client_sock after main    *)
(* had changed it every handler's number is its client's connection, no two *)
(* threads have a file open under one number, and every open file is some   *)
(* thread's or was lost by a handler's GET.                                 *)
THEOREM DescriptorsAlwaysOwned == Spec => []DescriptorsOwned
<1>1. Init => IInv
  BY InitIInv
<1>2. IInv /\ [Next]_vars => IInv'
  BY StepIInv
<1>3. IInv => DescriptorsOwned
  BY DEF IInv, InTime, HandlerServes, FilesOwned, DescriptorsOwned
<1> QED
  BY <1>1, <1>2, <1>3, PTL DEF Spec

(* Main and the handler of a connection both receive from it and both       *)
(* answer to a number: as long as no handler has started late a client gets *)
(* an answer only to what it has sent itself, even when main goes on with a *)
(* message it had before.                                                   *)
THEOREM AnswersAlwaysReachAsker == Spec => []AnswersReachAsker
<1>1. Init => IInv /\ AnswersReachAsker
  BY InitIInv DEF Init, AnswersReachAsker
<1>2. IInv /\ AnswersReachAsker /\ [Next]_vars => (IInv /\ AnswersReachAsker)'
  BY StepIInv, StepAnswers
<1> QED
  BY <1>1, <1>2, PTL DEF Spec
-----------------------------------------------------------------------------
(* What a thread waits for.  It holds files only in a command, and never    *)
(* more than it has opened there; a handler that still fills its buffer has *)
(* room; and nobody takes away the number accept has reserved.              *)
Opened3 == {"devices", "GET", "PUT"}
Holding(t) ==
  /\ held[t] = <<>> \/ pc[t] \in Opened3 \cup {"send", "size"} \/ (t # Main /\ pc[t] = "close")
  /\ pc[t] \in Opened3 => Len(held[t]) <= Wanted(t)
Filling(c) == pc[c] \in {"none", "new", "recv"} => filled[c] < Buffer
Reserved   == \A t \in Threads :
  pc[t] = "accepting" => t = Main /\ \E n \in Numbers : fd[n] = "reserved"

PInv == (\A t \in Threads : Holding(t)) /\ (\A c \in Clients : Filling(c)) /\ Reserved

LEMMA InitPInv == Init => PInv
<1> SUFFICES ASSUME Init PROVE PInv
  OBVIOUS
<1>1. \A t \in Threads : held[t] = <<>> /\ pc[t] \in {"accept", "none"}
  BY DEF Init
<1>2. \A c \in Clients : filled[c] = 0 /\ 0 < Buffer
  BY Distinct DEF Init
<1> QED
  BY <1>1, <1>2, Distinct DEF PInv, Holding, Filling, Reserved, Opened3

(* A thread that holds nothing, and one that opens one more.                *)
LEMMA HoldsNothing ==
  ASSUME NEW t, held'[t] = <<>>
  PROVE  Holding(t)'
<1>1. Len(held'[t]) = 0 /\ held'[t] # <<Failed>>
  BY DEF Failed
<1>2. pc'[t] \in Opened3 => Wanted(t)' \in {1, 2, 3}
  BY <1>1 DEF Wanted, Opened3
<1> QED
  BY <1>1, <1>2 DEF Holding

LEMMA HoldsOneMore ==
  ASSUME TypeOK, NEW t \in Threads, NEW n \in 0 .. MaxFd, pc' = pc, pc[t] \in Opened3,
         Len(held[t]) < Wanted(t), held' = [held EXCEPT ![t] = Append(@, n)]
  PROVE  Holding(t)'
<1>1. held[t] \in Seq(0 .. MaxFd) /\ held'[t] = Append(held[t], n)
  BY DEF TypeOK
<1>2. Len(held'[t]) = Len(held[t]) + 1 /\ Len(held[t]) \in Nat
  BY <1>1
<1>3. Len(<<Failed>>) = 1
  OBVIOUS
<1>4. Wanted(t) \in {1, 2, 3}
  BY DEF Wanted, Opened3
<1>5. CASE pc[t] = "PUT"
  <2>1. held[t] = <<Failed>> => Wanted(t) = 1 /\ Len(held[t]) = 1
    BY <1>3, <1>5 DEF Wanted
  <2>2. Wanted(t) = 3
    BY <1>2, <2>1, <1>5 DEF Wanted
  <2>3. Len(held'[t]) <= 3
    BY <1>2, <2>2
  <2>4. held'[t] = <<Failed>> => Len(held'[t]) = 1
    BY <1>3
  <2>5. Wanted(t)' = IF held'[t] = <<Failed>> THEN 1 ELSE 3
    BY <1>5 DEF Wanted
  <2>6. Len(held'[t]) <= Wanted(t)'
    BY <1>2, <2>3, <2>4, <2>5
  <2> QED
    BY <1>5, <2>6 DEF Holding, Opened3
<1>6. CASE pc[t] # "PUT"
  <2>1. Wanted(t)' = Wanted(t)
    BY <1>6 DEF Wanted, Opened3
  <2> QED
    BY <1>2, <1>4, <2>1 DEF Holding, Opened3
<1> QED
  BY <1>5, <1>6

(* What a working thread does with what it holds.                           *)
LEMMA WorkHolds ==
  ASSUME TInv, NEW t \in Threads, Works(t), Holding(t)
  PROVE  Holding(t)'
<1>1. /\ TypeOK /\ pc \in [Threads -> Places] /\ held \in [Threads -> Seq(0 .. MaxFd)]
      /\ \A place : Goto(t, place) => pc'[t] = place
  BY DEF TInv, TypeOK, Goto
<1>2. ASSUME UNCHANGED <<pc, held>> PROVE Holding(t)'
  BY <1>2 DEF Holding, Wanted
<1>3. ASSUME held' = [held EXCEPT ![t] = <<>>] PROVE Holding(t)'
  BY <1>1, <1>3, HoldsNothing
<1>4. ASSUME UNCHANGED held, pc[t] \notin Opened3 \cup {"send", "size", "close"} PROVE Holding(t)'
  BY <1>4, HoldsNothing DEF Holding
<1>5. ASSUME NEW closed, Finish(t, closed) PROVE Holding(t)'
  BY <1>2, <1>3, <1>5 DEF Finish, files
<1>6. CASE open(t)
  <2>1. /\ pc' = pc /\ pc[t] \in Opened3 /\ Len(held[t]) < Wanted(t)
        /\ \/ Free # {} /\ held' = [held EXCEPT ![t] = Append(@, Lowest)]
           \/ held' = [held EXCEPT ![t] = Append(@, Failed)]
    BY <1>6 DEF open, Opening, control, Opened3
  <2>2. (Free # {} => Lowest \in 0 .. MaxFd) /\ Failed \in 0 .. MaxFd
    BY LowestIsFree, Distinct DEF Failed
  <2> QED
    BY <1>1, <2>1, <2>2, HoldsOneMore
<1>7. CASE enter(t)
  BY <1>2, <1>7 DEF enter, files
<1>8. CASE receiveFails(t)
  BY <1>3, <1>5, <1>8 DEF receiveFails
<1>9. CASE take(t)
  BY <1>4, <1>9 DEF take, Receiving, files, Opened3
<1>10. CASE takeNothing(t)
  <2>1. Finish(t, {}) \/ (UNCHANGED held /\ pc[t] \in {"recv", "read"})
    BY <1>10 DEF takeNothing, Receiving, files
  <2> QED
    BY <1>4, <1>5, <2>1 DEF Opened3
<1>11. CASE takeSize(t)
  BY <1>3, <1>11 DEF takeSize
<1>12. CASE parse(t) \/ words(t)
  <2>1. pc[t] \in {"parse", "words"} /\ (Finish(t, {}) \/ UNCHANGED held)
    BY <1>12 DEF parse, words, At, files
  <2> QED
    BY <1>4, <1>5, <2>1 DEF Opened3
<1>13. CASE answer(t)
  BY <1>4, <1>13 DEF answer, At, files, Opened3
<1>14. CASE getOpened(t)
  <2>1. (\E closed : Finish(t, closed)) \/ (Goto(t, "send") /\ UNCHANGED held)
    BY <1>14 DEF getOpened, files
  <2> QED
    BY <1>1, <1>5, <2>1 DEF Holding, Opened3
<1>15. CASE send(t) \/ sigpipe(t) \/ (t = Main /\ farewell)
  BY <1>2, <1>15 DEF send, sigpipe, farewell, control, files
<1>16. CASE sendFails(t)
  BY <1>5, <1>16 DEF sendFails
<1>17. CASE endSend(t)
  <2>1. held' = [held EXCEPT ![t] = <<>>] \/ (t # Main /\ UNCHANGED held /\ Goto(t, "close"))
    BY <1>17 DEF endSend, Done
  <2> QED
    BY <1>1, <1>3, <2>1 DEF Holding, Opened3
<1>18. CASE putOpened(t)
  <2>1. held' = [held EXCEPT ![t] = <<>>] \/ (UNCHANGED held /\ Goto(t, "size"))
    BY <1>18 DEF putOpened
  <2> QED
    BY <1>1, <1>3, <2>1 DEF Holding, Opened3
<1>19. CASE t = Main /\ writeDevices
  BY <1>2, <1>3, <1>19 DEF writeDevices, files
<1>20. CASE t \in Clients /\ readFile(t)
  BY <1>4, <1>20 DEF readFile, At, files, Opened3
<1>21. CASE t \in Clients /\ close(t)
  BY <1>5, <1>21 DEF close
<1> QED
  BY <1>6, <1>7, <1>8, <1>9, <1>10, <1>11, <1>12, <1>13, <1>14, <1>15, <1>16, <1>17, <1>18, <1>19,
     <1>20, <1>21 DEF Works, ThreadStep

(* A handler fills its buffer as far as there is room, and goes on to its   *)
(* last read when it is full.                                               *)
LEMMA WorkFills ==
  ASSUME TInv, NEW t \in Threads, Works(t), \A c \in Clients : Filling(c)
  PROVE  \A c \in Clients : Filling(c)'
<1>1. /\ pc \in [Threads -> Places] /\ filled \in [Clients -> 0 .. Buffer]
      /\ pc' \in [Threads -> Places] /\ Buffer \in Nat
      /\ \A u \in Threads \ {t} : pc'[u] = pc[u]
  BY WorkTInv, WorkMoves, MovedPlaces, Distinct DEF TInv, TypeOK
<1>2. ASSUME UNCHANGED filled, t = Main \/ pc'[t] \notin {"none", "new", "recv"} \/ pc' = pc
      PROVE  \A c \in Clients : Filling(c)'
  BY <1>1, <1>2, Distinct DEF Filling
<1>3. \A place : Goto(t, place) => pc'[t] = place
  BY <1>1 DEF Goto
<1>4. \A closed : Finish(t, closed) => t = Main \/ pc'[t] = "ended"
  BY <1>3 DEF Finish
<1>5. CASE take(t)
  <2>1. CASE t # Main /\ pc[t] = "recv"
    <3>1. t \in Clients /\ filled[t] \in 0 .. Buffer
      BY <1>1, <2>1, Distinct
    <3>2. PICK k \in 1 .. Len(stream[conn[t]]) :
            /\ k <= Buffer - filled[t] /\ filled' = [filled EXCEPT ![t] = @ + k]
            /\ Goto(t, IF filled[t] + k = Buffer THEN "read" ELSE "recv")
      BY <1>5, <2>1 DEF take, Room
    <3>3. stream[conn[t]] \in Seq(Piece)
      BY <1>5, <3>1, Distinct DEF take, TInv, TypeOK
    <3>4. k \in Nat
      BY <3>2, <3>3
    <3>5. filled[t] + k = Buffer \/ filled[t] + k < Buffer
      BY <1>1, <3>1, <3>2, <3>4
    <3>6. filled'[t] = filled[t] + k /\ \A c \in Clients \ {t} : filled'[c] = filled[c]
      BY <1>1, <3>1, <3>2
    <3>7. Filling(t)'
      BY <1>3, <3>2, <3>5, <3>6 DEF Filling
    <3> QED
      BY <1>1, <3>6, <3>7, Distinct DEF Filling
  <2>2. CASE t = Main \/ pc[t] # "recv"
    <3>1. UNCHANGED filled /\ Goto(t, "parse")
      BY <1>5, <2>2 DEF take
    <3> QED
      BY <1>2, <1>3, <3>1
  <2> QED
    BY <2>1, <2>2
<1>6. CASE enter(t) \/ open(t) \/ send(t) \/ sigpipe(t)
  BY <1>2, <1>6 DEF enter, open, send, sigpipe, control, parser
<1>7. CASE receiveFails(t)
  <2>1. Done(t) \in {"accept", "close"} /\ UNCHANGED filled
    BY <1>7 DEF receiveFails, Done, parser
  <2>2. t = Main \/ pc'[t] \in {"accept", "close", "ended"}
    BY <1>3, <1>4, <1>7, <2>1 DEF receiveFails
  <2> QED
    BY <1>2, <2>1, <2>2
<1>8. CASE takeNothing(t) \/ (t \in Clients /\ readFile(t))
  <2>1. UNCHANGED filled /\ (Goto(t, "parse") \/ Finish(t, {}))
    BY <1>8 DEF takeNothing, readFile
  <2> QED
    BY <1>2, <1>3, <1>4, <2>1
<1>9. CASE takeSize(t)
  BY <1>2, <1>3, <1>9 DEF takeSize, parser
<1>10. CASE parse(t)
  <2>1. UNCHANGED filled /\ (Goto(t, "words") \/ Finish(t, {}))
    BY <1>10 DEF parse
  <2> QED
    BY <1>2, <1>3, <1>4, <2>1
<1>11. CASE words(t)
  <2>1. pc[t] = "words" /\ UNCHANGED filled
    BY <1>11 DEF words, At
  <2>2. message[t] \in [cmd : Commands, more : 0 .. 2, from : Clients \cup {NULL}]
    BY <2>1 DEF TInv, TypeOK, Piece, Understood, Behind
  <2>3. PICK w \in 0 .. 2 : Finish(t, {}) \/ Goto(t, Branch(t, w))
    BY <1>11, <2>2 DEF words
  <2>4. Branch(t, w) \in {"ended", "GET", "PUT", "answer", "farewell", "accept"}
    BY <2>2 DEF Branch, Commands
  <2> QED
    BY <1>2, <1>3, <1>4, <2>1, <2>3, <2>4
<1>12. CASE answer(t) \/ endSend(t)
  <2>1. Done(t) \in {"accept", "close"} /\ UNCHANGED filled /\ Goto(t, Done(t))
    BY <1>12 DEF answer, endSend, Done, parser
  <2> QED
    BY <1>2, <1>3, <2>1
<1>13. CASE getOpened(t) \/ sendFails(t)
  <2>1. UNCHANGED filled /\ (Goto(t, "send") \/ \E closed : Finish(t, closed))
    BY <1>13 DEF getOpened, sendFails, parser
  <2> QED
    BY <1>2, <1>3, <1>4, <2>1
<1>14. CASE putOpened(t)
  <2>1. Done(t) \in {"accept", "close"} /\ UNCHANGED filled /\ (Goto(t, Done(t)) \/ Goto(t, "size"))
    BY <1>14 DEF putOpened, Done, parser
  <2> QED
    BY <1>2, <1>3, <2>1
<1>15. CASE t = Main /\ (writeDevices \/ farewell)
  BY <1>2, <1>15 DEF writeDevices, farewell, parser
<1>16. CASE t \in Clients /\ close(t)
  BY <1>2, <1>4, <1>16 DEF close, parser
<1> QED
  BY <1>5, <1>6, <1>7, <1>8, <1>9, <1>10, <1>11, <1>12, <1>13, <1>14, <1>15, <1>16
     DEF Works, ThreadStep

(* A close leaves the number accept has reserved to it.                     *)
LEMMA WorkReserves ==
  ASSUME TInv, NEW t \in Threads, Works(t), Reserved
  PROVE  Reserved'
<1>1. TypeOK /\ Moves(t) /\ MovesFiles(t) /\ fd \in [Numbers -> Clients \cup {NULL, "file", "reserved"}]
  BY WorkMoves DEF TInv, TypeOK
<1>2. \A n \in Numbers : fd[n] = "reserved" => fd'[n] = "reserved"
  BY <1>1, Distinct DEF MovesFiles, files, Opened, OpenFailed, AllClosed, HandlerEnds, Close
<1>3. \A u \in Threads : pc'[u] = "accepting" => pc[u] = "accepting"
  <2>1. \A u \in Threads \ {t} : pc'[u] = pc[u]
    BY <1>1, MovedPlaces
  <2>2. \/ pc' = pc
        \/ \E place \in Places \ {"accepting"} : pc' = [pc EXCEPT ![t] = place]
    BY <1>1 DEF Moves, HandlerEnds, Places
  <2>3. pc'[t] = "accepting" => pc[t] = "accepting"
    BY <1>1, <2>2 DEF TypeOK
  <2> QED
    BY <2>1, <2>3
<1> QED
  BY <1>2, <1>3 DEF Reserved

LEMMA WorkPInv ==
  ASSUME TInv, PInv, NEW t \in Threads, Works(t)
  PROVE  PInv'
<1>1. TypeOK /\ Moves(t) /\ MovesFiles(t)
  BY WorkMoves DEF TInv
<1>2. \A u \in Threads \ {t} : held'[u] = held[u] /\ pc'[u] = pc[u]
  BY <1>1, MovedFilesTyped, MovedPlaces
<1>3. \A u \in Threads \ {t} : Holding(u)'
  BY <1>2 DEF PInv, Holding, Wanted
<1>4. Holding(t)' /\ Reserved' /\ \A c \in Clients : Filling(c)'
  BY WorkHolds, WorkFills, WorkReserves DEF PInv
<1> QED
  BY <1>3, <1>4 DEF PInv

LEMMA ArrivePInv ==
  ASSUME IInv, PInv, reserve \/ accept \/ check \/ spawn \/ \E c \in Clients : start(c)
  PROVE  PInv'
<1>1. /\ pc \in [Threads -> Places] /\ TypeOK /\ Main \in Threads
      /\ fd \in [Numbers -> Clients \cup {NULL, "file", "reserved"}]
  BY Distinct DEF IInv, TInv, TypeOK
<1>2. UNCHANGED <<held, filled>>
  BY DEF reserve, accept, check, spawn, start, parser, files
<1>3. ASSUME NEW t \in Threads, pc'[t] = pc[t] PROVE Holding(t)'
  BY <1>2, <1>3 DEF PInv, Holding, Wanted
<1>4. ASSUME NEW t \in Threads, pc[t] \in {"accept", "accepting", "check", "spawn", "none", "new"}
      PROVE  Holding(t)'
  BY <1>2, <1>4, HoldsNothing DEF PInv, Holding, Opened3
<1>5. CASE reserve \/ accept \/ check
  <2>1. /\ pc[Main] \in {"accept", "accepting", "check"}
        /\ \A c \in Clients : pc'[c] = pc[c]
    BY <1>1, <1>5, Distinct DEF reserve, accept, check, At, Goto
  <2>2. \A t \in Threads : Holding(t)'
    BY <1>3, <1>4, <2>1, Distinct
  <2>3. \A c \in Clients : Filling(c)'
    BY <1>2, <2>1 DEF PInv, Filling
  <2>4. Reserved'
    <3>1. CASE reserve
      <4>1. \/ pc' = pc
            \/ Free # {} /\ fd' = [fd EXCEPT ![Lowest] = "reserved"]
        BY <3>1 DEF reserve
      <4>2. Free # {} => Lowest \in Numbers
        BY <1>1, LowestIsFree
      <4>3. pc' = pc => pc'[Main] # "accepting"
        BY <3>1 DEF reserve, At
      <4>4. pc' # pc => \E n \in Numbers : fd'[n] = "reserved"
        BY <1>1, <4>1, <4>2
      <4> QED
        BY <2>1, <4>3, <4>4, Distinct DEF PInv, Reserved
    <3>2. CASE accept \/ check
      <4>1. pc'[Main] # "accepting"
        BY <1>1, <3>2 DEF accept, check, Goto
      <4> QED
        BY <2>1, <4>1, Distinct DEF PInv, Reserved
    <3> QED
      BY <1>5, <3>1, <3>2
  <2> QED
    BY <2>2, <2>3, <2>4 DEF PInv
<1>6. CASE spawn
  <2>1. pc[Main] = "spawn"
    BY <1>6 DEF spawn, At
  <2>2. current \in Clients /\ pc[current] = "none"
    BY <2>1 DEF IInv, MainServes, Fresh
  <2>3. \A t \in Threads \ {Main, current} : pc'[t] = pc[t]
    BY <1>1, <1>6 DEF spawn, Goto
  <2>4. pc'[Main] \in {"recv", "spawn"} /\ pc'[current] \in {"none", "new"}
    BY <1>1, <1>6, <2>1, <2>2, Distinct DEF spawn, Goto
  <2>5. \A t \in Threads : Holding(t)'
    BY <1>3, <1>4, <2>1, <2>2, <2>3
  <2>6. \A c \in Clients : Filling(c)'
    BY <1>2, <2>2, <2>3, Distinct DEF PInv, Filling
  <2>7. \A t \in Threads : pc'[t] # "accepting"
    <3>1. \A t \in Threads \ {Main} : pc[t] # "accepting"
      BY DEF PInv, Reserved
    <3> QED
      BY <2>3, <2>4, <3>1
  <2> QED
    BY <2>5, <2>6, <2>7 DEF PInv, Reserved
<1>7. ASSUME NEW c \in Clients, start(c) PROVE PInv'
  <2>1. pc[c] = "new" /\ pc' = [pc EXCEPT ![c] = "recv"] /\ UNCHANGED fd
    BY <1>7 DEF start, At, Goto, files
  <2>2. \A t \in Threads \ {c} : pc'[t] = pc[t]
    BY <1>1, <2>1
  <2>3. \A t \in Threads : Holding(t)'
    BY <1>3, <1>4, <2>1, <2>2
  <2>4. \A d \in Clients : Filling(d)'
    BY <1>2, <2>1, <2>2, Distinct DEF PInv, Filling
  <2>5. Reserved'
    <3>1. pc'[c] = "recv"
      BY <1>1, <2>1, Distinct
    <3> QED
      BY <2>1, <2>2, <3>1 DEF PInv, Reserved
  <2> QED
    BY <2>3, <2>4, <2>5 DEF PInv
<1> QED
  BY <1>5, <1>6, <1>7

LEMMA StepPInv ==
  ASSUME IInv, PInv, [Next]_vars
  PROVE  PInv'
<1>1. TInv
  BY DEF IInv
<1>2. CASE UNCHANGED <<control, parser, files>>
  BY <1>2 DEF control, parser, files, PInv, Holding, Wanted, Filling, Reserved
<1>3. CASE \E c \in Clients : ClientMoves(c)
  BY <1>1, <1>2, <1>3, ClientEffect
<1>4. CASE UNCHANGED vars
  BY <1>2, <1>4 DEF vars
<1> QED
  BY <1>1, <1>3, <1>4, Steps, WorkPInv, ArrivePInv

(* server.c:152-415: whatever the clients do, whatever fails to open and    *)
(* however threads share the numbers, also when handlers have started late, *)
(* a thread of a server that has not ended has a step to make or waits for  *)
(* its start, for a connection, or for a client that is there and has       *)
(* nothing under way: no thread is stuck because of another.                *)
THEOREM ThreadsWaitForClients == Spec => [](up => \A t \in Threads : MayGoOn(t) \/ Waits(t))
<1>1. IInv /\ PInv => \A t \in Threads : MayGoOn(t) \/ Waits(t)
  <2> SUFFICES ASSUME IInv, PInv, NEW t \in Threads PROVE MayGoOn(t) \/ Waits(t)
    OBVIOUS
  <2>1. /\ pc[t] \in Places /\ conn[t] \in Clients \cup {NULL} /\ Holding(t)
        /\ filled \in [Clients -> 0 .. Buffer] /\ Buffer \in Nat \ {0}
        /\ pc[t] = "words" => message[t] # NULL
    BY Distinct DEF IInv, TInv, TypeOK, Understood, Behind, PInv
  <2>2. CASE pc[t] \in {"recv", "read", "size"}
    <3>1. Room(t) > 0
      <4>1. t # Main /\ pc[t] = "recv" => filled[t] \in Nat /\ filled[t] < Buffer
        BY <2>1, Distinct DEF PInv, Filling
      <4> QED
        BY <2>1, <4>1 DEF Room
    <3> QED
      BY <2>2, <3>1 DEF MayGoOn, Waits, Gone
  <2>3. CASE pc[t] \in Opened3
    BY <2>1, <2>3 DEF Holding, Opened3, MayGoOn
  <2>4. CASE pc[t] = "accepting"
    BY <2>4 DEF PInv, Reserved, MayGoOn, Waits
  <2> QED
    BY <2>1, <2>2, <2>3, <2>4 DEF Places, Opened3, MayGoOn, Waits
<1>2. IInv /\ PInv /\ [Next]_vars => (IInv /\ PInv)'
  BY StepIInv, StepPInv
<1> QED
  BY <1>1, <1>2, InitIInv, InitPInv, PTL DEF Spec
=============================================================================
