---------------------------- MODULE DeviceService ----------------------------
(***************************************************************************)
(* PracticumIIV3: the file server with two USB devices (server.c), its     *)
(* client (fgets.c) and the connections between them.                      *)
(*                                                                         *)
(* For each connection main starts a handler thread and then receives from *)
(* the same connection itself.  The handler gets the address of main's     *)
(* client_sock and reads it when it runs, wants a buffer full of bytes     *)
(* before it looks at them, and closes the connection in the end, which    *)
(* main never does.  Threads share the process's descriptors: fd gives     *)
(* what each number stands for, and a number closed is given out again.    *)
(*                                                                         *)
(* Data flow in pieces, Buffer of which are the 8196 bytes both programs   *)
(* use: a piece is the words it begins with, or NULL if it begins with a   *)
(* NUL.  The trylocks of main always succeed: no other thread uses those   *)
(* mutexes.  Neither program's file names matter, nor does the text of an  *)
(* answer; whether a file opens is left to the environment.                *)
(***************************************************************************)
EXTENDS Integers, Sequences, FiniteSets

CONSTANTS Clients,
          Main,
          Shapes,    \* what clients send: sequences of words and NULL
          Killable,  \* bound: the clients that may be killed
          Buffer,    \* BUFFER_SIZE, in pieces
          MaxFd,     \* descriptors the process may have beside the first ones
          Backlog,   \* connections the kernel holds for accept
          NULL

Commands == {"GET", "INFO", "MD", "PUT", "other"}   \* RM goes as MD does
Words    == [cmd : Commands, more : 0 .. 2]

ASSUME DeviceServiceAssumption ==
  /\ Main \notin Clients /\ NULL \notin Clients \cup {Main} \cup Words
  /\ {"file", "reserved"} \cap (Clients \cup {NULL}) = {}
  /\ Killable \subseteq Clients /\ Shapes \subseteq Seq(Words \cup {NULL})
  /\ Buffer \in Nat \ {0} /\ MaxFd \in Nat \ {0} /\ Backlog \in Nat \ {0}

Threads == Clients \cup {Main}     \* the handler of a client has its name
Numbers == 1 .. MaxFd
Failed  == 0                       \* what open returns when it fails

VARIABLES
  up,        \* the server has not ended
  pc,        \* where each thread is
  conn,      \* the connection each thread is blocked on in recv
  sock,      \* client_sock of each thread
  held,      \* what each thread's opens have returned
  message,   \* what client_message of each thread begins with, and whose it is
  filled,    \* total_bytes_read of each handler
  cutter,    \* the thread whose buffer strtok is in the middle of
  fd,        \* the descriptors: NULL, a client's connection, "file", "reserved"
  backlog,   \* connections waiting for accept
  stream,    \* pieces on their way from each client
  phase,     \* where each client is
  broken,    \* connections on which the server may meet a reset
  got,       \* history: for whose messages each client got answers
  current,   \* history: the client main accepted last
  late,      \* history: a handler read client_sock after main had changed it
  leaked     \* history: descriptors their handler left open

parser   == <<message, filled, cutter>>
files    == <<held, fd, leaked>>
clients  == <<backlog, phase>>
control  == <<pc, conn>>
sockets  == <<sock, current, late>>
vars == <<up, control, sockets, parser, files, clients, stream, broken, got>>

(* A handler is "none" until main starts it, and "ended".                   *)
Places == {"none", "new", "ended", "accept", "accepting", "check", "devices", "spawn",
           "recv", "read", "parse", "words", "GET", "send", "PUT", "size",
           "answer", "farewell", "close"}
Active(c) == pc[c] \notin {"none", "new", "ended"}

Init ==
  /\ up = TRUE
  /\ pc = [t \in Threads |-> IF t = Main THEN "accept" ELSE "none"]
  /\ conn = [t \in Threads |-> NULL] /\ sock = [t \in Threads |-> 0]
  /\ held = [t \in Threads |-> <<>>]
  /\ message = [t \in Threads |-> NULL] /\ filled = [c \in Clients |-> 0]
  /\ cutter = NULL
  /\ fd = [n \in Numbers |-> NULL]
  /\ backlog = <<>> /\ stream = [c \in Clients |-> <<>>]
  /\ phase = [c \in Clients |-> "idle"] /\ broken = {}
  /\ got = [c \in Clients |-> {}]
  /\ current = NULL /\ late = FALSE /\ leaked = {}

-----------------------------------------------------------------------------
(* The client: "waiting" it reads until the end of the connection.          *)
Open(c) == phase[c] \in {"connected", "waiting"}

Connect(c) ==
  /\ up /\ phase[c] = "idle" /\ Len(backlog) < Backlog
  /\ backlog' = Append(backlog, c)
  /\ phase' = [phase EXCEPT ![c] = "connected"]
  /\ UNCHANGED <<up, control, sockets, parser, files, stream, broken, got>>

Send(c, shape, next) ==
  /\ up /\ phase[c] = "connected"
  /\ stream' = [stream EXCEPT ![c] =
       [i \in DOMAIN shape |-> IF shape[i] = NULL THEN NULL
                               ELSE [cmd |-> shape[i].cmd, more |-> shape[i].more, from |-> c]]]
  /\ phase' = [phase EXCEPT ![c] = next]
  /\ UNCHANGED <<up, control, sockets, parser, files, backlog, broken, got>>

(* GET of fgets sends "File ... written to USB devices" for a request, and  *)
(* so does a command it does not know.  The requests server.c parses come   *)
(* from other programs, which read the answer as fgets does.                *)
WrittenLine == <<[cmd |-> "other", more |-> 2]>>
Ask(c) == \E shape \in Shapes \cup {WrittenLine} : Send(c, shape, "waiting")

(* INFO sends what the client knows of the file and leaves; MD and RM send  *)
(* to an uninitialized descriptor, which may happen to be the connection.   *)
Tell(c) == \E cmd \in {"other", "MD"} : Send(c, <<[cmd |-> cmd, more |-> 2]>>, "left")

(* A client that finds no file, fails to open the devices (PUT always does: *)
(* fgets.c:213 assigns), or is killed while it waits.                       *)
Leave(c) ==
  /\ up /\ (phase[c] = "connected" \/ (phase[c] = "waiting" /\ c \in Killable))
  /\ phase' = [phase EXCEPT ![c] = "left"]
  /\ broken' = IF got[c] = {} THEN broken ELSE broken \cup {c}
  /\ UNCHANGED <<up, control, sockets, parser, files, backlog, stream, got>>

(* The connection ends when nobody has it open.                             *)
Ended(c) == /\ c \notin {fd[n] : n \in Numbers} /\ c \notin {conn[t] : t \in Threads}
            /\ \A i \in DOMAIN backlog : backlog[i] # c

AtEnd(c) ==
  /\ up /\ Open(c) /\ Ended(c)
  /\ phase' = [phase EXCEPT ![c] = "left"]
  /\ UNCHANGED <<up, control, sockets, parser, files, backlog, stream, broken, got>>

-----------------------------------------------------------------------------
(* The server's threads.                                                    *)
At(t, place)   == up /\ pc[t] = place
Goto(t, place) == pc' = [pc EXCEPT ![t] = place]
Opens(t)       == {held[t][i] : i \in DOMAIN held[t]} \ {Failed}
Free           == {n \in Numbers : fd[n] = NULL}
Lowest         == CHOOSE n \in Free : \A m \in Free : n <= m

(* A number accept has only reserved is not open yet, and its close fails.  *)
Close(numbers) == fd' = [n \in Numbers |->
                           IF n \in numbers /\ fd[n] # "reserved" THEN NULL ELSE fd[n]]

(* return -1 of main, or the end of a handler, which has closed some of     *)
(* what it opened and its connection.                                       *)
Finish(t, closed) ==
  IF t = Main
  THEN up' = FALSE /\ UNCHANGED <<pc, files>>
  ELSE /\ Goto(t, "ended") /\ Close(closed \cup {sock[t]})
       /\ held' = [held EXCEPT ![t] = <<>>]
       /\ leaked' = leaked \cup (Opens(t) \ closed)
       /\ UNCHANGED up

(* The end of a command: main's next round, the handler's close.            *)
Done(t) == IF t = Main THEN "accept" ELSE "close"

(* accept takes its number when it is called, or fails.                     *)
reserve ==
  /\ At(Main, "accept")
  /\ IF Free = {} THEN up' = FALSE /\ UNCHANGED <<pc, fd>>
     ELSE /\ fd' = [fd EXCEPT ![Lowest] = "reserved"]
          /\ Goto(Main, "accepting") /\ UNCHANGED up
  /\ UNCHANGED <<conn, sockets, parser, held, leaked, clients, stream, broken, got>>

accept ==
  /\ At(Main, "accepting") /\ backlog # <<>>
  /\ \E n \in Numbers :
       /\ fd[n] = "reserved"
       /\ fd' = [fd EXCEPT ![n] = Head(backlog)]
       /\ sock' = [sock EXCEPT ![Main] = n]
  /\ backlog' = Tail(backlog)
  /\ current' = Head(backlog)
  /\ Goto(Main, "check")
  /\ UNCHANGED <<up, conn, late, parser, held, leaked, stream, phase, broken, got>>

(* access: a device is missing, or both are there.                          *)
check ==
  /\ At(Main, "check")
  /\ \/ Close({sock[Main]}) /\ Goto(Main, "accept")
     \/ UNCHANGED fd /\ Goto(Main, "devices")
  /\ UNCHANGED <<up, conn, sockets, parser, held, leaked, clients, stream, broken, got>>

(* One open after the other: the devices in main, the file of main's GET,   *)
(* the devices and the file of a handler's, the three files of PUT (the     *)
(* last two only if the first is there).                                    *)
Wanted(t) == CASE pc[t] = "devices" -> 2
               [] pc[t] = "GET"     -> IF t = Main THEN 1 ELSE 3
               [] pc[t] = "PUT"     -> IF held[t] = <<Failed>> THEN 1 ELSE 3
Opening(t) == up /\ pc[t] \in {"devices", "GET", "PUT"}

open(t) ==
  /\ Opening(t) /\ Len(held[t]) < Wanted(t)
  /\ \/ /\ Free # {}
        /\ fd' = [fd EXCEPT ![Lowest] = "file"]
        /\ held' = [held EXCEPT ![t] = Append(@, Lowest)]
     \/ /\ held' = [held EXCEPT ![t] = Append(@, Failed)]
        /\ UNCHANGED fd
  /\ UNCHANGED <<up, control, sockets, parser, leaked, clients, stream, broken, got>>

AllOpen(t) == Opening(t) /\ Len(held[t]) = Wanted(t)
OneFailed(t) == \E i \in DOMAIN held[t] : held[t][i] = Failed

(* The writes to both devices, and the two closes.                          *)
\* Mutant: the second device is not closed.
OneClosed(t) == {held[t][1]}
BothClosed(t) == Opens(t)

writeDevices ==
  /\ AllOpen(Main) /\ pc[Main] = "devices"
  /\ \/ up' = FALSE /\ UNCHANGED <<pc, files>>
     \/ /\ ~OneFailed(Main)
        /\ Close(BothClosed(Main)) /\ held' = [held EXCEPT ![Main] = <<>>]
        /\ Goto(Main, "spawn") /\ UNCHANGED <<up, leaked>>
  /\ UNCHANGED <<conn, sockets, parser, clients, stream, broken, got>>

(* pthread_create fails with a positive number, which is taken for success: *)
(* main goes on without a handler, unless the detach of no thread crashes.  *)
spawn ==
  /\ At(Main, "spawn")
  /\ \/ pc' = [pc EXCEPT ![Main] = "recv", ![current] = "new"] /\ UNCHANGED up
     \/ Goto(Main, "recv") /\ UNCHANGED up
     \/ up' = FALSE /\ UNCHANGED pc
  /\ UNCHANGED <<conn, sockets, parser, files, clients, stream, broken, got>>

(* *(int* )arg is what main's client_sock is by now.                        *)
start(c) ==
  /\ At(c, "new")
  /\ sock' = [sock EXCEPT ![c] = sock[Main]]
  /\ late' = (late \/ current # c)
  /\ Goto(c, "recv")
  /\ UNCHANGED <<up, conn, current, parser, files, clients, stream, broken, got>>

-----------------------------------------------------------------------------
(* Receiving.  A thread blocked in recv keeps the connection, whatever      *)
(* happens to the number.                                                   *)
Receiving(t) == up /\ pc[t] \in {"recv", "read", "size"}

enter(t) ==
  /\ Receiving(t) /\ conn[t] = NULL /\ fd[sock[t]] \in Clients
  /\ conn' = [conn EXCEPT ![t] = fd[sock[t]]]
  /\ UNCHANGED <<up, pc, sockets, parser, files, clients, stream, broken, got>>

Gone(c) == ~Open(c) /\ stream[c] = <<>>
Fails(t) == IF conn[t] = NULL THEN fd[sock[t]] \notin Clients
            ELSE Gone(conn[t]) /\ conn[t] \in broken

(* recv or read fails: main gives up, a handler ends, PUT closes its files. *)
receiveFails(t) ==
  /\ Receiving(t) /\ Fails(t)
  /\ conn' = [conn EXCEPT ![t] = NULL]
  /\ IF pc[t] = "size"
     THEN /\ Close(Opens(t)) /\ held' = [held EXCEPT ![t] = <<>>]
          /\ Goto(t, Done(t)) /\ UNCHANGED <<up, leaked>>
     ELSE Finish(t, {})
  /\ UNCHANGED <<sockets, parser, clients, stream, broken, got>>

(* The number may stand for a file by now, which read reads.                *)
readFile(c) ==
  /\ At(c, "read") /\ conn[c] = NULL /\ fd[sock[c]] = "file"
  /\ \E m \in Words : message' = [message EXCEPT ![c] =
                                    [cmd |-> m.cmd, more |-> m.more, from |-> NULL]]
  /\ Goto(c, "parse")
  /\ UNCHANGED <<up, conn, sockets, filled, cutter, files, clients, stream, broken, got>>

\* Mutant: recv is given the size of the whole buffer every time.
WholeRoom(t) == Buffer
Room(t) == IF t # Main /\ pc[t] = "recv" THEN Buffer - filled[t] ELSE Buffer

(* Some of the pieces that have come, as far as there is room.  A handler   *)
(* goes on until its buffer is full, and then reads over it once more.      *)
take(t) ==
  /\ Receiving(t) /\ pc[t] # "size" /\ conn[t] # NULL
  /\ conn' = [conn EXCEPT ![t] = NULL]
  /\ \E k \in 1 .. Len(stream[conn[t]]) :
       /\ k <= Room(t)
       /\ stream' = [stream EXCEPT ![conn[t]] = SubSeq(@, k + 1, Len(@))]
       /\ IF t # Main /\ pc[t] = "recv"
          THEN /\ filled' = [filled EXCEPT ![t] = @ + k]
               /\ message' = IF filled[t] > 0 THEN message
                             ELSE [message EXCEPT ![t] = Head(stream[conn[t]])]
               /\ Goto(t, IF filled[t] + k = Buffer THEN "read" ELSE "recv")
          ELSE /\ message' = [message EXCEPT ![t] = Head(stream[conn[t]])]
               /\ Goto(t, "parse") /\ UNCHANGED filled
  /\ UNCHANGED <<up, sockets, cutter, files, clients, broken, got>>

(* recv returns 0: the end of a handler that fills its buffer, but main and *)
(* the handler's last read go on with the message they had, which strtok    *)
(* has cut behind the command in main's buffer.                             *)
\* Mutant: main waits for more.
EofMissed(t) == t # Main
EofSeen(t)   == TRUE

takeNothing(t) ==
  /\ Receiving(t) /\ pc[t] # "size" /\ conn[t] # NULL /\ Gone(conn[t]) /\ EofSeen(t)
  /\ conn' = [conn EXCEPT ![t] = NULL]
  /\ IF t # Main /\ pc[t] = "recv"
     THEN Finish(t, {}) /\ UNCHANGED message
     ELSE /\ Goto(t, "parse") /\ UNCHANGED <<up, files>>
          /\ message' = IF t = Main /\ message[t] # NULL
                        THEN [message EXCEPT ![t].more = 0] ELSE message
  /\ UNCHANGED <<sockets, filled, cutter, clients, stream, broken, got>>

(* PUT's recv of four bytes: a piece, or its beginning.  The copy to both   *)
(* devices and the closes follow.                                           *)
Remainders(c) == {<<>>, <<NULL>>, <<[cmd |-> "other", more |-> 2, from |-> c]>>}

takeSize(t) ==
  /\ At(t, "size") /\ conn[t] # NULL
  /\ \/ /\ stream[conn[t]] # <<>>
        /\ \E rest \in Remainders(conn[t]) :
             stream' = [stream EXCEPT ![conn[t]] = rest \o Tail(@)]
     \/ Gone(conn[t]) /\ UNCHANGED stream
  /\ conn' = [conn EXCEPT ![t] = NULL]
  /\ Close(Opens(t)) /\ held' = [held EXCEPT ![t] = <<>>]
  /\ Goto(t, "answer")
  /\ UNCHANGED <<up, sockets, parser, leaked, clients, broken, got>>

-----------------------------------------------------------------------------
(* The first strtok, which moves the static pointer also in an empty        *)
(* message; strcmp of no command ends the process.                          *)
parse(t) ==
  /\ At(t, "parse")
  /\ cutter' = t
  /\ IF message[t] = NULL THEN Finish(t, {})
     ELSE Goto(t, "words") /\ UNCHANGED <<up, files>>
  /\ UNCHANGED <<conn, sockets, message, filled, clients, stream, broken, got>>

(* The command's branch, given how many words follow.                       *)
Branch(t, w) ==
  LET cmd == message[t].cmd
  IN  CASE t # Main /\ w < 2 -> "ended"
        [] t # Main /\ w = 2 -> IF cmd \in {"GET", "PUT"} THEN cmd ELSE "answer"
        [] t = Main /\ cmd = "GET" -> IF w = 0 THEN "ended" ELSE "GET"
        [] t = Main /\ cmd = "PUT" -> IF w = 0 THEN "accept" ELSE "PUT"
        [] t = Main /\ cmd = "INFO" -> "answer"
        [] t = Main /\ cmd = "MD"   -> "farewell"
        [] t = Main /\ cmd = "other" -> "ended"

(* The second and third strtok, in whatever buffer another thread's first   *)
(* has put the static pointer meanwhile.                                    *)
words(t) ==
  /\ At(t, "words")
  /\ cutter' = NULL
  /\ \E w \in IF cutter = t THEN {message[t].more} ELSE 0 .. 2 :
       IF Branch(t, w) = "ended" THEN Finish(t, {})
       ELSE Goto(t, Branch(t, w)) /\ UNCHANGED <<up, files>>
  /\ UNCHANGED <<conn, sockets, message, filled, clients, stream, broken, got>>

-----------------------------------------------------------------------------
(* Answers.  send to a client that has gone is lost at first and provokes a *)
(* reset, after which it fails or SIGPIPE ends the process.                 *)
Peer(t)     == fd[sock[t]]
MustFail(t) == Peer(t) \notin Clients
AfterReset(t) == Peer(t) \in broken /\ ~Open(Peer(t))

Deliver(t) ==
  IF Peer(t) \in Clients /\ Open(Peer(t))
  THEN /\ got' = [got EXCEPT ![Peer(t)] = @ \cup {message[t].from}]
       /\ UNCHANGED broken
  ELSE /\ broken' = broken \cup ({Peer(t)} \cap Clients)
       /\ UNCHANGED got

sigpipe(t) ==
  /\ up /\ pc[t] \in {"answer", "farewell", "send"} /\ AfterReset(t)
  /\ up' = FALSE
  /\ UNCHANGED <<control, sockets, parser, files, clients, stream, broken, got>>

(* INFO, PUT, and the handler's answer to an unknown command.               *)
answer(t) ==
  /\ At(t, "answer") /\ Deliver(t) /\ Goto(t, Done(t))
  /\ UNCHANGED <<up, conn, sockets, parser, files, clients, stream>>

(* MD and RM are the last thing main does.                                  *)
farewell ==
  /\ At(Main, "farewell") /\ Deliver(Main) /\ up' = FALSE
  /\ UNCHANGED <<control, sockets, parser, files, clients, stream>>

(* GET with its files opened: main gives up without its file.  A handler    *)
(* without it leaves the devices open, and a read that fails the file.      *)
DevicesOf(t) == {held[t][1], held[t][2]} \ {Failed}

getOpened(t) ==
  /\ AllOpen(t) /\ pc[t] = "GET"
  /\ \/ /\ held[t][Len(held[t])] = Failed
        /\ Finish(t, {})
     \/ /\ t # Main /\ held[t][3] # Failed
        /\ Finish(t, DevicesOf(t))
     \/ /\ ~OneFailed(t)
        /\ Goto(t, "send") /\ UNCHANGED <<up, files>>
  /\ UNCHANGED <<conn, sockets, parser, clients, stream, broken, got>>

send(t) ==
  /\ At(t, "send") /\ ~MustFail(t) /\ Deliver(t)
  /\ UNCHANGED <<up, control, sockets, parser, files, clients, stream>>

sendFails(t) ==
  /\ At(t, "send") /\ (MustFail(t) \/ AfterReset(t))
  /\ Finish(t, IF t = Main THEN {} ELSE DevicesOf(t))
  /\ UNCHANGED <<conn, sockets, parser, clients, stream, broken, got>>

(* The end of the file; main closes it.                                     *)
\* Mutant: main closes the client's socket as well.
endSendClosing(t) ==
  /\ At(t, "send")
  /\ IF t = Main THEN Close(Opens(t) \cup {sock[t]}) /\ held' = [held EXCEPT ![t] = <<>>]
                 ELSE UNCHANGED <<fd, held>>
  /\ Goto(t, Done(t))
  /\ UNCHANGED <<up, conn, sockets, parser, leaked, clients, stream, broken, got>>
endSend(t) ==
  /\ At(t, "send")
  /\ IF t = Main THEN Close(Opens(t)) /\ held' = [held EXCEPT ![t] = <<>>]
                 ELSE UNCHANGED <<fd, held>>
  /\ Goto(t, Done(t))
  /\ UNCHANGED <<up, conn, sockets, parser, leaked, clients, stream, broken, got>>

putOpened(t) ==
  /\ AllOpen(t) /\ pc[t] = "PUT"
  /\ IF OneFailed(t)
     THEN Close(Opens(t)) /\ held' = [held EXCEPT ![t] = <<>>] /\ Goto(t, Done(t))
     ELSE Goto(t, "size") /\ UNCHANGED <<fd, held>>
  /\ UNCHANGED <<up, conn, sockets, parser, leaked, clients, stream, broken, got>>

(* The end of client_handler, which leaves what GET opened.                 *)
close(c) ==
  /\ At(c, "close") /\ Finish(c, {})
  /\ UNCHANGED <<conn, sockets, parser, clients, stream, broken, got>>

-----------------------------------------------------------------------------
ThreadStep(t) ==
  \/ open(t) \/ enter(t) \/ receiveFails(t) \/ take(t) \/ takeNothing(t) \/ takeSize(t)
  \/ parse(t) \/ words(t) \/ answer(t) \/ getOpened(t) \/ send(t) \/ sendFails(t)
  \/ endSend(t) \/ putOpened(t) \/ sigpipe(t)
MainStep == reserve \/ accept \/ check \/ writeDevices \/ spawn \/ farewell \/ ThreadStep(Main)
HandlerStep(c) == start(c) \/ readFile(c) \/ close(c) \/ ThreadStep(c)
ClientStep(c)  == Connect(c) \/ Ask(c) \/ Tell(c) \/ AtEnd(c)

(* The exit of the process ends the connections and the model.              *)
Next == MainStep \/ \E c \in Clients : HandlerStep(c) \/ ClientStep(c) \/ Leave(c)

Spec == Init /\ [][Next]_vars
             /\ WF_vars(MainStep)
             /\ \A c \in Clients : WF_vars(HandlerStep(c)) /\ WF_vars(ClientStep(c))

-----------------------------------------------------------------------------
Piece == {NULL} \cup [cmd : Commands, more : 0 .. 2, from : Clients \cup {NULL}]

TypeOK ==
  /\ up \in BOOLEAN /\ pc \in [Threads -> Places]
  /\ conn \in [Threads -> Clients \cup {NULL}] /\ sock \in [Threads -> 0 .. MaxFd]
  /\ held \in [Threads -> Seq(0 .. MaxFd)]
  /\ message \in [Threads -> Piece] /\ filled \in [Clients -> 0 .. Buffer]
  /\ cutter \in Threads \cup {NULL}
  /\ fd \in [Numbers -> Clients \cup {NULL, "file", "reserved"}]
  /\ backlog \in Seq(Clients) /\ stream \in [Clients -> Seq(Piece)]
  /\ phase \in [Clients -> {"idle", "connected", "waiting", "left"}]
  /\ broken \subseteq Clients /\ got \in [Clients -> SUBSET (Clients \cup {NULL})]
  /\ current \in Clients \cup {NULL} /\ late \in BOOLEAN /\ leaked \subseteq Numbers

(* Every descriptor has one owner as long as handlers start in time: a      *)
(* handler's client_sock is its client's connection until it closes it,     *)
(* what a thread has opened and not closed is a file nobody else has, and   *)
(* what no thread has was left open by a handler's GET.                     *)
DescriptorsOwned == ~late =>
  /\ \A c \in Clients : Active(c) => fd[sock[c]] = c
  /\ \A t \in Threads : \A n \in Opens(t) : fd[n] = "file" /\ n \notin leaked
  /\ \A t, u \in Threads : t # u => Opens(t) \cap Opens(u) = {}
  /\ \A n \in Numbers : fd[n] = "file" => n \in leaked \/ \E t \in Threads : n \in Opens(t)

(* A client gets answers to its own messages only, whoever received them    *)
(* and whatever became of the numbers main and the handlers hold.           *)
AnswersReachAsker == ~late => \A c \in Clients : got[c] \subseteq {c}

(* server.c:149: each handler is for one client.  The service comes to rest *)
(* only down, or with main waiting for a connection or for a client that    *)
(* waits as well, and every handler at its end or waiting likewise.         *)
Awaits(t)  == conn[t] # NULL /\ phase[conn[t]] = "waiting" /\ stream[conn[t]] = <<>>
AtRest ==
  /\ (pc[Main] = "accepting" /\ backlog = <<>>) \/ Awaits(Main)
  /\ \A c \in Clients : pc[c] \in {"none", "ended"} \/ Awaits(c)
ComesToRest == <>[](~up \/ AtRest)
(* Where a thread has a step to make, by what it has to wait for, and what  *)
(* it may wait for instead: its start, a connection, or what a client that  *)
(* is still there has not sent.                                             *)
MayGoOn(t) ==
  \/ pc[t] \in {"new", "accept", "check", "spawn", "parse", "send", "answer", "farewell", "close"}
  \/ pc[t] = "words" /\ message[t] # NULL
  \/ pc[t] = "accepting" /\ backlog # <<>> /\ \E n \in Numbers : fd[n] = "reserved"
  \/ pc[t] \in {"devices", "GET", "PUT"} /\ Len(held[t]) <= Wanted(t)
  \/ /\ pc[t] \in {"recv", "read", "size"}
     /\ \/ conn[t] = NULL \/ Gone(conn[t])
        \/ stream[conn[t]] # <<>> /\ Room(t) > 0

Waits(t) ==
  \/ pc[t] \in {"none", "ended"}
  \/ pc[t] = "accepting" /\ backlog = <<>>
  \/ /\ pc[t] \in {"recv", "read", "size"} /\ conn[t] # NULL
     /\ Open(conn[t]) /\ stream[conn[t]] = <<>>
=============================================================================
