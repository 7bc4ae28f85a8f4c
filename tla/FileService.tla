---------------------------- MODULE FileService ----------------------------
(***************************************************************************)
(* PracticumII: the iterative file server (server.c), its client (fgets.c) *)
(* and the connections between them.                                       *)
(*                                                                         *)
(* The server handles one connection after the other and never closes one  *)
(* it goes on from; a client reads until the end of the connection.  The   *)
(* server receives each request over the one before it, in one buffer that *)
(* is cleared only at the start, and cuts it up in place with strtok, so   *)
(* what is left of longer requests counts: the buffer is modelled by how   *)
(* far it is filled and where it holds a NUL.                              *)
(*                                                                         *)
(* Data flow in bytes <<path, i>>; Chunk bytes stand for the 8196 of the   *)
(* buffers of both programs.  A request arrives in one piece.              *)
(***************************************************************************)
EXTENDS Integers, Sequences, FiniteSets

CONSTANTS Clients,
          Paths,     \* the paths clients name
          Glued,     \* a path with the rest of an older request behind it
          Length,    \* Length[p]: characters of path p
          FileSize,  \* FileSize[p]: bytes of the server's file p, -1 if none
          Chunk,     \* size of server_message and file_data
          Backlog,   \* connections the kernel holds for accept
          NULL

Commands == {"GET", "INFO", "MD", "RM", "PUT", "EXIT", "Filename:"}

ASSUME FileServiceAssumption ==
  /\ NULL \notin Clients
  /\ Glued \notin Paths /\ NULL \notin Paths \cup {Glued}
  /\ Length \in [Paths -> Nat \ {0}]
  /\ FileSize \in [Paths \cup {Glued} -> Nat \cup {-1}]
  /\ Chunk \in Nat \ {0} /\ Backlog \in Nat \ {0}

(* A request is "<command> <path>".  fgets sends PUT as "PUT PUT <size>":   *)
(* the path the server opens is the text of the size.                       *)
Request(cmd, path) == [cmd |-> cmd, path |-> path]
CommandLength(cmd) == CASE cmd \in {"MD", "RM"} -> 2 [] cmd = "GET" -> 3
                        [] cmd \in {"INFO", "EXIT"} -> 4 [] cmd = "PUT" -> 7
                        [] cmd = "Filename:" -> 9
RequestLength(m) == CommandLength(m.cmd) + 1 + Length[m.path]
Spaces(m) == {CommandLength(m.cmd)} \cup (IF m.cmd = "PUT" THEN {3} ELSE {})

VARIABLES
  server,    \* where the server is in its loop, or "down"
  sock,      \* client_sock: the client of the connection accepted last
  buffer,    \* client_message: [filled, nuls, command]
  offset,    \* bytes of the file sent so far
  served,    \* the path the server has made of each client's request
  backlog,   \* connections waiting for accept
  request,   \* the request each client has sent, NULL before
  unread,    \* clients whose request the server has not received
  phase,     \* where each client is
  pipe,      \* bytes on their way to each client
  got,       \* file_data of each client
  broken     \* connections on which the server will meet a reset

serverVars == <<server, sock, buffer, offset, served>>
network    == <<backlog, unread, pipe, broken>>
vars == <<serverVars, network, request, phase, got>>

Places == {"accept", "recv", "send", "info", "farewell", "create", "put", "down"}
Phases == {"idle", "connected", "reading", "ready?", "saved", "failed", "left", "killed"}
Closed(c) == phase[c] \in {"saved", "failed", "left", "killed"}

Init ==
  /\ server = "accept" /\ sock = NULL /\ offset = 0
  /\ buffer = [filled |-> 0, nuls |-> {}, command |-> NULL]
  /\ served = [c \in Clients |-> NULL]
  /\ backlog = <<>> /\ unread = {} /\ broken = {}
  /\ request = [c \in Clients |-> NULL]
  /\ phase = [c \in Clients |-> "idle"]
  /\ pipe = [c \in Clients |-> <<>>] /\ got = [c \in Clients |-> <<>>]

-----------------------------------------------------------------------------
(* The client.                                                              *)
Connect(c) ==
  /\ phase[c] = "idle"
  /\ IF server = "down"
     THEN phase' = [phase EXCEPT ![c] = "failed"] /\ UNCHANGED backlog
     ELSE /\ Len(backlog) < Backlog
          /\ phase' = [phase EXCEPT ![c] = "connected"]
          /\ backlog' = Append(backlog, c)
  /\ UNCHANGED <<serverVars, unread, pipe, broken, request, got>>

Post(c, m, next) ==
  /\ phase[c] = "connected"
  /\ request' = [request EXCEPT ![c] = m]
  /\ unread' = unread \cup {c}
  /\ phase' = [phase EXCEPT ![c] = next]
  /\ UNCHANGED <<serverVars, backlog, pipe, broken, got>>

(* GET, or a command fgets does not know, such as EXIT.  INFO, MD and RM    *)
(* come from other programs, which read the answer as fgets reads a file.   *)
Ask(c, p) == \E cmd \in {"GET", "EXIT", "INFO", "MD", "RM"} :
               Post(c, Request(cmd, p), "reading")

(* PUT waits for "READY" before it sends the file.                          *)
AskPut(c, size) == Post(c, Request("PUT", size), "ready?")

(* INFO of fgets sends the information about the client's file and leaves;  *)
(* its MD and RM act on the client's files and send to an uninitialized     *)
(* descriptor, which may happen to be the connection (the path then ends    *)
(* with the outcome, p stands for both).                                    *)
SendAndLeave(c, p) == \E cmd \in {"Filename:", "MD", "RM"} :
                        Post(c, Request(cmd, p), "left")

(* ... or not; and INFO and PUT of a file the client does not have.         *)
LeaveSilently(c) ==
  /\ phase[c] = "connected"
  /\ phase' = [phase EXCEPT ![c] = "left"]
  /\ UNCHANGED <<serverVars, network, request, got>>

(* A connection closed with bytes unread is reset.                          *)
Close(c, outcome) ==
  /\ phase' = [phase EXCEPT ![c] = outcome]
  /\ pipe' = [pipe EXCEPT ![c] = <<>>]
  /\ broken' = IF pipe[c] = <<>> THEN broken ELSE broken \cup {c}

\* Mutant: each recv is given the whole buffer.
FitsAlone(c, k) == k <= Chunk
Fits(c, k) == Len(got[c]) + k <= Chunk

(* One recv: some of what has arrived, as far as it fits.                   *)
Read(c) ==
  /\ phase[c] = "reading"
  /\ \E k \in 1 .. Len(pipe[c]) :
       /\ Fits(c, k)
       /\ got' = [got EXCEPT ![c] = @ \o SubSeq(pipe[c], 1, k)]
       /\ pipe' = [pipe EXCEPT ![c] = SubSeq(@, k + 1, Len(@))]
  /\ UNCHANGED <<serverVars, backlog, unread, broken, request, phase>>

(* recv returns 0: nothing more to come.                                    *)
AtEnd(c) == pipe[c] = <<>> /\ c \notin unread /\ server = "down"

(* After the loop bytes_received is 0, so file_data[bytes_received] = '\0'  *)
(* overwrites the first byte.                                               *)
Zero == <<NULL, 0>>
Terminated(data) == IF data = <<>> THEN data ELSE [data EXCEPT ![1] = Zero]

Save(c) ==
  /\ phase[c] = "reading" /\ (Len(got[c]) = Chunk \/ AtEnd(c))
  /\ got' = [got EXCEPT ![c] = Terminated(@)]
  /\ Close(c, "saved")
  /\ UNCHANGED <<serverVars, backlog, unread, request>>

(* No answer to PUT is "READY", and neither is none.                        *)
NotReady(c) ==
  /\ phase[c] = "ready?" /\ (pipe[c] # <<>> \/ AtEnd(c))
  /\ Close(c, "failed")
  /\ UNCHANGED <<serverVars, backlog, unread, request, got>>

(* The exit of the server resets connections it has not read from.          *)
Reset(c) ==
  /\ phase[c] \in {"reading", "ready?"} /\ server = "down" /\ c \in unread
  /\ Close(c, "failed")
  /\ UNCHANGED <<serverVars, backlog, unread, request, got>>

Kill(c) ==
  /\ phase[c] \in {"connected", "reading", "ready?"}
  /\ Close(c, "killed")
  /\ UNCHANGED <<serverVars, backlog, unread, request, got>>

-----------------------------------------------------------------------------
(* The server.                                                              *)
accept ==
  /\ server = "accept" /\ backlog # <<>>
  /\ sock' = Head(backlog) /\ backlog' = Tail(backlog)
  /\ server' = "recv"
  /\ UNCHANGED <<buffer, offset, served, unread, pipe, broken, request, phase, got>>

Exists(path) == path # NULL /\ FileSize[path] >= 0

(* The chain of comparisons with the command.  strcmp of no command at all  *)
(* ends the server as an unknown command does.                              *)
Dispatch(command, path) ==
  CASE command = "GET"  -> IF Exists(path) THEN "send" ELSE "down"
    [] command = "INFO" -> "info"
    [] command \in {"MD", "RM"} -> "farewell"
    [] command = "PUT"  -> IF Exists(path) THEN "create" ELSE "accept"
    [] OTHER -> "down"

(* strtok puts a NUL behind each word, and recv none behind the message.    *)
Glues(m) == RequestLength(m) < buffer.filled /\ RequestLength(m) \notin buffer.nuls
PathOf(m) == IF Glues(m) THEN Glued ELSE m.path
Received(m) ==
  [filled  |-> IF RequestLength(m) > buffer.filled THEN RequestLength(m) ELSE buffer.filled,
   nuls    |-> Spaces(m) \cup {n \in buffer.nuls : n >= RequestLength(m)},
   command |-> m.cmd]

recv ==
  LET m == request[sock]
  IN  /\ server = "recv" /\ sock \in unread
      /\ unread' = unread \ {sock}
      /\ buffer' = Received(m)
      /\ served' = [served EXCEPT ![sock] = PathOf(m)]
      /\ server' = Dispatch(m.cmd, PathOf(m))
      /\ offset' = 0
      /\ UNCHANGED <<sock, backlog, pipe, broken, request, phase, got>>

(* recv returns 0, and the command of the message before is found again,    *)
(* without a path: a NUL follows it.                                        *)
\* Mutant: the server waits for more.
EofIgnored(c) == FALSE
Eof(c) == Closed(c) /\ c \notin unread

recvNothing ==
  /\ server = "recv" /\ Eof(sock)
  /\ server' = Dispatch(buffer.command, NULL)
  /\ UNCHANGED <<sock, buffer, offset, served, network, request, phase, got>>

(* send to a client that has gone: the first one is lost and provokes a     *)
(* reset, after which SIGPIPE may end the server.                           *)
Deliver(bytes, next) ==
  IF ~Closed(sock)
  THEN /\ pipe' = [pipe EXCEPT ![sock] = @ \o bytes]
       /\ server' = next
       /\ UNCHANGED broken
  ELSE /\ broken' = broken \cup {sock}
       /\ server' \in {next} \cup (IF sock \in broken THEN {"down"} ELSE {})
       /\ UNCHANGED pipe

Size == FileSize[served[sock]]
\* Mutant: the whole buffer is sent, whatever fread returned.
BlockWhole == [i \in 1 .. Chunk |-> <<served[sock], offset + i>>]
Block ==
  [i \in 1 .. (IF Size - offset < Chunk THEN Size - offset ELSE Chunk) |->
     <<served[sock], offset + i>>]

sendFile ==
  /\ server = "send" /\ offset < Size
  /\ Deliver(Block, "send")
  /\ offset' = offset + Len(Block)
  /\ UNCHANGED <<sock, buffer, served, backlog, unread, request, phase, got>>

(* The connection stays open.                                               *)
endFile ==
  /\ server = "send" /\ offset = Size
  /\ server' = "accept"
  /\ UNCHANGED <<sock, buffer, offset, served, network, request, phase, got>>

Answer == << <<NULL, 1>> >>

perform_info_command ==
  /\ server = "info"
  /\ Deliver(Answer, "accept")
  /\ UNCHANGED <<sock, buffer, offset, served, backlog, unread, request, phase, got>>

(* The answer to MD and RM is the last thing the server does.               *)
farewell ==
  /\ server = "farewell"
  /\ Deliver(Answer, "down")
  /\ UNCHANGED <<sock, buffer, offset, served, backlog, unread, request, phase, got>>

(* perform_put_command has opened the file; the two it writes may fail to   *)
(* open, and it returns.  The strcat that name them have left a longer path *)
(* in the buffer either way.                                                *)
createFiles ==
  /\ server = "create"
  /\ server' \in {"put", "accept"}
  /\ buffer' = [buffer EXCEPT !.nuls = (@ \ {7, 8}) \cup {9},
                              !.filled = IF @ < 9 THEN 9 ELSE @]
  /\ UNCHANGED <<sock, offset, served, network, request, phase, got>>

(* It waits for the size, which the client has sent as a text that was      *)
(* received before, so for the end of the connection.  A recv that fails on *)
(* it is the other way on, without an answer.                               *)
perform_put_command ==
  /\ server = "put" /\ Closed(sock)
  /\ \/ Deliver(Answer, "accept")
     \/ server' = "accept" /\ UNCHANGED <<pipe, broken>>
  /\ UNCHANGED <<sock, buffer, offset, served, backlog, unread, request, phase, got>>

-----------------------------------------------------------------------------
ServerStep ==
  \/ accept \/ recv \/ recvNothing \/ sendFile \/ endFile
  \/ perform_info_command \/ farewell \/ createFiles \/ perform_put_command

ClientStep(c) ==
  \/ Connect(c) \/ LeaveSilently(c)
  \/ \E p \in Paths : Ask(c, p) \/ AskPut(c, p) \/ SendAndLeave(c, p)
  \/ Read(c) \/ Save(c) \/ NotReady(c) \/ Reset(c)

Next == ServerStep \/ \E c \in Clients : ClientStep(c) \/ Kill(c)

Spec == Init /\ [][Next]_vars
             /\ WF_vars(ServerStep) /\ \A c \in Clients : WF_vars(ClientStep(c))

-----------------------------------------------------------------------------
Bytes == (Paths \cup {Glued, NULL}) \X Nat

(* The variables have their types; what a client has received is no longer  *)
(* than its file_data, whatever the sizes in which the stream arrives.      *)
TypeOK ==
  /\ server \in Places /\ sock \in Clients \cup {NULL}
  /\ offset \in Nat
  /\ buffer.filled \in Nat /\ buffer.nuls \subseteq 0 .. buffer.filled
  /\ buffer.command \in Commands \cup {NULL}
  /\ served \in [Clients -> Paths \cup {Glued, NULL}]
  /\ backlog \in Seq(Clients) /\ unread \subseteq Clients /\ broken \subseteq Clients
  /\ request \in [Clients -> [cmd : Commands, path : Paths] \cup {NULL}]
  /\ phase \in [Clients -> Phases]
  /\ pipe \in [Clients -> Seq(Bytes)] /\ got \in [Clients -> Seq(Bytes)]
  /\ \A c \in Clients : Len(got[c]) <= Chunk

Gets(c) == request[c] # NULL /\ request[c].cmd = "GET"

(* What a GET receives is, byte by byte, the beginning of the file that the *)
(* server opened for it, none lost, repeated or out of place and none of    *)
(* another file or from behind its end, however the stream was split and    *)
(* whatever other clients did; and if it saves with room left in its buffer *)
(* no byte is missing.                                                      *)
(* Nothing is said of the first byte of a saved file, which fgets itself    *)
(* writes over, nor of the rest of a file longer than its buffer.           *)
ReceivedIsServed == \A c \in Clients : Gets(c) =>
  /\ phase[c] \in {"reading", "saved"} =>
       \A i \in DOMAIN got[c] :
         /\ i <= FileSize[served[c]]
         /\ (phase[c] = "saved" /\ i = 1) \/ got[c][i] = <<served[c], i>>
  /\ phase[c] = "saved" /\ Len(got[c]) < Chunk => FileSize[served[c]] <= Len(got[c])

(* The only ways the service comes to rest: the server has exited, waits    *)
(* for a connection, or waits in PUT for a client that waits for it.        *)
MutualWait == server = "put" /\ phase[sock] = "ready?"
ComesToRest == <>[](server = "down" \/ (server = "accept" /\ backlog = <<>>) \/ MutualWait)

(* Where the server has a step to make, by what it has to wait for.         *)
ServerMayGoOn ==
  \/ server = "accept" /\ backlog # <<>>
  \/ server = "recv" /\ (sock \in unread \/ Eof(sock))
  \/ server = "send" /\ offset <= Size
  \/ server \in {"info", "farewell", "create"}
  \/ server = "put" /\ Closed(sock)

(* What it may wait for instead: a connection, a request from a client that *)
(* has sent none, or in PUT a client that waits for it.                     *)
ServerWaits ==
  \/ server = "accept" /\ backlog = <<>>
  \/ server = "recv" /\ phase[sock] = "connected"
  \/ MutualWait

(* server.c:205, "Extract command and remote file path from client          *)
(* message": the path the server acts on is the one in the message.         *)
ActsOnRequest == \A c \in Clients : served[c] # NULL => served[c] = request[c].path
=============================================================================
