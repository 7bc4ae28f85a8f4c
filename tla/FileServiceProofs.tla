-------------------------- MODULE FileServiceProofs --------------------------
(***************************************************************************)
(* What a client of PracticumII receives, and what the server waits for,   *)
(* for any clients, files, sizes of the buffers and commands of the other  *)
(* clients.                                                                *)
(***************************************************************************)
EXTENDS FileService, SequenceTheorems, TLAPS

Requests == [cmd : Commands, path : Paths]
Buffers  == [filled : Nat, nuls : SUBSET Nat, command : Commands \cup {NULL}]

(* What the types rest on: the server is in a command only for a client,    *)
(* it sends only files that exist, and what is unread has been sent.        *)
Engaged ==
  /\ buffer \in Buffers
  /\ server \notin {"accept", "down"} => sock \in Clients
  /\ server = "send" => served[sock] \in Paths \cup {Glued} /\ FileSize[served[sock]] \in Nat
  /\ \A c \in unread : request[c] \in Requests

TInv == TypeOK /\ Engaged

-----------------------------------------------------------------------------
(* Lengths, as RequestLength counts them.                                   *)
LEMMA Lengths ==
  ASSUME NEW m \in Requests
  PROVE  /\ CommandLength(m.cmd) \in Nat /\ RequestLength(m) \in Nat
         /\ CommandLength(m.cmd) >= 2 /\ CommandLength(m.cmd) <= RequestLength(m)
         /\ Spaces(m) \subseteq 0 .. RequestLength(m)
         /\ PathOf(m) \in Paths \cup {Glued}
<1>1. m.cmd \in Commands /\ m.path \in Paths
  BY DEF Requests
<1>2. Length[m.path] \in Nat
  BY <1>1, FileServiceAssumption
<1>3. CommandLength(m.cmd) \in {2, 3, 4, 7, 9} /\ (m.cmd = "PUT" => CommandLength(m.cmd) = 7)
  BY <1>1 DEF CommandLength, Commands
<1>4. CommandLength(m.cmd) \in Nat /\ CommandLength(m.cmd) >= 2
  BY <1>3
<1>5. RequestLength(m) \in Nat /\ CommandLength(m.cmd) <= RequestLength(m)
  BY <1>2, <1>4 DEF RequestLength
<1>6. Spaces(m) \subseteq 0 .. RequestLength(m)
  <2>1. CASE m.cmd = "PUT"
    BY <1>3, <1>4, <1>5, <2>1 DEF Spaces
  <2>2. CASE m.cmd # "PUT"
    BY <1>4, <1>5, <2>2 DEF Spaces
  <2> QED
    BY <2>1, <2>2
<1> QED
  BY <1>1, <1>4, <1>5, <1>6 DEF PathOf

(* The place Dispatch goes to; it sends only what exists.                   *)
LEMMA Dispatched ==
  ASSUME NEW command, NEW path \in Paths \cup {Glued, NULL}
  PROVE  /\ Dispatch(command, path) \in Places \ {"recv"}
         /\ Dispatch(command, path) = "send" =>
              command = "GET" /\ path \in Paths \cup {Glued} /\ FileSize[path] \in Nat
         /\ command = "GET" => Dispatch(command, path) \in {"send", "down"}
         /\ command = "GET" /\ Dispatch(command, path) = "down" => ~Exists(path)
<1>1. path # NULL => FileSize[path] \in Nat \cup {-1}
  BY FileServiceAssumption
<1>2. Exists(path) => path \in Paths \cup {Glued} /\ FileSize[path] \in Nat
  BY <1>1 DEF Exists
<1> QED
  BY <1>2 DEF Dispatch, Places

LEMMA InitTInv == Init => TInv
<1> SUFFICES ASSUME Init PROVE TInv
  OBVIOUS
<1>1. /\ served \in [Clients -> Paths \cup {Glued, NULL}]
      /\ request \in [Clients -> Requests \cup {NULL}]
      /\ phase \in [Clients -> Phases]
  BY DEF Init, Phases
<1>2. /\ pipe \in [Clients -> Seq(Bytes)] /\ got \in [Clients -> Seq(Bytes)]
      /\ backlog \in Seq(Clients)
  BY DEF Init
<1>5. \A c \in Clients : Len(got[c]) <= Chunk
  BY FileServiceAssumption DEF Init
<1>3. buffer \in Buffers /\ buffer.nuls \subseteq 0 .. buffer.filled
  BY DEF Init, Buffers
<1>4. buffer.filled \in Nat /\ buffer.command \in Commands \cup {NULL}
  BY <1>3 DEF Buffers
<1> QED
  BY <1>1, <1>2, <1>3, <1>4, <1>5 DEF Init, TInv, TypeOK, Engaged, Places, Requests

-----------------------------------------------------------------------------
(* A step of the server: what it has to show.                               *)
LEMMA ServerTyped ==
  ASSUME TInv, UNCHANGED <<request, phase, got>>,
         server' \in Places, sock' \in Clients \cup {NULL}, offset' \in Nat,
         buffer' \in Buffers, buffer'.nuls \subseteq 0 .. buffer'.filled,
         served' \in [Clients -> Paths \cup {Glued, NULL}],
         backlog' \in Seq(Clients), unread' \subseteq unread, broken' \subseteq Clients,
         pipe' \in [Clients -> Seq(Bytes)],
         server' \notin {"accept", "down"} => sock' \in Clients,
         server' = "send" => served'[sock'] \in Paths \cup {Glued} /\ FileSize[served'[sock']] \in Nat
  PROVE  TInv'
<1>1. buffer'.filled \in Nat /\ buffer'.command \in Commands \cup {NULL}
  BY DEF Buffers
<1>2. unread' \subseteq Clients /\ \A c \in unread' : request'[c] \in Requests
  BY DEF TInv, TypeOK, Engaged
<1>3. /\ request' \in [Clients -> [cmd : Commands, path : Paths] \cup {NULL}]
      /\ phase' \in [Clients -> Phases] /\ got' \in [Clients -> Seq(Bytes)]
      /\ \A c \in Clients : Len(got'[c]) <= Chunk
  BY DEF TInv, TypeOK
<1> QED
  BY <1>1, <1>2, <1>3 DEF TInv, TypeOK, Engaged

(* What send does, whoever the client is.                                   *)
LEMMA Delivered ==
  ASSUME TInv, sock \in Clients, NEW bytes \in Seq(Bytes), NEW next \in Places,
         Deliver(bytes, next)
  PROVE  /\ server' \in {next, "down"} /\ server' \in Places /\ broken' \subseteq Clients
         /\ pipe' \in [Clients -> Seq(Bytes)]
         /\ ~Closed(sock) => /\ server' = next
                             /\ pipe'[sock] = pipe[sock] \o bytes
         /\ Closed(sock) => pipe'[sock] = pipe[sock]
         /\ \A c \in Clients \ {sock} : pipe'[c] = pipe[c]
<1>1. pipe \in [Clients -> Seq(Bytes)] /\ broken \subseteq Clients
  BY DEF TInv, TypeOK
<1>2. pipe[sock] \in Seq(Bytes)
  BY <1>1
<1>3. pipe[sock] \o bytes \in Seq(Bytes)
  BY <1>2, ConcatProperties
<1>4. CASE ~Closed(sock)
  BY <1>1, <1>3, <1>4 DEF Deliver
<1>5. CASE Closed(sock)
  BY <1>1, <1>5 DEF Deliver, Places
<1> QED
  BY <1>4, <1>5

LEMMA BlockTyped ==
  ASSUME TInv, server = "send", offset < Size
  PROVE  /\ Block \in Seq(Bytes) /\ Len(Block) \in Nat \ {0}
         /\ offset + Len(Block) <= Size
         /\ \A i \in 1 .. Len(Block) : Block[i] = <<served[sock], offset + i>>
<1> DEFINE n == IF Size - offset < Chunk THEN Size - offset ELSE Chunk
<1>1. /\ Size \in Nat /\ offset \in Nat /\ Chunk \in Nat \ {0}
      /\ served[sock] \in Paths \cup {Glued}
  BY FileServiceAssumption DEF TInv, TypeOK, Engaged, Size
<1>2. n \in Nat \ {0} /\ offset + n <= Size
  BY <1>1
<1> HIDE DEF n
<1>3. Block = [i \in 1 .. n |-> <<served[sock], offset + i>>]
  BY DEF Block, n
<1>4. \A i \in 1 .. n : <<served[sock], offset + i>> \in Bytes
  BY <1>1, <1>2 DEF Bytes
<1>5. Block \in Seq(Bytes) /\ Len(Block) = n
  BY <1>2, <1>3, <1>4
<1> QED
  BY <1>2, <1>3, <1>5

LEMMA ServerStepTyped == TInv /\ ServerStep => TInv'
<1> SUFFICES ASSUME TInv, ServerStep PROVE TInv'
  OBVIOUS
<1>1. TypeOK /\ Engaged /\ buffer \in Buffers /\ buffer.nuls \subseteq 0 .. buffer.filled
  BY DEF TInv, TypeOK, Engaged
<1>2. CASE accept
  <2>1. Head(backlog) \in Clients /\ Tail(backlog) \in Seq(Clients)
    BY <1>1, <1>2, HeadTailProperties DEF accept, TypeOK
  <2> QED
    BY <1>1, <1>2, <2>1, ServerTyped DEF accept, TypeOK, Places
<1>3. CASE recv
  <2> DEFINE m == request[sock]
  <2>1. sock \in Clients /\ m \in Requests /\ m.cmd \in Commands
    BY <1>1, <1>3 DEF recv, Engaged, Requests
  <2>2. /\ unread' = unread \ {sock} /\ buffer' = Received(m)
        /\ served' = [served EXCEPT ![sock] = PathOf(m)]
        /\ server' = Dispatch(m.cmd, PathOf(m)) /\ offset' = 0
        /\ UNCHANGED <<sock, backlog, pipe, broken, request, phase, got>>
    BY <1>3 DEF recv
  <2> HIDE DEF m
  <2>3. /\ RequestLength(m) \in Nat /\ Spaces(m) \subseteq 0 .. RequestLength(m)
        /\ PathOf(m) \in Paths \cup {Glued}
    BY <2>1, Lengths
  <2>4. served' \in [Clients -> Paths \cup {Glued, NULL}] /\ served'[sock] = PathOf(m)
    BY <1>1, <2>1, <2>2, <2>3 DEF TypeOK
  <2>5. buffer' \in Buffers /\ buffer'.nuls \subseteq 0 .. buffer'.filled
    <3>1. buffer.filled \in Nat /\ buffer.nuls \subseteq 0 .. buffer.filled
      BY <1>1 DEF Buffers
    <3>2. Spaces(m) \cup {n \in buffer.nuls : n >= RequestLength(m)}
            \subseteq 0 .. IF RequestLength(m) > buffer.filled THEN RequestLength(m)
                           ELSE buffer.filled
      BY <2>3, <3>1
    <3> QED
      BY <2>1, <2>2, <2>3, <3>1, <3>2 DEF Received, Buffers
  <2>6. /\ server' \in Places
        /\ server' = "send" => served'[sock] \in Paths \cup {Glued} /\ FileSize[served'[sock]] \in Nat
    BY <2>2, <2>3, <2>4, Dispatched
  <2> QED
    BY <1>1, <2>1, <2>2, <2>4, <2>5, <2>6, ServerTyped DEF TypeOK
<1>4. CASE recvNothing
  <2>1. server' \in Places \ {"send"}
    <3>1. NULL \notin Paths \cup {Glued}
      BY FileServiceAssumption
    <3> QED
      BY <1>4, <3>1, Dispatched DEF recvNothing
  <2>2. sock \in Clients
    BY <1>1, <1>4 DEF recvNothing, Engaged
  <2> QED
    BY <1>1, <1>4, <2>1, <2>2, ServerTyped DEF recvNothing, TypeOK, network
<1>5. CASE sendFile
  <2>1. sock \in Clients /\ server = "send" /\ "send" \in Places
    BY <1>1, <1>5 DEF sendFile, Engaged, Places
  <2>2. Block \in Seq(Bytes) /\ Len(Block) \in Nat
    BY <1>5, BlockTyped DEF sendFile
  <2>3. /\ server' \in Places /\ broken' \subseteq Clients /\ pipe' \in [Clients -> Seq(Bytes)]
    BY <1>5, <2>1, <2>2, Delivered DEF sendFile
  <2>4. offset' \in Nat
    BY <1>1, <1>5, <2>2 DEF sendFile, TypeOK
  <2> QED
    BY <1>1, <1>5, <2>1, <2>3, <2>4, ServerTyped DEF sendFile, TypeOK, Engaged
<1>6. CASE endFile
  BY <1>1, <1>6, ServerTyped DEF endFile, TypeOK, network, Places
<1>7. CASE createFiles
  <2> DEFINE filled == IF buffer.filled < 9 THEN 9 ELSE buffer.filled
             nuls   == (buffer.nuls \ {7, 8}) \cup {9}
  <2>1. buffer' = [buffer EXCEPT !.nuls = nuls, !.filled = filled]
    BY <1>7 DEF createFiles
  <2>2. filled \in Nat /\ nuls \in SUBSET Nat /\ nuls \subseteq 0 .. filled
    BY <1>1 DEF Buffers
  <2> HIDE DEF filled, nuls
  <2>3. buffer' \in Buffers /\ buffer'.nuls = nuls /\ buffer'.filled = filled
    BY <1>1, <2>1, <2>2 DEF Buffers
  <2>4. sock \in Clients /\ server' \in Places \ {"send"}
    BY <1>1, <1>7 DEF createFiles, Engaged, Places
  <2> QED
    BY <1>1, <1>7, <2>2, <2>3, <2>4, ServerTyped DEF createFiles, TypeOK, network
<1>8. CASE perform_info_command \/ farewell \/ perform_put_command
  <2>1. sock \in Clients /\ {"accept", "down"} \subseteq Places
    BY <1>1, <1>8 DEF perform_info_command, farewell, perform_put_command, Engaged, Places
  <2>2. Answer \in Seq(Bytes)
    BY DEF Answer, Bytes
  <2>3. \/ \E next \in {"accept", "down"} : Deliver(Answer, next)
        \/ server' = "accept" /\ UNCHANGED <<pipe, broken>>
    BY <1>8 DEF perform_info_command, farewell, perform_put_command
  <2>4. /\ server' \in {"accept", "down"} /\ broken' \subseteq Clients
        /\ pipe' \in [Clients -> Seq(Bytes)]
    <3>1. CASE \E next \in {"accept", "down"} : Deliver(Answer, next)
      BY <2>1, <2>2, <3>1, Delivered
    <3>2. CASE server' = "accept" /\ UNCHANGED <<pipe, broken>>
      BY <1>1, <3>2 DEF TypeOK
    <3> QED
      BY <2>3, <3>1, <3>2
  <2>5. UNCHANGED <<sock, buffer, offset, served, backlog, unread, request, phase, got>>
    BY <1>8 DEF perform_info_command, farewell, perform_put_command
  <2> QED
    BY <1>1, <2>1, <2>4, <2>5, ServerTyped DEF TypeOK
<1> QED
  BY <1>2, <1>3, <1>4, <1>5, <1>6, <1>7, <1>8 DEF ServerStep

-----------------------------------------------------------------------------
(* The clients.                                                             *)
LEMMA ClientTyped ==
  ASSUME TInv, UNCHANGED serverVars,
         backlog' \in Seq(Clients), unread' \subseteq Clients, broken' \subseteq Clients,
         request' \in [Clients -> Requests \cup {NULL}],
         \A c \in unread' : request'[c] \in Requests,
         phase' \in [Clients -> Phases], pipe' \in [Clients -> Seq(Bytes)],
         got' \in [Clients -> Seq(Bytes)],
         \A c \in Clients : Len(got'[c]) <= Chunk
  PROVE  TInv'
  BY DEF TInv, TypeOK, Engaged, serverVars, Requests

LEMMA TerminatedTyped ==
  ASSUME NEW data \in Seq(Bytes)
  PROVE  Terminated(data) \in Seq(Bytes) /\ Len(Terminated(data)) = Len(data)
<1>1. Zero \in Bytes
  BY DEF Zero, Bytes
<1>2. data # <<>> => 1 \in 1 .. Len(data)
  BY EmptySeq, LenProperties
<1> QED
  BY <1>1, <1>2, ExceptSeq DEF Terminated

LEMMA ClosedTyped ==
  ASSUME TInv, NEW c \in Clients, NEW outcome \in Phases, Close(c, outcome)
  PROVE  /\ phase' \in [Clients -> Phases] /\ pipe' \in [Clients -> Seq(Bytes)]
         /\ broken' \subseteq Clients
         /\ phase'[c] = outcome /\ pipe'[c] = <<>>
         /\ \A d \in Clients \ {c} : phase'[d] = phase[d] /\ pipe'[d] = pipe[d]
<1>1. <<>> \in Seq(Bytes)
  OBVIOUS
<1> QED
  BY <1>1 DEF Close, TInv, TypeOK

LEMMA ReadTyped ==
  ASSUME TInv, NEW c \in Clients, NEW k \in 1 .. Len(pipe[c]),
         got' = [got EXCEPT ![c] = @ \o SubSeq(pipe[c], 1, k)],
         pipe' = [pipe EXCEPT ![c] = SubSeq(@, k + 1, Len(@))]
  PROVE  /\ got' \in [Clients -> Seq(Bytes)] /\ pipe' \in [Clients -> Seq(Bytes)]
         /\ Len(got'[c]) = Len(got[c]) + k /\ Len(pipe'[c]) = Len(pipe[c]) - k
         /\ \A i \in 1 .. Len(got[c]) : got'[c][i] = got[c][i]
         /\ \A i \in 1 .. k : got'[c][Len(got[c]) + i] = pipe[c][i]
         /\ \A i \in 1 .. Len(pipe'[c]) : pipe'[c][i] = pipe[c][k + i]
         /\ \A d \in Clients \ {c} : got'[d] = got[d] /\ pipe'[d] = pipe[d]
<1> DEFINE front == SubSeq(pipe[c], 1, k)
           back  == SubSeq(pipe[c], k + 1, Len(pipe[c]))
<1>1. pipe[c] \in Seq(Bytes) /\ got[c] \in Seq(Bytes)
  BY DEF TInv, TypeOK
<1>2. Len(pipe[c]) \in Nat /\ Len(got[c]) \in Nat /\ \A i \in 1 .. Len(pipe[c]) : pipe[c][i] \in Bytes
  BY <1>1, LenProperties, ElementOfSeq
<1>3. front \in Seq(Bytes) /\ Len(front) = k /\ \A i \in 1 .. k : front[i] = pipe[c][i]
  <2>1. \A i \in 1 .. k : pipe[c][i] \in Bytes
    BY <1>2
  <2>2. /\ front \in Seq(Bytes) /\ Len(front) = (IF 1 <= k THEN k - 1 + 1 ELSE 0)
        /\ \A i \in 1 .. k - 1 + 1 : front[i] = pipe[c][1 + i - 1]
    BY <2>1, SubSeqProperties
  <2> HIDE DEF front
  <2> QED
    BY <2>2
<1>4. /\ back \in Seq(Bytes) /\ Len(back) = Len(pipe[c]) - k
      /\ \A i \in 1 .. Len(back) : back[i] = pipe[c][k + i]
  <2>1. \A i \in k + 1 .. Len(pipe[c]) : pipe[c][i] \in Bytes
    BY <1>2
  <2>2. k + 1 \in Int /\ Len(pipe[c]) \in Int
    BY <1>2
  <2>3. /\ back \in Seq(Bytes)
        /\ Len(back) = (IF k + 1 <= Len(pipe[c]) THEN Len(pipe[c]) - (k + 1) + 1 ELSE 0)
        /\ \A i \in 1 .. Len(pipe[c]) - (k + 1) + 1 : back[i] = pipe[c][(k + 1) + i - 1]
    BY <2>1, <2>2, SubSeqProperties
  <2> HIDE DEF back
  <2> QED
    BY <1>2, <2>3
<1>5. /\ got[c] \o front \in Seq(Bytes) /\ Len(got[c] \o front) = Len(got[c]) + k
      /\ \A i \in 1 .. Len(got[c]) : (got[c] \o front)[i] = got[c][i]
      /\ \A i \in 1 .. k : (got[c] \o front)[Len(got[c]) + i] = pipe[c][i]
  <2> HIDE DEF front
  <2>1. /\ got[c] \o front \in Seq(Bytes) /\ Len(got[c] \o front) = Len(got[c]) + k
        /\ \A i \in 1 .. Len(got[c]) + k : (got[c] \o front)[i] =
             IF i <= Len(got[c]) THEN got[c][i] ELSE front[i - Len(got[c])]
    BY <1>1, <1>3, ConcatProperties
  <2> QED
    BY <1>2, <1>3, <2>1
<1>6. /\ got' = [got EXCEPT ![c] = got[c] \o front] /\ pipe' = [pipe EXCEPT ![c] = back]
      /\ got \in [Clients -> Seq(Bytes)] /\ pipe \in [Clients -> Seq(Bytes)]
  BY DEF TInv, TypeOK
<1> HIDE DEF front, back
<1>7. /\ got' \in [Clients -> Seq(Bytes)] /\ pipe' \in [Clients -> Seq(Bytes)]
      /\ got'[c] = got[c] \o front /\ pipe'[c] = back
      /\ \A d \in Clients \ {c} : got'[d] = got[d] /\ pipe'[d] = pipe[d]
  BY <1>4, <1>5, <1>6
<1> QED
  BY <1>4, <1>5, <1>7

LEMMA ClientStepTyped ==
  ASSUME TInv, NEW c \in Clients, ClientStep(c) \/ Kill(c)
  PROVE  TInv'
<1>1. /\ TypeOK /\ Engaged /\ request \in [Clients -> Requests \cup {NULL}]
      /\ unread \subseteq Clients /\ \A d \in unread : request[d] \in Requests
      /\ got \in [Clients -> Seq(Bytes)] /\ pipe \in [Clients -> Seq(Bytes)]
      /\ phase \in [Clients -> Phases] /\ backlog \in Seq(Clients) /\ broken \subseteq Clients
      /\ \A d \in Clients : Len(got[d]) <= Chunk
  BY DEF TInv, TypeOK, Engaged, Requests
<1>2. {"idle", "connected", "reading", "ready?", "saved", "failed", "left", "killed"} = Phases
  BY DEF Phases
<1>3. CASE Connect(c)
  <2>1. Append(backlog, c) \in Seq(Clients)
    BY <1>1, AppendProperties
  <2>2. phase' \in [Clients -> Phases] /\ backlog' \in Seq(Clients)
    BY <1>1, <1>2, <1>3, <2>1 DEF Connect
  <2> QED
    BY <1>1, <1>3, <2>2, ClientTyped DEF Connect
<1>4. CASE \E p \in Paths : Ask(c, p) \/ AskPut(c, p) \/ SendAndLeave(c, p)
  <2>1. PICK m \in Requests, next \in {"reading", "ready?", "left"} : Post(c, m, next)
    BY <1>4 DEF Ask, AskPut, SendAndLeave, Request, Requests, Commands
  <2>2. /\ request' \in [Clients -> Requests \cup {NULL}] /\ phase' \in [Clients -> Phases]
        /\ unread' = unread \cup {c} /\ request'[c] = m
        /\ \A d \in unread \ {c} : request'[d] \in Requests
    BY <1>1, <1>2, <2>1 DEF Post
  <2> QED
    BY <1>1, <2>1, <2>2, ClientTyped DEF Post
<1>5. CASE LeaveSilently(c)
  <2>1. phase' \in [Clients -> Phases]
    BY <1>1, <1>2, <1>5 DEF LeaveSilently
  <2> QED
    BY <1>1, <1>5, <2>1, ClientTyped DEF LeaveSilently, network
<1>6. CASE Read(c)
  <2>1. /\ got' \in [Clients -> Seq(Bytes)] /\ pipe' \in [Clients -> Seq(Bytes)]
        /\ \A d \in Clients : Len(got'[d]) <= Chunk
    <3>1. PICK k \in 1 .. Len(pipe[c]) :
            /\ Fits(c, k)
            /\ got' = [got EXCEPT ![c] = @ \o SubSeq(pipe[c], 1, k)]
            /\ pipe' = [pipe EXCEPT ![c] = SubSeq(@, k + 1, Len(@))]
      BY <1>6 DEF Read
    <3>2. /\ got' \in [Clients -> Seq(Bytes)] /\ pipe' \in [Clients -> Seq(Bytes)]
          /\ Len(got'[c]) = Len(got[c]) + k
          /\ \A d \in Clients \ {c} : got'[d] = got[d]
      BY <3>1, ReadTyped
    <3> QED
      BY <1>1, <3>1, <3>2 DEF Fits
  <2> QED
    BY <1>1, <1>6, <2>1, ClientTyped DEF Read
<1>7. CASE Save(c)
  <2>1. /\ phase' \in [Clients -> Phases] /\ pipe' \in [Clients -> Seq(Bytes)]
        /\ broken' \subseteq Clients
    BY <1>2, <1>7, ClosedTyped DEF Save
  <2>3. got[c] \in Seq(Bytes) /\ got' = [got EXCEPT ![c] = Terminated(got[c])]
    BY <1>1, <1>7 DEF Save
  <2>4. Terminated(got[c]) \in Seq(Bytes) /\ Len(Terminated(got[c])) = Len(got[c])
    BY <2>3, TerminatedTyped
  <2>2. got' \in [Clients -> Seq(Bytes)] /\ \A d \in Clients : Len(got'[d]) <= Chunk
    BY <1>1, <2>3, <2>4
  <2> QED
    BY <1>1, <1>7, <2>1, <2>2, ClientTyped DEF Save
<1>8. CASE NotReady(c) \/ Reset(c) \/ Kill(c)
  <2>1. PICK outcome \in {"failed", "killed"} : Close(c, outcome)
    BY <1>8 DEF NotReady, Reset, Kill
  <2>2. /\ phase' \in [Clients -> Phases] /\ pipe' \in [Clients -> Seq(Bytes)]
        /\ broken' \subseteq Clients
    BY <1>2, <2>1, ClosedTyped
  <2>3. UNCHANGED <<serverVars, backlog, unread, request, got>>
    BY <1>8 DEF NotReady, Reset, Kill
  <2> QED
    BY <1>1, <2>2, <2>3, ClientTyped
<1> QED
  BY <1>3, <1>4, <1>5, <1>6, <1>7, <1>8 DEF ClientStep

LEMMA NextTInv == TInv /\ [Next]_vars => TInv'
<1> SUFFICES ASSUME TInv, [Next]_vars PROVE TInv'
  OBVIOUS
<1>1. CASE UNCHANGED vars
  BY <1>1 DEF vars, serverVars, network, TInv, TypeOK, Engaged
<1> QED
  BY <1>1, ServerStepTyped, ClientStepTyped DEF Next

LEMMA AlwaysTInv == Spec => []TInv
  BY InitTInv, NextTInv, PTL DEF Spec

(* The places and connections of server.c and the clients of fgets.c have   *)
(* their types; the server is in a command only with a client of its own.   *)
THEOREM ServiceTypeCorrect == Spec => []TypeOK
  BY AlwaysTInv, PTL DEF TInv

-----------------------------------------------------------------------------
(* What a client saves.  Before its request is received nothing flows; then *)
(* what it has and what is on its way are together the file as far as it    *)
(* has been sent.                                                           *)
Fresh(c) ==
  phase[c] \in {"idle", "connected"} => pipe[c] = <<>> /\ got[c] = <<>> /\ c \notin unread

Unheard(c) ==
  c \in unread => pipe[c] = <<>> /\ got[c] = <<>> /\ phase[c] # "saved"

Sent(c) == IF server = "send" /\ sock = c THEN offset
           ELSE IF FileSize[served[c]] > 0 THEN FileSize[served[c]] ELSE 0

Streaming(c) ==
  phase[c] = "reading" /\ Gets(c) /\ c \notin unread =>
    /\ served[c] # NULL
    /\ Len(got[c]) + Len(pipe[c]) = Sent(c)
    /\ \A i \in 1 .. Len(got[c]) : got[c][i] = <<served[c], i>>
    /\ \A i \in 1 .. Len(pipe[c]) : pipe[c][i] = <<served[c], Len(got[c]) + i>>

Saved(c) ==
  phase[c] = "saved" /\ Gets(c) =>
    LET size == FileSize[served[c]]
    IN  /\ served[c] # NULL
        /\ got[c] = Terminated([i \in 1 .. (IF size < Chunk THEN size ELSE Chunk) |->
                                  <<served[c], i>>])

Client(c) == Fresh(c) /\ Unheard(c) /\ Len(got[c]) <= Chunk /\ Streaming(c) /\ Saved(c)

(* The server answers a client that has asked, and no answer but a file     *)
(* goes to a GET that still waits.                                          *)
Serving ==
  server \in {"send", "info", "farewell", "create", "put"} =>
    /\ sock \notin unread /\ phase[sock] \notin {"idle", "connected"}
    /\ server = "send" => offset <= Size
    /\ server # "send" => ~Gets(sock) \/ Closed(sock)

SInv == Serving /\ \A c \in Clients : Client(c)

LEMMA InitSInv == Init => SInv
<1> SUFFICES ASSUME Init PROVE SInv
  OBVIOUS
<1>1. \A c \in Clients : pipe[c] = <<>> /\ got[c] = <<>> /\ phase[c] = "idle" /\ c \notin unread
  BY DEF Init
<1>2. 0 <= Chunk /\ Len(<<>>) = 0
  BY FileServiceAssumption
<1>3. Serving
  BY DEF Init, Serving
<1> QED
  BY <1>1, <1>2, <1>3 DEF SInv, Client, Fresh, Unheard, Streaming, Saved

(* A client nothing happens to.                                             *)
LEMMA Kept ==
  ASSUME NEW c \in Clients, Client(c),
         pipe'[c] = pipe[c], got'[c] = got[c], phase'[c] = phase[c],
         request'[c] = request[c], served'[c] = served[c], c \in unread' <=> c \in unread,
         Sent(c)' = Sent(c) \/ phase[c] # "reading"
  PROVE  Client(c)'
<1>1. Gets(c)' <=> Gets(c)
  BY DEF Gets
<1>2. Streaming(c)'
  BY <1>1 DEF Client, Streaming
<1>3. Saved(c)'
  BY <1>1 DEF Client, Saved
<1> QED
  BY <1>2, <1>3 DEF Client, Fresh, Unheard

(* What the server has sent to a client it does not handle, whatever it     *)
(* does with its own.                                                       *)
LEMMA SentElsewhere ==
  ASSUME NEW c \in Clients, served'[c] = served[c],
         server # "send" \/ sock # c, server' # "send" \/ sock' # c
  PROVE  Sent(c)' = Sent(c)
  BY DEF Sent

(* The steps of the server that send nothing and receive nothing.           *)
LEMMA ServerMoves ==
  ASSUME TInv, SInv, UNCHANGED <<unread, pipe, request, phase, got, served>>,
         server # "send" \/ (sock' = sock /\ offset = Size), server' # "send",
         Serving'
  PROVE  SInv'
<1> SUFFICES ASSUME NEW c \in Clients PROVE Client(c)'
  BY DEF SInv
<1>1. Client(c)
  BY DEF SInv
<1>2. Sent(c)' = Sent(c)
  <2>1. CASE server = "send" /\ sock = c
    <3>1. FileSize[served[c]] \in Nat /\ offset = FileSize[served[c]]
      BY <2>1 DEF TInv, Engaged, Size
    <3> QED
      BY <2>1, <3>1 DEF Sent
  <2>2. CASE ~(server = "send" /\ sock = c)
    BY <2>2, SentElsewhere
  <2> QED
    BY <2>1, <2>2
<1> QED
  BY <1>1, <1>2, Kept

(* The answers that are no file.                                            *)
LEMMA ServerAnswers ==
  ASSUME TInv, SInv, server \in {"info", "farewell", "put"}, NEW next \in {"accept", "down"},
         Deliver(Answer, next), UNCHANGED <<sock, served, unread, request, phase, got>>
  PROVE  SInv'
<1>1. sock \in Clients /\ Answer \in Seq(Bytes) /\ next \in Places
  BY DEF TInv, Engaged, Answer, Bytes, Places
<1>2. /\ server' \in {"accept", "down"}
      /\ \A c \in Clients \ {sock} : pipe'[c] = pipe[c]
      /\ Closed(sock) => pipe'[sock] = pipe[sock]
  BY <1>1, Delivered
<1>3. /\ sock \notin unread /\ phase[sock] \notin {"idle", "connected"}
      /\ ~Gets(sock) \/ Closed(sock)
  BY DEF SInv, Serving
<1>4. Serving'
  BY <1>2 DEF Serving
<1> SUFFICES ASSUME NEW c \in Clients PROVE Client(c)'
  BY <1>4 DEF SInv
<1>5. Client(c) /\ Sent(c)' = Sent(c)
  BY <1>2, SentElsewhere DEF SInv
<1>6. CASE pipe'[c] = pipe[c]
  BY <1>5, <1>6, Kept
<1>7. CASE c = sock /\ ~Gets(sock)
  BY <1>3, <1>5, <1>7 DEF Client, Fresh, Unheard, Streaming, Saved, Gets
<1> QED
  BY <1>2, <1>3, <1>6, <1>7

(* Sums of lengths, free of the sequences.                                  *)
LEMMA Sums ==
  ASSUME NEW g \in Nat, NEW p \in Nat, NEW o \in Nat, g + p = o
  PROVE  /\ \A n \in Nat : g + (p + n) = o + n
         /\ \A i \in Nat : o + (i - p) = g + i
  OBVIOUS

(* A block of the file goes to the client that asked for it.                *)
LEMMA ServerSends == TInv /\ SInv /\ sendFile => SInv'
<1> SUFFICES ASSUME TInv, SInv, sendFile PROVE SInv'
  OBVIOUS
<1>1. /\ server = "send" /\ offset < Size /\ Deliver(Block, "send")
      /\ offset' = offset + Len(Block)
      /\ UNCHANGED <<sock, buffer, served, backlog, unread, request, phase, got>>
  BY DEF sendFile
<1>2. /\ Block \in Seq(Bytes) /\ Len(Block) \in Nat \ {0} /\ offset + Len(Block) <= Size
      /\ \A i \in 1 .. Len(Block) : Block[i] = <<served[sock], offset + i>>
  BY <1>1, BlockTyped
<1>3. sock \in Clients /\ "send" \in Places /\ offset \in Nat /\ offset' \in Nat
  BY <1>1, <1>2 DEF TInv, TypeOK, Engaged, Places
<1>4. /\ server' \in {"send", "down"}
      /\ ~Closed(sock) => server' = "send" /\ pipe'[sock] = pipe[sock] \o Block
      /\ Closed(sock) => pipe'[sock] = pipe[sock]
      /\ \A c \in Clients \ {sock} : pipe'[c] = pipe[c]
  BY <1>1, <1>2, <1>3, Delivered
<1>5. sock \notin unread /\ phase[sock] \notin {"idle", "connected"}
  BY <1>1 DEF SInv, Serving
<1>6. Serving'
  <2>1. Size' = Size /\ offset' <= Size
    BY <1>1, <1>2 DEF Size
  <2> QED
    BY <1>1, <1>4, <1>5, <2>1 DEF Serving
<1> SUFFICES ASSUME NEW c \in Clients PROVE Client(c)'
  BY <1>6 DEF SInv
<1>7. Client(c)
  BY DEF SInv
<1>8. CASE c # sock
  <2>1. Sent(c)' = Sent(c)
    BY <1>1, <1>8, SentElsewhere
  <2> QED
    BY <1>1, <1>4, <1>7, <1>8, <2>1, Kept
<1>9. CASE c = sock /\ Closed(sock)
  <2>1. phase[c] # "reading"
    BY <1>9 DEF Closed
  <2> QED
    BY <1>1, <1>4, <1>7, <1>9, <2>1, Kept
<1>10. CASE c = sock /\ ~Closed(sock)
  <2>1. pipe[c] \in Seq(Bytes) /\ got[c] \in Seq(Bytes)
    BY DEF TInv, TypeOK
  <2>2. Len(pipe[c]) \in Nat /\ Len(got[c]) \in Nat
    BY <2>1, LenProperties
  <2>3. /\ Len(pipe'[c]) = Len(pipe[c]) + Len(Block)
        /\ \A i \in 1 .. Len(pipe[c]) + Len(Block) :
             pipe'[c][i] = IF i <= Len(pipe[c]) THEN pipe[c][i] ELSE Block[i - Len(pipe[c])]
    <3>1. pipe'[c] = pipe[c] \o Block /\ Block \in Seq(Bytes)
      BY <1>2, <1>4, <1>10
    <3> QED
      BY <2>1, <3>1, ConcatProperties
  <2>4. Streaming(c)'
    <3> SUFFICES ASSUME phase[c] = "reading", Gets(c), c \notin unread PROVE Streaming(c)'
      BY <1>1 DEF Streaming, Gets
    <3>5. Len(got[c]) + Len(pipe[c]) = offset
      BY <1>1, <1>7, <1>10 DEF Client, Streaming, Sent
    <3>1. /\ served[c] # NULL
          /\ \A i \in 1 .. Len(got[c]) : got[c][i] = <<served[c], i>>
          /\ \A i \in 1 .. Len(pipe[c]) : pipe[c][i] = <<served[c], Len(got[c]) + i>>
      BY <1>1, <1>7, <1>10 DEF Client, Streaming, Sent
    <3>2. Sent(c)' = offset'
      BY <1>1, <1>4, <1>10 DEF Sent
    <3>3. Len(got[c]) + Len(pipe'[c]) = Sent(c)'
      <4>1. Len(pipe'[c]) = Len(pipe[c]) + Len(Block) /\ Len(Block) \in Nat
        BY <1>2, <2>3
      <4>2. Len(got[c]) + (Len(pipe[c]) + Len(Block)) = offset + Len(Block)
        <5> DEFINE g == Len(got[c])
                   p == Len(pipe[c])
                   n == Len(Block)
        <5>1. g \in Nat /\ p \in Nat /\ n \in Nat /\ offset \in Nat /\ g + p = offset
          BY <1>3, <2>2, <3>5, <4>1
        <5> HIDE DEF g, p, n
        <5>2. g + (p + n) = offset + n
          BY <5>1, Sums
        <5> QED
          BY <5>2 DEF g, p, n
      <4> QED
        BY <1>1, <3>2, <4>1, <4>2
    <3>4. ASSUME NEW i \in 1 .. Len(pipe'[c])
          PROVE  pipe'[c][i] = <<served[c], Len(got[c]) + i>>
      <4>1. i \in Nat /\ 1 <= i /\ i <= Len(pipe[c]) + Len(Block)
        BY <1>2, <2>2, <2>3
      <4>2. CASE i <= Len(pipe[c])
        <5>1. i \in 1 .. Len(pipe[c]) /\ i \in 1 .. Len(pipe[c]) + Len(Block)
          BY <1>2, <2>2, <4>1, <4>2
        <5>2. pipe'[c][i] = pipe[c][i]
          BY <2>3, <4>2, <5>1
        <5> QED
          BY <3>1, <5>1, <5>2
      <4>3. CASE i > Len(pipe[c])
        <5>1. i - Len(pipe[c]) \in 1 .. Len(Block)
          BY <1>2, <2>2, <4>1, <4>3
        <5>2. pipe'[c][i] = <<served[c], offset + (i - Len(pipe[c]))>>
          <6>1. pipe'[c][i] = Block[i - Len(pipe[c])]
            BY <1>2, <2>2, <2>3, <4>1, <4>3
          <6> QED
            BY <1>2, <1>10, <5>1, <6>1
        <5>3. offset + (i - Len(pipe[c])) = Len(got[c]) + i
          <6> DEFINE g == Len(got[c])
                     p == Len(pipe[c])
          <6>1. g \in Nat /\ p \in Nat /\ i \in Nat /\ offset \in Nat /\ g + p = offset
            BY <1>3, <2>2, <3>5, <4>1
          <6> HIDE DEF g, p
          <6>2. offset + (i - p) = g + i
            BY <6>1, Sums
          <6> QED
            BY <6>2 DEF g, p
        <5> QED
          BY <5>2, <5>3
      <4> QED
        BY <2>2, <4>1, <4>2, <4>3
    <3> QED
      BY <1>1, <3>1, <3>3, <3>4 DEF Streaming
  <2> QED
    BY <1>1, <1>5, <1>7, <1>10, <2>4 DEF Client, Fresh, Unheard, Saved, Gets
<1> QED
  BY <1>8, <1>9, <1>10

(* A request is received: nothing has flowed yet.                           *)
LEMMA ServerReceives == TInv /\ SInv /\ recv => SInv'
<1> SUFFICES ASSUME TInv, SInv, recv PROVE SInv'
  OBVIOUS
<1> DEFINE m == request[sock]
           path == PathOf(m)
<1>1. /\ server = "recv" /\ sock \in unread /\ sock \in Clients /\ m \in Requests
      /\ unread' = unread \ {sock} /\ offset' = 0
      /\ served' = [served EXCEPT ![sock] = path] /\ server' = Dispatch(m.cmd, path)
      /\ UNCHANGED <<sock, pipe, request, phase, got>>
  BY DEF recv, TInv, Engaged
<1>2. path \in Paths \cup {Glued} /\ served \in [Clients -> Paths \cup {Glued, NULL}]
  BY <1>1, Lengths DEF TInv, TypeOK
<1>3. served'[sock] = path /\ \A c \in Clients \ {sock} : served'[c] = served[c]
  BY <1>1, <1>2
<1>4. path # NULL /\ FileSize[path] \in Nat \cup {-1}
  BY <1>2, FileServiceAssumption
<1>5. /\ server' = "send" => m.cmd = "GET" /\ FileSize[path] \in Nat
      /\ m.cmd = "GET" => server' \in {"send", "down"}
      /\ m.cmd = "GET" /\ server' = "down" => ~Exists(path)
  BY <1>1, <1>2, Dispatched
<1>6. Gets(sock)' => m.cmd = "GET"
  BY <1>1 DEF Gets
<1> HIDE DEF m, path
<1>7. Client(sock)
  BY <1>1 DEF SInv
<1>8. /\ pipe[sock] = <<>> /\ got[sock] = <<>> /\ phase[sock] \notin {"saved", "idle", "connected"}
  BY <1>1, <1>7 DEF Client, Fresh, Unheard
<1>9. Serving'
  <2>1. server' = "send" => offset' <= Size'
    BY <1>1, <1>3, <1>5 DEF Size
  <2> QED
    BY <1>1, <1>5, <1>6, <1>8, <2>1 DEF Serving
<1> SUFFICES ASSUME NEW c \in Clients PROVE Client(c)'
  BY <1>9 DEF SInv
<1>10. CASE c # sock
  <2>1. Sent(c)' = Sent(c)
    BY <1>1, <1>3, <1>10, SentElsewhere
  <2> QED
    BY <1>1, <1>3, <1>10, <2>1, Kept DEF SInv
<1>11. CASE c = sock
  <2>1. Gets(c)' => Sent(c)' = 0
    <3>1. CASE server' = "send"
      BY <1>1, <1>11, <3>1 DEF Sent
    <3>2. ASSUME server' = "down", ~Exists(path) PROVE Sent(c)' = 0
      <4>1. ~(FileSize[path] > 0)
        BY <1>4, <3>2 DEF Exists
      <4> QED
        BY <1>3, <1>11, <3>2, <4>1 DEF Sent
    <3> QED
      <4>1. Gets(c)' => server' = "send" \/ (server' = "down" /\ ~Exists(path))
        <5>1. Gets(c)' => m.cmd = "GET"
          BY <1>1, <1>11 DEF Gets, m
        <5> QED
          BY <1>5, <5>1
      <4> QED
        BY <3>1, <3>2, <4>1
  <2>2. Streaming(c)'
    <3>1. got'[c] = <<>> /\ pipe'[c] = <<>> /\ served'[c] # NULL
      BY <1>1, <1>3, <1>4, <1>8, <1>11
    <3>2. Len(got'[c]) = 0 /\ Len(pipe'[c]) = 0
      BY <3>1
    <3>3. Gets(c)' => Len(got'[c]) + Len(pipe'[c]) = Sent(c)'
      BY <2>1, <3>2
    <3> QED
      BY <3>1, <3>2, <3>3 DEF Streaming
  <2>3. Len(got'[c]) <= Chunk /\ c \notin unread' /\ phase'[c] \notin {"saved", "idle", "connected"}
    BY <1>1, <1>7, <1>8, <1>11 DEF Client
  <2> QED
    BY <2>2, <2>3 DEF Client, Fresh, Unheard, Saved
<1> QED
  BY <1>10, <1>11

LEMMA ServerStepSInv == TInv /\ SInv /\ ServerStep => SInv'
<1> SUFFICES ASSUME TInv, SInv, ServerStep PROVE SInv'
  OBVIOUS
<1>1. CASE accept
  <2>1. Serving'
    BY <1>1 DEF accept, Serving
  <2> QED
    BY <1>1, <2>1, ServerMoves DEF accept
<1>2. CASE recv
  BY <1>2, ServerReceives
<1>3. CASE recvNothing
  <2>1. server' # "send"
    <3>1. NULL \notin Paths \cup {Glued}
      BY FileServiceAssumption
    <3> QED
      BY <1>3, <3>1, Dispatched DEF recvNothing
  <2>2. Closed(sock) /\ sock \notin unread
    BY <1>3 DEF recvNothing, Eof
  <2>3. Serving'
    BY <1>3, <2>1, <2>2 DEF recvNothing, network, Serving, Closed
  <2> QED
    BY <1>3, <2>1, <2>3, ServerMoves DEF recvNothing, network
<1>4. CASE sendFile
  BY <1>4, ServerSends
<1>5. CASE endFile
  <2>1. Serving'
    BY <1>5 DEF endFile, Serving
  <2> QED
    BY <1>5, <2>1, ServerMoves DEF endFile, network
<1>6. CASE createFiles
  <2>1. Serving'
    BY <1>6 DEF createFiles, network, SInv, Serving, Gets, Closed
  <2> QED
    BY <1>6, <2>1, ServerMoves DEF createFiles, network
<1>7. CASE perform_info_command \/ farewell \/ perform_put_command
  <2>1. /\ server \in {"info", "farewell", "put"}
        /\ UNCHANGED <<sock, served, unread, request, phase, got>>
    BY <1>7 DEF perform_info_command, farewell, perform_put_command
  <2>2. \/ \E next \in {"accept", "down"} : Deliver(Answer, next)
        \/ server' = "accept" /\ UNCHANGED <<pipe, broken>>
    BY <1>7 DEF perform_info_command, farewell, perform_put_command
  <2>3. CASE \E next \in {"accept", "down"} : Deliver(Answer, next)
    BY <2>1, <2>3, ServerAnswers
  <2>4. CASE server' = "accept" /\ UNCHANGED <<pipe, broken>>
    <3>1. Serving'
      BY <2>4 DEF Serving
    <3> QED
      BY <2>1, <2>4, <3>1, ServerMoves
  <2> QED
    BY <2>2, <2>3, <2>4
<1> QED
  BY <1>1, <1>2, <1>3, <1>4, <1>5, <1>6, <1>7 DEF ServerStep

(* A step of client c leaves the others and the server's side alone: c is   *)
(* not being served yet, or it keeps its request and what it has left for.  *)
LEMMA OnlyClient ==
  ASSUME TInv, SInv, NEW c \in Clients, UNCHANGED serverVars,
         \A d \in Clients \ {c} : /\ pipe'[d] = pipe[d] /\ got'[d] = got[d]
                                  /\ phase'[d] = phase[d] /\ request'[d] = request[d]
                                  /\ d \in unread' <=> d \in unread,
         \/ phase[c] \in {"idle", "connected"}
         \/ /\ request'[c] = request[c] /\ (c \in unread' <=> c \in unread)
            /\ phase'[c] \notin {"idle", "connected"}
            /\ Closed(c) => Closed(c)',
         Client(c)'
  PROVE  SInv'
<1>1. ASSUME NEW d \in Clients, d # c PROVE Client(d)'
  <2>1. Client(d) /\ Sent(d)' = Sent(d)
    BY DEF SInv, Sent, serverVars
  <2> QED
    BY <1>1, <2>1, Kept DEF serverVars
<1>2. Serving'
  <2> SUFFICES ASSUME server \in {"send", "info", "farewell", "create", "put"} PROVE Serving'
    BY DEF Serving, serverVars
  <2>1. /\ sock \in Clients /\ sock \notin unread /\ phase[sock] \notin {"idle", "connected"}
        /\ server = "send" => offset <= Size
        /\ server # "send" => ~Gets(sock) \/ Closed(sock)
    BY DEF TInv, Engaged, SInv, Serving
  <2>2. sock' = sock /\ server' = server /\ offset' = offset /\ Size' = Size
    BY DEF serverVars, Size
  <2>3. /\ sock \notin unread' /\ phase'[sock] \notin {"idle", "connected"}
        /\ request'[sock] = request[sock]
    BY <2>1
  <2>4. Closed(sock) => phase'[sock] \in {"saved", "failed", "left", "killed"}
    BY <2>1 DEF Closed
  <2> QED
    BY <2>1, <2>2, <2>3, <2>4 DEF Serving, Gets, Closed
<1> QED
  BY <1>1, <1>2 DEF SInv

(* A client that does not have a saved file, and is not reading.            *)
LEMMA NothingSaved ==
  ASSUME NEW c \in Clients, Len(got'[c]) <= Chunk,
         phase'[c] \notin {"idle", "connected", "reading", "saved"},
         c \in unread' => pipe'[c] = <<>> /\ got'[c] = <<>>
  PROVE  Client(c)'
  BY DEF Client, Fresh, Unheard, Streaming, Saved

(* What is read moves from the connection to the file.                      *)
LEMMA ReadKeeps ==
  ASSUME TInv, SInv, NEW c \in Clients, Read(c)
  PROVE  SInv'
<1>1. PICK k \in 1 .. Len(pipe[c]) :
        /\ Fits(c, k)
        /\ got' = [got EXCEPT ![c] = @ \o SubSeq(pipe[c], 1, k)]
        /\ pipe' = [pipe EXCEPT ![c] = SubSeq(@, k + 1, Len(@))]
  BY DEF Read
<1>2. /\ phase[c] = "reading"
      /\ UNCHANGED <<serverVars, backlog, unread, broken, request, phase>>
  BY DEF Read
<1>3. /\ Len(got'[c]) = Len(got[c]) + k /\ Len(pipe'[c]) = Len(pipe[c]) - k
      /\ \A i \in 1 .. Len(got[c]) : got'[c][i] = got[c][i]
      /\ \A i \in 1 .. k : got'[c][Len(got[c]) + i] = pipe[c][i]
      /\ \A i \in 1 .. Len(pipe'[c]) : pipe'[c][i] = pipe[c][k + i]
      /\ \A d \in Clients \ {c} : got'[d] = got[d] /\ pipe'[d] = pipe[d]
  BY <1>1, ReadTyped
<1>4. Client(c) /\ Sent(c)' = Sent(c)
  BY <1>2 DEF SInv, Sent, serverVars
<1> DEFINE g == Len(got[c])
           p == Len(pipe[c])
<1>5. g \in Nat /\ p \in Nat /\ k \in Nat /\ 1 <= k /\ k <= p /\ g + k <= Chunk
  <2>1. pipe[c] \in Seq(Bytes) /\ got[c] \in Seq(Bytes)
    BY DEF TInv, TypeOK
  <2> QED
    BY <1>1, <2>1, LenProperties DEF Fits
<1>6. Len(got'[c]) = g + k /\ Len(pipe'[c]) = p - k
  BY <1>3
<1>7. c \notin unread
  <2>1. c \in unread => Len(pipe[c]) = 0
    BY <1>4 DEF Client, Unheard
  <2> HIDE DEF g
  <2> QED
    BY <1>5, <2>1
<1>8. Streaming(c)'
  <2> SUFFICES ASSUME Gets(c) PROVE Streaming(c)'
    BY <1>2 DEF Streaming, Gets
  <2>1. /\ served[c] # NULL /\ g + p = Sent(c)
        /\ \A i \in 1 .. g : got[c][i] = <<served[c], i>>
        /\ \A i \in 1 .. p : pipe[c][i] = <<served[c], g + i>>
    BY <1>2, <1>4, <1>7 DEF Client, Streaming
  <2>2. /\ \A i \in 1 .. g : got'[c][i] = got[c][i]
        /\ \A i \in 1 .. k : got'[c][g + i] = pipe[c][i]
        /\ \A i \in 1 .. p - k : pipe'[c][i] = pipe[c][k + i]
    BY <1>3
  <2> HIDE DEF g, p
  <2>3. (g + k) + (p - k) = g + p
    BY <1>5
  <2>4. ASSUME NEW i \in 1 .. g + k PROVE got'[c][i] = <<served[c], i>>
    <3>1. CASE i <= g
      <4>1. i \in 1 .. g
        BY <1>5, <3>1
      <4> QED
        BY <2>1, <2>2, <4>1
    <3>2. CASE i > g
      <4>1. i - g \in 1 .. k /\ i - g \in 1 .. p /\ g + (i - g) = i
        BY <1>5, <3>2
      <4> QED
        BY <2>1, <2>2, <4>1
    <3> QED
      BY <1>5, <3>1, <3>2
  <2>5. ASSUME NEW i \in 1 .. p - k PROVE pipe'[c][i] = <<served[c], (g + k) + i>>
    <3>1. k + i \in 1 .. p /\ g + (k + i) = (g + k) + i
      BY <1>5
    <3> QED
      BY <2>1, <2>2, <3>1
  <2>6. served' = served
    BY <1>2 DEF serverVars
  <2> QED
    BY <1>4, <1>6, <2>1, <2>3, <2>4, <2>5, <2>6 DEF Streaming
<1>9. Client(c)'
  <2>1. Len(got'[c]) <= Chunk
    BY <1>1, <1>3 DEF Fits
  <2> QED
    BY <1>2, <1>7, <1>8, <2>1 DEF Client, Fresh, Unheard, Saved
<1> QED
  BY <1>2, <1>3, <1>9, OnlyClient DEF Closed

(* A client stops reading when its buffer is full or the server, whose exit *)
(* ends the stream, has sent the whole file.                                *)
LEMMA WholeWhenSaved ==
  ASSUME TInv, SInv, NEW c \in Clients, phase[c] = "reading", Gets(c),
         Len(got[c]) = Chunk \/ AtEnd(c)
  PROVE  /\ served[c] # NULL
         /\ got[c] = [i \in 1 .. (IF FileSize[served[c]] < Chunk THEN FileSize[served[c]]
                                  ELSE Chunk) |-> <<served[c], i>>]
<1> DEFINE size == FileSize[served[c]]
           n    == Len(got[c])
           p    == Len(pipe[c])
           m    == IF size < Chunk THEN size ELSE Chunk
<1>1. /\ pipe[c] \in Seq(Bytes) /\ got[c] \in Seq(Bytes) /\ offset \in Nat
      /\ served[c] \in Paths \cup {Glued, NULL} /\ Chunk \in Nat /\ Chunk > 0
  BY FileServiceAssumption DEF TInv, TypeOK
<1>2. Client(c)
  BY DEF SInv
<1>3. c \notin unread
  <2>1. c \in unread => Len(got[c]) = 0
    BY <1>2 DEF Client, Unheard
  <2> QED
    BY <1>1, <2>1 DEF AtEnd
<1>4. /\ served[c] # NULL /\ n + p = Sent(c) /\ n <= Chunk
      /\ \A i \in 1 .. n : got[c][i] = <<served[c], i>>
  BY <1>2, <1>3 DEF Client, Streaming
<1>5. size \in Nat \cup {-1} /\ n \in Nat /\ p \in Nat
  <2>1. served[c] \in Paths \cup {Glued}
    BY <1>1, <1>4
  <2> QED
    BY <1>1, <2>1, FileServiceAssumption, LenProperties
<1>6. \/ Sent(c) = (IF size > 0 THEN size ELSE 0)
      \/ server = "send" /\ Sent(c) = offset /\ offset <= size
  BY DEF SInv, Serving, Size, Sent
<1>7. n = Chunk \/ (p = 0 /\ server = "down")
  BY DEF AtEnd
<1>8. got[c] = [i \in 1 .. n |-> got[c][i]]
  BY <1>1
<1> HIDE DEF size, n, p
<1>9. 1 .. n = 1 .. m
  <2> DEFINE sent == Sent(c)
  <2>1. n + p = sent /\ n <= Chunk
    BY <1>4
  <2>2. sent = (IF size > 0 THEN size ELSE 0) \/ (server = "send" /\ sent = offset /\ offset <= size)
    BY <1>6
  <2> HIDE DEF sent
  <2>3. CASE n = Chunk
    BY <1>1, <1>5, <2>1, <2>2, <2>3
  <2>4. CASE p = 0 /\ server = "down"
    <3>1. n = (IF size > 0 THEN size ELSE 0)
      BY <1>5, <2>1, <2>2, <2>4
    <3> QED
      BY <1>1, <1>5, <2>1, <3>1
  <2> QED
    BY <1>7, <2>3, <2>4
<1>10. got[c] = [i \in 1 .. n |-> <<served[c], i>>]
  BY <1>4, <1>8
<1> QED
  BY <1>4, <1>9, <1>10 DEF size

LEMMA SaveKeeps ==
  ASSUME TInv, SInv, NEW c \in Clients, Save(c)
  PROVE  SInv'
<1>1. /\ phase[c] = "reading" /\ (Len(got[c]) = Chunk \/ AtEnd(c))
      /\ got' = [got EXCEPT ![c] = Terminated(@)] /\ Close(c, "saved")
      /\ UNCHANGED <<serverVars, backlog, unread, request>>
  BY DEF Save
<1>2. /\ got[c] \in Seq(Bytes) /\ got'[c] = Terminated(got[c])
      /\ \A d \in Clients \ {c} : got'[d] = got[d]
  BY <1>1 DEF TInv, TypeOK
<1>3. /\ phase'[c] = "saved" /\ pipe'[c] = <<>>
      /\ \A d \in Clients \ {c} : phase'[d] = phase[d] /\ pipe'[d] = pipe[d]
  BY <1>1, ClosedTyped DEF Phases
<1>4. Len(got'[c]) <= Chunk
  <2>1. Len(got'[c]) = Len(got[c])
    BY <1>2, TerminatedTyped
  <2> QED
    BY <2>1 DEF SInv, Client
<1>5. c \notin unread
  <2>1. c \in unread => Len(got[c]) = 0
    BY DEF SInv, Client, Unheard
  <2> QED
    BY <1>1, <2>1, FileServiceAssumption DEF AtEnd
<1>6. Saved(c)'
  <2> SUFFICES ASSUME Gets(c) PROVE Saved(c)'
    BY <1>1 DEF Saved, Gets
  <2>1. /\ served[c] # NULL
        /\ got[c] = [i \in 1 .. (IF FileSize[served[c]] < Chunk THEN FileSize[served[c]]
                                 ELSE Chunk) |-> <<served[c], i>>]
    BY <1>1, WholeWhenSaved
  <2>2. served' = served
    BY <1>1 DEF serverVars
  <2> QED
    BY <1>2, <2>1, <2>2 DEF Saved
<1>7. Client(c)'
  BY <1>1, <1>3, <1>4, <1>5, <1>6 DEF Client, Fresh, Unheard, Streaming
<1> QED
  BY <1>1, <1>2, <1>3, <1>7, OnlyClient DEF Closed

LEMMA ClientStepSInv ==
  ASSUME TInv, SInv, NEW c \in Clients, ClientStep(c) \/ Kill(c)
  PROVE  SInv'
<1>1. /\ phase \in [Clients -> Phases] /\ request \in [Clients -> Requests \cup {NULL}]
      /\ Client(c)
  BY DEF TInv, TypeOK, SInv, Requests
<1>2. CASE Connect(c)
  <2>1. /\ phase[c] = "idle" /\ phase'[c] \in {"failed", "connected"}
        /\ \A d \in Clients \ {c} : phase'[d] = phase[d]
        /\ UNCHANGED <<serverVars, unread, pipe, broken, request, got>>
    BY <1>1, <1>2 DEF Connect
  <2>2. Client(c)'
    BY <1>1, <2>1 DEF Client, Fresh, Unheard, Streaming, Saved
  <2> QED
    BY <2>1, <2>2, OnlyClient
<1>3. CASE \E p \in Paths : Ask(c, p) \/ AskPut(c, p) \/ SendAndLeave(c, p)
  <2>1. PICK m \in Requests, next \in {"reading", "ready?", "left"} : Post(c, m, next)
    BY <1>3 DEF Ask, AskPut, SendAndLeave, Request, Requests, Commands
  <2>2. /\ phase[c] = "connected" /\ phase'[c] = next /\ unread' = unread \cup {c}
        /\ \A d \in Clients \ {c} : phase'[d] = phase[d] /\ request'[d] = request[d]
        /\ UNCHANGED <<serverVars, backlog, pipe, broken, got>>
    BY <1>1, <2>1 DEF Post
  <2>3. Client(c)'
    BY <1>1, <2>2 DEF Client, Fresh, Unheard, Streaming, Saved
  <2> QED
    BY <2>2, <2>3, OnlyClient
<1>4. CASE LeaveSilently(c)
  <2>1. /\ phase[c] = "connected" /\ phase'[c] = "left"
        /\ \A d \in Clients \ {c} : phase'[d] = phase[d]
        /\ UNCHANGED <<serverVars, unread, pipe, request, got>>
    BY <1>1, <1>4 DEF LeaveSilently, network
  <2>2. Client(c)'
    BY <1>1, <2>1 DEF Client, Fresh, Unheard, Streaming, Saved
  <2> QED
    BY <2>1, <2>2, OnlyClient
<1>5. CASE Read(c)
  BY <1>5, ReadKeeps
<1>6. CASE Save(c)
  BY <1>6, SaveKeeps
<1>7. CASE NotReady(c) \/ Reset(c) \/ Kill(c)
  <2>1. PICK outcome \in {"failed", "killed"} : Close(c, outcome)
    BY <1>7 DEF NotReady, Reset, Kill
  <2>2. /\ phase'[c] = outcome /\ pipe'[c] = <<>>
        /\ \A d \in Clients \ {c} : phase'[d] = phase[d] /\ pipe'[d] = pipe[d]
    BY <2>1, ClosedTyped DEF Phases
  <2>3. UNCHANGED <<serverVars, backlog, unread, request, got>>
    BY <1>7 DEF NotReady, Reset, Kill
  <2>4. Client(c)'
    BY <1>1, <2>2, <2>3, NothingSaved DEF Client, Unheard
  <2> QED
    BY <2>2, <2>3, <2>4, OnlyClient DEF Closed
<1> QED
  BY <1>2, <1>3, <1>4, <1>5, <1>6, <1>7 DEF ClientStep

LEMMA NextSInv == TInv /\ SInv /\ [Next]_vars => SInv'
<1> SUFFICES ASSUME TInv, SInv, [Next]_vars PROVE SInv'
  OBVIOUS
<1>1. CASE UNCHANGED vars
  BY <1>1 DEF vars, serverVars, network, SInv, Serving, Client, Fresh, Unheard,
              Streaming, Saved, Sent, Gets, Closed, Size
<1> QED
  BY <1>1, ServerStepSInv, ClientStepSInv DEF Next

(* Streaming says it of a client that reads; a saved file is the beginning  *)
(* of the file with its first byte written over.                            *)
LEMMA InvReceived == TInv /\ SInv => ReceivedIsServed
<1> SUFFICES ASSUME TInv, SInv, NEW c \in Clients, Gets(c)
             PROVE  /\ phase[c] \in {"reading", "saved"} =>
                         \A i \in DOMAIN got[c] :
                           /\ i <= FileSize[served[c]]
                           /\ (phase[c] = "saved" /\ i = 1) \/ got[c][i] = <<served[c], i>>
                    /\ phase[c] = "saved" /\ Len(got[c]) < Chunk =>
                         FileSize[served[c]] <= Len(got[c])
  BY DEF ReceivedIsServed
<1>1. Client(c) /\ got[c] \in Seq(Bytes) /\ served[c] \in Paths \cup {Glued, NULL}
  BY DEF SInv, TInv, TypeOK
<1>2. DOMAIN got[c] = 1 .. Len(got[c])
  BY <1>1
<1>3. ASSUME phase[c] = "reading", NEW i \in DOMAIN got[c]
      PROVE  i <= FileSize[served[c]] /\ got[c][i] = <<served[c], i>>
  <2>1. CASE c \in unread
    <3>1. got[c] = <<>>
      BY <1>1, <2>1 DEF Client, Unheard
    <3> QED
      BY <1>2, <1>3, <3>1
  <2>2. CASE c \notin unread
    <3>1. got[c][i] = <<served[c], i>> /\ served[c] # NULL
      BY <1>1, <1>2, <1>3, <2>2 DEF Client, Streaming
    <3>2. Len(got[c]) + Len(pipe[c]) = Sent(c)
      BY <1>1, <1>3, <2>2 DEF Client, Streaming
    <3>3. i <= Sent(c) /\ 0 < Sent(c)
      <4>1. Len(got[c]) \in Nat /\ Len(pipe[c]) \in Nat /\ i \in 1 .. Len(got[c])
        BY <1>1, <1>2 DEF TInv, TypeOK
      <4> HIDE DEF Sent
      <4> DEFINE g == Len(got[c])
                 p == Len(pipe[c])
      <4>2. g \in Nat /\ p \in Nat /\ i \in 1 .. g /\ g + p = Sent(c)
        BY <3>2, <4>1
      <4> HIDE DEF g, p
      <4> QED
        BY <4>2
    <3>4. FileSize[served[c]] \in Nat \cup {-1}
      BY <1>1, <3>1, FileServiceAssumption
    <3>5. Sent(c) <= FileSize[served[c]]
      <4>1. CASE server = "send" /\ sock = c
        BY <4>1 DEF SInv, Serving, Size, Sent
      <4>2. CASE ~(server = "send" /\ sock = c)
        <5>1. Sent(c) = IF FileSize[served[c]] > 0 THEN FileSize[served[c]] ELSE 0
          BY <4>2 DEF Sent
        <5> QED
          BY <3>3, <3>4, <5>1
      <4> QED
        BY <4>1, <4>2
    <3>6. Sent(c) \in Int
      BY <3>4 DEF Sent, TInv, TypeOK
    <3> QED
      BY <1>2, <3>1, <3>3, <3>4, <3>5, <3>6
  <2> QED
    BY <2>1, <2>2
<1>4. ASSUME phase[c] = "saved"
      PROVE  /\ \A i \in DOMAIN got[c] :
                  i <= FileSize[served[c]] /\ (i = 1 \/ got[c][i] = <<served[c], i>>)
             /\ Len(got[c]) < Chunk => FileSize[served[c]] <= Len(got[c])
  <2> DEFINE size == FileSize[served[c]]
             m    == IF size < Chunk THEN size ELSE Chunk
             data == [i \in 1 .. m |-> <<served[c], i>>]
  <2>1. got[c] = Terminated(data)
    BY <1>1, <1>4 DEF Client, Saved
  <2>2. Chunk \in Nat
    BY FileServiceAssumption
  <2>3. size \in Nat \cup {-1}
    <3>1. served[c] # NULL
      BY <1>1, <1>4 DEF Client, Saved
    <3> QED
      BY <1>1, <3>1, FileServiceAssumption
  <2>4. m \in Nat \cup {-1} /\ data = [i \in 1 .. m |-> <<served[c], i>>]
    BY <2>2, <2>3
  <2>5. (m < Chunk => size <= m) /\ m <= size
    BY <2>2, <2>3
  <2> HIDE DEF m, size
  <2>6. CASE m \in {-1, 0}
    <3>1. data = <<>>
      BY <2>4, <2>6
    <3> HIDE DEF data
    <3>4. got[c] = <<>>
      BY <2>1, <3>1 DEF Terminated
    <3>2. got[c] = <<>> /\ Len(got[c]) = 0
      BY <3>4
    <3>3. 0 < Chunk => size <= 0
      BY <2>2, <2>3, <2>5, <2>6
    <3> QED
      BY <1>2, <3>2, <3>3 DEF size
  <2>7. CASE m \in Nat \ {0}
    <3>1. data # <<>> /\ DOMAIN data = 1 .. m
      <4>1. 1 \in 1 .. m
        BY <2>7
      <4> QED
        BY <2>4, <4>1
    <3>2. got[c] = [data EXCEPT ![1] = Zero]
      BY <2>1, <3>1 DEF Terminated
    <3> HIDE DEF data
    <3>3. DOMAIN got[c] = 1 .. m /\ \A i \in 1 .. m : i # 1 => got[c][i] = data[i]
      BY <3>1, <3>2
    <3>4. Len(got[c]) = m
      BY <1>1, <2>7, <3>3
    <3>5. \A i \in 1 .. m : i <= FileSize[served[c]]
      BY <2>3, <2>5, <2>7 DEF size
    <3> QED
      BY <2>4, <2>5, <3>3, <3>4, <3>5 DEF size
  <2> QED
    BY <2>4, <2>6, <2>7
<1>5. ASSUME phase[c] \in {"reading", "saved"}, NEW i \in DOMAIN got[c]
      PROVE  /\ i <= FileSize[served[c]]
             /\ (phase[c] = "saved" /\ i = 1) \/ got[c][i] = <<served[c], i>>
  <2>1. CASE phase[c] = "reading"
    BY <1>3, <2>1
  <2>2. CASE phase[c] = "saved"
    BY <1>4, <2>2
  <2> QED
    BY <1>5, <2>1, <2>2
<1> QED
  BY <1>4, <1>5

(* PracticumII/server.c:208-231 against fgets.c:207-213: for any number of  *)
(* clients, any files and buffers, and whatever the others send or however  *)
(* they die, a GET receives the beginning of the file that the server       *)
(* opened for it, in order, nothing else, and misses nothing of it if       *)
(* its buffer has room left.                                                *)
THEOREM ReceivedAlwaysServed == Spec => []ReceivedIsServed
<1>1. TInv /\ SInv /\ [Next]_vars => (TInv /\ SInv)'
  BY NextTInv, NextSInv
<1> QED
  BY <1>1, InvReceived, InitTInv, InitSInv, PTL DEF Spec
-----------------------------------------------------------------------------
(* What the server waits for.  Each connection is handled once: those in    *)
(* the backlog are of different clients, none of which the server is with,  *)
(* and what they have sent is still to be received.                         *)
Pending(c) == (server = "recv" /\ sock = c) \/ \E i \in 1 .. Len(backlog) : backlog[i] = c

Queued ==
  /\ \A i, j \in 1 .. Len(backlog) : backlog[i] = backlog[j] => i = j
  /\ server = "recv" => \A i \in 1 .. Len(backlog) : backlog[i] # sock
  /\ \A c \in Clients : Pending(c) =>
       phase[c] # "idle" /\ (phase[c] \in {"reading", "ready?"} => c \in unread)

(* Who has sent a PUT waits for "READY".                                    *)
PutWaits(c) == phase[c] = "reading" => request[c].cmd # "PUT"
PutServed == server \in {"create", "put"} => phase[sock] = "ready?" \/ Closed(sock)

QInv == Queued /\ PutServed /\ \A c \in Clients : PutWaits(c)

LEMMA InitQInv == Init => QInv
<1> SUFFICES ASSUME Init PROVE QInv
  OBVIOUS
<1>1. Len(backlog) = 0 /\ server = "accept"
  BY DEF Init
<1>2. Queued
  BY <1>1 DEF Queued, Pending
<1> QED
  BY <1>1, <1>2 DEF Init, QInv, PutServed, PutWaits

(* The head of the backlog is taken out.                                    *)
LEMMA AcceptQueued == TInv /\ Queued /\ accept => Queued'
<1> SUFFICES ASSUME TInv, Queued, accept PROVE Queued'
  OBVIOUS
<1>1. /\ backlog \in Seq(Clients) /\ backlog # <<>>
      /\ sock' = Head(backlog) /\ backlog' = Tail(backlog) /\ server' = "recv"
      /\ UNCHANGED <<unread, phase>>
  BY DEF accept, TInv, TypeOK
<1>2. /\ Len(backlog) \in Nat \ {0} /\ Len(backlog') = Len(backlog) - 1 /\ sock' = backlog[1]
      /\ \A i \in 1 .. Len(backlog') : backlog'[i] = backlog[i + 1]
  BY <1>1
<1>3. \A i \in 1 .. Len(backlog') : i + 1 \in 1 .. Len(backlog) /\ i + 1 # 1
  BY <1>2
<1>4. \A i, j \in 1 .. Len(backlog') : backlog'[i] = backlog'[j] => i = j
  <2> SUFFICES ASSUME NEW i \in 1 .. Len(backlog'), NEW j \in 1 .. Len(backlog'),
                      backlog'[i] = backlog'[j]
               PROVE  i = j
    OBVIOUS
  <2>1. i + 1 = j + 1
    BY <1>2, <1>3 DEF Queued
  <2> QED
    BY <1>2, <2>1
<1>5. \A i \in 1 .. Len(backlog') : backlog'[i] # sock'
  <2> SUFFICES ASSUME NEW i \in 1 .. Len(backlog'), backlog'[i] = sock' PROVE FALSE
    OBVIOUS
  <2>1. 1 \in 1 .. Len(backlog)
    BY <1>2
  <2> QED
    BY <1>2, <1>3, <2>1 DEF Queued
<1>6. ASSUME NEW c \in Clients, Pending(c)' PROVE Pending(c)
  <2>1. CASE sock' = c
    <3>1. 1 \in 1 .. Len(backlog) /\ backlog[1] = c
      BY <1>2, <2>1
    <3> QED
      BY <3>1 DEF Pending
  <2>2. CASE \E i \in 1 .. Len(backlog') : backlog'[i] = c
    BY <1>2, <1>3, <2>2 DEF Pending
  <2> QED
    BY <1>6, <2>1, <2>2 DEF Pending
<1> QED
  BY <1>1, <1>4, <1>5, <1>6 DEF Queued

LEMMA ServerStepQInv == TInv /\ SInv /\ QInv /\ ServerStep => QInv'
<1> SUFFICES ASSUME TInv, SInv, QInv, ServerStep PROVE QInv'
  OBVIOUS
<1>1. request' = request /\ phase' = phase
  BY DEF ServerStep, accept, recv, recvNothing, sendFile, endFile, perform_info_command,
         farewell, createFiles, perform_put_command
<1>2. \A c \in Clients : PutWaits(c)'
  BY <1>1 DEF QInv, PutWaits, Closed
<1>3. CASE accept
  <2>1. Queued' /\ server' \notin {"create", "put"}
    BY <1>3, AcceptQueued DEF QInv, accept
  <2> QED
    BY <1>2, <2>1 DEF QInv, PutServed
<1>4. CASE recv
  <2>1. /\ server = "recv" /\ sock \in Clients /\ sock \in unread /\ request[sock] \in Requests
        /\ unread' = unread \ {sock} /\ server' = Dispatch(request[sock].cmd, PathOf(request[sock]))
        /\ sock' = sock /\ backlog' = backlog
    BY <1>4 DEF recv, TInv, TypeOK, Engaged
  <2>2. server' # "recv"
    BY <2>1 DEF Dispatch
  <2>3. Queued'
    BY <1>1, <2>1, <2>2 DEF QInv, Queued, Pending
  <2>4. server' \in {"create", "put"} => request[sock].cmd = "PUT"
    BY <2>1 DEF Dispatch
  <2>5. PutServed'
    <3>1. phase[sock] \in Phases /\ phase[sock] \notin {"idle", "connected"}
      BY <2>1 DEF TInv, TypeOK, SInv, Client, Fresh
    <3> QED
      BY <1>1, <2>1, <2>4, <3>1 DEF QInv, PutWaits, PutServed, Closed, Phases
  <2> QED
    BY <1>2, <2>3, <2>5 DEF QInv
<1>5. CASE createFiles
  <2>1. /\ server = "create" /\ server' \in {"put", "accept"}
        /\ sock' = sock /\ backlog' = backlog /\ unread' = unread
    BY <1>5 DEF createFiles, network
  <2>2. Queued'
    BY <1>1, <2>1 DEF QInv, Queued, Pending
  <2> QED
    BY <1>1, <1>2, <2>1, <2>2 DEF QInv, PutServed, Closed
<1>6. CASE ~accept /\ ~recv /\ ~createFiles
  <2>1. /\ sock' = sock /\ backlog' = backlog /\ unread' = unread
        /\ server' \notin {"recv", "create", "put"}
    <3>1. CASE recvNothing
      BY <3>1 DEF recvNothing, network, Dispatch, Exists
    <3>2. CASE sendFile
      BY <3>2 DEF sendFile, Deliver
    <3>3. CASE endFile
      BY <3>3 DEF endFile, network
    <3>4. CASE perform_info_command \/ farewell \/ perform_put_command
      BY <3>4 DEF perform_info_command, farewell, perform_put_command, Deliver
    <3> QED
      BY <1>6, <3>1, <3>2, <3>3, <3>4 DEF ServerStep
  <2>2. Queued'
    BY <1>1, <2>1 DEF QInv, Queued, Pending
  <2> QED
    BY <1>2, <2>1, <2>2 DEF QInv, PutServed
<1> QED
  BY <1>3, <1>4, <1>5, <1>6

(* A client that goes on with its connection, or gives it up.               *)
LEMMA ClientKeepsQueue ==
  ASSUME TInv, QInv, NEW c \in Clients, UNCHANGED <<server, sock, backlog>>,
         \A d \in Clients \ {c} : phase'[d] = phase[d] /\ request'[d] = request[d],
         \A d \in unread : d \in unread',
         phase[c] # "idle", phase'[c] # "idle",
         phase'[c] \in {"reading", "ready?"} => phase'[c] = phase[c] \/ c \in unread',
         phase[c] = "ready?" \/ Closed(c) => phase'[c] = "ready?" \/ Closed(c)',
         PutWaits(c)'
  PROVE  QInv'
<1>1. \A d \in Clients : Pending(d)' <=> Pending(d)
  BY DEF Pending
<1>2. Queued'
  BY <1>1 DEF QInv, Queued
<1>3. \A d \in Clients : PutWaits(d)'
  BY DEF QInv, PutWaits, Closed
<1>4. PutServed'
  <2>1. server \in {"create", "put"} => sock \in Clients
    BY DEF TInv, Engaged
  <2> QED
    BY <2>1 DEF QInv, PutServed, Closed
<1> QED
  BY <1>2, <1>3, <1>4 DEF QInv

LEMMA ConnectQInv ==
  ASSUME TInv, QInv, NEW c \in Clients, Connect(c)
  PROVE  QInv'
<1>1. /\ phase \in [Clients -> Phases] /\ backlog \in Seq(Clients) /\ phase[c] = "idle"
      /\ UNCHANGED <<server, sock, unread, request>>
  BY DEF Connect, TInv, TypeOK, serverVars
<1>2. ~Pending(c)
  BY <1>1 DEF QInv, Queued
<1>3. \A d \in Clients \ {c} : phase'[d] = phase[d]
  BY <1>1 DEF Connect
<1>4. /\ phase'[c] \in {"failed", "connected"}
      /\ phase'[c] = "failed" => backlog' = backlog
      /\ phase'[c] = "connected" => backlog' = Append(backlog, c)
  BY <1>1 DEF Connect
<1>5. \A d \in Clients : PutWaits(d)'
  <2>1. phase'[c] # "reading"
    BY <1>1 DEF Connect
  <2> QED
    BY <1>1, <1>3, <2>1 DEF QInv, PutWaits
<1>6. PutServed'
  <2>1. server \in {"create", "put"} => sock \in Clients /\ sock # c
    BY <1>1 DEF TInv, Engaged, QInv, PutServed, Closed
  <2> QED
    BY <1>1, <1>3, <2>1 DEF QInv, PutServed, Closed
<1>7. CASE phase'[c] = "failed"
  <2>1. \A d \in Clients : Pending(d)' <=> Pending(d)
    BY <1>1, <1>4, <1>7 DEF Pending
  <2>2. Queued'
    BY <1>1, <1>2, <1>3, <1>4, <1>7, <2>1 DEF QInv, Queued
  <2> QED
    BY <1>5, <1>6, <2>2 DEF QInv
<1>8. CASE phase'[c] = "connected"
  <2>1. /\ Len(backlog) \in Nat /\ Len(backlog') = Len(backlog) + 1
        /\ backlog'[Len(backlog) + 1] = c
        /\ \A i \in 1 .. Len(backlog) : backlog'[i] = backlog[i]
    BY <1>1, <1>4, <1>8
  <2>2. \A i \in 1 .. Len(backlog') : i \in 1 .. Len(backlog) \/ i = Len(backlog) + 1
    BY <2>1
  <2>3. \A i \in 1 .. Len(backlog) : backlog[i] # c
    BY <1>2 DEF Pending
  <2>4. \A i, j \in 1 .. Len(backlog') : backlog'[i] = backlog'[j] => i = j
    BY <2>1, <2>2, <2>3 DEF QInv, Queued
  <2>5. server' = "recv" => \A i \in 1 .. Len(backlog') : backlog'[i] # sock'
    BY <1>1, <1>2, <2>1, <2>2 DEF QInv, Queued, Pending
  <2>6. \A d \in Clients : Pending(d)' => d = c \/ Pending(d)
    BY <1>1, <2>1, <2>2 DEF Pending
  <2>7. Queued'
    BY <1>1, <1>3, <1>8, <2>4, <2>5, <2>6 DEF QInv, Queued
  <2> QED
    BY <1>5, <1>6, <2>7 DEF QInv
<1> QED
  BY <1>4, <1>7, <1>8

LEMMA ClientStepQInv ==
  ASSUME TInv, QInv, NEW c \in Clients, ClientStep(c) \/ Kill(c)
  PROVE  QInv'
<1>1. /\ phase \in [Clients -> Phases] /\ request \in [Clients -> Requests \cup {NULL}]
      /\ PutWaits(c)
  BY DEF TInv, TypeOK, QInv, Requests
<1>2. CASE Connect(c)
  BY <1>2, ConnectQInv
<1>3. CASE \E p \in Paths : Ask(c, p) \/ AskPut(c, p) \/ SendAndLeave(c, p)
  <2>1. PICK m \in Requests, next \in {"reading", "ready?", "left"} :
          Post(c, m, next) /\ (m.cmd = "PUT" => next = "ready?")
    BY <1>3 DEF Ask, AskPut, SendAndLeave, Request, Requests, Commands
  <2>2. /\ phase[c] = "connected" /\ phase'[c] = next /\ unread' = unread \cup {c}
        /\ request'[c] = m
        /\ \A d \in Clients \ {c} : phase'[d] = phase[d] /\ request'[d] = request[d]
        /\ UNCHANGED <<server, sock, backlog>>
    BY <1>1, <2>1 DEF Post, serverVars
  <2> QED
    BY <2>1, <2>2, ClientKeepsQueue DEF Closed, PutWaits
<1>4. CASE LeaveSilently(c)
  <2>1. /\ phase[c] = "connected" /\ phase'[c] = "left"
        /\ \A d \in Clients \ {c} : phase'[d] = phase[d]
        /\ UNCHANGED <<server, sock, backlog, unread, request>>
    BY <1>1, <1>4 DEF LeaveSilently, network, serverVars
  <2> QED
    BY <2>1, ClientKeepsQueue DEF Closed, PutWaits
<1>5. CASE Read(c)
  <2>1. phase[c] = "reading" /\ UNCHANGED <<server, sock, backlog, unread, request, phase>>
    BY <1>5 DEF Read, serverVars
  <2> QED
    BY <1>1, <2>1, ClientKeepsQueue DEF Closed, PutWaits
<1>6. CASE Save(c) \/ NotReady(c) \/ Reset(c) \/ Kill(c)
  <2>1. PICK outcome \in {"saved", "failed", "killed"} : Close(c, outcome)
    BY <1>6 DEF Save, NotReady, Reset, Kill
  <2>2. /\ phase'[c] = outcome
        /\ \A d \in Clients \ {c} : phase'[d] = phase[d]
    BY <1>1, <2>1 DEF Close
  <2>3. phase[c] # "idle" /\ UNCHANGED <<server, sock, backlog, unread, request>>
    BY <1>6 DEF Save, NotReady, Reset, Kill, serverVars
  <2> QED
    BY <2>2, <2>3, ClientKeepsQueue DEF Closed, PutWaits
<1> QED
  BY <1>2, <1>3, <1>4, <1>5, <1>6 DEF ClientStep

LEMMA NextQInv == TInv /\ SInv /\ QInv /\ [Next]_vars => QInv'
<1> SUFFICES ASSUME TInv, SInv, QInv, [Next]_vars PROVE QInv'
  OBVIOUS
<1>1. CASE UNCHANGED vars
  BY <1>1 DEF vars, serverVars, network, QInv, Queued, Pending, PutServed, PutWaits, Closed
<1> QED
  BY <1>1, ServerStepQInv, ClientStepQInv DEF Next

(* PracticumII/server.c:183-294: for any clients and requests, and however  *)
(* they die, the server that has not ended has a step to make, waits for a  *)
(* connection or a first request, or waits in PUT for a client that waits   *)
(* for it.  In no other state can it be stuck.                              *)
THEOREM WaitsOnlySo == Spec => [](server = "down" \/ ServerMayGoOn \/ ServerWaits)
<1>1. TInv /\ SInv /\ QInv => server = "down" \/ ServerMayGoOn \/ ServerWaits
  <2> SUFFICES ASSUME TInv, SInv, QInv, server # "down"
               PROVE  ServerMayGoOn \/ ServerWaits
    OBVIOUS
  <2>1. server \in Places /\ (server = "recv" => sock \in Clients)
    BY DEF TInv, TypeOK, Engaged
  <2>2. CASE server = "recv"
    <3>1. Pending(sock) /\ phase[sock] \in Phases
      BY <2>1, <2>2 DEF Pending, TInv, TypeOK
    <3>2. CASE Closed(sock)
      BY <2>2, <3>2 DEF ServerMayGoOn, Eof
    <3>3. CASE ~Closed(sock)
      <4>1. phase[sock] = "connected" \/ sock \in unread
        BY <2>1, <2>2, <3>1, <3>3 DEF QInv, Queued, Closed, Phases
      <4> QED
        BY <2>2, <4>1 DEF ServerMayGoOn, ServerWaits
    <3> QED
      BY <3>2, <3>3
  <2>3. CASE server = "send"
    BY <2>3 DEF SInv, Serving, ServerMayGoOn
  <2>4. CASE server = "put"
    BY <2>4 DEF QInv, PutServed, ServerMayGoOn, ServerWaits, MutualWait
  <2> QED
    BY <2>1, <2>2, <2>3, <2>4 DEF Places, ServerMayGoOn, ServerWaits
<1>2. TInv /\ SInv /\ QInv /\ [Next]_vars => (TInv /\ SInv /\ QInv)'
  BY NextTInv, NextSInv, NextQInv
<1> QED
  BY <1>1, <1>2, InitTInv, InitSInv, InitQInv, PTL DEF Spec
=============================================================================
