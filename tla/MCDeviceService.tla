-------------------------- MODULE MCDeviceService --------------------------
(***************************************************************************)
(* Requests of one piece, enough for main but not for a handler, and one   *)
(* of three: main takes the PUT for its message if it comes first, and a   *)
(* handler that gets the first two pieces then reads the GET.              *)
(***************************************************************************)
EXTENDS DeviceService

Request(command, n) == [cmd |-> command, more |-> n]
MCShapes == {<<Request("INFO", 1)>>, <<Request("GET", 1)>>,
             <<Request("PUT", 2), NULL, Request("GET", 2)>>}
=============================================================================
