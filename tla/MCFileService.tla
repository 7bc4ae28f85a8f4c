--------------------------- MODULE MCFileService ---------------------------
(***************************************************************************)
(* Three paths: "a" has three bytes, one more than the buffers, "bb" has   *)
(* one, and there is no "cc".                                              *)
(***************************************************************************)
EXTENDS FileService

MCPaths    == {"a", "bb", "cc"}
MCLength   == [p \in MCPaths |-> IF p = "a" THEN 1 ELSE 2]
MCFileSize == [p \in MCPaths \cup {Glued} |->
                 CASE p = "a" -> 3 [] p = "bb" -> 1 [] OTHER -> -1]
=============================================================================
