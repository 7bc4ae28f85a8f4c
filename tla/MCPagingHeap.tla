---------------------------- MODULE MCPagingHeap ----------------------------
(* One thread each of four of main's thread functions.                      *)
EXTENDS PagingHeap

MCKind == <<"thread_func", "unitTest2", "unitTest5", "unitTest4">>
=============================================================================
