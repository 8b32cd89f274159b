--------------------------- MODULE MCMemoryManager ---------------------------
(****************************************************************************)
(* A heap of 13 bytes with headers of 2: room for up to four blocks, for    *)
(* splits that leave too little behind, and for merges on either side.      *)
(****************************************************************************)
EXTENDS MemoryManager

MCRequests == {0, 1, 3, 4, 63}
==============================================================================
