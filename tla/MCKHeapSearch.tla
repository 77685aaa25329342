--------------------------- MODULE MCKHeapSearch ---------------------------
(* Every bitset of up to eight sections in words of three bits, every      *)
(* place to start the search and every number of sections to look for.     *)
EXTENDS KHeapSearch
=============================================================================
