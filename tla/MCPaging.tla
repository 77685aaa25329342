------------------------------ MODULE MCPaging ------------------------------
(* Small machines for module Paging: tables of 5 entries, 4 reserved pages *)
(* (0 low memory, 1 page directory, 2 first table, 3 window), 9 frames in  *)
(* words of 4 bits, so that frame 8 is in the partial last word and 4 are  *)
(* to be had, and client pages in the boot table and in two tables to be   *)
(* allocated: too few frames for two pages in new tables and another page. *)
EXTENDS Paging

MCClientPages == {4, 5, 6, 10, 11}
=============================================================================
