------------------------------ MODULE MCKHeap ------------------------------
(* A heap of at most three pages of eight sections: one page holds six      *)
(* sections beside header and bitsets, an aligned request needs two pages. *)
EXTENDS KHeap

(* The request of 25 lies in the gap between what kheap_expand makes room   *)
(* for and what a new block really has free: malloc expands for it again    *)
(* and again.                                                               *)
MCRequests ==
  {[size |-> 11, align |-> 0], [size |-> 20, align |-> 0], [size |-> 25, align |-> 0],
   [size |-> 6, align |-> PageSize]}
=============================================================================
