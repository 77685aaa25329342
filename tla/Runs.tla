-------------------------------- MODULE Runs --------------------------------
(* Runs of consecutive free positions in a bitset, given as the set of its *)
(* set bits: what the address space allocator (mm/asa.c) looks for among   *)
(* pages and the heap (mm/heap.c) among sections.                          *)
EXTENDS Integers

(* The n positions from start on. *)
Run(start, n) == start .. start + n - 1

(* The run from start on lies in lo .. hi - 1 and has no bit set. *)
FreeRun(bits, lo, hi, start, n) ==
  /\ lo <= start /\ start + n <= hi
  /\ Run(start, n) \cap bits = {}

(* Where the free runs of length n in lo .. hi - 1 start. *)
RunStarts(bits, lo, hi, n) == {s \in lo .. hi - 1 : FreeRun(bits, lo, hi, s, n)}

(* Where the search kheap_malloc makes of a block may end (module          *)
(* KHeapSearch has its loop).  It starts at first_free_section and wraps   *)
(* around, but a run below the start is only recognised when the search    *)
(* has met no free section above it.                                       *)
search(used, length, first_free_section, n) ==
  LET from == first_free_section % length
      above == RunStarts(used, from, length, n)
      below == RunStarts(used, 0, from, n)
  IN  IF above # {} THEN above
      ELSE IF from .. length - 1 \subseteq used THEN below ELSE {}

Least(S) == CHOOSE x \in S : \A y \in S : x <= y
=============================================================================
