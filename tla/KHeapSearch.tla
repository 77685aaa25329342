----------------------------- MODULE KHeapSearch -----------------------------
(***************************************************************************)
(* The two loops of kheap_malloc (mm/heap.c) on one block, turn by turn:   *)
(* the search for contiguous free sections, which starts at the block's    *)
(* first free section and wraps around, and the marking of the sections    *)
(* found, which fills whole words of the bitset where it can.              *)
(***************************************************************************)
EXTENDS Runs, FiniteSets

CONSTANTS
  MaxLength,   \* bound on the number of sections of a block
  WordBits     \* bits of a word of the bitset (32)

ASSUME SearchSizesAssumption == MaxLength \in Nat \ {0} /\ WordBits \in Nat \ {0}

VARIABLES
  length,               \* cur->used_sections.length
  first_free_section,   \* cur->first_free_section
  before,               \* the used bitset when the search starts
  used,                 \* the used bitset
  n_sec,                \* sections wanted
  k, first_free, continuous_pages, j,   \* locals
  pc                    \* "search", "mark", "marked" or "skip_block"

vars == <<length, first_free_section, before, used, n_sec, k, first_free,
          continuous_pages, j, pc>>

(* A block whose first section is used, as every block's is, that passed   *)
(* the test on the number of its free sections.                            *)
Init ==
  /\ length \in 2 .. MaxLength
  /\ first_free_section \in 1 .. length
  /\ before \in {s \in SUBSET (0 .. length - 1) : 0 \in s}
  /\ used = before
  /\ n_sec \in 1 .. length - Cardinality(before)
  /\ k = 0 /\ first_free = 0 /\ continuous_pages = 0 /\ j = 0
  /\ pc = "search"

i == (first_free_section + k) % length

(* Where the run that section i extends starts, and how long it is with it. *)
RunStart == IF i >= first_free /\ continuous_pages = 0 THEN i ELSE first_free
(* Mutant: the count goes on across the end of the bitset. *)
RunLength_AcrossEnd == continuous_pages + 1

RunLength == IF i < first_free THEN 1 ELSE continuous_pages + 1

(* Mutant: a used section is not passed over. *)
SearchUsed_NoAdvance ==
  /\ pc = "search" /\ k < length /\ i \in used
  /\ continuous_pages' = 0
  /\ UNCHANGED <<length, first_free_section, before, used, n_sec, k, first_free, j, pc>>

SearchUsed ==
  /\ pc = "search" /\ k < length /\ i \in used
  /\ continuous_pages' = 0
  /\ k' = k + 1
  /\ UNCHANGED <<length, first_free_section, before, used, n_sec, first_free, j, pc>>

SearchFree ==
  /\ pc = "search" /\ k < length /\ i \notin used
  /\ RunLength # n_sec
  /\ first_free' = RunStart
  /\ continuous_pages' = RunLength
  /\ k' = k + 1
  /\ UNCHANGED <<length, first_free_section, before, used, n_sec, j, pc>>

SearchHit ==
  /\ pc = "search" /\ k < length /\ i \notin used
  /\ RunLength = n_sec
  /\ first_free' = RunStart
  /\ continuous_pages' = RunLength
  /\ j' = RunStart
  /\ pc' = "mark"
  /\ UNCHANGED <<length, first_free_section, before, used, n_sec, k>>

SearchEnd ==
  /\ pc = "search" /\ k >= length
  /\ pc' = "skip_block"
  /\ UNCHANGED <<length, first_free_section, before, used, n_sec, k, first_free,
                 continuous_pages, j>>

end == first_free + n_sec
(* Mutant: a whole word is filled wherever the run enters one. *)
WordAligned_Unbounded == j % WordBits = 0

WordAligned == j % WordBits = 0 /\ j + WordBits < end

MarkWord ==
  /\ pc = "mark" /\ j < end /\ WordAligned
  /\ used' = used \cup Run((j \div WordBits) * WordBits, WordBits)
  /\ j' = j + WordBits
  /\ UNCHANGED <<length, first_free_section, before, n_sec, k, first_free,
                 continuous_pages, pc>>

MarkBit ==
  /\ pc = "mark" /\ j < end /\ ~WordAligned
  /\ used' = used \cup {j}
  /\ j' = j + 1
  /\ UNCHANGED <<length, first_free_section, before, n_sec, k, first_free,
                 continuous_pages, pc>>

MarkEnd ==
  /\ pc = "mark" /\ j >= end
  /\ pc' = "marked"
  /\ UNCHANGED <<length, first_free_section, before, used, n_sec, k, first_free,
                 continuous_pages, j>>

Next ==
  \/ SearchUsed \/ SearchFree \/ SearchHit \/ SearchEnd
  \/ MarkWord \/ MarkBit \/ MarkEnd

Spec == Init /\ [][Next]_vars /\ WF_vars(Next)

-----------------------------------------------------------------------------
Found == search(before, length, first_free_section, n_sec)

(* The loop, with its wrap around, ends at the lowest start that module    *)
(* KHeap's search allows, and gives the block up exactly when there is     *)
(* none.                                                                   *)
SearchExact ==
  /\ pc \in {"mark", "marked"} => Found # {} /\ first_free = Least(Found)
  /\ pc = "skip_block" => Found = {}

(* Marking, by words and by bits, sets the bits of the run and no others. *)
MarkExact == pc = "marked" => used = before \cup Run(first_free, n_sec)

(* Both loops end. *)
SearchEnds == <>(pc \in {"marked", "skip_block"})
=============================================================================
