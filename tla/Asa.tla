--------------------------------- MODULE Asa ---------------------------------
(***************************************************************************)
(* The address space allocator (mm/asa.c): a bitset of the kernel's        *)
(* virtual pages.  asa_alloc is modelled one turn of its loop at a time,   *)
(* asa_free whole.                                                         *)
(***************************************************************************)
EXTENDS Runs, FiniteSets

CONSTANTS
  Length,          \* kasa_data.pages.length = KVIRT_MAX / page_size
  ReservedPages,   \* KVIRT_RESERVED / page_size
  MaxRequest       \* bound on the n_pages of a call

ASSUME LengthAssumption == Length \in Nat
ASSUME ReservedPagesAssumption == ReservedPages \in 1 .. Length
ASSUME MaxRequestAssumption == MaxRequest \in Nat

NULL == 0

VARIABLES
  pages,              \* the set bits of kasa_data.pages
  pc,                 \* "idle", "scan" (in asa_alloc's loop) or "done" (it returned)
  n_pages, i, first_free, continuous_pages,   \* argument and locals of asa_alloc
  result,             \* what asa_alloc returned, as a page number
  held                \* the allocations not given back: records of start and length

vars == <<pages, pc, n_pages, i, first_free, continuous_pages, result, held>>

(* asa_init: the pages below KVIRT_RESERVED are taken for good. *)
Init ==
  /\ pages = 0 .. ReservedPages - 1
  /\ pc = "idle"
  /\ n_pages = 0 /\ i = 0 /\ first_free = 0 /\ continuous_pages = 0
  /\ result = NULL
  /\ held = {}

AsaAlloc(n) ==
  /\ pc = "idle"
  /\ pc' = "scan"
  /\ n_pages' = n
  /\ i' = 0 /\ first_free' = 0 /\ continuous_pages' = 0
  /\ UNCHANGED <<pages, result, held>>

(* Mutant: every free page is taken for the start of the run. *)
FirstFree_EveryPage == i

(* The start and length of the run of free pages that ends at page i. *)
FirstFree == IF continuous_pages = 0 THEN i ELSE first_free
Continuous == continuous_pages + 1

(* The loop at a free page that does not complete the run. *)
ScanFree ==
  /\ pc = "scan" /\ i < Length /\ i \notin pages
  /\ Continuous # n_pages
  /\ first_free' = FirstFree
  /\ continuous_pages' = Continuous
  /\ i' = i + 1
  /\ UNCHANGED <<pages, pc, n_pages, result, held>>

(* The loop at the page that completes the run: mark it and return it. *)
ScanHit ==
  /\ pc = "scan" /\ i < Length /\ i \notin pages
  /\ Continuous = n_pages
  /\ pages' = pages \cup Run(FirstFree, Continuous)
  /\ result' = FirstFree
  /\ held' = held \cup {[start |-> FirstFree, n |-> n_pages]}
  /\ first_free' = FirstFree
  /\ continuous_pages' = Continuous
  /\ pc' = "done"
  /\ UNCHANGED <<n_pages, i>>

(* Mutant: a taken page is not passed over. *)
ScanTaken_NoAdvance ==
  /\ pc = "scan" /\ i < Length /\ i \in pages
  /\ continuous_pages' = 0
  /\ UNCHANGED <<pages, pc, n_pages, i, first_free, result, held>>

ScanTaken ==
  /\ pc = "scan" /\ i < Length /\ i \in pages
  /\ continuous_pages' = 0
  /\ i' = i + 1
  /\ UNCHANGED <<pages, pc, n_pages, first_free, result, held>>

(* Mutant: the last page is not looked at. *)
ScanEnd_OneShort ==
  /\ pc = "scan" /\ i >= Length - 1
  /\ result' = NULL
  /\ pc' = "done"
  /\ UNCHANGED <<pages, n_pages, i, first_free, continuous_pages, held>>

(* The loop is over. *)
ScanEnd ==
  /\ pc = "scan" /\ i >= Length
  /\ result' = NULL
  /\ pc' = "done"
  /\ UNCHANGED <<pages, n_pages, i, first_free, continuous_pages, held>>

(* The caller has the result; argument and locals are gone. *)
Return ==
  /\ pc = "done"
  /\ pc' = "idle"
  /\ n_pages' = 0 /\ i' = 0 /\ first_free' = 0 /\ continuous_pages' = 0
  /\ result' = NULL
  /\ UNCHANGED <<pages, held>>

(* Mutant: the page after the range is cleared too. *)
Cleared_OneMore(start, n) == start .. start + n

(* The bits asa_free clears: its loop runs from the first page of the      *)
(* allocation up to, not including, page number n_pages.                   *)
Cleared(start, n) == start .. n - 1

AsaFree(a) ==
  /\ pc = "idle" /\ a \in held
  /\ pages' = pages \ Cleared(a.start, a.n)
  /\ held' = held \ {a}
  /\ UNCHANGED <<pc, n_pages, i, first_free, continuous_pages, result>>

Scan == ScanFree \/ ScanHit \/ ScanTaken \/ ScanEnd \/ Return

Next ==
  \/ \E n \in 0 .. MaxRequest : AsaAlloc(n)
  \/ Scan
  \/ \E a \in held : AsaFree(a)

(* A call that was made runs to its end: nothing in the loop waits. *)
Spec == Init /\ [][Next]_vars /\ WF_vars(Scan)

-----------------------------------------------------------------------------
PageNumbers == 0 .. Length - 1

TypeOK ==
  /\ pages \in SUBSET PageNumbers
  /\ pc \in {"idle", "scan", "done"}
  /\ n_pages \in 0 .. MaxRequest
  /\ i \in 0 .. Length
  /\ first_free \in 0 .. Length
  /\ continuous_pages \in 0 .. Length
  /\ result \in 0 .. Length
  /\ held \in SUBSET [start : PageNumbers, n : 1 .. Length]

(* Address ranges given out and not yet given back never overlap each      *)
(* other or the kernel's reserved pages, lie inside the address space, and *)
(* stay marked, although asa_free clears other bits than it should.        *)
NoOverlap ==
  /\ \A a \in held :
       /\ ReservedPages <= a.start /\ a.start + a.n <= Length
       /\ Run(a.start, a.n) \subseteq pages
  /\ \A a, b \in held : a # b => Run(a.start, a.n) \cap Run(b.start, b.n) = {}

(* asa_alloc is first fit: below the run it returns no run of the same     *)
(* length was free when it was called.                                     *)
FirstFit == pc = "done" /\ result # NULL =>
  \A s \in 0 .. result - 1 :
    ~FreeRun(pages \ Run(result, n_pages), 0, Length, s, n_pages)

(* asa_alloc returns NULL only when no run of the length asked for is free. *)
NullMeansFull == pc = "done" /\ result = NULL /\ n_pages > 0 =>
  RunStarts(pages, 0, Length, n_pages) = {}

(* Every call of asa_alloc returns. *)
AllocReturns == pc = "scan" ~> pc = "idle"
=============================================================================
