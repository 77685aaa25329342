------------------------------ MODULE AsaProofs ------------------------------
(* Proofs about module Asa, for every length of the bitset.                *)
EXTENDS Asa, TLAPS

(* What the loop of asa_alloc maintains.  The run being counted ends at    *)
(* page i and is as long as it can be (the page before it is taken), it is *)
(* shorter than the request, and no free run of the requested length ends  *)
(* at or before page i.                                                    *)
LoopInv == pc = "scan" =>
  /\ continuous_pages <= i
  /\ n_pages > 0 => continuous_pages < n_pages
  /\ \A x \in i - continuous_pages .. i - 1 : x \notin pages
  /\ continuous_pages > 0 => first_free = i - continuous_pages
  /\ i - continuous_pages = 0 \/ i - continuous_pages - 1 \in pages
  /\ n_pages > 0 =>
       \A s \in 0 .. i - n_pages : \E x \in Run(s, n_pages) : x \in pages

ReservedMarked == 0 .. ReservedPages - 1 \subseteq pages

IInv == TypeOK /\ ReservedMarked /\ NoOverlap /\ LoopInv /\ FirstFit /\ NullMeansFull

(* Initially nothing is held. *)
LEMMA InitIInv == Init => IInv
  BY LengthAssumption, ReservedPagesAssumption, MaxRequestAssumption
  DEF Init, IInv, TypeOK, ReservedMarked, NoOverlap, LoopInv, FirstFit,
      NullMeansFull, PageNumbers, NULL

(* A call starts the loop with nothing counted. *)
LEMMA AsaAllocIInv ==
  ASSUME IInv, NEW n \in 0 .. MaxRequest, AsaAlloc(n)
  PROVE  IInv'
<1> USE LengthAssumption, ReservedPagesAssumption, MaxRequestAssumption DEF IInv, AsaAlloc
<1>1. TypeOK'
  BY DEF TypeOK
<1>2. NoOverlap' /\ ReservedMarked'
  BY DEF NoOverlap, ReservedMarked
<1>3. LoopInv'
  BY DEF LoopInv
<1>4. FirstFit' /\ NullMeansFull'
  BY DEF FirstFit, NullMeansFull
<1> QED
  BY <1>1, <1>2, <1>3, <1>4

(* A free page that does not complete the run makes it one page longer. *)
LEMMA ScanFreeIInv ==
  ASSUME IInv, ScanFree
  PROVE  IInv'
<1> USE LengthAssumption, ReservedPagesAssumption, MaxRequestAssumption
<1>1. /\ pc = "scan" /\ pc' = "scan" /\ i \in 0 .. Length - 1 /\ i \notin pages
      /\ continuous_pages + 1 # n_pages
      /\ first_free' = IF continuous_pages = 0 THEN i ELSE first_free
      /\ continuous_pages' = continuous_pages + 1
      /\ i' = i + 1
      /\ UNCHANGED <<pages, n_pages, result, held>>
  BY DEF ScanFree, IInv, TypeOK, FirstFree, Continuous
<1>2. TypeOK'
  BY <1>1 DEF IInv, TypeOK, LoopInv
<1>3. NoOverlap' /\ ReservedMarked'
  BY <1>1 DEF IInv, NoOverlap, ReservedMarked
<1>4. LoopInv'
  <2>1. /\ continuous_pages' <= i'
        /\ n_pages' > 0 => continuous_pages' < n_pages'
        /\ i' - continuous_pages' = i - continuous_pages
        /\ continuous_pages' > 0 => first_free' = i' - continuous_pages'
    BY <1>1 DEF IInv, TypeOK, LoopInv
  <2>2. \A x \in i' - continuous_pages' .. i' - 1 : x \notin pages'
    BY <1>1 DEF IInv, TypeOK, LoopInv
  <2>3. i' - continuous_pages' = 0 \/ i' - continuous_pages' - 1 \in pages'
    BY <1>1, <2>1 DEF IInv, LoopInv
  <2>4. ASSUME n_pages' > 0, NEW s \in 0 .. i' - n_pages'
        PROVE  \E x \in Run(s, n_pages') : x \in pages'
    <3>1. CASE s <= i - n_pages
      BY <1>1, <2>4, <3>1 DEF IInv, TypeOK, LoopInv
    <3>2. CASE s = i + 1 - n_pages
      <4>1. s < i - continuous_pages /\ i - continuous_pages - 1 \in pages
        BY <1>1, <2>1, <2>4, <3>2 DEF IInv, TypeOK, LoopInv
      <4>2. i - continuous_pages - 1 \in Run(s, n_pages)
        BY <1>1, <2>4, <3>2, <4>1 DEF IInv, TypeOK, Run
      <4> QED
        BY <1>1, <4>1, <4>2
    <3> QED
      BY <1>1, <2>4, <3>1, <3>2 DEF IInv, TypeOK
  <2> QED
    BY <2>1, <2>2, <2>3, <2>4 DEF LoopInv
<1>5. FirstFit' /\ NullMeansFull'
  BY <1>1 DEF FirstFit, NullMeansFull
<1> QED
  BY <1>2, <1>3, <1>4, <1>5 DEF IInv

(* A taken page starts the count afresh. *)
LEMMA ScanTakenIInv ==
  ASSUME IInv, ScanTaken
  PROVE  IInv'
<1> USE LengthAssumption, ReservedPagesAssumption, MaxRequestAssumption
<1>1. /\ pc = "scan" /\ pc' = "scan" /\ i \in 0 .. Length - 1 /\ i \in pages
      /\ continuous_pages' = 0
      /\ i' = i + 1
      /\ UNCHANGED <<pages, n_pages, first_free, result, held>>
  BY DEF ScanTaken, IInv, TypeOK
<1>2. TypeOK'
  BY <1>1 DEF IInv, TypeOK
<1>3. NoOverlap' /\ ReservedMarked'
  BY <1>1 DEF IInv, NoOverlap, ReservedMarked
<1>4. LoopInv'
  <2>1. ASSUME n_pages' > 0, NEW s \in 0 .. i' - n_pages'
        PROVE  \E x \in Run(s, n_pages') : x \in pages'
    <3>1. CASE s <= i - n_pages
      BY <1>1, <2>1, <3>1 DEF IInv, TypeOK, LoopInv
    <3>2. CASE s = i + 1 - n_pages
      BY <1>1, <2>1, <3>2 DEF IInv, TypeOK, Run
    <3> QED
      BY <1>1, <2>1, <3>1, <3>2 DEF IInv, TypeOK
  <2> QED
    BY <1>1, <2>1 DEF LoopInv, IInv, TypeOK
<1>5. FirstFit' /\ NullMeansFull'
  BY <1>1 DEF FirstFit, NullMeansFull
<1> QED
  BY <1>2, <1>3, <1>4, <1>5 DEF IInv
(* Completing the run: it was free, so it overlaps no range held, and no   *)
(* run of the requested length ends before it does.                        *)
LEMMA ScanHitIInv ==
  ASSUME IInv, ScanHit
  PROVE  IInv'
<1> USE LengthAssumption, ReservedPagesAssumption, MaxRequestAssumption
<1> DEFINE start == i - continuous_pages
           new == [start |-> start, n |-> n_pages]
<1>1. /\ pc = "scan" /\ i \in 0 .. Length - 1 /\ i \notin pages
      /\ n_pages = continuous_pages + 1
      /\ FirstFree = start /\ Continuous = n_pages
      /\ start \in 0 .. Length - 1 /\ start + n_pages = i + 1
  BY DEF ScanHit, IInv, TypeOK, LoopInv, FirstFree, Continuous
<1>2. /\ pages' = pages \cup Run(start, n_pages)
      /\ result' = start
      /\ held' = held \cup {new}
      /\ first_free' = start
      /\ continuous_pages' = n_pages
      /\ pc' = "done"
      /\ UNCHANGED <<n_pages, i>>
  BY <1>1 DEF ScanHit
<1>3. \A x \in Run(start, n_pages) : x \notin pages
  BY <1>1 DEF IInv, TypeOK, LoopInv, Run
<1>4. ReservedPages <= start
  <2>1. start \in Run(start, n_pages)
    BY <1>1 DEF Run, IInv, TypeOK
  <2> QED
    BY <1>1, <1>3, <2>1 DEF IInv, ReservedMarked
<1>5. n_pages \in 1 .. Length /\ Run(start, n_pages) \subseteq PageNumbers
  BY <1>1 DEF IInv, TypeOK, Run, PageNumbers
<1> HIDE DEF start
<1>6. TypeOK'
  <2>1. pages' \in SUBSET PageNumbers
    BY <1>2, <1>5 DEF IInv, TypeOK
  <2>2. new \in [start : PageNumbers, n : 1 .. Length]
    BY <1>1, <1>5 DEF PageNumbers
  <2>3. held' \in SUBSET [start : PageNumbers, n : 1 .. Length]
    BY <1>2, <2>2 DEF IInv, TypeOK
  <2> QED
    BY <1>1, <1>2, <1>5, <2>1, <2>3 DEF IInv, TypeOK
<1>7. ReservedMarked'
  BY <1>2 DEF IInv, ReservedMarked
<1>8. NoOverlap'
  <2>1. \A a \in held : Run(a.start, a.n) \cap Run(start, n_pages) = {}
    BY <1>3 DEF IInv, NoOverlap
  <2>2. ASSUME NEW a \in held'
        PROVE  /\ ReservedPages <= a.start /\ a.start + a.n <= Length
               /\ Run(a.start, a.n) \subseteq pages'
    BY <1>1, <1>2, <1>4 DEF IInv, NoOverlap
  <2>3. ASSUME NEW a \in held', NEW b \in held', a # b
        PROVE  Run(a.start, a.n) \cap Run(b.start, b.n) = {}
    <3>1. CASE a \in held /\ b \in held
      BY <2>3, <3>1 DEF IInv, NoOverlap
    <3>2. CASE a = new /\ b \in held
      BY <2>1, <3>2
    <3>3. CASE a \in held /\ b = new
      BY <2>1, <3>3
    <3> QED
      BY <1>2, <2>3, <3>1, <3>2, <3>3
  <2> QED
    BY <2>2, <2>3 DEF NoOverlap
<1>9. LoopInv' /\ NullMeansFull'
  BY <1>1, <1>2, <1>4 DEF LoopInv, NullMeansFull, NULL
<1>10. FirstFit'
  <2>1. pages' \ Run(start, n_pages) = pages
    BY <1>2, <1>3
  <2>2. ASSUME NEW s \in 0 .. start - 1
        PROVE  ~FreeRun(pages, 0, Length, s, n_pages)
    <3>1. s \in 0 .. i - n_pages
      BY <1>1, <2>2 DEF IInv, TypeOK
    <3>2. \E x \in Run(s, n_pages) : x \in pages
      BY <1>1, <1>5, <3>1 DEF IInv, LoopInv
    <3> QED
      BY <3>2 DEF FreeRun
  <2> QED
    BY <1>2, <2>1, <2>2 DEF FirstFit
<1> QED
  BY <1>6, <1>7, <1>8, <1>9, <1>10 DEF IInv

(* Past the last page, every run has been looked at. *)
LEMMA ScanEndIInv ==
  ASSUME IInv, ScanEnd
  PROVE  IInv'
<1> USE LengthAssumption, ReservedPagesAssumption, MaxRequestAssumption
<1>1. /\ pc = "scan" /\ i = Length /\ pc' = "done" /\ result' = NULL
      /\ UNCHANGED <<pages, n_pages, i, first_free, continuous_pages, held>>
  BY DEF ScanEnd, IInv, TypeOK
<1>2. TypeOK'
  BY <1>1 DEF IInv, TypeOK, NULL
<1>3. NoOverlap' /\ ReservedMarked' /\ LoopInv' /\ FirstFit'
  BY <1>1 DEF IInv, NoOverlap, ReservedMarked, LoopInv, FirstFit
<1>4. NullMeansFull'
  <2>1. ASSUME n_pages > 0, NEW s \in 0 .. Length - 1,
               FreeRun(pages, 0, Length, s, n_pages)
        PROVE  FALSE
    <3>1. s \in 0 .. i - n_pages
      BY <1>1, <2>1 DEF FreeRun, IInv, TypeOK
    <3>2. \E x \in Run(s, n_pages) : x \in pages
      BY <1>1, <2>1, <3>1 DEF IInv, LoopInv
    <3> QED
      BY <2>1, <3>2 DEF FreeRun
  <2> QED
    BY <1>1, <2>1 DEF NullMeansFull, RunStarts
<1> QED
  BY <1>2, <1>3, <1>4 DEF IInv

(* Returning changes nothing that is held. *)
LEMMA ReturnIInv ==
  ASSUME IInv, Return
  PROVE  IInv'
  BY LengthAssumption, ReservedPagesAssumption, MaxRequestAssumption
  DEF Return, IInv, TypeOK, NoOverlap, ReservedMarked, LoopInv, FirstFit, NullMeansFull, NULL

(* asa_free clears bits of the range given back only: its loop stops at    *)
(* page number n, which is not past the end of the range.                  *)
LEMMA AsaFreeIInv ==
  ASSUME IInv, NEW a \in held, AsaFree(a)
  PROVE  IInv'
<1> USE LengthAssumption, ReservedPagesAssumption, MaxRequestAssumption
<1>1. /\ pc = "idle" /\ pc' = "idle"
      /\ pages' = pages \ Cleared(a.start, a.n)
      /\ held' = held \ {a}
      /\ UNCHANGED <<n_pages, i, first_free, continuous_pages, result>>
  BY DEF AsaFree
<1>2. a.start \in PageNumbers /\ a.n \in 1 .. Length /\ ReservedPages <= a.start
  BY DEF IInv, TypeOK, NoOverlap
<1>3. Cleared(a.start, a.n) \subseteq Run(a.start, a.n)
  BY <1>2 DEF Cleared, Run, PageNumbers
<1>4. TypeOK'
  BY <1>1 DEF IInv, TypeOK
<1>5. ReservedMarked'
  <2>1. Cleared(a.start, a.n) \cap (0 .. ReservedPages - 1) = {}
    BY <1>2 DEF Cleared, PageNumbers
  <2> QED
    BY <1>1, <2>1 DEF IInv, ReservedMarked
<1>6. NoOverlap'
  <2>1. ASSUME NEW b \in held'
        PROVE  /\ ReservedPages <= b.start /\ b.start + b.n <= Length
               /\ Run(b.start, b.n) \subseteq pages'
    <3>1. Run(b.start, b.n) \cap Run(a.start, a.n) = {} /\ b \in held
      BY <1>1, <2>1 DEF IInv, NoOverlap
    <3> QED
      BY <1>1, <1>3, <3>1 DEF IInv, NoOverlap
  <2> QED
    BY <1>1, <2>1 DEF IInv, NoOverlap
<1>7. LoopInv' /\ FirstFit' /\ NullMeansFull'
  BY <1>1 DEF LoopInv, FirstFit, NullMeansFull
<1> QED
  BY <1>4, <1>5, <1>6, <1>7 DEF IInv

(* Every reachable state satisfies the inductive invariant. *)
THEOREM AsaInvariant == Spec => []IInv
<1>1. Init => IInv
  BY InitIInv
<1>2. IInv /\ [Next]_vars => IInv'
  <2> SUFFICES ASSUME IInv, [Next]_vars PROVE IInv'
    OBVIOUS
  <2>1. CASE Next
    BY <2>1, AsaAllocIInv, ScanFreeIInv, ScanHitIInv, ScanTakenIInv, ScanEndIInv,
       ReturnIInv, AsaFreeIInv DEF Next, Scan
  <2>2. CASE UNCHANGED vars
    BY <2>2 DEF vars, IInv, TypeOK, ReservedMarked, NoOverlap, LoopInv, FirstFit,
                NullMeansFull
  <2> QED
    BY <2>1, <2>2
<1> QED
  BY <1>1, <1>2, PTL DEF Spec

(* Ranges of pages in use never overlap, whatever is allocated and freed. *)
THEOREM AsaNoOverlap == Spec => []NoOverlap
<1>1. IInv => NoOverlap
  BY DEF IInv
<1> QED
  BY <1>1, AsaInvariant, PTL

(* asa_alloc returns the lowest run of free pages that is long enough. *)
THEOREM AsaFirstFit == Spec => []FirstFit
<1>1. IInv => FirstFit
  BY DEF IInv
<1> QED
  BY <1>1, AsaInvariant, PTL

(* asa_alloc fails only when no run of free pages is long enough. *)
THEOREM AsaNullMeansFull == Spec => []NullMeansFull
<1>1. IInv => NullMeansFull
  BY DEF IInv
<1> QED
  BY <1>1, AsaInvariant, PTL
=============================================================================
