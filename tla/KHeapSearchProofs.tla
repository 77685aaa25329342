-------------------------- MODULE KHeapSearchProofs --------------------------
(* Proofs about module KHeapSearch, for blocks and words of any length.    *)
EXTENDS KHeapSearch, TLAPS, FiniteSetTheorems

(* The section where the search starts, and how many sections from the     *)
(* block's first on it has seen since it wrapped around.                   *)
From == first_free_section % length
Wrapped == From + k - length

(* The ranges of the loop variables. *)
Types ==
  /\ length \in Nat /\ length >= 2 /\ first_free_section \in 1 .. length
  /\ From \in 0 .. length - 1
  /\ before \subseteq 0 .. length - 1 /\ 0 \in before
  /\ n_sec \in Nat /\ n_sec >= 1
  /\ k \in 0 .. length /\ continuous_pages \in Nat /\ first_free \in Nat /\ j \in Nat

(* The count, cp, is that of the free sections right below position x, as  *)
(* far down as lo, it began at ff, and it is less than the n wanted; no    *)
(* run of n begins at lo or above and ends at x or below.                  *)
Counted(bits, n, ff, cp, lo, x) ==
  /\ lo <= x - cp /\ cp < n
  /\ \A y \in x - cp .. x - 1 : y \notin bits
  /\ lo < x - cp => x - cp - 1 \in bits
  /\ cp > 0 => ff = x - cp
  /\ \A s \in lo .. x : s + n <= x => \E y \in s .. s + n - 1 : y \in bits

CountedTo(lo, x) == Counted(before, n_sec, first_free, continuous_pages, lo, x)

(* Before the search wraps around. *)
Ascending ==
  /\ CountedTo(From, From + k)
  /\ \/ first_free = 0 /\ Run(From, k) \subseteq before
     \/ first_free \in Run(From, k) /\ first_free \notin before /\ n_sec # 1

(* After it: if a section above was free, no run is recognised any more. *)
Descended ==
  /\ RunStarts(before, From, length, n_sec) = {}
  /\ \/ /\ From .. length - 1 \subseteq before
        /\ first_free < Wrapped /\ CountedTo(0, Wrapped)
     \/ /\ first_free \in From .. length - 1 /\ first_free \notin before
        /\ n_sec # 1

(* What the search loop knows, before and after it wraps around. *)
Searching == pc = "search" =>
  /\ used = before
  /\ IF From + k <= length THEN Ascending ELSE Descended

(* What the marking loop has set. *)
Marking == pc = "mark" =>
  /\ j \in first_free .. end
  /\ used = before \cup first_free .. j - 1

(* The inductive invariant. *)
IInv == Types /\ Searching /\ Marking /\ SearchExact /\ MarkExact

-----------------------------------------------------------------------------
(* Counting *)

(* A used section ends the run. *)
LEMMA CountUsed ==
  ASSUME NEW bits, NEW n \in Nat, NEW ff \in Nat, NEW cp \in Nat, NEW lo \in Nat, NEW x \in Nat,
         Counted(bits, n, ff, cp, lo, x), x \in bits
  PROVE  Counted(bits, n, ff, 0, lo, x + 1)
<1>1. ASSUME NEW s \in lo .. x + 1, s + n <= x + 1
      PROVE  \E y \in s .. s + n - 1 : y \in bits
  <2>1. CASE s + n <= x
    <3>1. s \in lo .. x
      BY <2>1
    <3> QED
      BY <2>1, <3>1 DEF Counted
  <2>2. CASE s + n = x + 1
    <3>1. x \in s .. s + n - 1
      BY <2>2 DEF Counted
    <3> QED
      BY <3>1
  <2> QED
    BY <1>1, <2>1, <2>2
<1> QED
  BY <1>1 DEF Counted

(* A free section makes the run longer. *)
LEMMA CountFree ==
  ASSUME NEW bits, NEW n \in Nat, NEW ff \in Nat, NEW cp \in Nat, NEW lo \in Nat, NEW x \in Nat,
         Counted(bits, n, ff, cp, lo, x), x \notin bits, cp + 1 # n
  PROVE  Counted(bits, n, IF cp = 0 THEN x ELSE ff, cp + 1, lo, x + 1)
<1>1. ASSUME NEW s \in lo .. x + 1, s + n <= x + 1
      PROVE  \E y \in s .. s + n - 1 : y \in bits
  <2>1. CASE s + n <= x
    BY <1>1, <2>1 DEF Counted
  <2>2. CASE s + n = x + 1
    <3>1. lo < x - cp /\ x - cp - 1 \in s .. s + n - 1
      BY <1>1, <2>2 DEF Counted
    <3> QED
      BY <3>1 DEF Counted
  <2> QED
    BY <1>1, <2>1, <2>2
<1>2. \A y \in x + 1 - (cp + 1) .. x + 1 - 1 : y \notin bits
  BY DEF Counted
<1>3. /\ lo <= x + 1 - (cp + 1) /\ cp + 1 < n
      /\ lo < x + 1 - (cp + 1) => x + 1 - (cp + 1) - 1 \in bits
      /\ (IF cp = 0 THEN x ELSE ff) = x + 1 - (cp + 1)
  BY DEF Counted
<1> QED
  BY <1>1, <1>2, <1>3 DEF Counted

(* The least of a set of numbers. *)
LEMMA LeastIs ==
  ASSUME NEW S, NEW m \in S, S \subseteq Int, \A y \in S : m <= y
  PROVE  Least(S) = m
<1>1. \A z \in S : (\A y \in S : z <= y) => z = m
  OBVIOUS
<1> QED
  BY <1>1 DEF Least

(* The free section that completes the run: it is the lowest run of n in   *)
(* lo .. hi - 1.                                                           *)
LEMMA CountHit ==
  ASSUME NEW bits, NEW n \in Nat, NEW ff \in Nat, NEW cp \in Nat, NEW lo \in Nat, NEW x \in Nat,
         NEW hi \in Nat, Counted(bits, n, ff, cp, lo, x), x \notin bits, cp + 1 = n, x < hi
  PROVE  /\ RunStarts(bits, lo, hi, n) # {}
         /\ Least(RunStarts(bits, lo, hi, n)) = IF cp = 0 THEN x ELSE ff
<1> DEFINE m == x + 1 - n
           S == RunStarts(bits, lo, hi, n)
<1>1. m = IF cp = 0 THEN x ELSE ff
  BY DEF Counted
<1>2. m \in S
  <2>1. Run(m, n) \cap bits = {}
    BY DEF Run, Counted
  <2> QED
    BY <2>1 DEF RunStarts, FreeRun, Counted
<1>3. ASSUME NEW s \in S PROVE m <= s
  <2>1. s \in Int /\ lo <= s /\ \A y \in s .. s + n - 1 : y \notin bits
    BY DEF RunStarts, FreeRun, Run
  <2>2. ~(s + n <= x)
    BY <2>1 DEF Counted
  <2> QED
    BY <2>1, <2>2
<1>4. S \subseteq Int
  BY DEF RunStarts
<1> HIDE DEF m, S
<1>5. Least(S) = m
  BY <1>2, <1>3, <1>4, LeastIs
<1> QED
  BY <1>1, <1>2, <1>5 DEF S

(* At the end of lo .. hi - 1 there was no run. *)
LEMMA CountEnd ==
  ASSUME NEW bits, NEW n \in Nat, NEW ff, NEW cp \in Nat, NEW lo \in Nat, NEW hi \in Nat,
         Counted(bits, n, ff, cp, lo, hi)
  PROVE  RunStarts(bits, lo, hi, n) = {}
<1> SUFFICES ASSUME NEW s \in RunStarts(bits, lo, hi, n) PROVE FALSE
  OBVIOUS
<1>1. s \in lo .. hi - 1 /\ s + n <= hi /\ \A y \in s .. s + n - 1 : y \notin bits
  BY DEF RunStarts, FreeRun, Run
<1> QED
  BY <1>1 DEF Counted

(* The section looked at: the wrapped sum of start and counter. *)
LEMMA Index ==
  ASSUME Types, k < length
  PROVE  i = IF From + k < length THEN From + k ELSE Wrapped
<1>1. \A a \in Nat : a < length => a % length = a
  BY DEF Types
<1>2. \A a \in Nat : length <= a /\ a < 2 * length => a % length = a - length
  BY DEF Types
<1>3. CASE first_free_section = length
  BY <1>1, <1>2, <1>3 DEF Types, i, From, Wrapped
<1>4. CASE first_free_section < length
  BY <1>1, <1>2, <1>4 DEF Types, i, From, Wrapped
<1> QED
  BY <1>3, <1>4 DEF Types

-----------------------------------------------------------------------------
(* Init *)
LEMMA InitIInv == Init => IInv
<1> SUFFICES ASSUME Init PROVE IInv
  OBVIOUS
<1>1. length \in Nat /\ length >= 2 /\ first_free_section \in 1 .. length
  BY SearchSizesAssumption DEF Init
<1>2. From \in 0 .. length - 1
  BY <1>1 DEF From
<1>3. n_sec \in Nat /\ n_sec >= 1
  <2>1. IsFiniteSet(before)
    <3>1. IsFiniteSet(0 .. length - 1) /\ before \subseteq 0 .. length - 1
      BY <1>1, FS_Interval DEF Init
    <3> QED
      BY <3>1, FS_Subset
  <2>2. Cardinality(before) \in Nat
    BY <2>1, FS_CardinalityType
  <2> QED
    BY <1>1, <2>2 DEF Init
<1>4. Types
  BY <1>1, <1>2, <1>3 DEF Init, Types
<1>5. Searching
  <2>1. CountedTo(From, From + k)
    BY <1>2, <1>3, <1>1 DEF Init, CountedTo, Counted
  <2>2. first_free = 0 /\ Run(From, k) \subseteq before
    BY <1>2 DEF Init, Run
  <2> QED
    BY <1>1, <1>2, <2>1, <2>2 DEF Init, Searching, Ascending
<1> QED
  BY <1>4, <1>5 DEF Init, IInv, Marking, SearchExact, MarkExact

(* The values that no step of a search or of the marking changes. *)
Fixed == <<length, first_free_section, before, n_sec>>

(* They fix where the search starts and what it has to find. *)
LEMMA FixedStep ==
  ASSUME UNCHANGED Fixed
  PROVE  From' = From /\ Found' = Found
  BY DEF Fixed, From, Found

(* Found, spelled out. *)
LEMMA FoundIs ==
  Found = IF RunStarts(before, From, length, n_sec) # {}
          THEN RunStarts(before, From, length, n_sec)
          ELSE IF From .. length - 1 \subseteq before
               THEN RunStarts(before, 0, From, n_sec) ELSE {}
  BY DEF Found, search, From

(* A step of the search that goes on. *)
LEMMA SearchUsedIInv == IInv /\ SearchUsed => IInv'
<1> SUFFICES ASSUME IInv, SearchUsed PROVE IInv'
  OBVIOUS
<1>1. /\ UNCHANGED Fixed /\ From' = From /\ pc' = "search" /\ pc = "search"
      /\ k' = k + 1 /\ continuous_pages' = 0 /\ first_free' = first_free /\ used' = used
      /\ used = before
  BY FixedStep DEF SearchUsed, Fixed, IInv, Searching
<1>2. Types'
  BY <1>1 DEF SearchUsed, IInv, Types, Fixed
<1>3. i \in before /\ i = IF From + k < length THEN From + k ELSE Wrapped
  BY Index DEF SearchUsed, IInv, Searching
<1>4. /\ From \in Nat /\ length \in Nat /\ k \in Nat /\ n_sec \in Nat /\ first_free \in Nat
      /\ continuous_pages \in Nat /\ n_sec >= 1 /\ From < length /\ 0 \in before /\ k < length
  BY DEF IInv, Types, SearchUsed
<1>5. (IF From + k <= length THEN Ascending ELSE Descended)'
  <2>1. CASE From + k < length
    <3>1. Ascending /\ From + k \in before
      BY <1>1, <1>3, <2>1, <1>4 DEF IInv, Searching
    <3>2. Counted(before, n_sec, first_free, 0, From, From + k + 1)
      BY <1>4, <3>1, CountUsed DEF Ascending, CountedTo
    <3>3. Run(From, k + 1) = Run(From, k) \cup {From + k}
      BY <1>4 DEF Run
    <3>4. Ascending'
      BY <1>1, <1>4, <3>1, <3>2, <3>3 DEF Ascending, CountedTo, Fixed
    <3> QED
      BY <1>1, <1>4, <2>1, <3>4 DEF Fixed
  <2>2. CASE From + k = length
    <3>1. Ascending
      BY <1>1, <1>4, <2>2 DEF IInv, Searching
    <3>2. RunStarts(before, From, length, n_sec) = {}
      BY <1>4, <2>2, <3>1, CountEnd DEF Ascending, CountedTo
    <3>3. Wrapped' = 1
      BY <1>1, <1>4, <2>2 DEF Wrapped, Fixed
    <3>4. Counted(before, n_sec, first_free, 0, 0, 1)
      BY <1>4 DEF Counted
    <3>5. Run(From, k) = From .. length - 1
      BY <1>4, <2>2 DEF Run
    <3>6. Descended'
      BY <1>1, <1>4, <3>1, <3>2, <3>3, <3>4, <3>5 DEF Descended, Ascending, CountedTo, Fixed
    <3> QED
      BY <1>1, <1>4, <2>2, <3>6 DEF Fixed
  <2>3. CASE From + k > length
    <3>1. Descended /\ Wrapped \in before
      BY <1>1, <1>3, <2>3, <1>4 DEF IInv, Searching
    <3>2. Wrapped' = Wrapped + 1 /\ Wrapped \in Nat
      BY <1>1, <1>4, <2>3 DEF Wrapped, Fixed
    <3>3. CountedTo(0, Wrapped) => CountedTo(0, Wrapped)'
      BY <1>1, <1>4, <3>1, <3>2, CountUsed DEF CountedTo, Fixed
    <3>4. Descended'
      BY <1>1, <1>4, <3>1, <3>2, <3>3 DEF Descended, Fixed
    <3> QED
      BY <1>1, <1>4, <2>3, <3>4 DEF Fixed
  <2> QED
    BY <1>4, <2>1, <2>2, <2>3
<1>6. Searching'
  BY <1>1, <1>5 DEF Searching, Fixed
<1> QED
  BY <1>1, <1>2, <1>6 DEF IInv, Marking, SearchExact, MarkExact

(* Before the wrap around, the run of a free section is the one counted. *)
LEMMA AscendingRun ==
  ASSUME Types, Ascending, From + k < length, k < length, i \notin before
  PROVE  /\ i = From + k
         /\ RunLength = continuous_pages + 1
         /\ RunStart = IF continuous_pages = 0 THEN i ELSE first_free
<1>1. i = From + k
  BY Index
<1>2. first_free <= i
  BY <1>1 DEF Ascending, Run, Types
<1> QED
  BY <1>1, <1>2 DEF RunLength, RunStart, Types

(* After it: the same, or the section is taken for the first of a run.     *)
LEMMA DescendedRun ==
  ASSUME Types, Descended, From + k > length, k < length, i \notin before
  PROVE  /\ i = Wrapped /\ Wrapped \in Nat /\ Wrapped < From
         /\ \/ /\ From .. length - 1 \subseteq before /\ CountedTo(0, Wrapped)
               /\ first_free < Wrapped
               /\ RunLength = continuous_pages + 1
               /\ RunStart = IF continuous_pages = 0 THEN i ELSE first_free
            \/ /\ first_free \in From .. length - 1 /\ first_free \notin before
               /\ n_sec # 1
               /\ RunLength = 1 /\ RunStart = first_free
<1>1. i = Wrapped /\ Wrapped \in Nat /\ Wrapped < From
  BY Index DEF Types, Wrapped
<1>2. CASE From .. length - 1 \subseteq before /\ first_free < Wrapped /\ CountedTo(0, Wrapped)
  BY <1>1, <1>2 DEF RunLength, RunStart, Types
<1>3. CASE first_free \in From .. length - 1 /\ first_free \notin before /\ n_sec # 1
  BY <1>1, <1>3 DEF RunLength, RunStart, Types
<1> QED
  BY <1>1, <1>2, <1>3 DEF Descended

(* Where the block's first section is reached, it is used. *)
LEMMA FreeNotAtWrap ==
  ASSUME Types, k < length, i \notin before
  PROVE  From + k # length
  BY Index DEF Types, Wrapped

(* A free section that does not complete a run. *)
LEMMA SearchFreeIInv == IInv /\ SearchFree => IInv'
<1> SUFFICES ASSUME IInv, SearchFree PROVE IInv'
  OBVIOUS
<1>1. /\ UNCHANGED Fixed /\ From' = From /\ pc' = "search" /\ pc = "search"
      /\ k' = k + 1 /\ continuous_pages' = RunLength /\ first_free' = RunStart /\ used' = used
      /\ used = before /\ i \notin before /\ RunLength # n_sec /\ j' = j
  BY FixedStep DEF SearchFree, Fixed, IInv, Searching
<1>2. /\ From \in Nat /\ length \in Nat /\ k \in Nat /\ n_sec \in Nat /\ first_free \in Nat
      /\ continuous_pages \in Nat /\ n_sec >= 1 /\ From < length /\ 0 \in before /\ k < length
      /\ Types
  BY DEF IInv, Types, SearchFree
<1>3. From + k # length
  BY <1>1, <1>2, FreeNotAtWrap
<1>4. RunLength \in Nat /\ RunStart \in Nat
  BY <1>2, Index DEF RunLength, RunStart, Wrapped
<1>5. Types'
  BY <1>1, <1>2, <1>4 DEF Types, Fixed
<1>6. (IF From + k <= length THEN Ascending ELSE Descended)'
  <2>1. CASE From + k < length
    <3>1. Ascending
      BY <1>1, <1>2, <2>1 DEF IInv, Searching
    <3>2. /\ i = From + k /\ RunLength = continuous_pages + 1
          /\ RunStart = IF continuous_pages = 0 THEN i ELSE first_free
      BY <1>1, <1>2, <2>1, <3>1, AscendingRun
    <3>3. Counted(before, n_sec, RunStart, continuous_pages + 1, From, From + k + 1)
      BY <1>1, <1>2, <3>1, <3>2, CountFree DEF Ascending, CountedTo
    <3>4. Run(From, k + 1) = Run(From, k) \cup {From + k}
      BY <1>2 DEF Run
    <3>5. n_sec # 1
      BY <1>1, <1>2, <3>2, <3>1 DEF Ascending, CountedTo, Counted
    <3>6. RunStart \in Run(From, k + 1) /\ RunStart \notin before
      <4>1. CASE continuous_pages = 0
        BY <1>1, <3>2, <3>4, <4>1
      <4>2. CASE continuous_pages > 0
        <5>1. /\ first_free = From + k - continuous_pages
              /\ From <= From + k - continuous_pages
              /\ \A y \in From + k - continuous_pages .. From + k - 1 : y \notin before
          <6>1. Counted(before, n_sec, first_free, continuous_pages, From, From + k)
            BY <3>1 DEF Ascending, CountedTo
          <6> QED
            BY <1>2, <4>2, <6>1 DEF Counted
        <5>2. first_free \in From .. From + k - 1 /\ first_free \notin before
          BY <1>2, <4>2, <5>1
        <5> QED
          BY <1>2, <3>2, <3>4, <4>2, <5>2 DEF Run
      <4> QED
        BY <1>2, <4>1, <4>2
    <3>7. Ascending'
      BY <1>1, <1>2, <3>2, <3>3, <3>5, <3>6 DEF Ascending, CountedTo, Fixed
    <3> QED
      BY <1>1, <1>2, <2>1, <3>7 DEF Fixed
  <2>2. CASE From + k > length
    <3>1. Descended
      BY <1>1, <1>2, <2>2 DEF IInv, Searching
    <3>2. Wrapped' = Wrapped + 1 /\ Wrapped \in Nat
      BY <1>1, <1>2, <2>2 DEF Wrapped, Fixed
    <3>3. CASE /\ From .. length - 1 \subseteq before /\ CountedTo(0, Wrapped)
               /\ first_free < Wrapped /\ i = Wrapped
               /\ RunLength = continuous_pages + 1
               /\ RunStart = IF continuous_pages = 0 THEN i ELSE first_free
      <4>1. Counted(before, n_sec, RunStart, continuous_pages + 1, 0, Wrapped + 1)
        BY <1>1, <1>2, <3>2, <3>3, CountFree DEF CountedTo
      <4>2. CountedTo(0, Wrapped)'
        BY <1>1, <3>2, <3>3, <4>1 DEF CountedTo, Fixed
      <4>3. RunStart < Wrapped + 1
        BY <1>2, <3>2, <3>3
      <4> QED
        BY <1>1, <1>2, <2>2, <3>1, <3>2, <3>3, <4>2, <4>3 DEF Descended, Fixed
    <3>4. CASE /\ first_free \in From .. length - 1 /\ first_free \notin before
               /\ n_sec # 1
               /\ RunLength = 1 /\ RunStart = first_free
      BY <1>1, <1>2, <2>2, <3>1, <3>4 DEF Descended, Fixed
    <3> QED
      BY <1>1, <1>2, <2>2, <3>1, <3>3, <3>4, DescendedRun
  <2> QED
    BY <1>2, <1>3, <2>1, <2>2
<1>7. Searching'
  BY <1>1, <1>6 DEF Searching, Fixed
<1> QED
  BY <1>1, <1>5, <1>7 DEF IInv, Marking, SearchExact, MarkExact

(* A free section that completes a run of n_sec. *)
LEMMA SearchHitIInv == IInv /\ SearchHit => IInv'
<1> SUFFICES ASSUME IInv, SearchHit PROVE IInv'
  OBVIOUS
<1>1. /\ UNCHANGED Fixed /\ From' = From /\ Found' = Found /\ pc' = "mark" /\ pc = "search"
      /\ k' = k /\ continuous_pages' = RunLength /\ first_free' = RunStart /\ used' = used
      /\ used = before /\ i \notin before /\ RunLength = n_sec /\ j' = RunStart
  BY FixedStep DEF SearchHit, Fixed, IInv, Searching
<1>2. /\ From \in Nat /\ length \in Nat /\ k \in Nat /\ n_sec \in Nat /\ first_free \in Nat
      /\ continuous_pages \in Nat /\ n_sec >= 1 /\ From < length /\ 0 \in before /\ k < length
      /\ Types
  BY DEF IInv, Types, SearchHit
<1>3. From + k # length
  BY <1>1, <1>2, FreeNotAtWrap
<1>4. RunLength \in Nat /\ RunStart \in Nat
  BY <1>2, Index DEF RunLength, RunStart, Wrapped
<1>5. Types'
  BY <1>1, <1>2, <1>4 DEF Types, Fixed
<1>6. Found # {} /\ RunStart = Least(Found)
  <2>1. CASE From + k < length
    <3>1. Ascending
      BY <1>1, <1>2, <2>1 DEF IInv, Searching
    <3>2. /\ i = From + k /\ RunLength = continuous_pages + 1
          /\ RunStart = IF continuous_pages = 0 THEN i ELSE first_free
      BY <1>1, <1>2, <2>1, <3>1, AscendingRun
    <3>3. /\ RunStarts(before, From, length, n_sec) # {}
          /\ RunStart = Least(RunStarts(before, From, length, n_sec))
      BY <1>1, <1>2, <2>1, <3>1, <3>2, CountHit DEF Ascending, CountedTo
    <3> QED
      BY <3>3, FoundIs
  <2>2. CASE From + k > length
    <3>1. Descended
      BY <1>1, <1>2, <2>2 DEF IInv, Searching
    <3>2. /\ i = Wrapped /\ Wrapped \in Nat /\ Wrapped < From
          /\ From .. length - 1 \subseteq before /\ CountedTo(0, Wrapped)
          /\ RunLength = continuous_pages + 1
          /\ RunStart = IF continuous_pages = 0 THEN i ELSE first_free
      BY <1>1, <1>2, <2>2, <3>1, DescendedRun
    <3>3. /\ RunStarts(before, 0, From, n_sec) # {}
          /\ RunStart = Least(RunStarts(before, 0, From, n_sec))
      BY <1>1, <1>2, <3>2, CountHit DEF CountedTo
    <3> QED
      BY <3>1, <3>2, <3>3, FoundIs DEF Descended
  <2> QED
    BY <1>2, <1>3, <2>1, <2>2
<1>7. SearchExact'
  BY <1>1, <1>6 DEF SearchExact
<1>8. Marking'
  <2>1. j' = RunStart /\ first_free' = RunStart /\ n_sec' = n_sec
    BY <1>1 DEF Fixed
  <2>2. RunStart .. RunStart - 1 = {}
    BY <1>4
  <2> QED
    BY <1>1, <1>2, <1>4, <2>1, <2>2 DEF Marking, end, Fixed
<1> QED
  BY <1>1, <1>5, <1>7, <1>8 DEF IInv, Searching, MarkExact

(* Every section has been looked at, and no run was complete. *)
LEMMA SearchEndIInv == IInv /\ SearchEnd => IInv'
<1> SUFFICES ASSUME IInv, SearchEnd PROVE IInv'
  OBVIOUS
<1>1. /\ UNCHANGED Fixed /\ From' = From /\ Found' = Found /\ pc' = "skip_block"
      /\ pc = "search" /\ UNCHANGED <<k, continuous_pages, first_free, used, j>>
  BY FixedStep DEF SearchEnd, Fixed
<1>2. Types'
  BY <1>1 DEF IInv, Types, Fixed
<1>3. /\ From \in Nat /\ length \in Nat /\ k = length /\ n_sec \in Nat /\ first_free \in Nat
      /\ continuous_pages \in Nat /\ From < length
  BY DEF IInv, Types, SearchEnd
<1>4. Found = {}
  <2>1. CASE From = 0
    <3>1. Ascending
      BY <1>1, <1>3, <2>1 DEF IInv, Searching
    <3>2. RunStarts(before, From, length, n_sec) = {}
      BY <1>3, <2>1, <3>1, CountEnd DEF Ascending, CountedTo
    <3>3. RunStarts(before, 0, From, n_sec) = {}
      BY <2>1 DEF RunStarts
    <3> QED
      BY <3>2, <3>3, FoundIs
  <2>2. CASE From > 0
    <3>1. Descended /\ Wrapped = From
      BY <1>1, <1>3, <2>2 DEF IInv, Searching, Wrapped
    <3>2. CASE From .. length - 1 \subseteq before /\ CountedTo(0, Wrapped)
      <4>1. RunStarts(before, 0, From, n_sec) = {}
        BY <1>3, <3>1, <3>2, CountEnd DEF CountedTo
      <4> QED
        BY <3>1, <4>1, FoundIs DEF Descended
    <3>3. CASE first_free \in From .. length - 1 /\ first_free \notin before
      BY <3>1, <3>3, FoundIs DEF Descended
    <3> QED
      BY <3>1, <3>2, <3>3 DEF Descended
  <2> QED
    BY <1>3, <2>1, <2>2
<1> QED
  BY <1>1, <1>2, <1>4 DEF IInv, Searching, Marking, SearchExact, MarkExact

-----------------------------------------------------------------------------
(* Marking *)
LEMMA MarkWordIInv == IInv /\ MarkWord => IInv'
<1> SUFFICES ASSUME IInv, MarkWord PROVE IInv'
  OBVIOUS
<1>1. /\ UNCHANGED Fixed /\ Found' = Found /\ From' = From /\ pc' = "mark" /\ pc = "mark"
      /\ j' = j + WordBits /\ UNCHANGED <<k, continuous_pages, first_free>>
      /\ used' = used \cup Run((j \div WordBits) * WordBits, WordBits)
  BY FixedStep DEF MarkWord, Fixed
<1>2. /\ j \in Nat /\ WordBits \in Nat /\ WordBits > 0 /\ j % WordBits = 0
      /\ j + WordBits < end /\ first_free \in Nat /\ n_sec \in Nat /\ end \in Nat
      /\ first_free <= j /\ used = before \cup first_free .. j - 1
  BY <1>1, SearchSizesAssumption DEF IInv, Types, Marking, MarkWord, WordAligned, end
<1>3. (j \div WordBits) * WordBits = j
  <2>1. j = WordBits * (j \div WordBits) + (j % WordBits) /\ j \div WordBits \in Nat
    BY <1>2
  <2> QED
    BY <1>2, <2>1
<1>4. used' = before \cup first_free .. j' - 1
  BY <1>1, <1>2, <1>3 DEF Run
<1>5. Types'
  BY <1>1, <1>2 DEF IInv, Types, Fixed
<1>6. end' = end
  BY <1>1 DEF end, Fixed
<1>7. Marking'
  BY <1>1, <1>2, <1>4, <1>6 DEF Marking, Fixed
<1> QED
  BY <1>1, <1>5, <1>7 DEF IInv, Searching, SearchExact, MarkExact

(* One more bit of the run is set. *)
LEMMA MarkBitIInv == IInv /\ MarkBit => IInv'
<1> SUFFICES ASSUME IInv, MarkBit PROVE IInv'
  OBVIOUS
<1>1. /\ UNCHANGED Fixed /\ Found' = Found /\ From' = From /\ pc' = "mark" /\ pc = "mark"
      /\ j' = j + 1 /\ UNCHANGED <<k, continuous_pages, first_free>>
      /\ used' = used \cup {j}
  BY FixedStep DEF MarkBit, Fixed
<1>2. /\ j \in Nat /\ j < end /\ first_free \in Nat /\ n_sec \in Nat /\ end \in Nat
      /\ first_free <= j /\ used = before \cup first_free .. j - 1
  BY <1>1 DEF IInv, Types, Marking, MarkBit, end
<1>3. used' = before \cup first_free .. j' - 1
  BY <1>1, <1>2
<1>4. Types'
  BY <1>1, <1>2 DEF IInv, Types, Fixed
<1>5. end' = end
  BY <1>1 DEF end, Fixed
<1>6. Marking'
  BY <1>1, <1>2, <1>3, <1>5 DEF Marking, Fixed
<1> QED
  BY <1>1, <1>4, <1>6 DEF IInv, Searching, SearchExact, MarkExact

(* The last bit of the run has been set. *)
LEMMA MarkEndIInv == IInv /\ MarkEnd => IInv'
<1> SUFFICES ASSUME IInv, MarkEnd PROVE IInv'
  OBVIOUS
<1>1. /\ UNCHANGED Fixed /\ Found' = Found /\ From' = From /\ pc' = "marked" /\ pc = "mark"
      /\ UNCHANGED <<k, continuous_pages, first_free, j, used>>
  BY FixedStep DEF MarkEnd, Fixed
<1>2. Types'
  BY <1>1 DEF IInv, Types, Fixed
<1>3. used = before \cup Run(first_free, n_sec)
  <2>1. /\ first_free \in Nat /\ n_sec \in Nat
        /\ j = first_free + n_sec /\ used = before \cup first_free .. j - 1
    BY <1>1 DEF IInv, Types, Marking, MarkEnd, end
  <2> QED
    BY <2>1 DEF Run
<1>4. MarkExact'
  BY <1>1, <1>3 DEF MarkExact, Fixed
<1> QED
  BY <1>1, <1>2, <1>4 DEF IInv, Searching, Marking, SearchExact

(* Every step keeps the inductive invariant. *)
LEMMA NextIInv == IInv /\ [Next]_vars => IInv'
<1>1. ASSUME IInv, UNCHANGED vars PROVE IInv'
  BY <1>1 DEF vars, IInv, Types, Searching, Marking, SearchExact, MarkExact, Found, From,
              Ascending, Descended, Wrapped, CountedTo, end
<1> QED
  BY <1>1, SearchUsedIInv, SearchFreeIInv, SearchHitIInv, SearchEndIInv, MarkWordIInv,
     MarkBitIInv, MarkEndIInv DEF Next

(* The inductive invariant of the two loops. *)
THEOREM KHeapSearchInvariant == Spec => []IInv
<1> QED
  BY InitIInv, NextIInv, PTL DEF Spec

(* kheap_malloc's search of a block of any length finds the lowest start   *)
(* that search, which module KHeap uses, allows, and gives the block up    *)
(* exactly when there is none.                                             *)
THEOREM KHeapSearchSearchExact == Spec => []SearchExact
<1>1. IInv => SearchExact
  BY DEF IInv
<1> QED
  BY <1>1, KHeapSearchInvariant, PTL

(* Marking a run of any length, in words of any size, sets its bits and no *)
(* others.                                                                 *)
THEOREM KHeapSearchMarkExact == Spec => []MarkExact
<1>1. IInv => MarkExact
  BY DEF IInv
<1> QED
  BY <1>1, KHeapSearchInvariant, PTL
=============================================================================
