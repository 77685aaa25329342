--------------------------- MODULE EarlyMemProofs ---------------------------
(* Proofs about module EarlyMem, for pages, alignments and words of any    *)
(* size and for every report of the loader that the assumptions allow.     *)
EXTENDS EarlyMem, Integers, TLAPS, WellFoundedInduction

-----------------------------------------------------------------------------
(* The inductive invariant.                                                *)

(* The early heap's position after each of the allocations, relative to    *)
(* its start: after the frame bitset ...                                   *)
AfterFrames == bitset_size

(* ... after the address space allocator's bitset ... *)
AfterAsa == AlignUp(AfterFrames, Alignment) + AsaBitsetSize
(* ... and after the page directory. *)
AfterDirectory == AlignUp(AfterAsa, PageSize) + PageSize

(* The types of the variables. *)
Types ==
  /\ boot \in BootInfos
  /\ curpos \in Nat /\ used \subseteq Nat /\ i \in Nat
  /\ placed \in [DOMAIN placed -> [start : Nat, size : Nat]]

(* What has been placed when the boot sequence has come to a phase, and    *)
(* where that leaves the position.                                         *)
PlacedSoFar ==
  /\ phase = "mem_init" => DOMAIN placed = {}
  /\ phase = "init_bitset" =>
       DOMAIN placed = {"frame_bitset"} /\ curpos = kernel_heap_start + AfterFrames
  /\ phase = "mmu_data_init" =>
       DOMAIN placed = {"frame_bitset", "asa_bitset"} /\ curpos = kernel_heap_start + AfterAsa
  /\ phase = "identity_map" =>
       \/ DOMAIN placed = Names
       \/ /\ DOMAIN placed = Names \ {"page_table"} /\ i = 0
          /\ curpos = kernel_heap_start + AfterDirectory
  /\ phase = "done" => DOMAIN placed = Names

(* The frames _i386_mem_init_bitset looks at, and has looked at. *)
LookedAt(f) == /\ LoopReaches(f)
               /\ phase = "init_bitset" => f < i

(* Those of them that it found reserved are marked; nothing unmarks them.  *)
ReservedMarked ==
  phase \notin {"mem_init", "halted"} =>
    \A f \in Nat : LookedAt(f) /\ i386_mem_check_reserved(f * PageSize) = MEM_RESERVED => f \in used

(* The pages identity mapped so far are marked. *)
IdentityMarked ==
  /\ phase = "mem_init" => i = 0
  /\ phase = "identity_map" => 0 .. i - 1 \subseteq used
  /\ phase = "done" => /\ 0 .. KvirtReserved \div PageSize - 1 \subseteq used
                       /\ highest_page + PageSize <= KvirtReserved

(* The inductive invariant. *)
IInv == Types /\ PlacedSoFar /\ ReservedMarked /\ IdentityMarked /\ EarlyDataDisjoint

-----------------------------------------------------------------------------
(* Arithmetic *)

(* The sizes as numbers. *)
LEMMA Units ==
  /\ PageSize \in Nat /\ PageSize > 0 /\ Alignment \in Nat /\ Alignment > 0
  /\ WordBits \in Nat /\ WordBits > 0 /\ WordSize \in Nat /\ WordSize > 0
  /\ InfoSize \in Nat /\ InfoSize > 0
  /\ EarlyHeapMax \in Nat /\ KvirtReserved \in Nat /\ AsaBitsetSize \in Nat
  /\ UpperStart \in Nat
  BY UnitsAssumption

(* Quotient and remainder are unique. *)
LEMMA Remainder ==
  ASSUME NEW x \in Nat, NEW b \in Nat \ {0}, NEW q \in Nat, NEW r \in 0 .. b - 1,
         x = q * b + r
  PROVE  x % b = r /\ x \div b = q
<1> DEFINE u == x \div b
           v == x % b
<1>1. u \in Nat /\ x = b * u + v /\ v \in 0 .. b - 1
  OBVIOUS
<1>2. q * b = b * q /\ b * (u + 1) = b * u + b /\ b * (q + 1) = b * q + b
  BY <1>1
<1> HIDE DEF u, v
<1>3. ASSUME u < q PROVE FALSE
  <2>1. u + 1 <= q
    BY <1>1, <1>3
  <2>2. b * (u + 1) <= b * q
    BY <1>1, <2>1
  <2> QED
    BY <1>1, <1>2, <2>2
<1>4. ASSUME u > q PROVE FALSE
  <2>1. q + 1 <= u
    BY <1>1, <1>4
  <2>2. b * (q + 1) <= b * u
    BY <1>1, <2>1
  <2> QED
    BY <1>1, <1>2, <2>2
<1>5. u = q
  BY <1>1, <1>3, <1>4
<1>6. v = r
  BY <1>1, <1>2, <1>5
<1> QED
  BY <1>5, <1>6 DEF u, v

(* Adding multiples leaves the remainder as it was. *)
LEMMA ShiftedRemainder ==
  ASSUME NEW x \in Nat, NEW b \in Nat \ {0}, NEW m \in Nat
  PROVE  (m * b + x) % b = x % b
<1> DEFINE q == x \div b
           r == x % b
           n == m + q
           y == m * b + x
<1>1. q \in Nat /\ x = b * q + r /\ r \in 0 .. b - 1
  OBVIOUS
<1> HIDE DEF q, r
<1>2. n \in Nat /\ y \in Nat /\ y = n * b + r
  BY <1>1
<1> HIDE DEF n, y
<1>3. y % b = r
  BY ONLY <1>1, <1>2, Remainder, b \in Nat \ {0}
<1> QED
  BY <1>3 DEF y, r

(* AlignUp moves a position by less than a unit to a multiple of it. *)
LEMMA Aligns ==
  ASSUME NEW x \in Nat, NEW b \in Nat \ {0}
  PROVE  /\ AlignUp(x, b) \in Nat /\ AlignUp(x, b) >= x /\ AlignUp(x, b) < x + b
         /\ AlignUp(x, b) % b = 0
<1> DEFINE q == x \div b
           r == x % b
           n == q + 1
           y == x - r + b
<1>1. q \in Nat /\ x = b * q + r /\ r \in 0 .. b - 1
  OBVIOUS
<1>2. CASE r = 0
  BY <1>2 DEF AlignUp
<1>3. CASE r # 0
  <2>1. AlignUp(x, b) = y
    BY <1>3 DEF AlignUp
  <2> HIDE DEF q, r
  <2>2. n \in Nat /\ y \in Nat /\ y = n * b + 0 /\ 0 \in 0 .. b - 1 /\ y >= x /\ y < x + b
    BY <1>1, <1>3
  <2> HIDE DEF n, y
  <2>3. y % b = 0
    BY ONLY <2>2, Remainder, b \in Nat \ {0}
  <2> QED
    BY <2>1, <2>2, <2>3
<1> QED
  BY <1>2, <1>3

(* From a multiple on, positions are aligned as from 0 on. *)
LEMMA AlignsShifted ==
  ASSUME NEW x \in Nat, NEW b \in Nat \ {0}, NEW m \in Nat
  PROVE  AlignUp(m * b + x, b) = m * b + AlignUp(x, b)
<1> DEFINE k == m * b
<1>1. k \in Nat /\ (k + x) % b = x % b
  <2>1. (m * b + x) % b = x % b
    BY ShiftedRemainder
  <2> QED BY <2>1
<1>2. x % b \in Nat
  OBVIOUS
<1> HIDE DEF k
<1>3. AlignUp(k + x, b) = k + AlignUp(x, b)
  BY <1>1, <1>2 DEF AlignUp
<1> QED
  BY <1>3 DEF k

(* A set of naturals has a least member. *)
LEMMA LeastExists ==
  ASSUME NEW S \in SUBSET Nat, S # {}
  PROVE  \E m \in S : \A n \in S : m <= n
<1> DEFINE R == OpToRel(<, Nat)
<1>1. IsWellFoundedOn(R, Nat)
  BY NatLessThanWellFounded
<1>2. \A x, y \in Nat : x < y => <<x, y>> \in R
  BY DEF OpToRel
<1> HIDE DEF R
<1>3. PICK m \in S : \A n \in S : ~(<<n, m>> \in R)
  BY <1>1, WFMin
<1>4. ASSUME NEW n \in S PROVE m <= n
  <2>1. m \in Nat /\ n \in Nat /\ ~(n < m)
    BY <1>2, <1>3
  <2> QED
    BY <2>1
<1> QED
  BY <1>4

(* A bounded set of naturals that is not empty has a greatest member. *)
LEMMA GreatestIs ==
  ASSUME NEW S \in SUBSET Nat, S # {}, NEW bound \in Nat, \A n \in S : n <= bound
  PROVE  Max(S) \in S
<1> DEFINE B == {m \in Nat : \A n \in S : n <= m}
<1>1. B \in SUBSET Nat /\ bound \in B
  OBVIOUS
<1>2. PICK m \in B : \A k \in B : m <= k
  BY <1>1, LeastExists
<1>3. m \in Nat /\ \A n \in S : n <= m
  OBVIOUS
<1>4. m \in S
  <2>1. SUFFICES ASSUME m \notin S PROVE FALSE
    OBVIOUS
  <2>2. \A n \in S : n <= m - 1 /\ n \in Nat
    BY <1>3, <2>1
  <2>3. m - 1 \in Nat
    <3>1. PICK n \in S : TRUE
      OBVIOUS
    <3> QED BY <1>3, <2>2, <3>1
  <2>4. m - 1 \in B
    BY <2>2, <2>3
  <2> HIDE DEF B
  <2> QED
    BY <1>2, <1>3, <2>4
<1>5. \E x \in S : \A y \in S : x >= y
  BY <1>3, <1>4
<1> QED
  BY <1>5 DEF Max

-----------------------------------------------------------------------------
(* What follows from the report                                            *)

(* The numbers a report consists of. *)
LEMMA ReportNumbers ==
  ASSUME boot \in BootInfos
  PROVE  /\ boot.info \in Nat /\ boot.mem_upper \in Nat /\ boot.mem_upper >= PageSize
         /\ \A n \in DOMAIN boot.sections :
              /\ boot.sections[n].start \in Nat /\ boot.sections[n].size \in Nat
              /\ UpperStart <= boot.sections[n].start
              /\ boot.sections[n].start + boot.sections[n].size <= KvirtReserved
         /\ UpperStart <= KvirtReserved
<1>1. boot.info \in Nat /\ boot.mem_upper \in Nat
  BY LoaderAssumption
<1>2. boot.mem_upper >= PageSize
  BY LoaderAssumption
<1>3. boot.sections \in Seq([start : Nat, size : Nat]) /\ boot.sections # <<>>
  BY LoaderAssumption
<1>4. ASSUME NEW n \in DOMAIN boot.sections
      PROVE  /\ boot.sections[n].start \in Nat /\ boot.sections[n].size \in Nat
             /\ UpperStart <= boot.sections[n].start
             /\ boot.sections[n].start + boot.sections[n].size <= KvirtReserved
  <2> DEFINE R == [start : Nat, size : Nat]
  <2>1. boot.sections[n] \in R
    <3>1. boot.sections \in Seq(R)
      BY <1>3
    <3> HIDE DEF R
    <3>2. boot.sections \in [1 .. Len(boot.sections) -> R]
      BY <3>1
    <3> QED BY <3>2
  <2>2. Inside(boot.sections[n], Region(UpperStart, KvirtReserved - UpperStart))
    BY LoaderAssumption
  <2> QED
    BY <2>1, <2>2, Units DEF Inside, Region
<1>5. 1 \in DOMAIN boot.sections
  BY <1>3
<1>6. UpperStart <= KvirtReserved
  BY <1>4, <1>5, Units
<1> QED
  BY <1>1, <1>2, <1>4, <1>6

(* The early heap starts at a page that is not the first. *)
LEMMA HeapStart ==
  ASSUME boot \in BootInfos
  PROVE  \E h \in Nat \ {0} : kernel_heap_start = h * PageSize
<1> DEFINE S == {boot.sections[n].start : n \in DOMAIN boot.sections} \cup {0}
           top == Max(S)
<1>1. S \in SUBSET Nat /\ S # {}
  BY ReportNumbers
<1>2. \A x \in S : x <= KvirtReserved
  BY ReportNumbers, Units
<1>3. top \in Nat
  <2> HIDE DEF S
  <2>1. KvirtReserved \in Nat
    BY Units
  <2> QED BY <1>1, <1>2, <2>1, GreatestIs
<1>4. kernel_reserved_end = top + (top % PageSize)
  BY DEF kernel_reserved_end
<1> HIDE DEF top
<1>5. PageSize \in Nat \ {0}
  BY Units
<1>6. kernel_reserved_end \in Nat
  BY <1>3, <1>4, <1>5
<1> DEFINE q == (kernel_reserved_end + PageSize) \div PageSize
           r == (kernel_reserved_end + PageSize) % PageSize
<1>7. q \in Nat /\ kernel_reserved_end + PageSize = PageSize * q + r /\ r \in 0 .. PageSize - 1
  BY <1>5, <1>6
<1>8. kernel_heap_start = q * PageSize
  BY DEF kernel_heap_start
<1> HIDE DEF q, r
<1>9. q # 0
  <2>1. SUFFICES ASSUME q = 0 PROVE FALSE
    OBVIOUS
  <2>2. PageSize * q = 0
    BY <1>5, <2>1
  <2> QED
    BY <1>5, <1>6, <1>7, <2>2
<1> QED
  BY <1>7, <1>8, <1>9

(* The frame bitset has a size. *)
LEMMA BitsetNumbers ==
  ASSUME boot \in BootInfos
  PROVE  bitset_length \in Nat /\ bitset_size \in Nat
<1>1. boot.mem_upper \in Nat /\ boot.mem_upper >= PageSize
  BY ReportNumbers
<1>2. PageSize \in Nat \ {0} /\ WordBits \in Nat \ {0} /\ WordSize \in Nat
  BY Units
<1>3. bitset_length \in Nat
  BY <1>1, <1>2 DEF bitset_length, highest_free_address
<1>4. bitset_length >= 1
  <2> DEFINE q == boot.mem_upper \div PageSize
             r == boot.mem_upper % PageSize
  <2>1. q \in Nat /\ boot.mem_upper = PageSize * q + r /\ r \in 0 .. PageSize - 1
    BY <1>1, <1>2
  <2>2. bitset_length = q
    BY DEF bitset_length, highest_free_address
  <2> HIDE DEF q, r
  <2>3. ASSUME q = 0 PROVE FALSE
    <3>1. PageSize * q = 0
      BY <1>2, <2>3
    <3> QED
      BY <1>1, <1>2, <2>1, <3>1
  <2> QED
    BY <2>1, <2>2, <2>3
<1>5. (bitset_length - 1) \div WordBits \in Nat
  BY <1>2, <1>3, <1>4
<1>6. DIV_ROUND_UP(bitset_length, WordBits) \in Nat
  BY <1>5 DEF DIV_ROUND_UP
<1> QED
  BY <1>2, <1>3, <1>6 DEF bitset_size

(* The positions, and that the early heap has room up to the last one. *)
LEMMA Positions ==
  ASSUME boot \in BootInfos
  PROVE  /\ kernel_heap_start \in Nat /\ kernel_heap_start >= PageSize
         /\ kernel_heap_start % PageSize = 0
         /\ AfterFrames \in Nat /\ AfterAsa \in Nat /\ AfterDirectory \in Nat
         /\ AfterFrames + PageSize <= EarlyHeapMax
         /\ AfterFrames + AsaBitsetSize + PageSize <= EarlyHeapMax
         /\ AfterAsa + 2 * PageSize <= EarlyHeapMax
         /\ AfterDirectory + 2 * PageSize <= EarlyHeapMax
         /\ AlignUp(kernel_heap_start, Alignment) = kernel_heap_start
         /\ AlignUp(kernel_heap_start + AfterFrames, Alignment) + AsaBitsetSize
              = kernel_heap_start + AfterAsa
         /\ AlignUp(kernel_heap_start + AfterAsa, PageSize) + PageSize
              = kernel_heap_start + AfterDirectory
<1>1. /\ PageSize \in Nat \ {0} /\ Alignment \in Nat \ {0}
      /\ AsaBitsetSize \in Nat /\ EarlyHeapMax \in Nat
  BY Units
<1>2. PICK h \in Nat \ {0} : kernel_heap_start = h * PageSize
  BY HeapStart
<1>3. kernel_heap_start \in Nat /\ kernel_heap_start >= PageSize
  BY <1>1, <1>2
<1>4. kernel_heap_start % PageSize = 0
  <2>1. kernel_heap_start = h * PageSize + 0 /\ 0 \in 0 .. PageSize - 1 /\ h \in Nat
    BY <1>1, <1>2
  <2> QED BY ONLY <1>1, <1>3, <2>1, Remainder
<1>5. PICK g \in Nat : kernel_heap_start = g * Alignment
  <2> DEFINE k == PageSize \div Alignment
  <2>1. k \in Nat /\ PageSize = Alignment * k + (PageSize % Alignment)
    BY <1>1
  <2>2. PageSize % Alignment = 0
    BY UnitsAssumption
  <2> HIDE DEF k
  <2>3. PageSize = k * Alignment
    BY <1>1, <2>1, <2>2
  <2>4. kernel_heap_start = (h * k) * Alignment /\ h * k \in Nat
    BY <1>1, <1>2, <2>1, <2>3
  <2> QED BY <2>4
<1>6. AfterFrames \in Nat
  BY BitsetNumbers DEF AfterFrames
<1>7. /\ AlignUp(AfterFrames, Alignment) \in Nat /\ AlignUp(AfterFrames, Alignment) >= AfterFrames
  BY <1>1, <1>6, Aligns
<1>8. AfterAsa \in Nat /\ AfterAsa >= AfterFrames + AsaBitsetSize
  BY <1>1, <1>6, <1>7 DEF AfterAsa
<1>9. AlignUp(AfterAsa, PageSize) \in Nat /\ AlignUp(AfterAsa, PageSize) >= AfterAsa
  BY <1>1, <1>8, Aligns
<1>10. AfterDirectory \in Nat /\ AfterDirectory >= AfterAsa + PageSize
  BY <1>1, <1>8, <1>9 DEF AfterDirectory
<1>11. AfterDirectory + 2 * PageSize <= EarlyHeapMax
  <2>1. AlignUp(AfterAsa, PageSize) + 3 * PageSize <= EarlyHeapMax
    BY RoomAssumption DEF AfterAsa, AfterFrames, bitset_size, bitset_length, highest_free_address
  <2>2. AfterDirectory = AlignUp(AfterAsa, PageSize) + PageSize
    BY DEF AfterDirectory
  <2> QED
    BY <1>1, <1>9, <2>1, <2>2
<1>12. AlignUp(kernel_heap_start, Alignment) = kernel_heap_start
  <2>1. kernel_heap_start = g * Alignment + 0 /\ 0 \in 0 .. Alignment - 1
    BY <1>1, <1>5
  <2>2. kernel_heap_start % Alignment = 0
    BY ONLY <1>1, <1>3, <1>5, <2>1, Remainder
  <2> QED BY <2>2 DEF AlignUp
<1>13. AlignUp(kernel_heap_start + AfterFrames, Alignment)
         = kernel_heap_start + AlignUp(AfterFrames, Alignment)
  BY <1>1, <1>5, <1>6, AlignsShifted
<1>14. AlignUp(kernel_heap_start + AfterAsa, PageSize)
         = kernel_heap_start + AlignUp(AfterAsa, PageSize)
  BY <1>1, <1>2, <1>8, AlignsShifted
<1>15. AlignUp(kernel_heap_start + AfterFrames, Alignment) + AsaBitsetSize
         = kernel_heap_start + AfterAsa
  BY <1>1, <1>3, <1>7, <1>13 DEF AfterAsa
<1>16. AlignUp(kernel_heap_start + AfterAsa, PageSize) + PageSize
         = kernel_heap_start + AfterDirectory
  BY <1>1, <1>3, <1>9, <1>14 DEF AfterDirectory
<1> QED
  BY <1>1, <1>3, <1>4, <1>6, <1>8, <1>10, <1>11, <1>12, <1>15, <1>16

(* A step that keeps the report keeps all that is derived from it. *)
LEMMA ReportKept ==
  ASSUME boot' = boot
  PROVE  /\ kernel_heap_start' = kernel_heap_start /\ bitset_size' = bitset_size
         /\ highest_free_address' = highest_free_address /\ highest_page' = highest_page
         /\ AfterFrames' = AfterFrames /\ AfterAsa' = AfterAsa /\ AfterDirectory' = AfterDirectory
         /\ \A addr : i386_mem_check_reserved(addr)' = i386_mem_check_reserved(addr)
<1>1. kernel_reserved_end' = kernel_reserved_end /\ kernel_reserved_start' = kernel_reserved_start
  BY DEF kernel_reserved_end, kernel_reserved_start
<1>2. kernel_heap_start' = kernel_heap_start
  BY <1>1 DEF kernel_heap_start
<1>3. highest_free_address' = highest_free_address
  BY DEF highest_free_address
<1>4. bitset_size' = bitset_size
  BY <1>3 DEF bitset_size, bitset_length
<1>5. highest_page' = highest_page
  BY <1>2 DEF highest_page
<1>6. AfterFrames' = AfterFrames
  BY <1>4 DEF AfterFrames
<1>7. AfterAsa' = AfterAsa
  BY <1>6 DEF AfterAsa
<1>8. AfterDirectory' = AfterDirectory
  BY <1>7 DEF AfterDirectory
<1>9. ASSUME NEW addr PROVE i386_mem_check_reserved(addr)' = i386_mem_check_reserved(addr)
  <2>1. mmap_check_reserved(addr)' = mmap_check_reserved(addr)
    BY DEF mmap_check_reserved
  <2>2. multiboot_reserved_end' = multiboot_reserved_end
    BY DEF multiboot_reserved_end
  <2> QED
    BY <1>1, <2>1, <2>2 DEF i386_mem_check_reserved
<1> QED
  BY <1>2, <1>3, <1>4, <1>5, <1>6, <1>7, <1>8, <1>9

-----------------------------------------------------------------------------
(* The placement allocator                                                 *)

(* A page is a number of alignment units, so none of them is longer. *)
LEMMA AlignmentAtMostPage == Alignment <= PageSize
<1> DEFINE k == PageSize \div Alignment
<1>1. Alignment \in Nat \ {0} /\ PageSize \in Nat \ {0}
  BY Units
<1>2. k \in Nat /\ PageSize = Alignment * k + (PageSize % Alignment)
  BY <1>1
<1>3. PageSize % Alignment = 0
  BY UnitsAssumption
<1> HIDE DEF k
<1>4. PageSize = Alignment * k
  BY <1>1, <1>2, <1>3
<1>5. k >= 1
  <2>1. SUFFICES ASSUME k = 0 PROVE FALSE
    BY <1>2
  <2> QED
    BY <1>1, <1>4, <2>1
<1>6. Alignment * k >= Alignment * 1
  BY <1>1, <1>2, <1>5
<1> QED
  BY <1>1, <1>4, <1>6

(* A request that fits with a page to spare, as the position stands before *)
(* it is aligned, is served at or after the position, with the requested   *)
(* alignment, and still ends within the early heap.                        *)
LEMMA Allocates ==
  ASSUME boot \in BootInfos, NEW pos \in Nat, NEW size \in Nat, NEW page_align \in BOOLEAN,
         pos >= kernel_heap_start,
         size + pos + PageSize <= kernel_heap_start + EarlyHeapMax,
         NEW a, a = i386_mem_kmalloc_real(pos, size, page_align)
  PROVE  /\ a.start \in Nat /\ a.start >= pos /\ a.start # 0
         /\ a.start = AlignUp(pos, IF page_align THEN PageSize ELSE Alignment)
         /\ a.curpos = a.start + size
         /\ a.start + size <= kernel_heap_start + EarlyHeapMax
         /\ page_align => a.start % PageSize = 0
<1> DEFINE unit == IF page_align THEN PageSize ELSE Alignment
           start == AlignUp(pos, unit)
<1>1. unit \in Nat \ {0} /\ unit <= PageSize /\ (page_align => unit = PageSize) /\ PageSize \in Nat
  BY Units, AlignmentAtMostPage
<1>2. /\ kernel_heap_start \in Nat /\ kernel_heap_start >= PageSize /\ PageSize > 0
      /\ EarlyHeapMax \in Nat
  BY Positions, Units
<1>3. a = [start |-> start, curpos |-> start + size]
  BY <1>1, <1>2 DEF i386_mem_kmalloc_real
<1>4. a.start = start /\ a.curpos = a.start + size
  BY <1>3
<1> HIDE DEF unit
<1>5. start \in Nat /\ start >= pos /\ start < pos + unit /\ start % unit = 0
  BY <1>1, Aligns
<1>6. a.start = AlignUp(pos, IF page_align THEN PageSize ELSE Alignment)
  BY <1>4 DEF unit
<1> HIDE DEF start
<1>7. start + size <= kernel_heap_start + EarlyHeapMax
  BY <1>1, <1>2, <1>5
<1> QED
  BY <1>1, <1>2, <1>4, <1>5, <1>6, <1>7

(* Placing a region from the position on keeps the early data apart. *)
LEMMA Places ==
  ASSUME Types, EarlyDataDisjoint, boot' = boot, NEW name, name \notin DOMAIN placed,
         NEW a, NEW size \in Nat, Place(name, a, size),
         a.start \in Nat, a.start >= kernel_heap_start,
         \A x \in DOMAIN placed : curpos <= a.start,
         a.curpos = a.start + size, a.start + size <= kernel_heap_start + EarlyHeapMax,
         name \in {"page_directory", "page_table"} => a.start % PageSize = 0
  PROVE  /\ EarlyDataDisjoint' /\ DOMAIN placed' = DOMAIN placed \cup {name}
         /\ placed' \in [DOMAIN placed' -> [start : Nat, size : Nat]]
         /\ curpos' = a.start + size /\ curpos' \in Nat
<1> DEFINE r == Region(a.start, size)
<1>1. r.start = a.start /\ r.size = size /\ r \in [start : Nat, size : Nat]
  BY DEF Region
<1>2. /\ DOMAIN placed' = DOMAIN placed \cup {name}
      /\ placed'[name] = r /\ \A x \in DOMAIN placed : placed'[x] = placed[x]
      /\ curpos' = a.start + size /\ curpos' \in Nat
  BY DEF Place
<1>3. /\ boot \in BootInfos /\ curpos \in Nat
      /\ \A x \in DOMAIN placed : placed[x] \in [start : Nat, size : Nat]
  BY DEF Types
<1>4. placed' \in [DOMAIN placed' -> [start : Nat, size : Nat]]
  <2>1. placed' = [x \in DOMAIN placed' |-> placed'[x]]
    BY <1>2 DEF Place
  <2> QED
    BY <1>1, <1>2, <1>3, <2>1
<1>5. /\ kernel_heap_start \in Nat /\ kernel_heap_start' = kernel_heap_start /\ EarlyHeapMax \in Nat
  BY <1>3, Positions, ReportKept, Units
<1>6. /\ early_heap' = early_heap
      /\ early_heap.start = kernel_heap_start /\ early_heap.size = EarlyHeapMax
  BY <1>5 DEF early_heap, Region
<1> HIDE DEF r
<1>7. ASSUME NEW x \in DOMAIN placed
      PROVE  /\ placed[x].start \in Nat /\ placed[x].size \in Nat
             /\ Inside(placed[x], early_heap) /\ placed[x].start + placed[x].size <= curpos
             /\ (x \in {"page_directory", "page_table"} => placed[x].start % PageSize = 0)
             /\ \A y \in DOMAIN placed \ {x} : ~Overlap(placed[x], placed[y])
  BY <1>3 DEF EarlyDataDisjoint
<1>8. ASSUME NEW x \in DOMAIN placed
      PROVE  /\ placed[x].start + placed[x].size <= a.start + size
             /\ ~Overlap(placed[x], r) /\ ~Overlap(r, placed[x])
  <2>1. /\ placed[x].start \in Nat /\ placed[x].size \in Nat
        /\ placed[x].start + placed[x].size <= curpos /\ curpos <= a.start
    BY <1>7
  <2> QED
    BY <1>1, <1>3, <2>1 DEF Overlap
<1>9. Inside(r, early_heap) /\ r.start + r.size <= a.start + size
  BY <1>1, <1>5, <1>6 DEF Inside
<1>10. ASSUME NEW x \in DOMAIN placed'
       PROVE  /\ Inside(placed'[x], early_heap')
              /\ placed'[x].start + placed'[x].size <= curpos'
              /\ (x \in {"page_directory", "page_table"} => placed'[x].start % PageSize = 0)
              /\ \A y \in DOMAIN placed' \ {x} : ~Overlap(placed'[x], placed'[y])
  <2>1. CASE x = name
    <3>1. placed'[x] = r
      BY <1>2, <2>1
    <3>2. ASSUME NEW y \in DOMAIN placed' \ {x} PROVE ~Overlap(placed'[x], placed'[y])
      <4>1. y \in DOMAIN placed /\ placed'[y] = placed[y]
        BY <1>2, <2>1
      <4> QED BY <1>8, <3>1, <4>1
    <3>3. x \in {"page_directory", "page_table"} => placed'[x].start % PageSize = 0
      BY <1>1, <2>1, <3>1
    <3> QED
      BY <1>2, <1>6, <1>9, <3>1, <3>2, <3>3
  <2>2. CASE x # name
    <3>1. x \in DOMAIN placed /\ placed'[x] = placed[x]
      BY <1>2, <2>2
    <3>2. ASSUME NEW y \in DOMAIN placed' \ {x} PROVE ~Overlap(placed'[x], placed'[y])
      <4>1. CASE y = name
        BY <1>2, <1>8, <3>1, <4>1
      <4>2. CASE y # name
        <5>1. y \in DOMAIN placed \ {x} /\ placed'[y] = placed[y]
          BY <1>2, <4>2
        <5> QED BY <1>7, <3>1, <5>1
      <4> QED BY <4>1, <4>2
    <3> QED
      BY <1>2, <1>6, <1>7, <1>8, <3>1, <3>2
  <2> QED BY <2>1, <2>2
<1> QED
  BY <1>2, <1>4, <1>10 DEF EarlyDataDisjoint

(* The early data stays where it is when nothing is placed. *)
LEMMA NothingPlaced ==
  ASSUME EarlyDataDisjoint, boot' = boot, UNCHANGED <<curpos, placed>>
  PROVE  EarlyDataDisjoint'
<1>1. early_heap' = early_heap
  BY ReportKept DEF early_heap
<1> QED
  BY <1>1 DEF EarlyDataDisjoint

(* Marking a set of frames keeps those that were marked, once the frames   *)
(* have been looked at.                                                    *)
LEMMA MarksKept ==
  ASSUME ReservedMarked, phase \notin {"mem_init", "halted", "init_bitset"}, boot' = boot,
         used \subseteq used'
  PROVE  ReservedMarked'
<1>1. /\ highest_free_address' = highest_free_address
      /\ \A addr : i386_mem_check_reserved(addr)' = i386_mem_check_reserved(addr)
  BY ReportKept
<1>2. ASSUME NEW f \in Nat, LookedAt(f)',
             i386_mem_check_reserved(f * PageSize)' = MEM_RESERVED
      PROVE  f \in used'
  <2>1. f * PageSize + PageSize < highest_free_address
    BY <1>1, <1>2 DEF LookedAt, LoopReaches
  <2>2. LookedAt(f)
    BY <2>1 DEF LookedAt, LoopReaches
  <2>3. i386_mem_check_reserved(f * PageSize) = MEM_RESERVED
    BY <1>1, <1>2
  <2>4. f \in used
    BY <2>2, <2>3 DEF ReservedMarked
  <2> QED
    BY <2>4
<1> QED
  BY <1>2 DEF ReservedMarked, LookedAt, LoopReaches, MEM_RESERVED

-----------------------------------------------------------------------------
(* The steps                                                               *)

(* The first state satisfies the inductive invariant. *)
LEMMA InitIInv ==
  ASSUME Init PROVE IInv
<1>1. DOMAIN placed = {}
  BY DEF Init
<1>2. Types
  BY <1>1 DEF Init, Types
<1>3. PlacedSoFar /\ ReservedMarked /\ IdentityMarked /\ EarlyDataDisjoint
  BY <1>1 DEF Init, PlacedSoFar, ReservedMarked, IdentityMarked, EarlyDataDisjoint
<1> QED
  BY <1>2, <1>3 DEF IInv

(* i386_mem_init without the loader's information stops the kernel. *)
LEMMA MemInitFailIInv ==
  ASSUME IInv, MemInitFail PROVE IInv'
<1>1. /\ phase' = "halted" /\ boot' = boot /\ curpos' = curpos /\ placed' = placed
      /\ used' = used /\ i' = i
  BY DEF MemInitFail
<1>2. EarlyDataDisjoint'
  BY <1>1, NothingPlaced DEF IInv
<1>3. Types'
  BY <1>1 DEF IInv, Types
<1>4. PlacedSoFar' /\ ReservedMarked' /\ IdentityMarked'
  BY <1>1 DEF PlacedSoFar, ReservedMarked, IdentityMarked
<1> QED
  BY <1>2, <1>3, <1>4 DEF IInv

(* i386_mem_init places the frame bitset at the start of the early heap. *)
LEMMA MemInitIInv ==
  ASSUME IInv, MemInit PROVE IInv'
<1> DEFINE a == i386_mem_kmalloc_real(kernel_heap_start, bitset_size, FALSE)
<1>1. /\ phase = "mem_init" /\ phase' = "init_bitset" /\ boot' = boot /\ used' = used /\ i' = i
      /\ Place("frame_bitset", a, bitset_size)
  BY DEF MemInit
<1>2. /\ boot \in BootInfos /\ DOMAIN placed = {} /\ i = 0
  BY <1>1 DEF IInv, Types, PlacedSoFar, IdentityMarked
<1>3. /\ kernel_heap_start \in Nat /\ bitset_size \in Nat /\ AfterFrames = bitset_size
      /\ bitset_size + PageSize <= EarlyHeapMax
      /\ PageSize \in Nat /\ EarlyHeapMax \in Nat
      /\ AlignUp(kernel_heap_start, Alignment) = kernel_heap_start
  BY <1>2, Positions, BitsetNumbers, Units DEF AfterFrames
<1>4. bitset_size + kernel_heap_start + PageSize <= kernel_heap_start + EarlyHeapMax
  BY <1>3
<1> HIDE DEF a
<1>5. /\ a.start \in Nat /\ a.start = kernel_heap_start /\ a.curpos = a.start + bitset_size
      /\ a.start + bitset_size <= kernel_heap_start + EarlyHeapMax
  <2>1. /\ boot \in BootInfos /\ kernel_heap_start \in Nat /\ bitset_size \in Nat
        /\ FALSE \in BOOLEAN /\ kernel_heap_start >= kernel_heap_start
        /\ bitset_size + kernel_heap_start + PageSize <= kernel_heap_start + EarlyHeapMax
        /\ a = i386_mem_kmalloc_real(kernel_heap_start, bitset_size, FALSE)
    BY <1>2, <1>3, <1>4 DEF a
  <2>2. /\ a.start \in Nat /\ a.curpos = a.start + bitset_size
        /\ a.start = AlignUp(kernel_heap_start, IF FALSE THEN PageSize ELSE Alignment)
        /\ a.start + bitset_size <= kernel_heap_start + EarlyHeapMax
    BY ONLY <2>1, Allocates, ZenonT(60)
  <2> QED BY <1>3, <2>2
<1>6. /\ EarlyDataDisjoint' /\ DOMAIN placed' = DOMAIN placed \cup {"frame_bitset"}
      /\ placed' \in [DOMAIN placed' -> [start : Nat, size : Nat]]
      /\ curpos' = a.start + bitset_size /\ curpos' \in Nat
  <2>1. /\ Types /\ EarlyDataDisjoint /\ boot' = boot /\ "frame_bitset" \notin DOMAIN placed
        /\ bitset_size \in Nat /\ Place("frame_bitset", a, bitset_size)
        /\ a.start \in Nat /\ a.start >= kernel_heap_start
        /\ \A x \in DOMAIN placed : curpos <= a.start
        /\ a.curpos = a.start + bitset_size
        /\ a.start + bitset_size <= kernel_heap_start + EarlyHeapMax
        /\ ("frame_bitset" \in {"page_directory", "page_table"} => a.start % PageSize = 0)
    BY <1>1, <1>2, <1>3, <1>5 DEF IInv
  <2> QED BY ONLY <2>1, Places
<1>7. Types'
  BY <1>1, <1>6 DEF IInv, Types
<1>8. PlacedSoFar'
  <2>1. /\ DOMAIN placed' = {"frame_bitset"} /\ curpos' = kernel_heap_start' + AfterFrames'
    BY <1>1, <1>2, <1>3, <1>5, <1>6, ReportKept
  <2> QED BY <1>1, <2>1 DEF PlacedSoFar
<1>9. ReservedMarked'
  <2>1. ASSUME NEW f \in Nat PROVE ~LookedAt(f)'
    BY <1>1, <1>2 DEF LookedAt, LoopReaches
  <2> QED BY <2>1 DEF ReservedMarked
<1>10. IdentityMarked'
  BY <1>1 DEF IdentityMarked
<1> QED
  BY <1>6, <1>7, <1>8, <1>9, <1>10 DEF IInv

(* One turn of _i386_mem_init_bitset looks at the next frame. *)
LEMMA MarkFrameIInv ==
  ASSUME IInv, MarkFrame PROVE IInv'
<1>1. /\ phase = "init_bitset" /\ phase' = phase /\ boot' = boot /\ i' = i + 1
      /\ curpos' = curpos /\ placed' = placed
      /\ used' = IF i386_mem_check_reserved(i * PageSize) = MEM_RESERVED
                 THEN used \cup {i} ELSE used
  BY DEF MarkFrame
<1>2. i \in Nat /\ used \subseteq Nat /\ boot \in BootInfos
  BY DEF IInv, Types
<1>3. EarlyDataDisjoint'
  BY <1>1, NothingPlaced DEF IInv
<1>4. Types'
  BY <1>1, <1>2 DEF IInv, Types
<1>5. PlacedSoFar'
  <2>1. DOMAIN placed = {"frame_bitset"} /\ curpos = kernel_heap_start + AfterFrames
    BY <1>1 DEF IInv, PlacedSoFar
  <2> QED BY <1>1, <2>1, ReportKept DEF PlacedSoFar
<1>6. ReservedMarked'
  <2>1. ASSUME NEW f \in Nat, LookedAt(f)',
               i386_mem_check_reserved(f * PageSize)' = MEM_RESERVED
        PROVE  f \in used'
    <3>1. /\ f * PageSize + PageSize < highest_free_address /\ f < i + 1
          /\ i386_mem_check_reserved(f * PageSize) = MEM_RESERVED
      BY <1>1, <2>1, ReportKept DEF LookedAt, LoopReaches
    <3>2. CASE f = i
      BY <1>1, <3>1, <3>2
    <3>3. CASE f # i
      <4>1. f < i
        BY <1>2, <3>1, <3>3
      <4>2. f \in used
        BY <1>1, <3>1, <4>1 DEF IInv, ReservedMarked, LookedAt, LoopReaches
      <4> QED BY <1>1, <4>2
    <3> QED BY <3>2, <3>3
  <2> QED BY <2>1 DEF ReservedMarked, MEM_RESERVED
<1>7. IdentityMarked'
  BY <1>1 DEF IdentityMarked
<1> QED
  BY <1>3, <1>4, <1>5, <1>6, <1>7 DEF IInv

(* asa_init places its bitset, once every frame but the last has been      *)
(* looked at.                                                              *)
LEMMA AsaInitIInv ==
  ASSUME IInv, AsaInit PROVE IInv'
<1> DEFINE a == i386_mem_kmalloc_real(curpos, AsaBitsetSize, FALSE)
<1>1. /\ phase = "init_bitset" /\ ~(i * PageSize + PageSize < highest_free_address)
      /\ boot' = boot /\ used' = used /\ i' = i
      /\ PlaceOrHalt("asa_bitset", a, AsaBitsetSize, "mmu_data_init")
  BY DEF AsaInit, LoopReaches
<1>2. /\ boot \in BootInfos /\ i \in Nat /\ curpos \in Nat
      /\ DOMAIN placed = {"frame_bitset"} /\ curpos = kernel_heap_start + AfterFrames
  BY <1>1 DEF IInv, Types, PlacedSoFar
<1>3. /\ kernel_heap_start \in Nat /\ AfterFrames \in Nat /\ AfterAsa \in Nat
      /\ AfterFrames + AsaBitsetSize + PageSize <= EarlyHeapMax
      /\ PageSize \in Nat /\ EarlyHeapMax \in Nat /\ AsaBitsetSize \in Nat
      /\ AlignUp(curpos, Alignment) + AsaBitsetSize = kernel_heap_start + AfterAsa
  BY <1>2, Positions, Units
<1>4. /\ AsaBitsetSize + curpos + PageSize <= kernel_heap_start + EarlyHeapMax
      /\ curpos >= kernel_heap_start
  BY <1>2, <1>3
<1> HIDE DEF a
<1>5. /\ a.start \in Nat /\ a.start >= curpos /\ a.start # 0
      /\ a.start = AlignUp(curpos, Alignment) /\ a.curpos = a.start + AsaBitsetSize
      /\ a.start + AsaBitsetSize <= kernel_heap_start + EarlyHeapMax
  <2>1. /\ boot \in BootInfos /\ curpos \in Nat /\ AsaBitsetSize \in Nat
        /\ FALSE \in BOOLEAN /\ curpos >= kernel_heap_start
        /\ AsaBitsetSize + curpos + PageSize <= kernel_heap_start + EarlyHeapMax
        /\ a = i386_mem_kmalloc_real(curpos, AsaBitsetSize, FALSE)
    BY <1>2, <1>3, <1>4 DEF a
  <2>2. /\ a.start \in Nat /\ a.start >= curpos /\ a.start # 0 /\ a.curpos = a.start + AsaBitsetSize
        /\ a.start = AlignUp(curpos, IF FALSE THEN PageSize ELSE Alignment)
        /\ a.start + AsaBitsetSize <= kernel_heap_start + EarlyHeapMax
    BY ONLY <2>1, Allocates, ZenonT(60)
  <2> QED BY <2>2
<1>6. phase' = "mmu_data_init" /\ Place("asa_bitset", a, AsaBitsetSize)
  BY <1>1, <1>5 DEF PlaceOrHalt
<1>7. /\ EarlyDataDisjoint' /\ DOMAIN placed' = DOMAIN placed \cup {"asa_bitset"}
      /\ placed' \in [DOMAIN placed' -> [start : Nat, size : Nat]]
      /\ curpos' = a.start + AsaBitsetSize /\ curpos' \in Nat
  <2>1. /\ Types /\ EarlyDataDisjoint /\ boot' = boot /\ "asa_bitset" \notin DOMAIN placed
        /\ AsaBitsetSize \in Nat /\ Place("asa_bitset", a, AsaBitsetSize)
        /\ a.start \in Nat /\ a.start >= kernel_heap_start
        /\ \A x \in DOMAIN placed : curpos <= a.start
        /\ a.curpos = a.start + AsaBitsetSize
        /\ a.start + AsaBitsetSize <= kernel_heap_start + EarlyHeapMax
        /\ ("asa_bitset" \in {"page_directory", "page_table"} => a.start % PageSize = 0)
    BY <1>1, <1>2, <1>3, <1>4, <1>5, <1>6 DEF IInv
  <2> QED BY ONLY <2>1, Places
<1>8. Types'
  BY <1>1, <1>7 DEF IInv, Types
<1>9. PlacedSoFar'
  <2>1. /\ DOMAIN placed' = {"frame_bitset", "asa_bitset"}
        /\ curpos' = kernel_heap_start' + AfterAsa'
    BY <1>1, <1>2, <1>3, <1>5, <1>7, ReportKept
  <2> QED BY <1>6, <2>1 DEF PlacedSoFar
<1>10. ReservedMarked'
  <2>1. highest_free_address \in Nat
    BY <1>2, ReportNumbers DEF highest_free_address
  <2>2. ASSUME NEW f \in Nat, LookedAt(f)',
               i386_mem_check_reserved(f * PageSize)' = MEM_RESERVED
        PROVE  f \in used'
    <3>1. /\ f * PageSize + PageSize < highest_free_address
          /\ i386_mem_check_reserved(f * PageSize) = MEM_RESERVED
      BY <1>1, <2>2, ReportKept DEF LookedAt, LoopReaches
    <3>2. f < i
      <4>1. SUFFICES ASSUME i <= f PROVE FALSE
        BY <1>2
      <4>2. i * PageSize <= f * PageSize
        BY <1>2, <1>3, <4>1
      <4> DEFINE u == i * PageSize
                 v == f * PageSize
      <4>3. u \in Nat /\ v \in Nat
        BY <1>2, <1>3
      <4> HIDE DEF u, v
      <4>4. u <= v /\ v + PageSize < highest_free_address /\ ~(u + PageSize < highest_free_address)
        BY <1>1, <3>1, <4>2 DEF u, v
      <4> QED BY <1>3, <2>1, <4>3, <4>4
    <3>3. LookedAt(f)
      BY <3>1, <3>2 DEF LookedAt, LoopReaches
    <3>4. f \in used
      BY <1>1, <3>1, <3>3 DEF IInv, ReservedMarked
    <3> QED BY <1>1, <3>4
  <2> QED BY <2>2 DEF ReservedMarked, MEM_RESERVED
<1>11. IdentityMarked'
  BY <1>6 DEF IdentityMarked
<1> QED
  BY <1>7, <1>8, <1>9, <1>10, <1>11 DEF IInv

(* i386_mmu_data_init places the page directory. *)
LEMMA MmuDataInitIInv ==
  ASSUME IInv, MmuDataInit PROVE IInv'
<1> DEFINE a == i386_mem_kmalloc_real(curpos, PageSize, TRUE)
<1>1. /\ phase = "mmu_data_init" /\ boot' = boot /\ used' = used /\ i' = 0
      /\ PlaceOrHalt("page_directory", a, PageSize, "identity_map")
  BY DEF MmuDataInit
<1>2. /\ boot \in BootInfos /\ curpos \in Nat /\ used \subseteq Nat
      /\ DOMAIN placed = {"frame_bitset", "asa_bitset"} /\ curpos = kernel_heap_start + AfterAsa
  BY <1>1 DEF IInv, Types, PlacedSoFar
<1>3. /\ kernel_heap_start \in Nat /\ AfterAsa \in Nat /\ AfterDirectory \in Nat
      /\ AfterAsa + 2 * PageSize <= EarlyHeapMax
      /\ PageSize \in Nat /\ EarlyHeapMax \in Nat
      /\ AlignUp(curpos, PageSize) + PageSize = kernel_heap_start + AfterDirectory
  BY <1>2, Positions, Units
<1>4. /\ PageSize + curpos + PageSize <= kernel_heap_start + EarlyHeapMax
      /\ curpos >= kernel_heap_start
  BY <1>2, <1>3
<1> HIDE DEF a
<1>5. /\ a.start \in Nat /\ a.start >= curpos /\ a.start # 0 /\ a.start % PageSize = 0
      /\ a.start = AlignUp(curpos, PageSize) /\ a.curpos = a.start + PageSize
      /\ a.start + PageSize <= kernel_heap_start + EarlyHeapMax
  <2>1. /\ boot \in BootInfos /\ curpos \in Nat /\ PageSize \in Nat
        /\ TRUE \in BOOLEAN /\ curpos >= kernel_heap_start
        /\ PageSize + curpos + PageSize <= kernel_heap_start + EarlyHeapMax
        /\ a = i386_mem_kmalloc_real(curpos, PageSize, TRUE)
    BY <1>2, <1>3, <1>4 DEF a
  <2>2. /\ a.start \in Nat /\ a.start >= curpos /\ a.start # 0 /\ a.curpos = a.start + PageSize
        /\ a.start = AlignUp(curpos, IF TRUE THEN PageSize ELSE Alignment)
        /\ a.start + PageSize <= kernel_heap_start + EarlyHeapMax
        /\ (TRUE => a.start % PageSize = 0)
    BY ONLY <2>1, Allocates, ZenonT(60)
  <2> QED BY <2>2
<1>6. phase' = "identity_map" /\ Place("page_directory", a, PageSize)
  BY <1>1, <1>5 DEF PlaceOrHalt
<1>7. /\ EarlyDataDisjoint' /\ DOMAIN placed' = DOMAIN placed \cup {"page_directory"}
      /\ placed' \in [DOMAIN placed' -> [start : Nat, size : Nat]]
      /\ curpos' = a.start + PageSize /\ curpos' \in Nat
  <2>1. /\ Types /\ EarlyDataDisjoint /\ boot' = boot /\ "page_directory" \notin DOMAIN placed
        /\ PageSize \in Nat /\ Place("page_directory", a, PageSize)
        /\ a.start \in Nat /\ a.start >= kernel_heap_start
        /\ \A x \in DOMAIN placed : curpos <= a.start
        /\ a.curpos = a.start + PageSize
        /\ a.start + PageSize <= kernel_heap_start + EarlyHeapMax
        /\ ("page_directory" \in {"page_directory", "page_table"} => a.start % PageSize = 0)
    BY <1>1, <1>2, <1>3, <1>4, <1>5, <1>6 DEF IInv
  <2> QED BY ONLY <2>1, Places
<1>8. Types'
  BY <1>1, <1>7 DEF IInv, Types
<1>9. PlacedSoFar'
  <2>1. DOMAIN placed' = Names \ {"page_table"}
    BY <1>2, <1>7 DEF Names
  <2>2. curpos' = kernel_heap_start' + AfterDirectory'
    BY <1>1, <1>3, <1>5, <1>7, ReportKept
  <2> QED BY <1>1, <1>6, <2>1, <2>2 DEF PlacedSoFar
<1>10. ReservedMarked'
  BY <1>1, MarksKept DEF IInv
<1>11. IdentityMarked'
  BY <1>1, <1>6 DEF IdentityMarked
<1> QED
  BY <1>7, <1>8, <1>9, <1>10, <1>11 DEF IInv

(* One turn of the loop of i386_paging_init; the first places the table.   *)
LEMMA IdentityMapIInv ==
  ASSUME IInv, IdentityMap PROVE IInv'
<1> DEFINE a == i386_mem_kmalloc_real(curpos, PageSize, TRUE)
           missing == "page_table" \notin DOMAIN placed
<1>1. /\ phase = "identity_map" /\ boot' = boot /\ i' = i + 1
      /\ IF missing /\ ~(missing /\ a.start = 0) THEN Place("page_table", a, PageSize)
         ELSE UNCHANGED <<placed, curpos>>
      /\ phase' = IF ~(missing /\ a.start = 0) /\ i >= bitset_length THEN "halted" ELSE phase
      /\ used' = IF (missing /\ a.start = 0) \/ i >= bitset_length THEN used ELSE used \cup {i}
  BY DEF IdentityMap
<1>2. /\ boot \in BootInfos /\ curpos \in Nat /\ used \subseteq Nat /\ i \in Nat
      /\ 0 .. i - 1 \subseteq used
      /\ placed \in [DOMAIN placed -> [start : Nat, size : Nat]]
      /\ \/ DOMAIN placed = Names
         \/ /\ DOMAIN placed = Names \ {"page_table"} /\ i = 0
            /\ curpos = kernel_heap_start + AfterDirectory
  BY <1>1 DEF IInv, Types, PlacedSoFar, IdentityMarked
<1> HIDE DEF a
<1>3. /\ EarlyDataDisjoint' /\ DOMAIN placed' = Names /\ curpos' \in Nat
      /\ placed' \in [DOMAIN placed' -> [start : Nat, size : Nat]]
      /\ ~(missing /\ a.start = 0)
  <2>1. CASE DOMAIN placed = Names
    <3>1. ~missing
      BY <2>1 DEF Names
    <3>2. placed' = placed /\ curpos' = curpos
      BY <1>1, <3>1
    <3>3. EarlyDataDisjoint'
      BY <1>1, <3>2, NothingPlaced DEF IInv
    <3> QED BY <1>2, <2>1, <3>1, <3>2, <3>3
  <2>2. CASE DOMAIN placed = Names \ {"page_table"} /\ curpos = kernel_heap_start + AfterDirectory
    <3>1. missing
      BY <2>2
    <3>2. /\ kernel_heap_start \in Nat /\ AfterDirectory \in Nat
          /\ AfterDirectory + 2 * PageSize <= EarlyHeapMax
          /\ PageSize \in Nat /\ EarlyHeapMax \in Nat
      BY <1>2, Positions, Units
    <3>3. /\ PageSize + curpos + PageSize <= kernel_heap_start + EarlyHeapMax
          /\ curpos >= kernel_heap_start
      BY <2>2, <3>2
    <3>4. /\ a.start \in Nat /\ a.start >= curpos /\ a.start # 0 /\ a.start % PageSize = 0
          /\ a.curpos = a.start + PageSize
          /\ a.start + PageSize <= kernel_heap_start + EarlyHeapMax
      <4>1. /\ boot \in BootInfos /\ curpos \in Nat /\ PageSize \in Nat
            /\ TRUE \in BOOLEAN /\ curpos >= kernel_heap_start
            /\ PageSize + curpos + PageSize <= kernel_heap_start + EarlyHeapMax
            /\ a = i386_mem_kmalloc_real(curpos, PageSize, TRUE)
        BY <1>2, <3>2, <3>3 DEF a
      <4>2. /\ a.start \in Nat /\ a.start >= curpos /\ a.start # 0
            /\ a.curpos = a.start + PageSize
            /\ a.start + PageSize <= kernel_heap_start + EarlyHeapMax
            /\ (TRUE => a.start % PageSize = 0)
        BY ONLY <4>1, Allocates, ZenonT(60)
      <4> QED BY <4>2
    <3>5. Place("page_table", a, PageSize)
      BY <1>1, <3>1, <3>4
    <3>6. /\ EarlyDataDisjoint' /\ DOMAIN placed' = DOMAIN placed \cup {"page_table"}
          /\ placed' \in [DOMAIN placed' -> [start : Nat, size : Nat]]
          /\ curpos' = a.start + PageSize /\ curpos' \in Nat
      <4>1. /\ Types /\ EarlyDataDisjoint /\ boot' = boot /\ "page_table" \notin DOMAIN placed
            /\ PageSize \in Nat /\ Place("page_table", a, PageSize)
            /\ a.start \in Nat /\ a.start >= kernel_heap_start
            /\ \A x \in DOMAIN placed : curpos <= a.start
            /\ a.curpos = a.start + PageSize
            /\ a.start + PageSize <= kernel_heap_start + EarlyHeapMax
            /\ ("page_table" \in {"page_directory", "page_table"} => a.start % PageSize = 0)
        BY <1>1, <1>2, <3>1, <3>2, <3>3, <3>4, <3>5 DEF IInv
      <4> QED BY ONLY <4>1, Places
    <3>7. DOMAIN placed' = Names
      BY <2>2, <3>6 DEF Names
    <3> QED BY <3>4, <3>6, <3>7
  <2> QED BY <1>2, <2>1, <2>2
<1> HIDE DEF missing
<1>4. /\ phase' \in {"identity_map", "halted"}
      /\ (phase' = "identity_map" => used' = used \cup {i})
      /\ used \subseteq used' /\ used' \subseteq Nat /\ i' \in Nat
  BY <1>1, <1>2, <1>3
<1>5. Types'
  BY <1>1, <1>2, <1>3, <1>4 DEF Types
<1>6. PlacedSoFar'
  BY <1>3, <1>4 DEF PlacedSoFar, Names
<1>7. ReservedMarked'
  BY <1>1, <1>4, MarksKept DEF IInv
<1>8. IdentityMarked'
  <2>1. ASSUME phase' = "identity_map" PROVE 0 .. i' - 1 \subseteq used'
    <3>1. ASSUME NEW f \in 0 .. i' - 1 PROVE f \in used'
      <4>1. f \in 0 .. i - 1 \/ f = i
        BY <1>1, <1>2
      <4> QED BY <1>2, <1>4, <2>1, <4>1
    <3> QED BY <3>1
  <2> QED BY <1>4, <2>1 DEF IdentityMarked
<1> QED
  BY <1>3, <1>5, <1>6, <1>7, <1>8 DEF IInv

(* The rest of i386_paging_init: every page below KVIRT_RESERVED is mapped. *)
LEMMA PagingEnableIInv ==
  ASSUME IInv, PagingEnable PROVE IInv'
<1>1. /\ phase = "identity_map" /\ i * PageSize >= KvirtReserved
      /\ phase' = IF highest_page + PageSize <= KvirtReserved THEN "done" ELSE "halted"
      /\ boot' = boot /\ curpos' = curpos /\ placed' = placed /\ used' = used /\ i' = i
  BY DEF PagingEnable
<1>2. /\ boot \in BootInfos /\ i \in Nat /\ 0 .. i - 1 \subseteq used
      /\ \/ DOMAIN placed = Names
         \/ DOMAIN placed = Names \ {"page_table"} /\ i = 0
  BY <1>1 DEF IInv, Types, PlacedSoFar, IdentityMarked
<1>3. /\ PageSize \in Nat \ {0} /\ KvirtReserved \in Nat /\ EarlyHeapMax \in Nat
      /\ kernel_heap_start \in Nat
  BY <1>2, Units, Positions
<1>4. EarlyDataDisjoint'
  BY <1>1, NothingPlaced DEF IInv
<1>5. Types'
  BY <1>1 DEF IInv, Types
<1>6. ReservedMarked'
  BY <1>1, MarksKept DEF IInv
<1>7. IdentityMarked'
  <2> DEFINE k == KvirtReserved \div PageSize
             r == KvirtReserved % PageSize
  <2>1. k \in Nat /\ KvirtReserved = PageSize * k + r /\ r = 0
    BY <1>3, UnitsAssumption
  <2> HIDE DEF k, r
  <2>2. k <= i
    <3>1. SUFFICES ASSUME i + 1 <= k PROVE FALSE
      BY <1>2, <2>1
    <3>2. PageSize * (i + 1) <= PageSize * k
      BY <1>2, <1>3, <2>1, <3>1
    <3>3. PageSize * (i + 1) = i * PageSize + PageSize /\ i * PageSize \in Nat
      BY <1>2, <1>3
    <3> QED BY <1>1, <1>3, <2>1, <3>2, <3>3
  <2>3. 0 .. k - 1 \subseteq used
    <3>1. ASSUME NEW f \in 0 .. k - 1 PROVE f \in 0 .. i - 1
      BY <1>2, <2>1, <2>2
    <3> QED BY <1>2, <3>1
  <2>4. 0 .. KvirtReserved \div PageSize - 1 \subseteq used'
    BY <1>1, <2>3 DEF k
  <2>5. phase' = "done" => highest_page' + PageSize <= KvirtReserved
    BY <1>1, ReportKept
  <2>6. phase' \in {"done", "halted"}
    BY <1>1
  <2> QED BY <2>4, <2>5, <2>6 DEF IdentityMarked
<1>8. PlacedSoFar'
  <2>1. ASSUME phase' = "done" PROVE DOMAIN placed' = Names
    <3>1. highest_page + PageSize <= KvirtReserved
      BY <1>1, <2>1
    <3>2. KvirtReserved > 0
      BY <1>3, <3>1 DEF highest_page
    <3>3. i # 0
      BY <1>1, <1>3, <3>2
    <3> QED BY <1>1, <1>2, <3>3
  <2>2. phase' \in {"done", "halted"}
    BY <1>1
  <2> QED BY <2>1, <2>2 DEF PlacedSoFar
<1> QED
  BY <1>4, <1>5, <1>6, <1>7, <1>8 DEF IInv

(* Every step keeps the inductive invariant. *)
LEMMA NextIInv ==
  ASSUME IInv, [Next]_vars PROVE IInv'
<1>1. CASE UNCHANGED vars
  <2>1. /\ boot' = boot /\ phase' = phase /\ curpos' = curpos /\ placed' = placed
        /\ used' = used /\ i' = i
    BY <1>1 DEF vars
  <2>2. EarlyDataDisjoint'
    BY <2>1, NothingPlaced DEF IInv
  <2>3. Types' /\ PlacedSoFar' /\ IdentityMarked'
    BY <2>1, ReportKept DEF IInv, Types, PlacedSoFar, IdentityMarked
  <2>4. ReservedMarked'
    BY <2>1, ReportKept DEF IInv, ReservedMarked, LookedAt, LoopReaches, MEM_RESERVED
  <2> QED
    BY <2>2, <2>3, <2>4 DEF IInv
<1>2. CASE MemInitFail
  BY <1>2, MemInitFailIInv
<1>3. CASE MemInit
  BY <1>3, MemInitIInv
<1>4. CASE MarkFrame
  BY <1>4, MarkFrameIInv
<1>5. CASE AsaInit
  BY <1>5, AsaInitIInv
<1>6. CASE MmuDataInit
  BY <1>6, MmuDataInitIInv
<1>7. CASE IdentityMap
  BY <1>7, IdentityMapIInv
<1>8. CASE PagingEnable
  BY <1>8, PagingEnableIInv
<1>9. CASE Finished
  BY <1>1, <1>9 DEF Finished
<1> QED
  BY <1>1, <1>2, <1>3, <1>4, <1>5, <1>6, <1>7, <1>8, <1>9 DEF Next

(* The inductive invariant holds throughout the boot sequence. *)
THEOREM EarlyMemInvariant == Spec => []IInv
<1>1. Init => IInv
  BY InitIInv
<1>2. IInv /\ [Next]_vars => IInv'
  BY NextIInv
<1> QED
  BY <1>1, <1>2, PTL DEF Spec

(* The early tables lie in the early heap, apart from each other, for      *)
(* every report of the loader.                                             *)
THEOREM EarlyMemEarlyDataDisjoint == Spec => []EarlyDataDisjoint
<1>1. IInv => EarlyDataDisjoint
  BY DEF IInv
<1> QED
  BY <1>1, EarlyMemInvariant, PTL

-----------------------------------------------------------------------------
(* The state that the boot sequence ends in                                *)

(* Where the early data lies when paging has been enabled. *)
LEMMA PlacedBelow ==
  ASSUME IInv, phase = "done", NEW x \in DOMAIN placed
  PROVE  /\ placed[x].start \in Nat /\ placed[x].size \in Nat
         /\ PageSize <= placed[x].start
         /\ placed[x].start + placed[x].size <= highest_page
         /\ highest_page \in Nat /\ highest_page + PageSize <= KvirtReserved
<1>1. boot \in BootInfos /\ placed[x] \in [start : Nat, size : Nat]
  BY DEF IInv, Types
<1>2. /\ kernel_heap_start \in Nat /\ kernel_heap_start >= PageSize
      /\ EarlyHeapMax \in Nat /\ PageSize \in Nat
  BY <1>1, Positions, Units
<1>3. Inside(placed[x], early_heap)
  BY DEF IInv, EarlyDataDisjoint
<1>4. highest_page + PageSize <= KvirtReserved
  BY DEF IInv, IdentityMarked
<1>5. /\ kernel_heap_start <= placed[x].start
      /\ placed[x].start + placed[x].size <= kernel_heap_start + EarlyHeapMax
  BY <1>3 DEF Inside, early_heap, Region
<1> QED
  BY <1>1, <1>2, <1>4, <1>5 DEF highest_page

(* The invariant gives what module Paging starts from. *)
LEMMA IInvBootEstablished ==
  ASSUME IInv PROVE BootEstablished
<1>1. SUFFICES ASSUME phase = "done"
               PROVE  /\ DOMAIN placed = Names
                      /\ 0 .. KvirtReserved \div PageSize - 1 \subseteq used
                      /\ \A x \in Names :
                           Inside(placed[x], Region(PageSize, KvirtReserved - PageSize))
                      /\ \A x \in Names : ~Overlap(placed[x], Region(WINDOW_PAGE, PageSize))
  BY DEF BootEstablished
<1>2. DOMAIN placed = Names /\ 0 .. KvirtReserved \div PageSize - 1 \subseteq used
  BY <1>1 DEF IInv, PlacedSoFar, IdentityMarked
<1>3. PageSize \in Nat \ {0} /\ KvirtReserved \in Nat
  BY Units
<1>4. ASSUME NEW x \in Names
      PROVE  /\ Inside(placed[x], Region(PageSize, KvirtReserved - PageSize))
             /\ ~Overlap(placed[x], Region(WINDOW_PAGE, PageSize))
  <2>1. /\ placed[x].start \in Nat /\ placed[x].size \in Nat
        /\ PageSize <= placed[x].start
        /\ placed[x].start + placed[x].size <= highest_page
        /\ highest_page \in Nat /\ highest_page + PageSize <= KvirtReserved
    BY <1>1, <1>2, PlacedBelow
  <2>2. Inside(placed[x], Region(PageSize, KvirtReserved - PageSize))
    BY <1>3, <2>1 DEF Inside, Region
  <2>3. ~Overlap(placed[x], Region(WINDOW_PAGE, PageSize))
    BY <1>3, <2>1 DEF Overlap, Region, WINDOW_PAGE
  <2> QED BY <2>2, <2>3
<1> QED
  BY <1>2, <1>4

(* When the boot sequence ends, directory and table exist, every page      *)
(* below KVIRT_RESERVED is marked, and the early data lies there.          *)
THEOREM EarlyMemBootEstablished == Spec => []BootEstablished
<1>1. IInv => BootEstablished
  BY IInvBootEstablished
<1> QED
  BY <1>1, EarlyMemInvariant, PTL

(* A frame that is left free lies above the pages that are identity mapped *)
(* and below the end of memory.                                            *)
LEMMA FreeFrameBounds ==
  ASSUME IInv, phase = "done", NEW f \in FreeFrames
  PROVE  /\ f \in Nat /\ f \notin used /\ f * PageSize \in Nat
         /\ KvirtReserved <= f * PageSize
         /\ f * PageSize + PageSize <= boot.mem_upper
<1>1. boot \in BootInfos /\ 0 .. KvirtReserved \div PageSize - 1 \subseteq used
  BY DEF IInv, Types, IdentityMarked
<1>2. PageSize \in Nat \ {0} /\ KvirtReserved \in Nat /\ WordBits \in Nat \ {0}
  BY Units
<1>3. boot.mem_upper \in Nat /\ bitset_length \in Nat
  BY <1>1, ReportNumbers, BitsetNumbers
<1> DEFINE k == KvirtReserved \div PageSize
           n == boot.mem_upper \div PageSize
           r == boot.mem_upper % PageSize
           w == bitset_length \div WordBits
           t == bitset_length % WordBits
<1>4. k \in Nat /\ KvirtReserved = PageSize * k
  <2>1. KvirtReserved = PageSize * k + (KvirtReserved % PageSize) /\ k \in Nat
    BY <1>2
  <2>2. KvirtReserved % PageSize = 0
    BY UnitsAssumption
  <2> HIDE DEF k
  <2> QED BY <1>2, <2>1, <2>2
<1>5. n \in Nat /\ boot.mem_upper = PageSize * n + r /\ r \in 0 .. PageSize - 1
  <2>1. \A m \in Nat : /\ m \div PageSize \in Nat /\ m % PageSize \in 0 .. PageSize - 1
                       /\ m = PageSize * (m \div PageSize) + (m % PageSize)
    BY ONLY <1>2
  <2> QED BY ONLY <1>3, <2>1
<1>6. w \in Nat /\ bitset_length = WordBits * w + t /\ t \in 0 .. WordBits - 1
  BY <1>2, <1>3
<1>7. n = bitset_length
  BY DEF bitset_length, highest_free_address
<1>8. f \in 0 .. w * WordBits - 1 /\ f \notin used
  BY DEF FreeFrames
<1>9. f \in Nat
  BY <1>8
<1>10. ~(f \in 0 .. k - 1)
  BY <1>1, <1>8
<1> HIDE DEF k, n, r, w, t
<1>11. f >= k
  BY <1>4, <1>9, <1>10
<1>12. PageSize * k <= PageSize * f /\ PageSize * f = f * PageSize /\ f * PageSize \in Nat
  BY <1>2, <1>4, <1>9, <1>11
<1>13. f + 1 <= n
  <2>1. w * WordBits = WordBits * w /\ WordBits * w \in Nat
    BY <1>2, <1>6
  <2>2. WordBits * w <= n
    BY <1>2, <1>6, <1>7, <2>1
  <2>3. f <= w * WordBits - 1
    BY <1>8
  <2> QED BY <1>5, <1>9, <2>1, <2>2, <2>3
<1>14. PageSize * (f + 1) <= PageSize * n
  BY <1>2, <1>5, <1>9, <1>13
<1>15. PageSize * (f + 1) = f * PageSize + PageSize /\ PageSize * n \in Nat
  BY <1>2, <1>5, <1>9
<1>16. f * PageSize + PageSize <= boot.mem_upper
  BY <1>2, <1>3, <1>5, <1>12, <1>14, <1>15
<1> QED
  BY <1>4, <1>8, <1>9, <1>12, <1>16

(* A free frame that the loop looked at is apart from the loader's         *)
(* structure.                                                              *)
LEMMA FreeFrameNotLoaders ==
  ASSUME IInv, phase = "done", NEW f \in FreeFrames, LoopReaches(f)
  PROVE  ~Overlap(Frame(f), Region(boot.info, InfoSize))
<1>1. boot \in BootInfos /\ PageSize \in Nat \ {0} /\ InfoSize \in Nat \ {0}
  BY Units DEF IInv, Types
<1>2. boot.info \in Nat
  BY <1>1, ReportNumbers
<1>3. f \in Nat /\ f \notin used /\ f * PageSize \in Nat
  BY FreeFrameBounds
<1> DEFINE p == f * PageSize
           s == InfoSize * InfoSize
<1>4. s \in Nat /\ s >= PageSize /\ s >= InfoSize
  <2>1. s >= InfoSize
    BY <1>1
  <2> QED BY <1>1, <2>1, UnitsAssumption
<1>5. i386_mem_check_reserved(p) # MEM_RESERVED
  <2>1. LookedAt(f)
    BY DEF LookedAt
  <2> QED BY <1>3, <2>1 DEF IInv, ReservedMarked
<1>6. ~Touches(p, boot.info, multiboot_reserved_end)
  BY <1>5 DEF i386_mem_check_reserved
<1>7. /\ ~(p \in boot.info .. boot.info + s)
      /\ ~(p + PageSize \in boot.info .. boot.info + s)
  BY <1>6 DEF Touches, multiboot_reserved_end
<1>8. p \in Nat
  BY <1>3
<1> HIDE DEF p, s
<1>9. ~(p < boot.info + InfoSize /\ boot.info < p + PageSize)
  BY <1>1, <1>2, <1>4, <1>7, <1>8
<1> QED
  BY <1>9 DEF Overlap, Frame, Region, p

(* The invariant makes every free frame usable. *)
LEMMA IInvFreeFramesUsable ==
  ASSUME IInv PROVE FreeFramesUsable
<1>1. SUFFICES ASSUME phase = "done", NEW f \in FreeFrames
               PROVE  /\ \A a \in f * PageSize .. f * PageSize + PageSize - 1 :
                           \E n \in DOMAIN boot.mmap :
                             /\ boot.mmap[n].type = "available"
                             /\ a \in boot.mmap[n].addr
                                        .. boot.mmap[n].addr + boot.mmap[n].len - 1
                      /\ \A n \in DOMAIN boot.sections : ~Overlap(Frame(f), boot.sections[n])
                      /\ \A x \in DOMAIN placed : ~Overlap(Frame(f), placed[x])
                      /\ LoopReaches(f) => ~Overlap(Frame(f), Region(boot.info, InfoSize))
  BY DEF FreeFramesUsable
<1>2. boot \in BootInfos /\ PageSize \in Nat \ {0} /\ KvirtReserved \in Nat /\ UpperStart \in Nat
  BY Units DEF IInv, Types
<1>3. boot.mem_upper \in Nat /\ UpperStart <= KvirtReserved
  BY <1>2, ReportNumbers
<1>4. /\ f * PageSize \in Nat /\ KvirtReserved <= f * PageSize
      /\ f * PageSize + PageSize <= boot.mem_upper
  BY <1>1, FreeFrameBounds
<1> DEFINE p == f * PageSize
<1>5. Frame(f).start = p /\ Frame(f).size = PageSize
  BY DEF Frame, Region
<1> HIDE DEF p
<1>6. p \in Nat /\ KvirtReserved <= p /\ p + PageSize <= boot.mem_upper
  BY <1>4 DEF p
<1>7. ASSUME NEW a \in p .. p + PageSize - 1
      PROVE  \E n \in DOMAIN boot.mmap :
               /\ boot.mmap[n].type = "available"
               /\ a \in boot.mmap[n].addr .. boot.mmap[n].addr + boot.mmap[n].len - 1
  <2>1. a \in UpperStart .. UpperStart + boot.mem_upper - 1
    BY <1>2, <1>3, <1>6
  <2> QED BY <1>2, <2>1, LoaderAssumption
<1>8. ASSUME NEW n \in DOMAIN boot.sections PROVE ~Overlap(Frame(f), boot.sections[n])
  <2>1. /\ boot.sections[n].start \in Nat /\ boot.sections[n].size \in Nat
        /\ boot.sections[n].start + boot.sections[n].size <= KvirtReserved
    BY <1>2, ReportNumbers
  <2> QED BY <1>2, <1>5, <1>6, <2>1 DEF Overlap
<1>9. ASSUME NEW x \in DOMAIN placed PROVE ~Overlap(Frame(f), placed[x])
  <2>1. /\ placed[x].start \in Nat /\ placed[x].size \in Nat
        /\ placed[x].start + placed[x].size <= highest_page
        /\ highest_page \in Nat /\ highest_page + PageSize <= KvirtReserved
    BY <1>1, PlacedBelow
  <2> QED BY <1>2, <1>5, <1>6, <2>1 DEF Overlap
<1>10. LoopReaches(f) => ~Overlap(Frame(f), Region(boot.info, InfoSize))
  BY <1>1, FreeFrameNotLoaders
<1> QED
  BY <1>7, <1>8, <1>9, <1>10 DEF p

(* Every frame the frame allocator may hand out after boot is RAM that     *)
(* holds nothing of the kernel, its early data or, unless it is the frame  *)
(* the loop does not reach, the loader.                                    *)
THEOREM EarlyMemFreeFramesUsable == Spec => []FreeFramesUsable
<1>1. IInv => FreeFramesUsable
  BY IInvFreeFramesUsable
<1> QED
  BY <1>1, EarlyMemInvariant, PTL
=============================================================================
