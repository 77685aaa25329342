----------------------------- MODULE KHeapProofs -----------------------------
(* Proofs about module KHeap, for pages, sections, headers and bitsets of  *)
(* any size, any requests and any size of the address space.               *)
EXTENDS KHeap, TLAPS, FiniteSetTheorems, SequenceTheorems

-----------------------------------------------------------------------------
(* The inductive invariant.                                                *)

(* The header of a block, with its bitsets. *)
Blocks == [size : Nat, length : Nat, reserved : Nat, used : SUBSET Nat,
           delimiters : SUBSET Nat, free_sections : Int, first_free_section : Nat]

(* A block of n pages, all of it divided into sections. *)
Shaped(b, n) ==
  /\ b.length >= 1 /\ b.reserved >= 1
  /\ b.size = n * PageSize /\ b.size = b.length * SectionSize

(* The record of an allocation in use. *)
Allocations == [block : Nat, first : Nat, last : Nat, addr : Nat, size : Nat \ {0},
                align : {0, PageSize}]

(* The record of a call in progress. *)
Calls == [size : Nat \ {0}, asked : Nat \ {0}, align : {0, PageSize}, cur : Nat \ {0},
          expanded : BOOLEAN]

(* Its request is enlarged for the alignment. *)
CallOK == call # NoCall =>
  /\ call \in Calls
  /\ call.size = IF call.align \notin {0, SectionSize} THEN call.asked + call.align
                 ELSE call.asked

(* The types of the heap's variables; the list holds the blocks. *)
HeapTypes ==
  /\ block \in [DOMAIN block -> Blocks] /\ DOMAIN block \subseteq Nat
  /\ \A p \in DOMAIN block : \E n \in Nat \ {0} : Shaped(block[p], n)
  /\ list \in Seq(DOMAIN block)
  /\ \A p \in DOMAIN block : \E k \in 1 .. Len(list) : list[k] = p
  /\ live \subseteq Allocations
  /\ \A a \in live : a.block \in DOMAIN block

(* The bytes given to the caller, aligned as asked for, lie in the         *)
(* sections from first to last.                                            *)
InSections(a) ==
  /\ a.addr >= a.block * PageSize + a.first * SectionSize
  /\ a.addr + a.size <= a.block * PageSize + (a.last + 1) * SectionSize
  /\ a.align # 0 => a.addr % a.align = 0

(* The sections of an allocation are its own: beside header, bitsets, lost *)
(* sections and other allocations.                                         *)
Placed ==
  /\ \A a \in live : /\ Sections(a) \subseteq block[a.block].reserved .. block[a.block].length - 1
                     /\ InSections(a)
                     /\ \A k \in Sections(a) : <<a.block, k>> \notin leaked
  /\ \A a, b \in live : a # b /\ a.block = b.block => Sections(a) \cap Sections(b) = {}
  /\ \A p, k : <<p, k>> \in leaked =>
       p \in DOMAIN block /\ k \in block[p].reserved .. block[p].length - 1

(* A section is used by the header, by an allocation in use, or lost. *)
Occupied(p, k) ==
  \/ k \in 0 .. block[p].reserved - 1
  \/ \E a \in live : a.block = p /\ k \in Sections(a)
  \/ <<p, k>> \in leaked

(* The two bitsets and the count of free sections say so. *)
Marked ==
  \A p \in DOMAIN block :
    /\ \A k \in Nat : k \in block[p].used <=> Occupied(p, k)
    /\ \A k \in Nat : k \in block[p].delimiters <=> \E a \in live : a.block = p /\ k = a.last
    /\ IsFiniteSet(block[p].used)
    /\ block[p].free_sections = block[p].length - Cardinality(block[p].used)

(* The pages of the blocks and the address space allocator. *)
Backed ==
  /\ asa \subseteq Nat /\ 0 .. ReservedPages - 1 \subseteq asa
  /\ \A p \in DOMAIN block : BlockPages(p) \subseteq asa \ (0 .. ReservedPages - 1)
  /\ \A p, q \in DOMAIN block : p # q => BlockPages(p) \cap BlockPages(q) = {}
  /\ mapped = UNION {BlockPages(p) : p \in DOMAIN block}

(* The inductive invariant. *)
IInv == HeapTypes /\ CallOK /\ Placed /\ Marked /\ Backed

-----------------------------------------------------------------------------
(* Arithmetic *)

(* The sizes as numbers. *)
LEMMA Sizes ==
  /\ PageSize \in Nat /\ PageSize > 0 /\ SectionSize \in Nat /\ SectionSize > 0
  /\ HeaderSize \in Nat /\ HeaderSize > 0 /\ IntBits \in Nat /\ IntBits > 0
  /\ IntSize \in Nat /\ IntSize > 0 /\ MinBlockSize \in Nat /\ MinBlockSize > 0
  /\ AsaLength \in Nat /\ ReservedPages \in Nat
  BY HeapSizesAssumption

(* The quotient that is rounded up. *)
LEMMA RoundedUp ==
  ASSUME NEW a \in Nat \ {0}, NEW b \in Nat \ {0}
  PROVE  /\ DIV_ROUND_UP(a, b) \in Nat /\ DIV_ROUND_UP(a, b) >= 1
         /\ DIV_ROUND_UP(a, b) * b >= a
<1> DEFINE q == (a - 1) \div b
<1>1. q \in Nat /\ a - 1 = b * q + ((a - 1) % b) /\ (a - 1) % b \in 0 .. b - 1
  OBVIOUS
<1>2. (q + 1) * b = b * q + b
  BY <1>1
<1> HIDE DEF q
<1>3. (q + 1) * b >= a
  BY <1>1, <1>2
<1> QED
  BY <1>1, <1>3 DEF DIV_ROUND_UP, q

(* It is exact for a multiple. *)
LEMMA RoundedUpExact ==
  ASSUME NEW m \in Nat \ {0}, NEW b \in Nat \ {0}
  PROVE  DIV_ROUND_UP(m * b, b) = m
<1> DEFINE q == (m * b - 1) \div b
<1>1. m * b \in Nat /\ m * b >= b
  OBVIOUS
<1>2. q \in Nat /\ m * b - 1 = b * q + ((m * b - 1) % b) /\ (m * b - 1) % b \in 0 .. b - 1
  BY <1>1
<1>3. m * b = b * m /\ b * (q + 1) = b * q + b
  BY <1>2
<1> HIDE DEF q
<1>4. ASSUME m < q + 1 PROVE FALSE
  <2>1. b * m <= b * q
    BY <1>2, <1>4
  <2> QED
    BY <1>2, <1>3, <2>1
<1>5. ASSUME m > q + 1 PROVE FALSE
  <2>1. m >= q + 2 /\ b * (q + 2) = b * q + b + b
    BY <1>2, <1>5
  <2>2. b * m >= b * (q + 2)
    BY <1>2, <2>1
  <2> QED
    BY <1>2, <1>3, <2>1, <2>2
<1> QED
  BY <1>2, <1>4, <1>5 DEF DIV_ROUND_UP, q

(* A multiple leaves no remainder and divides exactly. *)
LEMMA Multiple ==
  ASSUME NEW m \in Nat, NEW b \in Nat \ {0}
  PROVE  (m * b) % b = 0 /\ (m * b) \div b = m
<1> DEFINE q == (m * b) \div b
           r == (m * b) % b
<1>1. m * b \in Nat
  OBVIOUS
<1>2. q \in Nat /\ m * b = b * q + r /\ r \in 0 .. b - 1
  BY <1>1
<1>3. m * b = b * m /\ b * (q + 1) = b * q + b /\ b * (m + 1) = b * m + b
  BY <1>2
<1> HIDE DEF q, r
<1>4. ASSUME m > q PROVE FALSE
  <2>1. m >= q + 1
    BY <1>2, <1>4
  <2>2. b * m >= b * (q + 1)
    BY <1>2, <2>1
  <2> QED
    BY <1>2, <1>3, <2>2
<1>5. ASSUME m < q PROVE FALSE
  <2>1. m + 1 <= q
    BY <1>2, <1>5
  <2>2. b * (m + 1) <= b * q
    BY <1>2, <2>1
  <2> QED
    BY <1>2, <1>3, <2>2
<1>6. m = q
  BY <1>2, <1>4, <1>5
<1>7. r = 0
  BY <1>2, <1>3, <1>6
<1> QED
  BY <1>6, <1>7 DEF q, r

(* Which of the pieces of b bytes a byte is in. *)
LEMMA Piece ==
  ASSUME NEW x \in Nat, NEW b \in Nat \ {0}, NEW lo \in Nat, NEW hi \in Nat,
         lo * b <= x, x < hi * b
  PROVE  x \div b \in lo .. hi - 1
<1> DEFINE q == x \div b
           r == x % b
<1>1. q \in Nat /\ x = b * q + r /\ r \in 0 .. b - 1
  OBVIOUS
<1>2. lo * b = b * lo /\ hi * b = b * hi /\ b * (q + 1) = b * q + b
  BY <1>1
<1> HIDE DEF q, r
<1>3. ASSUME q < lo PROVE FALSE
  <2>1. q + 1 <= lo
    BY <1>1, <1>3
  <2>2. b * (q + 1) <= b * lo
    BY <1>1, <2>1
  <2> QED
    BY <1>1, <1>2, <2>2
<1>4. ASSUME q >= hi PROVE FALSE
  <2>1. b * q >= b * hi
    BY <1>1, <1>4
  <2> QED
    BY <1>1, <1>2, <2>1
<1>5. q \in lo .. hi - 1
  BY <1>1, <1>3, <1>4
<1> QED
  BY <1>5 DEF q

(* RoundUp moves an address by less than the alignment to a multiple of it. *)
LEMMA Aligns ==
  ASSUME NEW x \in Nat, NEW b \in Nat \ {0}
  PROVE  /\ RoundUp(x, b) \in Nat /\ RoundUp(x, b) >= x /\ RoundUp(x, b) <= x + b
         /\ RoundUp(x, b) % b = 0
         /\ x % b = 0 => RoundUp(x, b) = x
<1> DEFINE q == x \div b
           r == x % b
<1>1. q \in Nat /\ x = b * q + r /\ r \in 0 .. b - 1
  OBVIOUS
<1>2. (q + 1) * b = b * q + b /\ (q + 1) * b \in Nat
  BY <1>1
<1>3. ((q + 1) * b) % b = 0
  BY <1>1, Multiple
<1>4. CASE r = 0
  BY <1>4 DEF RoundUp
<1>5. CASE r # 0
  <2>1. RoundUp(x, b) = x + b - r
    BY <1>5 DEF RoundUp
  <2> HIDE DEF q, r
  <2>2. x + b - r = (q + 1) * b
    BY <1>1, <1>2
  <2>3. x + b - r >= x /\ x + b - r <= x + b
    BY <1>1
  <2>4. r = x % b
    BY DEF r
  <2> QED
    BY <1>2, <1>3, <1>5, <2>1, <2>2, <2>3, <2>4
<1> QED
  BY <1>4, <1>5

(* A set of naturals has a least member. *)
LEMMA LeastIs ==
  ASSUME NEW S \in SUBSET Nat, S # {}
  PROVE  Least(S) \in S /\ \A n \in S : Least(S) <= n
<1> DEFINE R == OpToRel(<, Nat)
<1>1. IsWellFoundedOn(R, Nat)
  BY NatLessThanWellFounded
<1>2. \A x, y \in Nat : x < y => <<x, y>> \in R
  BY DEF OpToRel
<1> HIDE DEF R
<1>3. PICK m \in S : \A n \in S : ~(<<n, m>> \in R)
  BY <1>1, WFMin
<1>4. ASSUME NEW n \in S PROVE m <= n
  <2>1. m \in Nat /\ n \in Nat /\ ~(n < m)
    BY <1>2, <1>3
  <2> QED
    BY <2>1
<1> QED
  BY <1>4 DEF Least

(* It is the only one. *)
LEMMA LeastUnique ==
  ASSUME NEW S \in SUBSET Nat, NEW m \in S, \A n \in S : m <= n
  PROVE  Least(S) = m
<1>1. Least(S) \in S /\ Least(S) <= m
  BY LeastIs
<1>2. m <= Least(S) /\ m \in Nat /\ Least(S) \in Nat
  BY <1>1
<1> QED
  BY <1>1, <1>2

-----------------------------------------------------------------------------
(* Where an allocation lies                                                *)

(* The pages of a block of n pages. *)
LEMMA PagesOf ==
  ASSUME NEW p \in DOMAIN block, NEW n \in Nat \ {0}, Shaped(block[p], n)
  PROVE  BlockPages(p) = Run(p, n)
<1>1. PageSize \in Nat \ {0}
  BY Sizes
<1>2. (n * PageSize) \div PageSize = n
  BY <1>1, Multiple
<1> QED
  BY <1>2 DEF BlockPages, Shaped

(* The page of a byte that Holds finds in a block is a page of the block. *)
LEMMA HeldPage ==
  ASSUME HeapTypes, NEW p \in DOMAIN block, NEW addr \in Nat, Holds(p, addr)
  PROVE  addr \div PageSize \in BlockPages(p)
<1>1. PageSize \in Nat \ {0} /\ p \in Nat
  BY Sizes DEF HeapTypes
<1>2. PICK n \in Nat \ {0} : Shaped(block[p], n)
  BY DEF HeapTypes
<1>3. BlockPages(p) = Run(p, n)
  BY <1>2, PagesOf
<1>4. p * PageSize + n * PageSize = (p + n) * PageSize /\ p * PageSize \in Nat
  BY <1>1
<1>5. p * PageSize <= addr /\ addr < (p + n) * PageSize
  BY <1>1, <1>2, <1>4 DEF Holds, Shaped
<1> DEFINE h == p + n
<1>6. addr \div PageSize \in p .. h - 1
  <2>1. /\ addr \in Nat /\ PageSize \in Nat \ {0} /\ p \in Nat /\ h \in Nat
        /\ p * PageSize <= addr /\ addr < h * PageSize
    BY <1>1, <1>5
  <2> HIDE DEF h
  <2> QED BY ONLY <2>1, Piece
<1>7. p .. h - 1 = Run(p, n)
  BY <1>1 DEF Run
<1> QED
  BY <1>3, <1>6, <1>7

(* The address given to the caller is in one of the allocation's sections, *)
(* and in its block behind the first byte.                                 *)
LEMMA Located ==
  ASSUME HeapTypes, Placed, NEW a \in live
  PROVE  /\ a.block \in DOMAIN block /\ a.addr \in Nat
         /\ a.first \in Nat /\ a.last \in Nat
         /\ SectionOf(a.block, a.addr) \in a.first .. a.last
         /\ Holds(a.block, a.addr)
<1> DEFINE p == a.block
           x == a.addr - p * PageSize
<1>1. a \in Allocations /\ p \in DOMAIN block /\ InSections(a)
      /\ Sections(a) \subseteq block[p].reserved .. block[p].length - 1
  BY DEF HeapTypes, Placed
<1>2. /\ p \in Nat /\ a.first \in Nat /\ a.last \in Nat /\ a.addr \in Nat /\ a.size \in Nat
      /\ a.size >= 1
  BY <1>1 DEF Allocations
<1>3. PageSize \in Nat \ {0} /\ SectionSize \in Nat \ {0}
  BY Sizes
<1>4. /\ block[p].reserved \in Nat /\ block[p].length \in Nat /\ block[p].reserved >= 1
      /\ block[p].size = block[p].length * SectionSize
  BY <1>1 DEF HeapTypes, Blocks, Shaped
<1>5. p * PageSize \in Nat /\ a.first * SectionSize \in Nat /\ (a.last + 1) * SectionSize \in Nat
  BY <1>2, <1>3
<1>6. x \in Nat /\ a.first * SectionSize <= x /\ x < (a.last + 1) * SectionSize
  BY <1>1, <1>2, <1>5 DEF InSections
<1>7. x \div SectionSize \in a.first .. (a.last + 1) - 1
  <2> DEFINE h == a.last + 1
  <2>1. /\ x \in Nat /\ SectionSize \in Nat \ {0} /\ a.first \in Nat /\ h \in Nat
        /\ a.first * SectionSize <= x /\ x < h * SectionSize
    BY <1>2, <1>3, <1>6
  <2> HIDE DEF x, h
  <2>2. x \div SectionSize \in a.first .. h - 1
    BY ONLY <2>1, Piece
  <2> QED BY <2>2 DEF h
<1>8. a.first <= a.last
  BY <1>2, <1>3, <1>7
<1>9. a.first >= 1 /\ a.last + 1 <= block[p].length
  BY <1>1, <1>2, <1>4, <1>8 DEF Sections
<1>10. a.first * SectionSize >= 1
  BY <1>2, <1>3, <1>9
<1>11. (a.last + 1) * SectionSize <= block[p].length * SectionSize
       /\ block[p].length * SectionSize \in Nat
  BY <1>2, <1>3, <1>4, <1>9
<1>12. p * PageSize < a.addr /\ a.addr < p * PageSize + block[p].size
  <2> DEFINE A == p * PageSize
             B == a.first * SectionSize
             C == (a.last + 1) * SectionSize
             D == block[p].length * SectionSize
  <2>1. A \in Nat /\ B \in Nat /\ C \in Nat /\ D \in Nat /\ B >= 1 /\ C <= D
    BY <1>5, <1>10, <1>11
  <2>2. B <= a.addr - A /\ a.addr - A < C /\ block[p].size = D
    BY <1>4, <1>6
  <2>3. p * PageSize = A
    OBVIOUS
  <2> HIDE DEF A, B, C, D
  <2> QED
    BY <1>2, <2>1, <2>2, <2>3
<1> QED
  BY <1>1, <1>2, <1>7, <1>12 DEF SectionOf, Holds

(* kheap_free finds the block of an allocation. *)
LEMMA BlockFound ==
  ASSUME HeapTypes, Placed, Backed, NEW a \in live
  PROVE  block_of(a.addr) = a.block
<1> DEFINE K == {k \in DOMAIN list : Holds(list[k], a.addr)}
<1>1. a.block \in DOMAIN block /\ a.addr \in Nat /\ Holds(a.block, a.addr)
  BY Located
<1>2. list \in Seq(DOMAIN block) /\ DOMAIN list = 1 .. Len(list) /\ Len(list) \in Nat
      /\ \A k \in DOMAIN list : list[k] \in DOMAIN block
  BY SMTT(30) DEF HeapTypes
<1>3. PICK k \in 1 .. Len(list) : list[k] = a.block
  BY <1>1 DEF HeapTypes
<1>4. K \in SUBSET Nat /\ K # {}
  BY <1>1, <1>2, <1>3
<1>5. Least(K) \in K
  <2> HIDE DEF K
  <2> QED BY <1>4, LeastIs
<1>6. list[Least(K)] \in DOMAIN block /\ Holds(list[Least(K)], a.addr)
  BY <1>2, <1>5
<1>7. list[Least(K)] = a.block
  <2> HIDE DEF K
  <2>1. a.addr \div PageSize \in BlockPages(list[Least(K)])
    BY <1>1, <1>6, HeldPage
  <2>2. a.addr \div PageSize \in BlockPages(a.block)
    BY <1>1, HeldPage
  <2> QED
    BY <1>1, <1>6, <2>1, <2>2 DEF Backed
<1> QED
  BY <1>7 DEF block_of

(* The first delimiter from the section of the address on is the           *)
(* allocation's own, and the two assertions of kheap_free hold.            *)
LEMMA EndFound ==
  ASSUME HeapTypes, Placed, Marked, NEW a \in live
  PROVE  /\ FreeAsserts(a.block, a.addr)
         /\ Least(delimiters_from(a.block, a.addr)) = a.last
<1> DEFINE p == a.block
           from == SectionOf(p, a.addr)
           D == delimiters_from(p, a.addr)
<1>1. /\ p \in DOMAIN block /\ a.addr \in Nat /\ a.first \in Nat /\ a.last \in Nat
      /\ from \in a.first .. a.last
  BY Located
<1>2. block[p].reserved \in Nat /\ block[p].reserved >= 1 /\ block[p].delimiters \subseteq Nat
  BY <1>1 DEF HeapTypes, Blocks, Shaped
<1> HIDE DEF from
<1>3. from \in block[p].used
  <2>1. from \in Nat /\ from \in Sections(a)
    BY <1>1 DEF Sections
  <2>2. Occupied(p, from)
    BY <2>1 DEF Occupied
  <2> QED
    BY <1>1, <2>1, <2>2 DEF Marked
<1>4. a.last \in D
  <2>1. a.last \in block[p].delimiters
    BY <1>1 DEF Marked
  <2> QED
    BY <1>1, <2>1 DEF delimiters_from, from
<1>5. a.last >= 1
  <2>1. a.last \in Sections(a)
    BY <1>1 DEF Sections
  <2>2. a.last \in block[p].reserved .. block[p].length - 1
    BY <2>1 DEF Placed
  <2> QED
    BY <1>1, <1>2, <2>2
<1>6. FreeAsserts(p, a.addr)
  BY <1>3, <1>4, <1>5 DEF FreeAsserts, from
<1>7. D \subseteq Nat
  BY <1>2 DEF delimiters_from
<1>8. ASSUME NEW k \in D PROVE a.last <= k
  <2>1. k \in Nat /\ k \in block[p].delimiters /\ k >= from
    BY <1>7, <1>8 DEF delimiters_from, from
  <2>2. PICK c \in live : c.block = p /\ k = c.last
    BY <1>1, <2>1 DEF Marked
  <2>3. SectionOf(c.block, c.addr) \in c.first .. c.last /\ c.first \in Nat /\ c.last \in Nat
    BY Located
  <2>4. k \in Sections(c)
    BY <2>2, <2>3 DEF Sections
  <2>5. ASSUME k < a.last PROVE FALSE
    <3>1. k \in Sections(a)
      BY <1>1, <2>1, <2>5 DEF Sections
    <3>2. c # a
      BY <2>1, <2>2, <2>5
    <3> QED
      BY <2>2, <2>4, <3>1, <3>2 DEF Placed
  <2> QED
    BY <1>1, <2>1, <2>5
<1>9. Least(D) = a.last
  <2> HIDE DEF D
  <2> QED BY <1>4, <1>7, <1>8, LeastUnique
<1> QED
  BY <1>6, <1>9

-----------------------------------------------------------------------------
(* The searches and the new block                                          *)

(* What the search of a block finds is a free run of its sections. *)
LEMMA SearchFree ==
  ASSUME NEW b \in Blocks, b.length >= 1, NEW n \in Nat \ {0},
         NEW s \in section_starts(b, n)
  PROVE  s \in Nat /\ s + n <= b.length /\ Run(s, n) \cap b.used = {}
<1>1. b.length \in Nat \ {0} /\ b.first_free_section \in Nat
  BY DEF Blocks
<1> DEFINE f == b.first_free_section % b.length
<1>2. f \in 0 .. b.length - 1
  BY <1>1
<1> HIDE DEF f
<1>3. s \in RunStarts(b.used, f, b.length, n) \/ s \in RunStarts(b.used, 0, f, n)
  BY DEF section_starts, search, f
<1> QED
  BY <1>1, <1>2, <1>3 DEF RunStarts, FreeRun

(* The size kheap_expand asks for. *)
LEMMA ExpandSizePositive ==
  ASSUME call \in Calls
  PROVE  ExpandSize \in Nat \ {0}
<1>1. MinBlockSize \in Nat \ {0} /\ call.size \in Nat \ {0}
  BY Sizes DEF Calls
<1>2. \E x \in {MinBlockSize, call.size} : \A y \in {MinBlockSize, call.size} : x >= y
  BY <1>1
<1>3. Max({MinBlockSize, call.size}) \in {MinBlockSize, call.size}
  BY <1>2 DEF Max
<1> QED
  BY <1>1, <1>3 DEF ExpandSize

(* The loop of kheap_expand ends with at least one page. *)
LEMMA PagesPositive ==
  ASSUME NEW size \in Nat \ {0}
  PROVE  pages_required(size) \in Nat \ {0}
<1> DEFINE first == DIV_ROUND_UP(size, PageSize)
           bitsets(n) == 2 * bitset_size((IF n = first THEN n ELSE n - 1) * PageSize)
           Enough(n) == n * PageSize - HeaderSize - bitsets(n) >= size
           S == {n \in first .. first + AsaLength : Enough(n) \/ n > AsaLength}
<1>1. PageSize \in Nat \ {0} /\ AsaLength \in Nat
  BY Sizes
<1>2. first \in Nat /\ first >= 1
  BY <1>1, RoundedUp
<1> HIDE DEF first, Enough
<1>3. first + AsaLength \in S
  BY <1>1, <1>2
<1>4. S \in SUBSET Nat /\ \A n \in S : n >= 1
  BY <1>1, <1>2
<1>5. Least(S) \in S
  <2> HIDE DEF S
  <2> QED BY <1>3, <1>4, LeastIs
<1>6. Least(S) \in Nat \ {0}
  <2> HIDE DEF S
  <2>1. Least(S) \in Nat
    BY <1>4, <1>5
  <2>2. Least(S) >= 1
    BY <1>4, <1>5
  <2> QED BY <2>1, <2>2
<1>7. pages_required(size) = Least(S)
  BY DEF pages_required, first, Enough
<1> QED
  BY <1>6, <1>7

(* The block kheap_add_block writes. *)
LEMMA NewBlock ==
  ASSUME NEW n \in Nat \ {0}
  PROVE  LET b == kheap_add_block(n)
         IN  /\ b \in Blocks /\ Shaped(b, n)
             /\ b.used = 0 .. b.reserved - 1 /\ b.delimiters = {}
             /\ IsFiniteSet(b.used)
             /\ b.free_sections = b.length - Cardinality(b.used)
<1> DEFINE bytes == n * PageSize
           length == DIV_ROUND_UP(bytes, SectionSize)
           meta == HeaderSize + 2 * bitset_size(bytes)
           reserved == DIV_ROUND_UP(meta, SectionSize)
           b == kheap_add_block(n)
<1>1. /\ PageSize \in Nat \ {0} /\ SectionSize \in Nat \ {0} /\ HeaderSize \in Nat \ {0}
      /\ IntBits \in Nat \ {0} /\ IntSize \in Nat
  BY Sizes
<1>2. bytes \in Nat \ {0}
  BY <1>1
<1>3. length \in Nat \ {0} /\ length * SectionSize = bytes
  <2>1. PICK q \in Nat \ {0} : PageSize = q * SectionSize
    <3> DEFINE q == PageSize \div SectionSize
    <3>1. q \in Nat /\ PageSize = SectionSize * q + (PageSize % SectionSize)
      BY <1>1
    <3>2. PageSize % SectionSize = 0
      BY HeapSizesAssumption
    <3> HIDE DEF q
    <3>3. PageSize = q * SectionSize /\ q # 0
      BY <1>1, <3>1, <3>2
    <3> QED
      BY <3>1, <3>3
  <2> DEFINE m == n * q
  <2>2. m \in Nat \ {0} /\ bytes = m * SectionSize
    BY <1>1, <2>1
  <2> HIDE DEF m, bytes
  <2>3. length = m
    BY <1>1, <2>2, RoundedUpExact
  <2> QED
    BY <2>2, <2>3
<1>4. bitset_size(bytes) \in Nat
  <2> HIDE DEF bytes
  <2>1. SectionSize * IntBits \in Nat \ {0}
    BY <1>1
  <2>2. DIV_ROUND_UP(bytes, SectionSize * IntBits) \in Nat
    BY <1>2, <2>1, RoundedUp
  <2> QED
    BY <1>1, <2>2 DEF bitset_size
<1>5. meta \in Nat \ {0}
  BY <1>1, <1>4
<1>6. reserved \in Nat /\ reserved >= 1
  <2> HIDE DEF meta
  <2> QED BY <1>1, <1>5, RoundedUp
<1>7. b = [size |-> bytes, length |-> length, reserved |-> reserved,
           used |-> 0 .. reserved - 1, delimiters |-> {},
           free_sections |-> length - reserved, first_free_section |-> reserved]
  BY DEF kheap_add_block
<1>8. n * PageSize = bytes
  OBVIOUS
<1> HIDE DEF b, bytes, length, reserved
<1>9. IsFiniteSet(0 .. reserved - 1) /\ Cardinality(0 .. reserved - 1) = reserved
  BY <1>6, FS_Interval
<1>10. b \in Blocks /\ Shaped(b, n)
  BY <1>2, <1>3, <1>6, <1>7, <1>8 DEF Blocks, Shaped
<1>11. /\ b.used = 0 .. b.reserved - 1 /\ b.delimiters = {} /\ IsFiniteSet(b.used)
       /\ b.free_sections = b.length - Cardinality(b.used)
  BY <1>7, <1>9
<1> QED
  BY <1>10, <1>11 DEF b

(* The address range of a new block: pages that no block and no one else has. *)
LEMMA RangeFree ==
  ASSUME HeapTypes, Backed, NEW n \in Nat \ {0}, asa_starts(n) # {}
  PROVE  LET p == Least(asa_starts(n))
         IN  /\ p \in Nat /\ p \notin DOMAIN block
             /\ Run(p, n) \subseteq Nat \ (0 .. ReservedPages - 1)
             /\ Run(p, n) \cap asa = {}
             /\ \A q \in DOMAIN block : Run(p, n) \cap BlockPages(q) = {}
<1> DEFINE p == Least(asa_starts(n))
<1>1. asa_starts(n) \in SUBSET Nat
  BY Sizes DEF asa_starts, RunStarts
<1>2. p \in asa_starts(n)
  BY <1>1, LeastIs
<1> HIDE DEF p
<1>3. p \in Nat /\ Run(p, n) \cap asa = {}
  BY <1>1, <1>2 DEF asa_starts, RunStarts, FreeRun
<1>4. Run(p, n) \subseteq Nat /\ p \in Run(p, n)
  BY <1>3 DEF Run
<1>5. \A q \in DOMAIN block : BlockPages(q) \subseteq asa
  BY DEF Backed
<1>6. p \notin DOMAIN block
  <2>1. SUFFICES ASSUME p \in DOMAIN block PROVE FALSE
    OBVIOUS
  <2>2. PICK m \in Nat \ {0} : Shaped(block[p], m)
    BY <2>1 DEF HeapTypes
  <2>3. BlockPages(p) = Run(p, m)
    BY <2>1, <2>2, PagesOf
  <2>4. p \in Run(p, m)
    BY <1>3 DEF Run
  <2> QED
    BY <1>3, <1>4, <1>5, <2>1, <2>3, <2>4
<1>7. Run(p, n) \cap (0 .. ReservedPages - 1) = {}
  BY <1>3 DEF Backed
<1> QED
  BY <1>3, <1>4, <1>5, <1>6, <1>7 DEF p

(* The bytes kheap_malloc returns lie in the run it marks. *)
LEMMA HitInSections ==
  ASSUME NEW p \in Nat, NEW first \in Nat, NEW n \in Nat, call \in Calls, CallOK, call # NoCall,
         n * SectionSize >= call.size,
         NEW addr, addr = RoundUp(p * PageSize + first * SectionSize, call.align)
  PROVE  /\ addr \in Nat /\ addr >= p * PageSize + first * SectionSize
         /\ addr + call.asked <= p * PageSize + (first + n) * SectionSize
         /\ call.align # 0 => addr % call.align = 0
<1> DEFINE base == p * PageSize + first * SectionSize
<1>1. PageSize \in Nat \ {0} /\ SectionSize \in Nat \ {0}
  BY Sizes
<1>2. /\ call.size \in Nat /\ call.asked \in Nat /\ call.align \in {0, PageSize}
      /\ call.size = IF call.align \notin {0, SectionSize} THEN call.asked + call.align
                     ELSE call.asked
  BY DEF Calls, CallOK
<1>3. base \in Nat /\ n * SectionSize \in Nat
      /\ p * PageSize + (first + n) * SectionSize = base + n * SectionSize
  BY <1>1
<1>4. addr = RoundUp(base, call.align)
  OBVIOUS
<1>5. CASE call.align = 0
  <2>1. addr = base
    BY <1>4, <1>5 DEF RoundUp
  <2> HIDE DEF base
  <2>2. base + call.asked <= base + n * SectionSize
    BY <1>2, <1>3, <1>5
  <2> QED
    BY <1>3, <1>5, <2>1, <2>2 DEF base
<1>6. CASE call.align = PageSize /\ PageSize # SectionSize
  <2>1. /\ addr \in Nat /\ addr >= base /\ addr <= base + PageSize /\ addr % PageSize = 0
    <3> HIDE DEF base
    <3> QED BY <1>1, <1>3, <1>4, <1>6, Aligns
  <2>2. call.size = call.asked + PageSize
    BY <1>1, <1>2, <1>6
  <2>3. addr + call.asked <= base + n * SectionSize
    <3> DEFINE N == n * SectionSize
    <3>1. N \in Nat /\ N >= call.size
      BY <1>3
    <3> HIDE DEF base, N
    <3>2. addr + call.asked <= base + N
      BY <1>1, <1>2, <1>3, <2>1, <2>2, <3>1
    <3> QED BY <3>2 DEF N
  <2> QED
    BY <1>3, <1>6, <2>1, <2>3
<1>7. CASE call.align = PageSize /\ PageSize = SectionSize
  <2>1. base = (p + first) * PageSize /\ p + first \in Nat
    BY <1>1, <1>7
  <2>2. base % PageSize = 0
    <3> DEFINE m == p + first
    <3>1. m \in Nat /\ base = m * PageSize
      BY <2>1
    <3> HIDE DEF m, base
    <3> QED BY <1>1, <3>1, Multiple
  <2>3. addr = base
    <3> HIDE DEF base
    <3> QED BY <1>1, <1>3, <1>4, <1>7, <2>2, Aligns
  <2>4. call.size = call.asked
    BY <1>1, <1>2, <1>7
  <2>5. addr + call.asked <= base + n * SectionSize
    <3> DEFINE N == n * SectionSize
    <3>1. N \in Nat /\ N >= call.size
      BY <1>3
    <3> HIDE DEF base, N
    <3>2. addr + call.asked <= base + N
      BY <1>1, <1>2, <1>3, <2>3, <2>4, <3>1
    <3> QED BY <3>2 DEF N
  <2> QED
    BY <1>3, <1>7, <2>2, <2>3, <2>5
<1> QED
  BY <1>2, <1>5, <1>6, <1>7

-----------------------------------------------------------------------------
(* Every step preserves the inductive invariant                            *)

(* A step that leaves blocks, list and allocations alone. *)
LEMMA Untouched ==
  ASSUME IInv, UNCHANGED <<block, list, live, leaked>>
  PROVE  HeapTypes' /\ Placed' /\ Marked'
<1>1. HeapTypes'
  BY DEF IInv, HeapTypes, Shaped
<1>2. Placed'
  BY DEF IInv, Placed, InSections, Sections
<1>3. Marked'
  BY DEF IInv, Marked, Occupied, Sections
<1> QED
  BY <1>1, <1>2, <1>3

(* The start of kheap_malloc. *)
LEMMA MallocStarts ==
  ASSUME IInv, NEW r \in Requests, Malloc(r)
  PROVE  IInv'
<1>1. UNCHANGED <<block, list, live, leaked, asa, mapped>>
  BY DEF Malloc
<1>2. HeapTypes' /\ Placed' /\ Marked'
  BY <1>1, Untouched
<1>3. Backed'
  BY <1>1 DEF IInv, Backed, BlockPages
<1>4. CallOK'
  <2>1. r.size \in Nat \ {0} /\ r.align \in {0, PageSize} /\ PageSize \in Nat
    BY RequestsAssumption, Sizes
  <2> DEFINE size == IF r.align \notin {0, SectionSize} THEN r.size + r.align ELSE r.size
  <2>2. size \in Nat \ {0}
    BY <2>1
  <2>3. call' = [size |-> size, asked |-> r.size, align |-> r.align, cur |-> 1, expanded |-> FALSE]
    BY DEF Malloc
  <2>4. call' \in Calls
    <3> HIDE DEF size
    <3> QED BY <2>1, <2>2, <2>3 DEF Calls
  <2>5. call'.size = IF call'.align \notin {0, SectionSize} THEN call'.asked + call'.align
                     ELSE call'.asked
    BY <2>3
  <2> QED
    BY <2>4, <2>5 DEF CallOK
<1> QED
  BY <1>2, <1>3, <1>4 DEF IInv

(* The walk past a block. *)
LEMMA SkipKeeps ==
  ASSUME IInv, MallocSkip
  PROVE  IInv'
<1>1. UNCHANGED <<block, list, live, leaked, asa, mapped>>
  BY DEF MallocSkip
<1>2. HeapTypes' /\ Placed' /\ Marked'
  BY <1>1, Untouched
<1>3. Backed'
  BY <1>1 DEF IInv, Backed, BlockPages
<1>4. CallOK'
  <2>1. call \in Calls /\ call' = [call EXCEPT !.cur = @ + 1, !.expanded = FALSE]
    BY DEF MallocSkip, InMalloc, IInv, CallOK
  <2> DEFINE c == call.cur + 1
  <2>2. c \in Nat \ {0} /\ call' = [call EXCEPT !.cur = c, !.expanded = FALSE]
    BY <2>1 DEF Calls
  <2> HIDE DEF c
  <2>3. call' \in Calls /\ call'.size = call.size /\ call'.asked = call.asked
        /\ call'.align = call.align
    BY <2>1, <2>2 DEF Calls
  <2> QED
    BY <2>3 DEF MallocSkip, InMalloc, IInv, CallOK
<1> QED
  BY <1>2, <1>3, <1>4 DEF IInv

(* The two failures. *)
LEMMA NoRangeKeeps ==
  ASSUME IInv, MallocNoRange
  PROVE  IInv'
<1>1. UNCHANGED <<block, list, live, leaked, asa, mapped>> /\ call' = NoCall
  BY DEF MallocNoRange
<1>2. HeapTypes' /\ Placed' /\ Marked'
  BY <1>1, Untouched
<1>3. Backed'
  BY <1>1 DEF IInv, Backed, BlockPages
<1> QED
  BY <1>1, <1>2, <1>3 DEF IInv, CallOK

(* asa_free clears no page of a block, and the rollback unmaps what the    *)
(* loop has mapped.                                                        *)
LEMMA NoFrameKeeps ==
  ASSUME IInv, MallocNoFrame
  PROVE  IInv'
<1> DEFINE n == pages_required(ExpandSize)
           p == Least(asa_starts(n))
<1>1. UNCHANGED <<block, list, live, leaked>> /\ call' = NoCall
  BY DEF MallocNoFrame
<1>2. HeapTypes' /\ Placed' /\ Marked'
  BY <1>1, Untouched
<1>3. n \in Nat \ {0}
  <2>1. call \in Calls
    BY DEF MallocNoFrame, InMalloc, IInv, CallOK
  <2> QED
    BY <2>1, ExpandSizePositive, PagesPositive
<1>4. asa_starts(n) # {}
  BY DEF MallocNoFrame
<1>5. PICK k \in 0 .. n - 1 :
        /\ asa' = (asa \cup Run(p, n)) \ asa_cleared(p, n)
        /\ mapped' = (mapped \cup Run(p, k)) \ rolled_back(p, k)
  BY DEF MallocNoFrame
<1> HIDE DEF n
<1>6. p \in Nat /\ Run(p, n) \subseteq Nat /\ Run(p, n) \cap asa = {}
  BY <1>3, <1>4, RangeFree DEF IInv
<1> HIDE DEF p
<1>7. asa_cleared(p, n) \subseteq Run(p, n) /\ Run(p, k) \subseteq Run(p, n)
  BY <1>3, <1>6 DEF asa_cleared, Run
<1>8. asa \subseteq asa' /\ asa' \subseteq Nat
  BY <1>5, <1>6, <1>7 DEF IInv, Backed
<1>9. mapped \subseteq asa
  BY DEF IInv, Backed
<1>10. mapped' = mapped
  BY <1>5, <1>6, <1>7, <1>9 DEF rolled_back
<1>11. Backed'
  BY <1>1, <1>8, <1>10 DEF IInv, Backed, BlockPages
<1> QED
  BY <1>1, <1>2, <1>11 DEF IInv, CallOK

(* A new block has no allocation and no lost section, and shares no page   *)
(* with another.                                                           *)
LEMMA ExpandKeeps ==
  ASSUME IInv, MallocExpand
  PROVE  IInv'
<1>1. call \in Calls
  BY DEF MallocExpand, InMalloc, IInv, CallOK
<1>2. PICK n : n = pages_required(ExpandSize)
  OBVIOUS
<1>3. PICK p : p = Least(asa_starts(n))
  OBVIOUS
<1>4. PICK b : b = kheap_add_block(n)
  OBVIOUS
<1>5. n \in Nat \ {0}
  BY <1>1, <1>2, ExpandSizePositive, PagesPositive
<1>6. /\ asa_starts(n) # {} /\ asa' = asa \cup Run(p, n) /\ mapped' = mapped \cup Run(p, n)
      /\ block' = [q \in DOMAIN block \cup {p} |-> IF q = p THEN b ELSE block[q]]
      /\ list' = <<p>> \o list /\ UNCHANGED <<live, leaked>>
      /\ call' = [call EXCEPT !.cur = 1, !.expanded = TRUE]
  BY <1>2, <1>3, <1>4 DEF MallocExpand
<1>7. /\ p \in Nat /\ p \notin DOMAIN block
      /\ Run(p, n) \subseteq Nat \ (0 .. ReservedPages - 1)
      /\ Run(p, n) \cap asa = {}
      /\ \A q \in DOMAIN block : Run(p, n) \cap BlockPages(q) = {}
  BY <1>5, <1>6, <1>3, RangeFree DEF IInv
<1>8. /\ b \in Blocks /\ Shaped(b, n) /\ b.used = 0 .. b.reserved - 1 /\ b.delimiters = {}
      /\ IsFiniteSet(b.used) /\ b.free_sections = b.length - Cardinality(b.used)
  BY <1>5, <1>4, NewBlock
<1>9. /\ DOMAIN block' = DOMAIN block \cup {p} /\ block'[p] = b
      /\ \A q \in DOMAIN block : block'[q] = block[q]
  BY <1>6, <1>7
<1>10. HeapTypes'
  <2>1. block' \in [DOMAIN block' -> Blocks] /\ DOMAIN block' \subseteq Nat
    BY <1>6, <1>7, <1>8, <1>9 DEF IInv, HeapTypes
  <2>2. ASSUME NEW q \in DOMAIN block' PROVE \E m \in Nat \ {0} : Shaped(block'[q], m)
    BY <1>5, <1>8, <1>9 DEF IInv, HeapTypes
  <2>3. list \in Seq(DOMAIN block)
    BY DEF IInv, HeapTypes
  <2>4. list' \in Seq(DOMAIN block') /\ Len(list') = Len(list) + 1 /\ list'[1] = p
        /\ \A k \in 1 .. Len(list) : list'[k + 1] = list[k]
    BY <1>6, <1>9, <2>3
  <2>5. ASSUME NEW q \in DOMAIN block' PROVE \E k \in 1 .. Len(list') : list'[k] = q
    <3>1. CASE q = p
      BY <2>3, <2>4, <3>1
    <3>2. CASE q \in DOMAIN block
      <4>1. PICK k \in 1 .. Len(list) : list[k] = q
        BY <3>2 DEF IInv, HeapTypes
      <4>2. k + 1 \in 1 .. Len(list') /\ list'[k + 1] = q
        BY <2>3, <2>4, <4>1
      <4> QED BY <4>2
    <3> QED BY <1>9, <3>1, <3>2
  <2>6. live' \subseteq Allocations /\ \A a \in live' : a.block \in DOMAIN block'
    BY <1>6, <1>9 DEF IInv, HeapTypes
  <2>7. \A q \in DOMAIN block' : \E m \in Nat \ {0} : Shaped(block[q], m)'
    BY <2>2 DEF Shaped
  <2> QED
    BY <2>1, <2>4, <2>5, <2>6, <2>7 DEF HeapTypes
<1>11. CallOK'
  <2>1. call' \in Calls /\ call'.size = call.size /\ call'.asked = call.asked
        /\ call'.align = call.align
    <3> DEFINE one == 1
    <3>1. one \in Nat \ {0} /\ call' = [call EXCEPT !.cur = one, !.expanded = TRUE]
      BY <1>6
    <3> HIDE DEF one
    <3> QED BY <1>1, <3>1 DEF Calls
  <2> QED
    BY <2>1 DEF MallocExpand, InMalloc, IInv, CallOK
<1>12. Placed'
  BY <1>6, <1>9 DEF IInv, HeapTypes, Placed, InSections, Sections
<1>13. Marked'
  <2>1. \A a \in live : a.block \in DOMAIN block
    BY DEF IInv, HeapTypes
  <2>2. \A k : <<p, k>> \notin leaked
    BY <1>7 DEF IInv, Placed
  <2> SUFFICES ASSUME NEW q \in DOMAIN block'
               PROVE  /\ \A k \in Nat : k \in block'[q].used <=> Occupied(q, k)'
                      /\ \A k \in Nat : k \in block'[q].delimiters
                                          <=> \E a \in live' : a.block = q /\ k = a.last
                      /\ IsFiniteSet(block'[q].used)
                      /\ block'[q].free_sections = block'[q].length - Cardinality(block'[q].used)
    BY DEF Marked
  <2>3. CASE q = p
    BY <1>6, <1>7, <1>8, <1>9, <2>1, <2>2, <2>3 DEF Occupied
  <2>4. CASE q \in DOMAIN block
    BY <1>6, <1>9, <2>4 DEF IInv, Marked, Occupied, Sections
  <2> QED
    BY <1>9, <2>3, <2>4
<1>14. Backed'
  <2>1. BlockPages(p)' = Run(p, n)
    <3>1. PageSize \in Nat \ {0}
      BY Sizes
    <3>2. (n * PageSize) \div PageSize = n
      BY <1>5, <3>1, Multiple
    <3> QED
      BY <1>8, <1>9, <3>2 DEF BlockPages, Shaped
  <2>2. \A q \in DOMAIN block : BlockPages(q)' = BlockPages(q)
    BY <1>9 DEF BlockPages
  <2> DEFINE old(q) == BlockPages(q)
             new(q) == BlockPages(q)'
  <2>3. new(p) = Run(p, n) /\ \A q \in DOMAIN block : new(q) = old(q)
    BY <2>1, <2>2
  <2>4. /\ asa \subseteq Nat /\ 0 .. ReservedPages - 1 \subseteq asa
        /\ \A q \in DOMAIN block : old(q) \subseteq asa \ (0 .. ReservedPages - 1)
        /\ \A q, r \in DOMAIN block : q # r => old(q) \cap old(r) = {}
        /\ mapped = UNION {old(q) : q \in DOMAIN block}
        /\ \A q \in DOMAIN block : Run(p, n) \cap old(q) = {}
    BY <1>7 DEF IInv, Backed
  <2> HIDE DEF old, new
  <2>5. asa' \subseteq Nat /\ 0 .. ReservedPages - 1 \subseteq asa'
    BY <1>6, <1>7, <2>4
  <2>6. \A q \in DOMAIN block' : new(q) \subseteq asa' \ (0 .. ReservedPages - 1)
    BY <1>6, <1>7, <1>9, <2>3, <2>4
  <2>7. \A q, r \in DOMAIN block' : q # r => new(q) \cap new(r) = {}
    BY <1>9, <2>3, <2>4
  <2>8. mapped' = UNION {new(q) : q \in DOMAIN block'}
    BY <1>6, <1>9, <2>3, <2>4
  <2> QED
    BY <2>5, <2>6, <2>7, <2>8 DEF Backed, new
<1> QED
  BY <1>10, <1>11, <1>12, <1>13, <1>14 DEF IInv

(* A change of one block's bitsets and counters leaves the pages alone. *)
LEMMA PagesKept ==
  ASSUME Backed, DOMAIN block' = DOMAIN block, UNCHANGED <<asa, mapped>>,
         \A q \in DOMAIN block : block'[q].size = block[q].size
  PROVE  Backed'
<1>1. \A q \in DOMAIN block : BlockPages(q)' = BlockPages(q)
  BY DEF BlockPages
<1> QED
  BY <1>1 DEF Backed

(* An allocation takes sections nobody has. *)
LEMMA HitKeeps ==
  ASSUME IInv, MallocHit
  PROVE  IInv'
<1>1. PICK p : p = list[call.cur]
  OBVIOUS
<1>2. PICK b : b = block[p]
  OBVIOUS
<1>3. PICK n : n = DIV_ROUND_UP(call.size, SectionSize)
  OBVIOUS
<1>4. PICK first : first = Least(section_starts(b, n))
  OBVIOUS
<1>5. PICK addr : addr = RoundUp(p * PageSize + first * SectionSize, call.align)
  OBVIOUS
<1>6. PICK new : new = [block |-> p, first |-> first, last |-> first + n - 1,
                        addr |-> addr, size |-> call.asked, align |-> call.align]
  OBVIOUS
<1>7. /\ block' = [block EXCEPT ![p] =
                     [b EXCEPT !.used = @ \cup Run(first, n),
                               !.delimiters = @ \cup {first + n - 1},
                               !.free_sections = @ - n,
                               !.first_free_section = first + n]]
      /\ live' = live \cup {new}
      /\ call' = NoCall /\ UNCHANGED <<list, asa, mapped, leaked>>
      /\ section_starts(b, n) # {} /\ call # NoCall /\ call.cur <= Len(list)
  BY <1>1, <1>2, <1>3, <1>4, <1>5, <1>6 DEF MallocHit, InMalloc, Fits
<1>8. call \in Calls /\ call.asked \in Nat \ {0} /\ call.align \in {0, PageSize}
      /\ call.size \in Nat \ {0} /\ call.cur \in Nat \ {0}
  BY <1>7 DEF IInv, CallOK, Calls
<1>9. p \in DOMAIN block /\ p \in Nat /\ b \in Blocks
  BY <1>1, <1>2, <1>7, <1>8 DEF IInv, HeapTypes
<1>10. n \in Nat \ {0} /\ n * SectionSize >= call.size
  <2>1. SectionSize \in Nat \ {0}
    BY Sizes
  <2> QED
    <3>1. DIV_ROUND_UP(call.size, SectionSize) \in Nat
          /\ DIV_ROUND_UP(call.size, SectionSize) >= 1
          /\ DIV_ROUND_UP(call.size, SectionSize) * SectionSize >= call.size
      BY <1>8, <2>1, RoundedUp
    <3> QED BY <1>3, <3>1
<1>11. b.length \in Nat /\ b.reserved \in Nat /\ b.length >= 1 /\ b.used \subseteq Nat
       /\ b.delimiters \subseteq Nat /\ b.free_sections \in Int
  BY <1>2, <1>9 DEF IInv, HeapTypes, Blocks, Shaped
<1>12. first \in Nat /\ first + n <= b.length /\ Run(first, n) \cap b.used = {}
  <2>1. section_starts(b, n) \in SUBSET Nat
    <3>1. \A s \in section_starts(b, n) : s \in Nat
      BY <1>9, <1>10, <1>11, SearchFree
    <3> QED BY <3>1
  <2>2. first \in section_starts(b, n)
    BY <1>4, <1>7, <2>1, LeastIs
  <2> QED
    BY <1>9, <1>10, <1>11, <2>2, SearchFree
<1>13. /\ Run(first, n) = Sections(new) /\ Run(first, n) \subseteq Nat
       /\ first + n - 1 \in Nat /\ first + n - 1 \in Run(first, n)
  BY <1>6, <1>10, <1>12 DEF Run, Sections
<1>14. /\ new \in Allocations /\ InSections(new) /\ new.block = p /\ new.last = first + n - 1
       /\ new.first = first
  <2>1. /\ addr \in Nat /\ addr >= p * PageSize + first * SectionSize
        /\ addr + call.asked <= p * PageSize + (first + n) * SectionSize
        /\ call.align # 0 => addr % call.align = 0
    BY <1>5, <1>7, <1>8, <1>9, <1>10, <1>12, HitInSections DEF IInv
  <2>2. new.last + 1 = first + n
    BY <1>6, <1>10, <1>12
  <2>3. InSections(new)
    BY <1>6, <2>1, <2>2 DEF InSections
  <2>4. new \in Allocations
    BY <1>6, <1>8, <1>9, <1>12, <1>13, <2>1 DEF Allocations
  <2> QED
    BY <1>6, <2>3, <2>4
<1>15. PICK c : c = [b EXCEPT !.used = @ \cup Run(first, n),
                              !.delimiters = @ \cup {first + n - 1},
                              !.free_sections = @ - n,
                              !.first_free_section = first + n]
  OBVIOUS
<1>16. /\ c \in Blocks /\ c.size = b.size /\ c.length = b.length /\ c.reserved = b.reserved
       /\ c.used = b.used \cup Run(first, n) /\ c.delimiters = b.delimiters \cup {first + n - 1}
       /\ c.free_sections = b.free_sections - n
  <2> DEFINE ff == first + n
             d == first + n - 1
             R == Run(first, n)
  <2>1. ff \in Nat /\ d \in Nat /\ R \subseteq Nat /\ n \in Int
    BY <1>10, <1>12, <1>13
  <2>2. c = [b EXCEPT !.used = @ \cup R, !.delimiters = @ \cup {d},
                      !.free_sections = @ - n, !.first_free_section = ff]
    BY <1>15
  <2> HIDE DEF ff, d, R
  <2> DEFINE U == b.used \cup R
             D == b.delimiters \cup {d}
             F == b.free_sections - n
  <2>3. U \in SUBSET Nat /\ D \in SUBSET Nat /\ F \in Int
    <3>1. U \in SUBSET Nat
      BY <1>11, <2>1
    <3>2. D \in SUBSET Nat
      BY <1>11, <2>1
    <3>3. F \in Int
      BY <1>11, <2>1
    <3> QED BY <3>1, <3>2, <3>3
  <2>4. c = [b EXCEPT !.used = U, !.delimiters = D, !.free_sections = F,
                      !.first_free_section = ff]
    BY <1>9, <2>2 DEF Blocks
  <2>5. U = b.used \cup R /\ D = b.delimiters \cup {d} /\ F = b.free_sections - n
    OBVIOUS
  <2> HIDE DEF U, D, F
  <2>6. /\ c \in Blocks /\ c.size = b.size /\ c.length = b.length /\ c.reserved = b.reserved
        /\ c.used = b.used \cup R /\ c.delimiters = b.delimiters \cup {d}
        /\ c.free_sections = b.free_sections - n
    BY <1>9, <2>1, <2>3, <2>4, <2>5 DEF Blocks
  <2> QED BY <2>6 DEF R, d
<1>17. /\ DOMAIN block' = DOMAIN block /\ block'[p] = c
       /\ \A q \in DOMAIN block : q # p => block'[q] = block[q]
       /\ block' \in [DOMAIN block -> Blocks]
  BY <1>7, <1>9, <1>15, <1>16 DEF IInv, HeapTypes
<1>18. \A q \in DOMAIN block : /\ block'[q].size = block[q].size
                               /\ block'[q].length = block[q].length
                               /\ block'[q].reserved = block[q].reserved
  BY <1>2, <1>16, <1>17
<1>19. \A k \in Run(first, n) : ~Occupied(p, k)
  BY <1>2, <1>9, <1>12, <1>13 DEF IInv, Marked
<1>20. HeapTypes'
  <2>1. \A q \in DOMAIN block' : \E m \in Nat \ {0} : Shaped(block[q], m)'
    BY <1>17, <1>18 DEF IInv, HeapTypes, Shaped
  <2>2. live' \subseteq Allocations /\ \A a \in live' : a.block \in DOMAIN block'
    BY <1>7, <1>9, <1>14, <1>17 DEF IInv, HeapTypes
  <2> QED
    BY <1>7, <1>17, <2>1, <2>2 DEF IInv, HeapTypes
<1>21. Placed'
  <2>1. Sections(new) \subseteq b.reserved .. b.length - 1
    <3>1. first >= b.reserved
      <4>1. first \in Run(first, n)
        BY <1>10, <1>12 DEF Run
      <4> QED
        <5>1. ~(first \in 0 .. b.reserved - 1)
          BY <1>2, <1>19, <4>1 DEF Occupied
        <5> QED
          BY <1>11, <1>12, <5>1
    <3> QED
      BY <1>10, <1>11, <1>12, <1>13, <3>1 DEF Run
  <2>2. \A k \in Sections(new) : <<p, k>> \notin leaked
    BY <1>13, <1>19 DEF Occupied
  <2>3. ASSUME NEW a \in live, a.block = p PROVE Sections(a) \cap Sections(new) = {}
    BY <1>13, <1>19, <2>3 DEF Occupied
  <2>4. ASSUME NEW a \in live'
        PROVE  /\ Sections(a) \subseteq block'[a.block].reserved .. block'[a.block].length - 1
               /\ InSections(a)
               /\ \A k \in Sections(a) : <<a.block, k>> \notin leaked'
    <3>1. CASE a = new
      BY <1>7, <1>14, <1>16, <1>17, <2>1, <2>2, <3>1
    <3>2. CASE a \in live
      <4>1. a.block \in DOMAIN block
        BY <3>2 DEF IInv, HeapTypes
      <4> QED
        BY <1>7, <1>18, <3>2, <4>1 DEF IInv, Placed
    <3> QED BY <1>7, <3>1, <3>2
  <2>5. \A a1, a2 \in live' :
          a1 # a2 /\ a1.block = a2.block => Sections(a1) \cap Sections(a2) = {}
    BY <1>7, <1>14, <2>3 DEF IInv, Placed
  <2>6. \A q, k : <<q, k>> \in leaked' =>
          q \in DOMAIN block' /\ k \in block'[q].reserved .. block'[q].length - 1
    BY <1>7, <1>17, <1>18 DEF IInv, Placed
  <2> QED
    BY <2>4, <2>5, <2>6 DEF Placed, Sections, InSections
<1>22. Marked'
  <2> SUFFICES ASSUME NEW q \in DOMAIN block'
               PROVE  /\ \A k \in Nat : k \in block'[q].used <=> Occupied(q, k)'
                      /\ \A k \in Nat : k \in block'[q].delimiters
                                          <=> \E a \in live' : a.block = q /\ k = a.last
                      /\ IsFiniteSet(block'[q].used)
                      /\ block'[q].free_sections = block'[q].length - Cardinality(block'[q].used)
    BY DEF Marked
  <2>1. CASE q = p
    <3>1. \A k \in Nat : k \in c.used <=> Occupied(p, k)'
      <4>1. \A k \in Nat : k \in b.used <=> Occupied(p, k)
        BY <1>2, <1>9 DEF IInv, Marked
      <4>2. \A k : Occupied(p, k)' <=> (Occupied(p, k) \/ k \in Run(first, n))
        BY <1>7, <1>9, <1>13, <1>14, <1>18 DEF Occupied, Sections
      <4> QED
        BY <1>16, <4>1, <4>2
    <3>2. \A k \in Nat : k \in c.delimiters <=> \E a \in live' : a.block = p /\ k = a.last
      BY <1>2, <1>7, <1>9, <1>14, <1>16 DEF IInv, Marked
    <3>3. IsFiniteSet(b.used) /\ b.free_sections = b.length - Cardinality(b.used)
      BY <1>2, <1>9 DEF IInv, Marked
    <3>4. IsFiniteSet(Run(first, n)) /\ Cardinality(Run(first, n)) = n
      <4> DEFINE d == first + n - 1
      <4>1. first \in Int /\ d \in Int /\ first <= d /\ d - first + 1 = n
        BY <1>10, <1>12
      <4>2. Run(first, n) = first .. d
        BY DEF Run
      <4> HIDE DEF d
      <4>3. IsFiniteSet(first .. d) /\ Cardinality(first .. d) = d - first + 1
        BY <4>1, FS_Interval
      <4> QED
        BY <4>1, <4>2, <4>3
    <3>5. IsFiniteSet(c.used) /\ Cardinality(c.used) = Cardinality(b.used) + n
      <4>1. b.used \cap Run(first, n) = {} /\ Cardinality({}) = 0
        BY <1>12, FS_EmptySet
      <4>2. IsFiniteSet(b.used \cup Run(first, n))
            /\ Cardinality(b.used \cup Run(first, n))
                 = Cardinality(b.used) + Cardinality(Run(first, n))
                     - Cardinality(b.used \cap Run(first, n))
        BY <3>3, <3>4, FS_Union
      <4>3. Cardinality(b.used) \in Nat
        BY <3>3, FS_CardinalityType
      <4>4. Cardinality(b.used \cup Run(first, n)) = Cardinality(b.used) + n - 0
        BY <3>4, <4>1, <4>2
      <4>5. Cardinality(b.used) + n - 0 = Cardinality(b.used) + n
        BY <1>10, <4>3
      <4> QED
        BY <1>16, <4>2, <4>4, <4>5
    <3>6. c.free_sections = c.length - Cardinality(c.used)
      <4>1. Cardinality(b.used) \in Nat
        BY <3>3, FS_CardinalityType
      <4> QED
        BY <1>10, <1>11, <1>16, <3>3, <3>5, <4>1
    <3> QED
      BY <1>17, <2>1, <3>1, <3>2, <3>5, <3>6
  <2>2. CASE q # p
    <3>1. q \in DOMAIN block /\ block'[q] = block[q]
      BY <1>17, <2>2
    <3>2. \A k : Occupied(q, k)' <=> Occupied(q, k)
      BY <1>7, <1>14, <2>2, <3>1 DEF Occupied, Sections
    <3>3. \A k : (\E a \in live' : a.block = q /\ k = a.last)
                   <=> (\E a \in live : a.block = q /\ k = a.last)
      BY <1>7, <1>14, <2>2
    <3> QED
      BY <3>1, <3>2, <3>3 DEF IInv, Marked
  <2> QED
    BY <2>1, <2>2
<1>23. Backed'
  BY <1>7, <1>17, <1>18, PagesKept DEF IInv
<1> QED
  BY <1>7, <1>20, <1>21, <1>22, <1>23 DEF IInv, CallOK

(* kheap_free releases the sections of the allocation from the one of its  *)
(* address on; those before it are lost.                                   *)
LEMMA FreeKeeps ==
  ASSUME IInv, NEW a \in live, kheap_free(a)
  PROVE  IInv'
<1>1. PICK p : p = a.block
  OBVIOUS
<1>2. PICK from : from = SectionOf(p, a.addr)
  OBVIOUS
<1>3. PICK n : n = a.last - from + 1
  OBVIOUS
<1>4. PICK b : b = block[p]
  OBVIOUS
<1>5. PICK c : c = [b EXCEPT !.delimiters = @ \ {a.last}, !.used = @ \ (from .. a.last),
                             !.first_free_section = from, !.free_sections = @ + n]
  OBVIOUS
<1>6. block_of(a.addr) = p /\ Least(delimiters_from(p, a.addr)) = a.last
  BY <1>1, BlockFound, EndFound DEF IInv
<1>7. /\ block' = [block EXCEPT ![p] = c]
      /\ leaked' = leaked \cup ({p} \X (a.first .. from - 1))
      /\ live' = live \ {a} /\ UNCHANGED <<list, asa, mapped, call>>
  <2>1. block_of(a.addr) = p /\ SectionOf(block_of(a.addr), a.addr) = from
        /\ Least(delimiters_from(block_of(a.addr), a.addr)) = a.last
        /\ Least(delimiters_from(block_of(a.addr), a.addr))
             - SectionOf(block_of(a.addr), a.addr) + 1 = n
    BY <1>2, <1>3, <1>6
  <2>2. block' = [block EXCEPT ![p] = c]
    BY <1>4, <1>5, <2>1 DEF kheap_free
  <2>3. leaked' = leaked \cup ({a.block} \X (a.first .. from - 1))
    BY <2>1 DEF kheap_free
  <2>4. live' = live \ {a} /\ UNCHANGED <<list, asa, mapped, call>>
    BY DEF kheap_free
  <2> QED
    BY <1>1, <2>2, <2>3, <2>4
<1>8. /\ p \in DOMAIN block /\ a.first \in Nat /\ a.last \in Nat /\ from \in a.first .. a.last
  BY <1>1, <1>2, Located DEF IInv
<1>9. n \in Nat /\ from \in Nat
  BY <1>3, <1>8
<1>10. /\ b \in Blocks /\ b.length \in Nat /\ b.reserved \in Nat /\ b.used \subseteq Nat
       /\ b.delimiters \subseteq Nat /\ b.free_sections \in Int
  BY <1>4, <1>8 DEF IInv, HeapTypes, Blocks
<1>11. /\ c \in Blocks /\ c.size = b.size /\ c.length = b.length /\ c.reserved = b.reserved
       /\ c.used = b.used \ (from .. a.last) /\ c.delimiters = b.delimiters \ {a.last}
       /\ c.free_sections = b.free_sections + n
  <2> DEFINE U == b.used \ (from .. a.last)
             D == b.delimiters \ {a.last}
             F == b.free_sections + n
  <2>1. U \in SUBSET Nat
    BY <1>10
  <2>2. D \in SUBSET Nat
    BY <1>10
  <2>3. F \in Int
    BY <1>9, <1>10
  <2>4. c = [b EXCEPT !.delimiters = D, !.used = U, !.first_free_section = from,
                      !.free_sections = F]
    BY <1>5, <1>10 DEF Blocks
  <2>5. U = b.used \ (from .. a.last) /\ D = b.delimiters \ {a.last} /\ F = b.free_sections + n
    OBVIOUS
  <2> HIDE DEF U, D, F
  <2> QED
    BY <1>9, <1>10, <2>1, <2>2, <2>3, <2>4, <2>5 DEF Blocks
<1>12. /\ DOMAIN block' = DOMAIN block /\ block'[p] = c
       /\ \A q \in DOMAIN block : q # p => block'[q] = block[q]
       /\ block' \in [DOMAIN block -> Blocks]
  BY <1>7, <1>8, <1>11 DEF IInv, HeapTypes
<1>13. \A q \in DOMAIN block : /\ block'[q].size = block[q].size
                               /\ block'[q].length = block[q].length
                               /\ block'[q].reserved = block[q].reserved
  BY <1>4, <1>11, <1>12
<1>14. /\ \A k \in from .. a.last : k \in Sections(a)
       /\ \A k \in a.first .. from - 1 : k \in Sections(a)
       /\ \A k \in Sections(a) : k \in a.first .. from - 1 \/ k \in from .. a.last
       /\ \A k \in a.first .. from - 1 : k \notin from .. a.last
       /\ Sections(a) \subseteq Nat
  BY <1>8, <1>9 DEF Sections
<1>15. HeapTypes'
  <2>1. \A q \in DOMAIN block' : \E m \in Nat \ {0} : Shaped(block[q], m)'
    BY <1>12, <1>13 DEF IInv, HeapTypes, Shaped
  <2>2. live' \subseteq Allocations /\ \A x \in live' : x.block \in DOMAIN block'
    BY <1>7, <1>12 DEF IInv, HeapTypes
  <2> QED
    BY <1>7, <1>12, <2>1, <2>2 DEF IInv, HeapTypes
<1>16. \A x \in live' : x.block = p => Sections(x) \cap Sections(a) = {}
  BY <1>1, <1>7 DEF IInv, Placed
<1>17. \A q, k : <<q, k>> \in leaked' <=>
                   <<q, k>> \in leaked \/ (q = p /\ k \in a.first .. from - 1)
  BY <1>7
<1>18. Placed'
  <2>1. ASSUME NEW x \in live'
        PROVE  /\ Sections(x) \subseteq block'[x.block].reserved .. block'[x.block].length - 1
               /\ InSections(x)
               /\ \A k \in Sections(x) : <<x.block, k>> \notin leaked'
    <3>1. x \in live /\ x.block \in DOMAIN block
      BY <1>7 DEF IInv, HeapTypes
    <3>2. \A k \in Sections(x) : <<x.block, k>> \notin leaked'
      BY <1>14, <1>16, <1>17, <3>1 DEF IInv, Placed
    <3> QED
      BY <1>13, <3>1, <3>2 DEF IInv, Placed
  <2>2. \A x, y \in live' : x # y /\ x.block = y.block => Sections(x) \cap Sections(y) = {}
    BY <1>7 DEF IInv, Placed
  <2>3. \A q, k : <<q, k>> \in leaked' =>
          q \in DOMAIN block' /\ k \in block'[q].reserved .. block'[q].length - 1
    <3>1. Sections(a) \subseteq block[p].reserved .. block[p].length - 1
      BY <1>1 DEF IInv, Placed
    <3> QED
      BY <1>8, <1>12, <1>13, <1>14, <1>17, <3>1 DEF IInv, Placed
  <2> QED
    BY <2>1, <2>2, <2>3 DEF Placed, Sections, InSections
<1>19. Marked'
  <2> SUFFICES ASSUME NEW q \in DOMAIN block'
               PROVE  /\ \A k \in Nat : k \in block'[q].used <=> Occupied(q, k)'
                      /\ \A k \in Nat : k \in block'[q].delimiters
                                          <=> \E x \in live' : x.block = q /\ k = x.last
                      /\ IsFiniteSet(block'[q].used)
                      /\ block'[q].free_sections = block'[q].length - Cardinality(block'[q].used)
    BY DEF Marked
  <2>1. CASE q = p
    <3>1. \A k \in Nat : k \in b.used <=> Occupied(p, k)
      BY <1>4, <1>8 DEF IInv, Marked
    <3>2. ASSUME NEW k \in Nat PROVE k \in c.used <=> Occupied(p, k)'
      <4>1. Occupied(p, k)' <=> \/ k \in 0 .. b.reserved - 1
                                \/ \E x \in live' : x.block = p /\ k \in Sections(x)
                                \/ <<p, k>> \in leaked'
        BY <1>4, <1>8, <1>13 DEF Occupied, Sections
      <4>2. Occupied(p, k) <=> \/ k \in 0 .. b.reserved - 1
                               \/ \E x \in live : x.block = p /\ k \in Sections(x)
                               \/ <<p, k>> \in leaked
        BY <1>4 DEF Occupied
      <4>3. k \in c.used <=> Occupied(p, k) /\ k \notin from .. a.last
        BY <1>11, <3>1
      <4>4. k \in Sections(a) => k \notin 0 .. b.reserved - 1 /\ <<p, k>> \notin leaked
        <5>1. Sections(a) \subseteq b.reserved .. b.length - 1
          BY <1>1, <1>4 DEF IInv, Placed
        <5>2. k \in b.reserved .. b.length - 1 => k \notin 0 .. b.reserved - 1
          BY <1>10
        <5> QED BY <1>1, <5>1, <5>2 DEF IInv, Placed
      <4>5. ASSUME k \in Sections(a)
            PROVE  k \in c.used <=> Occupied(p, k)'
        <5>1. Occupied(p, k)
          BY <1>1, <4>2, <4>5
        <5>2. Occupied(p, k)' <=> k \in a.first .. from - 1
          BY <1>16, <1>17, <4>1, <4>4, <4>5
        <5> QED
          BY <1>14, <4>3, <4>5, <5>1, <5>2
      <4>6. ASSUME k \notin Sections(a)
            PROVE  k \in c.used <=> Occupied(p, k)'
        <5>1. k \notin from .. a.last /\ k \notin a.first .. from - 1
          BY <1>14, <4>6
        <5>2. (\E x \in live' : x.block = p /\ k \in Sections(x))
                <=> (\E x \in live : x.block = p /\ k \in Sections(x))
          BY <1>7, <4>6
        <5> QED
          BY <1>17, <4>1, <4>2, <4>3, <5>1, <5>2
      <4> QED BY <4>5, <4>6
    <3>3. \A k \in Nat : k \in c.delimiters <=> \E x \in live' : x.block = p /\ k = x.last
      <4>1. \A k \in Nat : k \in b.delimiters <=> \E x \in live : x.block = p /\ k = x.last
        BY <1>4, <1>8 DEF IInv, Marked
      <4>2. ASSUME NEW x \in live', x.block = p PROVE x.last # a.last
        <5>1. x \in live /\ SectionOf(x.block, x.addr) \in x.first .. x.last
              /\ x.first \in Nat /\ x.last \in Nat
          BY <1>7, Located DEF IInv
        <5>2. x.last \in Sections(x) /\ a.last \in Sections(a)
          BY <1>8, <5>1 DEF Sections
        <5> QED
          BY <1>16, <4>2, <5>2
      <4> QED
        BY <1>1, <1>7, <1>11, <4>1, <4>2
    <3>4. IsFiniteSet(b.used) /\ b.free_sections = b.length - Cardinality(b.used)
      BY <1>4, <1>8 DEF IInv, Marked
    <3>5. IsFiniteSet(c.used) /\ Cardinality(c.used) = Cardinality(b.used) - n
      <4>1. b.used \cap (from .. a.last) = from .. a.last
        <5>1. \A k \in Sections(a) : Occupied(p, k)
          BY <1>1 DEF Occupied
        <5> QED
          BY <1>14, <3>1, <5>1
      <4>2. Cardinality(from .. a.last) = n
        BY <1>3, <1>8, <1>9, FS_Interval
      <4>3. /\ IsFiniteSet(b.used \ (from .. a.last))
            /\ Cardinality(b.used \ (from .. a.last))
                 = Cardinality(b.used) - Cardinality(b.used \cap (from .. a.last))
        BY <3>4, FS_Difference
      <4> QED
        BY <1>11, <4>1, <4>2, <4>3
    <3>6. c.free_sections = c.length - Cardinality(c.used)
      <4>1. Cardinality(b.used) \in Nat
        BY <3>4, FS_CardinalityType
      <4> QED
        BY <1>9, <1>10, <1>11, <3>4, <3>5, <4>1
    <3> QED
      BY <1>12, <2>1, <3>2, <3>3, <3>5, <3>6
  <2>2. CASE q # p
    <3>1. q \in DOMAIN block /\ block'[q] = block[q]
      BY <1>12, <2>2
    <3>2. \A k : Occupied(q, k)' <=> Occupied(q, k)
      BY <1>1, <1>7, <1>17, <2>2, <3>1 DEF Occupied, Sections
    <3>3. \A k : (\E x \in live' : x.block = q /\ k = x.last)
                   <=> (\E x \in live : x.block = q /\ k = x.last)
      BY <1>1, <1>7, <2>2
    <3> QED
      BY <3>1, <3>2, <3>3 DEF IInv, Marked
  <2> QED
    BY <2>1, <2>2
<1>20. Backed'
  BY <1>7, <1>12, <1>13, PagesKept DEF IInv
<1>21. CallOK'
  BY <1>7 DEF IInv, CallOK
<1> QED
  BY <1>15, <1>18, <1>19, <1>20, <1>21 DEF IInv

(* The empty heap. *)
LEMMA InitIInv == Init => IInv
<1> SUFFICES ASSUME Init PROVE IInv
  OBVIOUS
<1>1. DOMAIN block = {} /\ block \in [{} -> Blocks] /\ list = <<>> /\ live = {} /\ leaked = {}
  BY DEF Init
<1>2. HeapTypes
  BY <1>1 DEF HeapTypes
<1>3. Backed
  <2>1. {BlockPages(p) : p \in DOMAIN block} = {}
    BY <1>1
  <2>2. asa = 0 .. ReservedPages - 1 /\ mapped = {}
    BY DEF Init
  <2> QED
    BY <1>1, <2>1, <2>2, Sizes DEF Backed
<1>4. CallOK
  BY DEF Init, CallOK
<1> QED
  BY <1>1, <1>2, <1>3, <1>4 DEF IInv, Placed, Marked

(* Every step of the heap. *)
LEMMA NextIInv == IInv /\ [Next]_vars => IInv'
<1> SUFFICES ASSUME IInv, [Next]_vars PROVE IInv'
  OBVIOUS
<1>1. ASSUME NEW r \in Requests, Malloc(r) PROVE IInv'
  BY <1>1, MallocStarts
<1>2. CASE MallocSkip
  BY <1>2, SkipKeeps
<1>3. CASE MallocHit
  BY <1>3, HitKeeps
<1>4. CASE MallocExpand
  BY <1>4, ExpandKeeps
<1>5. CASE MallocNoRange
  BY <1>5, NoRangeKeeps
<1>6. CASE MallocNoFrame
  BY <1>6, NoFrameKeeps
<1>7. ASSUME NEW a \in live, kheap_free(a) PROVE IInv'
  BY <1>7, FreeKeeps
<1>8. CASE UNCHANGED vars
  <2>1. UNCHANGED <<block, list, live, leaked, asa, mapped, call>>
    BY <1>8 DEF vars
  <2>2. HeapTypes' /\ Placed' /\ Marked'
    BY <2>1, Untouched
  <2>3. Backed'
    BY <2>1 DEF IInv, Backed, BlockPages
  <2> QED
    BY <2>1, <2>2, <2>3 DEF IInv, CallOK
<1> QED
  BY <1>1, <1>2, <1>3, <1>4, <1>5, <1>6, <1>7, <1>8 DEF Next, MallocStep

-----------------------------------------------------------------------------
(* Sums over blocks.  kheap's total is stated with a fold over the set of  *)
(* blocks; what a fold is worth when a block changes or is added follows   *)
(* by induction on the number of blocks, as a least counterexample.        *)

(* The block the fold takes out of a set. *)
Pick(T) == CHOOSE x \in T : TRUE

(* One step of the fold: g gives the sum of the rest. *)
FoldStep(f, g, T) ==
  IF T = {} THEN 0 ELSE f[Pick(T)].free_sections + g[T \ {Pick(T)}]

(* g is the fold's table of sums over the subsets of S. *)
SumsOver(f, S, g) == g = [T \in SUBSET S |-> FoldStep(f, g, T)]

(* The free sections of all blocks of f. *)
Total(f) == MapThenSumSet(LAMBDA p : f[p].free_sections, DOMAIN f)

(* A set's picked member. *)
LEMMA PickIs ==
  ASSUME NEW T, T # {}
  PROVE  Pick(T) \in T
  BY DEF Pick

(* A step of the fold is a number if the table holds numbers. *)
LEMMA FoldStepType ==
  ASSUME NEW f, NEW S, \A x \in S : f[x].free_sections \in Int,
         NEW g \in [SUBSET S -> Int], NEW T \in SUBSET S
  PROVE  FoldStep(f, g, T) \in Int
<1>1. CASE T = {}
  BY <1>1 DEF FoldStep
<1>2. CASE T # {}
  <2>1. PICK x : x = Pick(T)
    OBVIOUS
  <2>2. x \in S /\ T \ {x} \in SUBSET S
    BY <1>2, <2>1, PickIs
  <2>3. f[x].free_sections \in Int /\ g[T \ {x}] \in Int
    BY <2>2
  <2>4. FoldStep(f, g, T) = f[x].free_sections + g[T \ {x}]
    BY <1>2, <2>1 DEF FoldStep
  <2> QED
    BY <2>3, <2>4
<1> QED
  BY <1>1, <1>2

(* For a finite set of blocks the table exists: it is filled in for sets   *)
(* of growing size.                                                        *)
LEMMA SumsExist ==
  ASSUME NEW f, NEW S, IsFiniteSet(S), \A x \in S : f[x].free_sections \in Int
  PROVE  \E g \in [SUBSET S -> Int] : SumsOver(f, S, g)
<1> DEFINE G == [SUBSET S -> Int]
           To(k, g) == \A T \in SUBSET S : Cardinality(T) <= k => g[T] = FoldStep(f, g, T)
           Bad == {k \in Nat : ~ \E g \in G : To(k, g)}
<1>1. \A T \in SUBSET S : /\ IsFiniteSet(T) /\ Cardinality(T) \in Nat
                          /\ Cardinality(T) <= Cardinality(S)
  BY FS_Subset, FS_CardinalityType
<1>2. Bad = {}
  <2>1. SUFFICES ASSUME Bad # {} PROVE FALSE
    OBVIOUS
  <2>2. PICK k : k = Least(Bad)
    OBVIOUS
  <2>3. k \in Bad /\ \A m \in Bad : k <= m
    <3>1. Bad \in SUBSET Nat
      OBVIOUS
    <3> HIDE DEF Bad
    <3> QED BY <2>1, <2>2, <3>1, LeastIs
  <2>4. k \in Nat /\ ~ \E g \in G : To(k, g)
    BY <2>3
  <2>5. k # 0
    <3> DEFINE z == [T \in SUBSET S |-> 0]
    <3>1. z \in G
      OBVIOUS
    <3>2. To(0, z)
      <4>1. ASSUME NEW T \in SUBSET S, Cardinality(T) <= 0 PROVE z[T] = FoldStep(f, z, T)
        <5>1. T = {}
          BY <1>1, <4>1, FS_EmptySet
        <5> QED BY <5>1 DEF FoldStep
      <4> QED BY <4>1
    <3> HIDE DEF z, G, To
    <3> QED BY <2>4, <3>1, <3>2
  <2>6. PICK g \in G : To(k - 1, g)
    <3>1. k - 1 \in Nat /\ k - 1 < k
      BY <2>4, <2>5
    <3>2. k - 1 \notin Bad
      <4> HIDE DEF Bad
      <4> QED BY <2>3, <2>4, <3>1
    <3> HIDE DEF G, To
    <3> QED BY <3>1, <3>2
  <2> DEFINE h == [T \in SUBSET S |-> FoldStep(f, g, T)]
  <2>7. h \in G
    BY FoldStepType
  <2>8. To(k, h)
    <3>1. ASSUME NEW T \in SUBSET S, Cardinality(T) <= k PROVE h[T] = FoldStep(f, h, T)
      <4>1. h[T] = FoldStep(f, g, T)
        OBVIOUS
      <4>2. CASE T = {}
        BY <4>1, <4>2 DEF FoldStep
      <4>3. CASE T # {}
        <5>1. PICK x : x = Pick(T)
          OBVIOUS
        <5>2. x \in T /\ T \ {x} \in SUBSET S
          BY <4>3, <5>1, PickIs
        <5>3. Cardinality(T \ {x}) = Cardinality(T) - 1
          BY <1>1, <5>2, FS_RemoveElement
        <5>4. Cardinality(T \ {x}) <= k - 1
          BY <1>1, <2>4, <3>1, <5>3
        <5>5. g[T \ {x}] = FoldStep(f, g, T \ {x})
          BY <2>6, <5>2, <5>4
        <5>6. h[T \ {x}] = g[T \ {x}]
          BY <5>2, <5>5
        <5> HIDE DEF h
        <5> QED BY <4>1, <4>3, <5>1, <5>6 DEF FoldStep
      <4> QED BY <4>2, <4>3
    <3> QED BY <3>1
  <2> HIDE DEF h, G, To
  <2> QED BY <2>4, <2>7, <2>8
<1>3. Cardinality(S) \in Nat
  BY FS_CardinalityType
<1>4. PICK g \in G : To(Cardinality(S), g)
  BY <1>2, <1>3
<1>5. \A T \in SUBSET S : g[T] = FoldStep(f, g, T)
  BY <1>1, <1>4
<1>6. g = [T \in SUBSET S |-> FoldStep(f, g, T)]
  BY <1>5
<1> QED
  BY <1>6 DEF SumsOver

(* What the fold computes is the entry of a table for the whole set. *)
LEMMA TotalIs ==
  ASSUME NEW f, IsFiniteSet(DOMAIN f), \A x \in DOMAIN f : f[x].free_sections \in Int
  PROVE  \E g : SumsOver(f, DOMAIN f, g) /\ Total(f) = g[DOMAIN f]
<1> DEFINE g == CHOOSE g : SumsOver(f, DOMAIN f, g)
<1>1. \E h : SumsOver(f, DOMAIN f, h)
  BY SumsExist
<1>2. SumsOver(f, DOMAIN f, g)
  BY <1>1
<1>3. Total(f) = g[DOMAIN f]
  BY DEF Total, MapThenSumSet, MapThenFoldSet, SumsOver, FoldStep, Pick
<1> HIDE DEF g
<1> QED
  BY <1>2, <1>3

(* Tables over sets of blocks that agree on a set's blocks agree on the    *)
(* set's sum.                                                              *)
LEMMA SumsAgree ==
  ASSUME NEW f, NEW S, NEW g, SumsOver(f, S, g), NEW e, NEW R, NEW h, SumsOver(e, R, h),
         NEW D, IsFiniteSet(D), D \subseteq S, D \subseteq R,
         \A x \in D : f[x].free_sections = e[x].free_sections
  PROVE  g[D] = h[D]
<1> DEFINE Bad == {k \in Nat : \E T \in SUBSET D : Cardinality(T) = k /\ g[T] # h[T]}
<1>1. \A T \in SUBSET D : IsFiniteSet(T) /\ Cardinality(T) \in Nat
  BY FS_Subset, FS_CardinalityType
<1>2. \A T \in SUBSET D : g[T] = FoldStep(f, g, T) /\ h[T] = FoldStep(e, h, T)
  <2>1. ASSUME NEW T \in SUBSET D PROVE g[T] = FoldStep(f, g, T)
    <3>1. T \in SUBSET S
      OBVIOUS
    <3> QED BY <3>1 DEF SumsOver
  <2>2. ASSUME NEW T \in SUBSET D PROVE h[T] = FoldStep(e, h, T)
    <3>1. T \in SUBSET R
      OBVIOUS
    <3> QED BY <3>1 DEF SumsOver
  <2> QED BY <2>1, <2>2
<1>3. Bad = {}
  <2>1. SUFFICES ASSUME Bad # {} PROVE FALSE
    OBVIOUS
  <2>2. PICK k : k = Least(Bad)
    OBVIOUS
  <2>3. k \in Bad /\ \A m \in Bad : k <= m
    <3>1. Bad \in SUBSET Nat
      OBVIOUS
    <3> HIDE DEF Bad
    <3> QED BY <2>1, <2>2, <3>1, LeastIs
  <2>4. PICK T \in SUBSET D : Cardinality(T) = k /\ g[T] # h[T]
    BY <2>3
  <2>5. T # {}
    BY <1>2, <2>4 DEF FoldStep
  <2>6. PICK x : x = Pick(T)
    OBVIOUS
  <2>7. x \in T /\ T \ {x} \in SUBSET D /\ x \in D
    BY <2>5, <2>6, PickIs
  <2>8. Cardinality(T \ {x}) = k - 1 /\ Cardinality(T \ {x}) \in Nat /\ k \in Nat
    BY <1>1, <2>3, <2>4, <2>7, FS_RemoveElement
  <2>9. g[T \ {x}] = h[T \ {x}]
    <3>1. SUFFICES ASSUME g[T \ {x}] # h[T \ {x}] PROVE FALSE
      OBVIOUS
    <3>2. k - 1 \in Bad
      BY <2>7, <2>8, <3>1
    <3> QED BY <2>3, <2>8, <3>2
  <2>10. /\ g[T] = f[x].free_sections + g[T \ {x}]
         /\ h[T] = e[x].free_sections + h[T \ {x}]
    BY <1>2, <2>5, <2>6 DEF FoldStep
  <2> QED
    BY <2>4, <2>7, <2>9, <2>10
<1>4. Cardinality(D) \in Nat /\ D \in SUBSET D
  BY <1>1
<1>5. Cardinality(D) \notin Bad
  BY <1>3
<1> QED
  BY <1>4, <1>5

(* The entries of a table are numbers. *)
LEMMA SumsTyped ==
  ASSUME NEW f, NEW S, NEW g, SumsOver(f, S, g), IsFiniteSet(S),
         \A x \in S : f[x].free_sections \in Int, NEW T \in SUBSET S
  PROVE  g[T] \in Int
<1>1. PICK h \in [SUBSET S -> Int] : SumsOver(f, S, h)
  BY SumsExist
<1>2. IsFiniteSet(T)
  BY FS_Subset
<1>3. g[T] = h[T]
  BY <1>1, <1>2, SumsAgree
<1> QED
  BY <1>1, <1>3

(* The blocks of a set may be taken out in any order. *)
LEMMA AnyOrder ==
  ASSUME NEW f, NEW S, NEW g, SumsOver(f, S, g), IsFiniteSet(S),
         \A x \in S : f[x].free_sections \in Int, NEW p \in S
  PROVE  g[S] = f[p].free_sections + g[S \ {p}]
<1> DEFINE Wrong(T) == \E x \in T : g[T] # f[x].free_sections + g[T \ {x}]
           Bad == {k \in Nat : \E T \in SUBSET S : Cardinality(T) = k /\ Wrong(T)}
<1>1. \A T \in SUBSET S : IsFiniteSet(T) /\ Cardinality(T) \in Nat
  BY FS_Subset, FS_CardinalityType
<1>2. \A T \in SUBSET S : g[T] = FoldStep(f, g, T) /\ g[T] \in Int
  <2>1. \A T \in SUBSET S : g[T] = FoldStep(f, g, T)
    BY DEF SumsOver
  <2> QED BY <2>1, SumsTyped
<1>3. Bad = {}
  <2>1. SUFFICES ASSUME Bad # {} PROVE FALSE
    OBVIOUS
  <2>2. PICK k : k = Least(Bad)
    OBVIOUS
  <2>3. k \in Bad /\ \A m \in Bad : k <= m
    <3>1. Bad \in SUBSET Nat
      OBVIOUS
    <3> HIDE DEF Bad
    <3> QED BY <2>1, <2>2, <3>1, LeastIs
  <2>4. PICK T \in SUBSET S : Cardinality(T) = k /\ Wrong(T)
    BY <2>3
  <2>5. PICK x \in T : g[T] # f[x].free_sections + g[T \ {x}]
    BY <2>4
  <2>6. PICK y : y = Pick(T)
    OBVIOUS
  <2>7. y \in T /\ g[T] = f[y].free_sections + g[T \ {y}]
    BY <1>2, <2>5, <2>6, PickIs DEF FoldStep
  <2>8. x # y
    BY <2>5, <2>7
  <2>9. /\ T \ {y} \in SUBSET S /\ T \ {x} \in SUBSET S /\ x \in T \ {y} /\ y \in T \ {x}
        /\ (T \ {y}) \ {x} = (T \ {x}) \ {y} /\ (T \ {x}) \ {y} \in SUBSET S
        /\ x \in S /\ y \in S
    BY <2>5, <2>7, <2>8
  <2>10. /\ Cardinality(T \ {y}) = k - 1 /\ Cardinality(T \ {x}) = k - 1
         /\ k - 1 \in Nat /\ k \in Nat
    <3>1. k \in Nat /\ k = Cardinality(T) /\ IsFiniteSet(T)
      BY <1>1, <2>4
    <3>2. Cardinality(T \ {y}) = k - 1 /\ Cardinality(T \ {x}) = k - 1
      BY <2>5, <2>7, <3>1, FS_RemoveElement
    <3>3. Cardinality(T \ {y}) \in Nat
      BY <1>1, <2>9
    <3> QED
      BY <3>1, <3>2, <3>3
  <2>11. k - 1 \notin Bad
    BY <2>3, <2>10
  <2>12. ~Wrong(T \ {y}) /\ ~Wrong(T \ {x})
    <3> HIDE DEF Wrong
    <3> QED BY <2>9, <2>10, <2>11
  <2>13. /\ g[T \ {y}] = f[x].free_sections + g[(T \ {y}) \ {x}]
         /\ g[T \ {x}] = f[y].free_sections + g[(T \ {x}) \ {y}]
    BY <2>9, <2>12
  <2>14. PICK a : a = g[(T \ {x}) \ {y}]
    OBVIOUS
  <2>15. a \in Int /\ f[x].free_sections \in Int /\ f[y].free_sections \in Int
    BY <1>2, <2>9, <2>14
  <2>16. /\ g[T] = f[y].free_sections + (f[x].free_sections + a)
         /\ g[T \ {x}] = f[y].free_sections + a
    BY <2>7, <2>9, <2>13, <2>14
  <2> QED
    BY <2>5, <2>15, <2>16
<1>4. Cardinality(S) \in Nat /\ S \in SUBSET S
  BY <1>1
<1>5. ~Wrong(S)
  <2> HIDE DEF Wrong
  <2> QED BY <1>3, <1>4
<1> QED
  BY <1>5

(* A block whose count changes changes the total as much. *)
LEMMA TotalChanged ==
  ASSUME NEW f, NEW e, DOMAIN e = DOMAIN f, IsFiniteSet(DOMAIN f), NEW p \in DOMAIN f,
         NEW d \in Int,
         \A x \in DOMAIN f : f[x].free_sections \in Int,
         e[p].free_sections = f[p].free_sections + d,
         \A x \in DOMAIN f : x # p => e[x].free_sections = f[x].free_sections
  PROVE  Total(e) = Total(f) + d
<1> DEFINE D == DOMAIN f
           R == D \ {p}
<1>1. \A x \in D : e[x].free_sections \in Int
  OBVIOUS
<1>2. PICK g : SumsOver(f, D, g) /\ Total(f) = g[D]
  BY TotalIs
<1>3. PICK h : SumsOver(e, D, h) /\ Total(e) = h[D]
  BY <1>1, TotalIs
<1>4. g[D] = f[p].free_sections + g[R] /\ h[D] = e[p].free_sections + h[R]
  <2>1. /\ SumsOver(f, D, g) /\ SumsOver(e, D, h) /\ IsFiniteSet(D) /\ p \in D
        /\ (\A x \in D : f[x].free_sections \in Int)
        /\ (\A x \in D : e[x].free_sections \in Int)
    BY <1>1, <1>2, <1>3
  <2>2. g[D] = f[p].free_sections + g[D \ {p}]
    BY ONLY <2>1, AnyOrder
  <2>3. h[D] = e[p].free_sections + h[D \ {p}]
    BY ONLY <2>1, AnyOrder
  <2> QED BY <2>2, <2>3
<1>5. IsFiniteSet(R) /\ R \subseteq D
  BY FS_Subset
<1>6. \A x \in R : f[x].free_sections = e[x].free_sections
  OBVIOUS
<1> HIDE DEF R
<1>7. g[R] = h[R] /\ g[R] \in Int
  <2>1. g[R] = h[R]
    BY <1>2, <1>3, <1>5, <1>6, SumsAgree
  <2>2. g[R] \in Int
    BY <1>2, <1>5, SumsTyped
  <2> QED BY <2>1, <2>2
<1>8. f[p].free_sections \in Int
  OBVIOUS
<1> QED
  BY <1>2, <1>3, <1>4, <1>7, <1>8

(* A new block adds its count. *)
LEMMA TotalExtended ==
  ASSUME NEW f, NEW e, NEW p, p \notin DOMAIN f, DOMAIN e = DOMAIN f \cup {p},
         IsFiniteSet(DOMAIN f), \A x \in DOMAIN f : f[x].free_sections \in Int,
         e[p].free_sections \in Int,
         \A x \in DOMAIN f : e[x].free_sections = f[x].free_sections
  PROVE  IsFiniteSet(DOMAIN e) /\ Total(e) = Total(f) + e[p].free_sections
<1> DEFINE D == DOMAIN f
           R == DOMAIN e
<1>1. IsFiniteSet(R) /\ D = R \ {p} /\ p \in R
  BY FS_AddElement
<1>2. \A x \in R : e[x].free_sections \in Int
  OBVIOUS
<1>3. PICK g : SumsOver(f, D, g) /\ Total(f) = g[D]
  BY TotalIs
<1>4. PICK h : SumsOver(e, R, h) /\ Total(e) = h[R]
  BY <1>1, <1>2, TotalIs
<1>5. h[R] = e[p].free_sections + h[D]
  <2>1. /\ SumsOver(e, R, h) /\ IsFiniteSet(R) /\ p \in R
        /\ (\A x \in R : e[x].free_sections \in Int)
    BY <1>1, <1>2, <1>4
  <2>2. h[R] = e[p].free_sections + h[R \ {p}]
    BY ONLY <2>1, AnyOrder
  <2> QED BY <1>1, <2>2
<1>6. g[D] = h[D] /\ g[D] \in Int
  <2>1. D \subseteq D /\ D \subseteq R /\ \A x \in D : f[x].free_sections = e[x].free_sections
    BY <1>1
  <2>2. g[D] = h[D]
    BY <1>3, <1>4, <2>1, SumsAgree
  <2>3. g[D] \in Int
    BY <1>3, SumsTyped
  <2> QED BY <2>2, <2>3
<1> QED
  BY <1>1, <1>3, <1>4, <1>5, <1>6

(* The total is a number. *)
LEMMA TotalTyped ==
  ASSUME NEW f, IsFiniteSet(DOMAIN f), \A x \in DOMAIN f : f[x].free_sections \in Int
  PROVE  Total(f) \in Int
<1>1. PICK g : SumsOver(f, DOMAIN f, g) /\ Total(f) = g[DOMAIN f]
  BY TotalIs
<1>2. g[DOMAIN f] \in Int
  BY <1>1, SumsTyped
<1> QED
  BY <1>1, <1>2

(* No block, no free section. *)
LEMMA TotalEmpty ==
  ASSUME NEW f, DOMAIN f = {}
  PROVE  IsFiniteSet(DOMAIN f) /\ Total(f) = 0
<1>1. IsFiniteSet(DOMAIN f)
  BY FS_EmptySet
<1>2. PICK g : SumsOver(f, DOMAIN f, g) /\ Total(f) = g[DOMAIN f]
  BY <1>1, TotalIs
<1> QED
  BY <1>1, <1>2 DEF SumsOver, FoldStep

-----------------------------------------------------------------------------
(* heap->total_free_sections                                               *)

(* The heap's count is the sum of the counts of its blocks. *)
Counted == IsFiniteSet(DOMAIN block) /\ total_free_sections = Total(block)

(* An allocation takes the same number of sections from the block's count  *)
(* and from the heap's.                                                    *)
LEMMA HitCounted ==
  ASSUME IInv, Counted, MallocHit
  PROVE  Counted'
<1>1. PICK p : p = list[call.cur]
  OBVIOUS
<1>2. PICK b : b = block[p]
  OBVIOUS
<1>3. PICK n : n = DIV_ROUND_UP(call.size, SectionSize)
  OBVIOUS
<1>4. PICK first : first = Least(section_starts(b, n))
  OBVIOUS
<1>5. /\ block' = [block EXCEPT ![p] =
                     [b EXCEPT !.used = @ \cup Run(first, n),
                               !.delimiters = @ \cup {first + n - 1},
                               !.free_sections = @ - n,
                               !.first_free_section = first + n]]
      /\ total_free_sections' = total_free_sections - n
      /\ call # NoCall /\ call.cur <= Len(list)
  BY <1>1, <1>2, <1>3, <1>4 DEF MallocHit, InMalloc
<1>6. call.size \in Nat \ {0} /\ call.cur \in Nat \ {0}
  BY <1>5 DEF IInv, CallOK, Calls
<1>7. p \in DOMAIN block /\ \A x \in DOMAIN block : block[x] \in Blocks
  <2>1. list \in Seq(DOMAIN block) /\ block \in [DOMAIN block -> Blocks]
    BY DEF IInv, HeapTypes
  <2>2. call.cur \in 1 .. Len(list)
    BY <1>5, <1>6, <2>1
  <2>3. p \in DOMAIN block
    BY <1>1, <2>1, <2>2
  <2> QED BY <2>1, <2>3
<1>8. n \in Nat
  <2>1. SectionSize \in Nat \ {0}
    BY Sizes
  <2> QED BY <1>3, <1>6, <2>1, RoundedUp
<1>9. \A x \in DOMAIN block : block[x].free_sections \in Int
  BY <1>7 DEF Blocks
<1>10. /\ DOMAIN block' = DOMAIN block
       /\ block'[p].free_sections = block[p].free_sections + (0 - n)
       /\ \A x \in DOMAIN block : x # p => block'[x].free_sections = block[x].free_sections
  <2>1. DOMAIN block' = DOMAIN block /\ \A x \in DOMAIN block : x # p => block'[x] = block[x]
    BY <1>5
  <2>2. block'[p].free_sections = b.free_sections - n
    BY <1>2, <1>5, <1>7 DEF Blocks
  <2> QED BY <1>2, <1>7, <1>8, <1>9, <2>1, <2>2
<1>11. Total(block') = Total(block) + (0 - n)
  <2>1. 0 - n \in Int
    BY <1>8
  <2> QED BY <1>7, <1>9, <1>10, <2>1, TotalChanged DEF Counted
<1>12. Total(block) \in Int
  BY <1>9, TotalTyped DEF Counted
<1> QED
  BY <1>5, <1>8, <1>10, <1>11, <1>12 DEF Counted

(* A free gives the same number back to both. *)
LEMMA FreeCounted ==
  ASSUME IInv, Counted, NEW a \in live, kheap_free(a)
  PROVE  Counted'
<1>1. PICK p : p = a.block
  OBVIOUS
<1>2. PICK from : from = SectionOf(p, a.addr)
  OBVIOUS
<1>3. PICK n : n = a.last - from + 1
  OBVIOUS
<1>4. PICK b : b = block[p]
  OBVIOUS
<1>5. PICK c : c = [b EXCEPT !.delimiters = @ \ {a.last}, !.used = @ \ (from .. a.last),
                             !.first_free_section = from, !.free_sections = @ + n]
  OBVIOUS
<1>6. block_of(a.addr) = p /\ Least(delimiters_from(p, a.addr)) = a.last
  BY <1>1, BlockFound, EndFound DEF IInv
<1>7. block' = [block EXCEPT ![p] = c] /\ total_free_sections' = total_free_sections + n
  <2>1. block_of(a.addr) = p /\ SectionOf(block_of(a.addr), a.addr) = from
        /\ Least(delimiters_from(block_of(a.addr), a.addr)) = a.last
        /\ Least(delimiters_from(block_of(a.addr), a.addr))
             - SectionOf(block_of(a.addr), a.addr) + 1 = n
    BY <1>2, <1>3, <1>6
  <2>2. block' = [block EXCEPT ![p] = c]
    BY <1>4, <1>5, <2>1 DEF kheap_free
  <2>3. total_free_sections' = total_free_sections + n
    BY <2>1 DEF kheap_free
  <2> QED
    BY <2>2, <2>3
<1>8. p \in DOMAIN block /\ a.first \in Nat /\ a.last \in Nat /\ from \in a.first .. a.last
  BY <1>1, <1>2, Located DEF IInv
<1>9. n \in Int
  BY <1>3, <1>8
<1>10. \A x \in DOMAIN block : block[x] \in Blocks /\ block[x].free_sections \in Int
  BY DEF IInv, HeapTypes, Blocks
<1>11. c.free_sections = b.free_sections + n
  BY <1>4, <1>5, <1>8, <1>10 DEF Blocks
<1>12. /\ DOMAIN block' = DOMAIN block
       /\ block'[p].free_sections = block[p].free_sections + n
       /\ \A x \in DOMAIN block : x # p => block'[x].free_sections = block[x].free_sections
  BY <1>4, <1>7, <1>8, <1>11
<1>13. Total(block') = Total(block) + n
  BY <1>8, <1>9, <1>10, <1>12, TotalChanged DEF Counted
<1> QED
  BY <1>7, <1>12, <1>13 DEF Counted

(* A new block brings its free sections. *)
LEMMA ExpandCounted ==
  ASSUME IInv, Counted, MallocExpand
  PROVE  Counted'
<1>1. call \in Calls
  BY DEF MallocExpand, InMalloc, IInv, CallOK
<1>2. PICK n : n = pages_required(ExpandSize)
  OBVIOUS
<1>3. PICK p : p = Least(asa_starts(n))
  OBVIOUS
<1>4. PICK b : b = kheap_add_block(n)
  OBVIOUS
<1>5. n \in Nat \ {0}
  BY <1>1, <1>2, ExpandSizePositive, PagesPositive
<1>6. /\ asa_starts(n) # {}
      /\ block' = [q \in DOMAIN block \cup {p} |-> IF q = p THEN b ELSE block[q]]
      /\ total_free_sections' = total_free_sections + b.free_sections
  BY <1>2, <1>3, <1>4 DEF MallocExpand
<1>7. p \notin DOMAIN block
  BY <1>5, <1>6, <1>3, RangeFree DEF IInv
<1>8. b \in Blocks
  BY <1>5, <1>4, NewBlock
<1>9. /\ \A x \in DOMAIN block : block[x].free_sections \in Int
      /\ b.free_sections \in Int
  BY <1>8 DEF IInv, HeapTypes, Blocks
<1>10. /\ DOMAIN block' = DOMAIN block \cup {p} /\ block'[p] = b
       /\ \A x \in DOMAIN block : block'[x].free_sections = block[x].free_sections
  BY <1>6, <1>7
<1>11. IsFiniteSet(DOMAIN block') /\ Total(block') = Total(block) + block'[p].free_sections
  BY <1>7, <1>9, <1>10, TotalExtended DEF Counted
<1> QED
  BY <1>6, <1>10, <1>11 DEF Counted


-----------------------------------------------------------------------------
(* Theorems                                                                *)

(* The inductive invariant holds of every state the heap reaches. *)
THEOREM KHeapInvariant == Spec => []IInv
  BY InitIInv, NextIInv, PTL DEF Spec

(* Allocations in use share no section with each other, with a header or   *)
(* with lost sections, and hold the bytes the caller was given, aligned as *)
(* asked for: what kheap_malloc's search and alignment are to guarantee.   *)
THEOREM KHeapAllocationsDisjoint == Spec => []AllocationsDisjoint
<1>1. IInv => AllocationsDisjoint
  BY DEF IInv, Placed, InSections, AllocationsDisjoint, LeakedIn
<1> QED
  BY <1>1, KHeapInvariant, PTL

(* The used bitset and the count of free sections of every block mark the  *)
(* header, the allocations in use and the lost sections, nothing else.     *)
THEOREM KHeapBlocksAccounted == Spec => []BlocksAccounted
<1>1. ASSUME IInv, NEW p \in DOMAIN block
      PROVE  block[p].used = 0 .. block[p].reserved - 1 \cup LiveSections(p) \cup LeakedIn(p)
  <2>1. block[p].used \subseteq Nat /\ block[p].reserved \in Nat /\ block[p].length \in Nat
    BY <1>1 DEF IInv, HeapTypes, Blocks
  <2>2. \A k \in Nat : k \in block[p].used <=> Occupied(p, k)
    BY <1>1 DEF IInv, Marked
  <2>3. \A k : k \in LiveSections(p) <=> \E a \in live : a.block = p /\ k \in Sections(a)
    BY DEF LiveSections, LiveIn
  <2>4. \A k : k \in LeakedIn(p) <=> <<p, k>> \in leaked
    <3>1. \A k : <<p, k>> \in leaked => k \in 0 .. block[p].length - 1
      <4>1. \A k : <<p, k>> \in leaked => k \in block[p].reserved .. block[p].length - 1
        BY <1>1 DEF IInv, Placed
      <4> QED BY <2>1, <4>1
    <3> QED BY <3>1 DEF LeakedIn
  <2>5. \A k : Occupied(p, k) => k \in Nat
    <3>1. \A a \in live : Sections(a) \subseteq Nat
      BY <1>1, Located DEF IInv, Sections
    <3> QED
      BY <2>1, <2>4, <3>1 DEF Occupied, LeakedIn
  <2>6. \A k : k \in block[p].used <=> Occupied(p, k)
    BY <2>1, <2>2, <2>5
  <2> QED
    BY <2>3, <2>4, <2>6 DEF Occupied
<1>2. IInv => BlocksAccounted
  BY <1>1 DEF IInv, Marked, BlocksAccounted
<1> QED
  BY <1>2, KHeapInvariant, PTL

(* kheap_free, given any allocation in use, finds its block, passes its    *)
(* two assertions and stops at the allocation's own delimiter.             *)
THEOREM KHeapFreeFindsEnd == Spec => []FreeFindsEnd
<1>1. IInv => FreeFindsEnd
  BY BlockFound, EndFound DEF IInv, FreeFindsEnd
<1> QED
  BY <1>1, KHeapInvariant, PTL

(* The mapped pages are the pages of the blocks, no two blocks share one,  *)
(* and the address space allocator has them all as taken, whatever         *)
(* kheap_expand had to roll back.                                          *)
THEOREM KHeapBlocksBacked == Spec => []BlocksBacked
<1>1. IInv => BlocksBacked
  BY DEF IInv, Backed, BlocksBacked
<1> QED
  BY <1>1, KHeapInvariant, PTL

(* The heap's count of free sections is the sum over its blocks, in every  *)
(* state the heap reaches.                                                 *)
THEOREM KHeapCounted == Spec => []Counted
<1>1. Init => Counted
  <2>1. Init => DOMAIN block = {} /\ total_free_sections = 0
    BY DEF Init
  <2> QED BY <2>1, TotalEmpty DEF Counted
<1>2. ASSUME IInv, Counted, [Next]_vars PROVE Counted'
  <2>1. ASSUME UNCHANGED <<block, total_free_sections>> PROVE Counted'
    BY <1>2, <2>1 DEF Counted
  <2>2. ASSUME NEW r \in Requests, Malloc(r) PROVE Counted'
    BY <2>1, <2>2 DEF Malloc
  <2>3. CASE MallocSkip
    BY <2>1, <2>3 DEF MallocSkip
  <2>4. CASE MallocHit
    BY <1>2, <2>4, HitCounted
  <2>5. CASE MallocExpand
    BY <1>2, <2>5, ExpandCounted
  <2>6. CASE MallocNoRange
    BY <2>1, <2>6 DEF MallocNoRange
  <2>7. CASE MallocNoFrame
    BY <2>1, <2>7 DEF MallocNoFrame
  <2>8. ASSUME NEW a \in live, kheap_free(a) PROVE Counted'
    BY <1>2, <2>8, FreeCounted
  <2>9. CASE UNCHANGED vars
    BY <2>1, <2>9 DEF vars
  <2> QED
    BY <1>2, <2>2, <2>3, <2>4, <2>5, <2>6, <2>7, <2>8, <2>9 DEF Next, MallocStep
<1>3. IInv /\ Counted /\ [Next]_vars => Counted'
  BY <1>2
<1> QED
  BY <1>1, <1>3, KHeapInvariant, PTL DEF Spec

(* The counts of free sections, of every block and of the heap, agree with *)
(* the used bitsets, and those mark what is in use and nothing else.       *)
THEOREM KHeapSectionsAccounted == Spec => []SectionsAccounted
<1>1. BlocksAccounted /\ Counted => SectionsAccounted
  <2>1. SectionsAccounted <=> BlocksAccounted /\ total_free_sections = Total(block)
    BY DEF SectionsAccounted, Total, MapThenSumSet, MapThenFoldSet
  <2> QED BY <2>1 DEF Counted
<1> QED
  BY <1>1, KHeapBlocksAccounted, KHeapCounted, PTL
=============================================================================
