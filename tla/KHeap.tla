-------------------------------- MODULE KHeap --------------------------------
(***************************************************************************)
(* The kernel heap (mm/heap.c): blocks of pages taken from the address     *)
(* space allocator and mapped one by one, each with a bitset of used       *)
(* sections and a bitset of delimiters behind its header.  kheap_malloc    *)
(* walks the list of blocks and expands the heap when no block will do,    *)
(* as often as it takes; kheap_free finds the end of an allocation by its  *)
(* delimiter.                                                              *)
(*                                                                         *)
(* Sizes and addresses are in bytes.  Requests are for at least one byte   *)
(* and small enough that no size wraps around.                             *)
(***************************************************************************)
EXTENDS Runs, FiniteSets, Sequences, FiniteSetsExt

CONSTANTS
  PageSize,        \* kpaging_data.page_size
  SectionSize,     \* SECTION_SIZE_DEFAULT
  HeaderSize,      \* sizeof(kheap_block_t)
  IntBits,         \* bits of a bitset word (32)
  IntSize,         \* bytes of a bitset word (4)
  MinBlockSize,    \* heap->min_block_size
  AsaLength,       \* pages the address space allocator knows
  ReservedPages,   \* the first of them it may hand out
  Requests         \* the calls of kmalloc: records of size and align

ASSUME HeapSizesAssumption ==
  /\ {PageSize, SectionSize, HeaderSize, IntBits, IntSize, MinBlockSize} \subseteq Nat \ {0}
  /\ PageSize % SectionSize = 0
  /\ AsaLength \in Nat /\ ReservedPages \in 1 .. AsaLength
ASSUME RequestsAssumption ==
  Requests \subseteq [size : Nat \ {0}, align : {0, PageSize}]

DIV_ROUND_UP(a, b) == (a - 1) \div b + 1

(* Size in memory of a bitset with a bit for every section of so many bytes. *)
bitset_size(bytes) == DIV_ROUND_UP(bytes, SectionSize * IntBits) * IntSize

NoCall == [size |-> 0]

VARIABLES
  block,      \* first page of a block -> its header and bitsets
  list,       \* the block list from heap->first on, as first pages
  total_free_sections,
  asa,        \* the set bits of the address space allocator
  mapped,     \* the pages that are mapped
  call,       \* the kheap_malloc being executed
  panicked,   \* it failed and its wrapper called PANIC
  live,       \* the allocations in use
  leaked      \* sections, as <<block, section>>, freed by no call

vars == <<block, list, total_free_sections, asa, mapped, call, panicked, live, leaked>>

Init ==
  /\ block = [p \in {} |-> {}] /\ list = <<>>
  /\ total_free_sections = 0
  /\ asa = 0 .. ReservedPages - 1
  /\ mapped = {}
  /\ call = NoCall
  /\ panicked = FALSE
  /\ live = {} /\ leaked = {}

-----------------------------------------------------------------------------
(* kheap_expand and kheap_add_block *)

(* The number of pages the loop at the start of kheap_expand settles on.   *)
(* From its second test on, the loop subtracts the bitsets of a block that *)
(* is one page smaller.  Past the end of the address space it may stop.    *)
pages_required(size) ==
  LET first == DIV_ROUND_UP(size, PageSize)
      bitsets(n) == 2 * bitset_size((IF n = first THEN n ELSE n - 1) * PageSize)
      Enough(n) == n * PageSize - HeaderSize - bitsets(n) >= size
  IN  Least({n \in first .. first + AsaLength : Enough(n) \/ n > AsaLength})

(* A new block of n pages.  The sections of header and bitsets are used.   *)
(* heap->effective_size is left out, which nothing reads, and so are the   *)
(* assertions on the block's address, section size and room for its        *)
(* bitsets: a page is the smallest block and far larger than both.         *)
kheap_add_block(n) ==
  LET bytes == n * PageSize
      length == DIV_ROUND_UP(bytes, SectionSize)
      reserved == DIV_ROUND_UP(HeaderSize + 2 * bitset_size(bytes), SectionSize)
  IN  [size |-> bytes, length |-> length, reserved |-> reserved,
       used |-> 0 .. reserved - 1, delimiters |-> {},
       free_sections |-> length - reserved, first_free_section |-> reserved]

(* asa_alloc's first fit and the bits asa_free clears (module Asa). *)
asa_starts(n) == RunStarts(asa, 0, AsaLength, n)
asa_cleared(start, n) == start .. n - 1

(* Mutant: the loop stops before the block's first page. *)
rolled_back_NotFirst(start, k) == Run(start + 1, k - 1)

(* The rollback of kheap_expand unmaps pages k-1 down to 0 of the block. *)
rolled_back(start, k) == Run(start, k)

ExpandSize == Max({MinBlockSize, call.size})

-----------------------------------------------------------------------------
(* kheap_malloc *)

(* Space the size test of kheap_malloc allows in a block. *)
max_free_space(b) == b.size - HeaderSize - 2 * (b.length \div IntBits) * IntSize

(* The first fit of the search is taken. *)
section_starts(b, n) == search(b.used, b.length, b.first_free_section, n)

Fits(b, size) ==
  LET n_sec == DIV_ROUND_UP(size, SectionSize)
  IN  /\ size <= max_free_space(b) /\ n_sec <= b.free_sections
      /\ section_starts(b, n_sec) # {}

(* Mutant: the request is not enlarged by its alignment. *)
Malloc_NotEnlarged(r) ==
  /\ call = NoCall /\ ~panicked
  /\ call' = [size |-> r.size, asked |-> r.size, align |-> r.align, cur |-> 1,
              expanded |-> FALSE]
  /\ UNCHANGED <<block, list, total_free_sections, asa, mapped, panicked, live, leaked>>

(* The wrapper passes the page size as alignment or none; a request for    *)
(* aligned memory is enlarged by the alignment.                            *)
Malloc(r) ==
  /\ call = NoCall /\ ~panicked
  /\ call' = [size |-> IF r.align \notin {0, SectionSize} THEN r.size + r.align ELSE r.size,
              asked |-> r.size, align |-> r.align, cur |-> 1, expanded |-> FALSE]
  /\ UNCHANGED <<block, list, total_free_sections, asa, mapped, panicked, live, leaked>>

InMalloc == call # NoCall /\ ~panicked

(* Mutant: the walk stays at the block that does not fit. *)
MallocSkip_Stays ==
  /\ InMalloc /\ call.cur <= Len(list)
  /\ ~Fits(block[list[call.cur]], call.size)
  /\ call' = [call EXCEPT !.expanded = FALSE]
  /\ UNCHANGED <<block, list, total_free_sections, asa, mapped, panicked, live, leaked>>

(* The current block is too small or its search finds nothing. *)
MallocSkip ==
  /\ InMalloc /\ call.cur <= Len(list)
  /\ ~Fits(block[list[call.cur]], call.size)
  /\ call' = [call EXCEPT !.cur = @ + 1, !.expanded = FALSE]
  /\ UNCHANGED <<block, list, total_free_sections, asa, mapped, panicked, live, leaked>>

RoundUp(a, align) == IF align = 0 \/ a % align = 0 THEN a ELSE a + align - (a % align)

(* The current block takes the allocation. *)
MallocHit ==
  /\ InMalloc /\ call.cur <= Len(list)
  /\ Fits(block[list[call.cur]], call.size)
  /\ LET p == list[call.cur]
         b == block[p]
         n_sec == DIV_ROUND_UP(call.size, SectionSize)
         first == Least(section_starts(b, n_sec))
         addr == RoundUp(p * PageSize + first * SectionSize, call.align)
     IN  /\ block' = [block EXCEPT ![p] =
                        [b EXCEPT !.used = @ \cup Run(first, n_sec),
                                  !.delimiters = @ \cup {first + n_sec - 1},
                                  !.free_sections = @ - n_sec,
                                  !.first_free_section = first + n_sec]]
         /\ total_free_sections' = total_free_sections - n_sec
         /\ live' = live \cup {[block |-> p, first |-> first, last |-> first + n_sec - 1,
                                addr |-> addr, size |-> call.asked, align |-> call.align]}
  /\ call' = NoCall
  /\ UNCHANGED <<list, asa, mapped, panicked, leaked>>

(* No block is left: a block of new pages becomes the first of the list    *)
(* and the walk starts again with it.                                      *)
MallocExpand ==
  /\ InMalloc /\ call.cur > Len(list)
  /\ LET n == pages_required(ExpandSize)
         p == Least(asa_starts(n))
         b == kheap_add_block(n)
     IN  /\ asa_starts(n) # {}
         /\ asa' = asa \cup Run(p, n)
         /\ mapped' = mapped \cup Run(p, n)
         /\ block' = [q \in DOMAIN block \cup {p} |-> IF q = p THEN b ELSE block[q]]
         /\ list' = <<p>> \o list
         /\ total_free_sections' = total_free_sections + b.free_sections
  /\ call' = [call EXCEPT !.cur = 1, !.expanded = TRUE]
  /\ UNCHANGED <<panicked, live, leaked>>

(* No address range is left, or kpage_allocate fails for the page after    *)
(* the first k.  kheap_malloc returns K_OOM and the wrapper panics.        *)
MallocNoRange ==
  /\ InMalloc /\ call.cur > Len(list)
  /\ asa_starts(pages_required(ExpandSize)) = {}
  /\ panicked' = TRUE
  /\ call' = NoCall
  /\ UNCHANGED <<block, list, total_free_sections, asa, mapped, live, leaked>>

MallocNoFrame ==
  /\ InMalloc /\ call.cur > Len(list)
  /\ LET n == pages_required(ExpandSize)
         p == Least(asa_starts(n))
     IN  /\ asa_starts(n) # {}
         /\ \E k \in 0 .. n - 1 :
              /\ asa' = (asa \cup Run(p, n)) \ asa_cleared(p, n)
              /\ mapped' = (mapped \cup Run(p, k)) \ rolled_back(p, k)
  /\ panicked' = TRUE
  /\ call' = NoCall
  /\ UNCHANGED <<block, list, total_free_sections, live, leaked>>

-----------------------------------------------------------------------------
(* kheap_free *)

(* The first block of the list whose bytes, but the first, include addr. *)
Holds(p, addr) == p * PageSize < addr /\ addr < p * PageSize + block[p].size
block_of(addr) ==
  list[Least({k \in DOMAIN list : Holds(list[k], addr)})]

SectionOf(p, addr) == (addr - p * PageSize) \div SectionSize

(* Delimiters at or after the section of addr; the first ends the allocation. *)
delimiters_from(p, addr) ==
  {k \in block[p].delimiters : k >= SectionOf(p, addr)}

(* The two assertions of kheap_free. *)
FreeAsserts(p, addr) ==
  /\ SectionOf(p, addr) \in block[p].used
  /\ delimiters_from(p, addr) \ {0} # {}

(* Mutant: the delimiter stays behind. *)
kheap_free_KeepsDelimiter(a) ==
  /\ call = NoCall /\ ~panicked /\ a \in live
  /\ LET p == block_of(a.addr)
         b == block[p]
         from == SectionOf(p, a.addr)
         last == Least(delimiters_from(p, a.addr))
         n == last - from + 1
     IN  /\ FreeAsserts(p, a.addr)
         /\ block' = [block EXCEPT ![p] =
                        [b EXCEPT !.used = @ \ (from .. last),
                                  !.first_free_section = from,
                                  !.free_sections = @ + n]]
         /\ total_free_sections' = total_free_sections + n
         /\ leaked' = leaked \cup ({a.block} \X (a.first .. from - 1))
  /\ live' = live \ {a}
  /\ UNCHANGED <<list, asa, mapped, call, panicked>>

(* Mutant: the sections freed are counted one short. *)
kheap_free_CountsShort(a) ==
  /\ call = NoCall /\ ~panicked /\ a \in live
  /\ LET p == block_of(a.addr)
         b == block[p]
         from == SectionOf(p, a.addr)
         last == Least(delimiters_from(p, a.addr))
         n == last - from
     IN  /\ FreeAsserts(p, a.addr)
         /\ block' = [block EXCEPT ![p] =
                        [b EXCEPT !.delimiters = @ \ {last},
                                  !.used = @ \ (from .. last),
                                  !.first_free_section = from,
                                  !.free_sections = @ + n]]
         /\ total_free_sections' = total_free_sections + n
         /\ leaked' = leaked \cup ({a.block} \X (a.first .. from - 1))
  /\ live' = live \ {a}
  /\ UNCHANGED <<list, asa, mapped, call, panicked>>

kheap_free(a) ==
  /\ call = NoCall /\ ~panicked /\ a \in live
  /\ LET p == block_of(a.addr)
         b == block[p]
         from == SectionOf(p, a.addr)
         last == Least(delimiters_from(p, a.addr))
         n == last - from + 1
     IN  /\ FreeAsserts(p, a.addr)
         /\ block' = [block EXCEPT ![p] =
                        [b EXCEPT !.delimiters = @ \ {last},
                                  !.used = @ \ (from .. last),
                                  !.first_free_section = from,
                                  !.free_sections = @ + n]]
         /\ total_free_sections' = total_free_sections + n
         /\ leaked' = leaked \cup ({a.block} \X (a.first .. from - 1))
  /\ live' = live \ {a}
  /\ UNCHANGED <<list, asa, mapped, call, panicked>>

MallocStep == MallocSkip \/ MallocHit \/ MallocExpand \/ MallocNoRange \/ MallocNoFrame

Next ==
  \/ \E r \in Requests : Malloc(r)
  \/ MallocStep
  \/ \E a \in live : kheap_free(a)

(* kheap_malloc runs to its end: nothing in it waits. *)
Spec == Init /\ [][Next]_vars /\ WF_vars(MallocStep)

-----------------------------------------------------------------------------
Sections(a) == a.first .. a.last
LiveIn(p) == {a \in live : a.block = p}
LiveSections(p) == UNION {Sections(a) : a \in LiveIn(p)}
LeakedIn(p) == {k \in 0 .. block[p].length - 1 : <<p, k>> \in leaked}

(* Allocations in use never share a section with each other, with a        *)
(* block's header and bitsets or with sections lost to a free, and the     *)
(* bytes the caller was given, aligned as asked for, lie in its sections.  *)
AllocationsDisjoint ==
  /\ \A a \in live :
       /\ Sections(a) \subseteq block[a.block].reserved .. block[a.block].length - 1
       /\ a.addr >= a.block * PageSize + a.first * SectionSize
       /\ a.addr + a.size <= a.block * PageSize + (a.last + 1) * SectionSize
       /\ a.align # 0 => a.addr % a.align = 0
       /\ Sections(a) \cap LeakedIn(a.block) = {}
  /\ \A a, b \in live : a # b /\ a.block = b.block => Sections(a) \cap Sections(b) = {}

(* The used bitset marks header, allocations in use and lost sections and  *)
(* nothing else, and the free counts of block and heap agree with it, so   *)
(* that the early test on free_sections never skips a block it should not. *)
BlocksAccounted ==
  \A p \in DOMAIN block :
    /\ block[p].used = 0 .. block[p].reserved - 1 \cup LiveSections(p) \cup LeakedIn(p)
    /\ block[p].free_sections = block[p].length - Cardinality(block[p].used)
SectionsAccounted ==
  /\ BlocksAccounted
  /\ total_free_sections =
       MapThenSumSet(LAMBDA p : block[p].free_sections, DOMAIN block)

(* Every allocation in use can be freed: kheap_free finds its block, its   *)
(* assertions hold, and the delimiter it meets first is the allocation's   *)
(* own, so that it releases nothing of a neighbour.                        *)
FreeFindsEnd == \A a \in live :
  /\ block_of(a.addr) = a.block
  /\ FreeAsserts(a.block, a.addr)
  /\ Least(delimiters_from(a.block, a.addr)) = a.last

(* The mapped pages are those of the blocks, blocks share no page, and     *)
(* every page of a block is taken in the address space allocator; an       *)
(* expansion that fails half way leaves no page mapped.                    *)
BlockPages(p) == Run(p, block[p].size \div PageSize)
BlocksBacked ==
  /\ mapped = UNION {BlockPages(p) : p \in DOMAIN block}
  /\ \A p, q \in DOMAIN block : p # q => BlockPages(p) \cap BlockPages(q) = {}
  /\ mapped \subseteq asa \ (0 .. ReservedPages - 1)

(* Every kheap_malloc ends, with memory or with the panic of its wrapper,  *)
(* however often it has to expand the heap.                                *)
MallocEnds == call # NoCall ~> call = NoCall

-----------------------------------------------------------------------------
(* What a comment of the code says and the code does not do.               *)

(* "Expand the heap to accommodate a block of the specified size": the     *)
(* block a successful kheap_expand adds holds the request it was for.      *)
ExpandAccommodates ==
  call # NoCall /\ call.cur = 1 /\ call.expanded => Fits(block[list[1]], call.size)
=============================================================================
