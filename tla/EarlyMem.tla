------------------------------ MODULE EarlyMem ------------------------------
(***************************************************************************)
(* Memory during boot (arch/i386/mem.c and the boot part of                *)
(* arch/i386/paging.c): from what the boot loader reports, the kernel      *)
(* works out where its early heap lies, places its first tables there with *)
(* an allocator that only moves a position, and marks the frames that the  *)
(* frame allocator must never hand out.  The states this module ends in    *)
(* are the ones module Paging starts from.                                 *)
(*                                                                         *)
(* Addresses are numbers of small units; the sizes keep the proportions of *)
(* the code that matter (alignment < page, information structure squared   *)
(* > page).  A region is [start, size].                                    *)
(***************************************************************************)
EXTENDS Naturals, Sequences, FiniteSetsExt

CONSTANTS
  PageSize,       \* PAGE_SIZE
  Alignment,      \* the 8 bytes of i386_mem_kmalloc_real
  WordBits,       \* bits of a bitset word (32)
  WordSize,       \* sizeof(uint32_t)
  InfoSize,       \* sizeof(multiboot_info_t)
  EarlyHeapMax,   \* EARLY_HEAP_MAXSIZE
  KvirtReserved,  \* KVIRT_RESERVED
  AsaBitsetSize,  \* what asa_init asks for
  UpperStart,     \* 1 MiB: where the kernel and "upper" memory begin
  Wrap,           \* 2^32
  BootInfos       \* the boot loader's reports to consider

ASSUME UnitsAssumption ==
  /\ {PageSize, Alignment, WordBits, WordSize, InfoSize} \subseteq Nat \ {0}
  /\ {EarlyHeapMax, KvirtReserved, AsaBitsetSize, UpperStart} \subseteq Nat
  /\ PageSize % Alignment = 0
  /\ KvirtReserved % PageSize = 0
  /\ InfoSize * InfoSize >= PageSize

MEM_RESERVED == "reserved"
MEM_FREE == "free"
MEM_NONEXISTANT == "nonexistant"

Region(start, size) == [start |-> start, size |-> size]
Overlap(r, t) == r.start < t.start + t.size /\ t.start < r.start + r.size
Inside(r, t) == t.start <= r.start /\ r.start + r.size <= t.start + t.size

DIV_ROUND_UP(a, b) == (a - 1) \div b + 1

(* The first multiple of unit that is not below pos. *)
AlignUp(pos, unit) == IF pos % unit = 0 THEN pos ELSE pos - (pos % unit) + unit

(* What a multiboot loader promises: upper memory is available RAM without *)
(* holes, and the kernel is loaded into it, within the range that will be  *)
(* identity mapped.  Its own structure may lie anywhere.                   *)
ASSUME LoaderAssumption ==
  \A b \in BootInfos :
    /\ b.info \in Nat /\ b.mem_upper \in Nat /\ b.mem_upper >= PageSize
    /\ b.sections \in Seq([start : Nat, size : Nat]) /\ b.sections # <<>>
    /\ \A a \in UpperStart .. UpperStart + b.mem_upper - 1 :
         \E n \in DOMAIN b.mmap : /\ b.mmap[n].type = "available"
                                  /\ a \in b.mmap[n].addr .. b.mmap[n].addr + b.mmap[n].len - 1
    /\ \A n \in DOMAIN b.sections :
         Inside(b.sections[n], Region(UpperStart, KvirtReserved - UpperStart))

(* The early heap has room for the two bitsets, the page directory, the    *)
(* first page table and the page the placement allocator keeps in reserve: *)
(* the bitsets of a 32-bit address space have 0x20000 bytes each, and      *)
(* EARLY_HEAP_MAXSIZE is 0x50000.                                          *)
ASSUME RoomAssumption ==
  \A b \in BootInfos :
    LET bitset == DIV_ROUND_UP(b.mem_upper \div PageSize, WordBits) * WordSize
    IN  AlignUp(AlignUp(bitset, Alignment) + AsaBitsetSize, PageSize) + 3 * PageSize
          <= EarlyHeapMax

VARIABLES
  boot,     \* the report: complete, mmap, sections, info, mem_upper
  phase,    \* which function of the boot sequence runs next
  curpos,   \* meminfo.kernel_heap_curpos
  placed,   \* the early allocations made: name -> region
  used,     \* frames whose bit is set in i386_mem_frame_bitset
  i         \* frame counter of the loops

vars == <<boot, phase, curpos, placed, used, i>>

-----------------------------------------------------------------------------
(* What i386_mem_init derives from the report. *)

highest_free_address == boot.mem_upper
bitset_length == highest_free_address \div PageSize
bitset_size == DIV_ROUND_UP(bitset_length, WordBits) * WordSize

(* Only the addresses of the sections count, and the result is moved by    *)
(* its own offset in its page.                                             *)
kernel_reserved_start == boot.sections[1].start
kernel_reserved_end ==
  LET top == Max({boot.sections[n].start : n \in DOMAIN boot.sections} \cup {0})
  IN  top + (top % PageSize)

kernel_heap_start == ((kernel_reserved_end + PageSize) \div PageSize) * PageSize

(* Pointer arithmetic: sizeof(multiboot_info_t) structures are added. *)
multiboot_reserved_end == boot.info + InfoSize * InfoSize

entry_end(e) == (e.addr + e.len) % Wrap
mmap_check_reserved(addr) ==
  LET hits == {n \in DOMAIN boot.mmap :
                 boot.mmap[n].addr <= addr /\ addr <= entry_end(boot.mmap[n])}
      e == boot.mmap[Min(hits)]
  IN  IF hits = {} THEN MEM_NONEXISTANT
      ELSE IF e.type = "reserved" \/ addr + PageSize > entry_end(e) THEN MEM_RESERVED
      ELSE MEM_FREE

(* Mutant: only the page's first byte is looked at. *)
Touches_FirstByte(addr, first, last) == addr \in first .. last

(* A page that contains the whole range is not noticed; both ranges are at *)
(* least a page long.                                                      *)
Touches(addr, first, last) ==
  addr \in first .. last \/ addr + PageSize \in first .. last

i386_mem_check_reserved(addr) ==
  IF \/ addr + PageSize <= PageSize
     \/ Touches(addr, kernel_reserved_start, kernel_reserved_end)
     \/ Touches(addr, boot.info, multiboot_reserved_end)
  THEN MEM_RESERVED
  ELSE mmap_check_reserved(addr)

(* Mutant: the position is moved by the size alone, not past the region.   *)
i386_mem_kmalloc_real_NotMoved(pos, size, page_align) ==
  LET start == AlignUp(pos, IF page_align THEN PageSize ELSE Alignment)
  IN  IF size + pos + PageSize > kernel_heap_start + EarlyHeapMax
      THEN [start |-> 0, curpos |-> pos]
      ELSE [start |-> start, curpos |-> pos + size]

(* The placement allocator, for critical requests: where the region starts *)
(* (0 when the early heap cannot hold it) and the new position.  The bound *)
(* is tested before the position is aligned.                               *)
i386_mem_kmalloc_real(pos, size, page_align) ==
  LET start == AlignUp(pos, IF page_align THEN PageSize ELSE Alignment)
  IN  IF size + pos + PageSize > kernel_heap_start + EarlyHeapMax
      THEN [start |-> 0, curpos |-> pos]
      ELSE [start |-> start, curpos |-> start + size]

Place(name, a, size) ==
  /\ placed' = [x \in DOMAIN placed \cup {name} |->
                  IF x = name THEN Region(a.start, size) ELSE placed[x]]
  /\ curpos' = a.curpos

(* An allocation whose failure stops the kernel. *)
PlaceOrHalt(name, a, size, next) ==
  IF a.start = 0
  THEN phase' = "halted" /\ UNCHANGED <<placed, curpos>>
  ELSE phase' = next /\ Place(name, a, size)

-----------------------------------------------------------------------------
Init ==
  /\ boot \in BootInfos
  /\ phase = "mem_init"
  /\ curpos = 0
  /\ placed = <<>>
  /\ used = {}
  /\ i = 0

MemInitFail ==
  /\ phase = "mem_init" /\ ~boot.complete
  /\ phase' = "halted"
  /\ UNCHANGED <<boot, curpos, placed, used, i>>

(* i386_mem_init up to bitset_init; its result is used unchecked. *)
MemInit ==
  /\ phase = "mem_init" /\ boot.complete
  /\ LET a == i386_mem_kmalloc_real(kernel_heap_start, bitset_size, FALSE)
     IN  Place("frame_bitset", a, bitset_size)
  /\ phase' = "init_bitset"
  /\ UNCHANGED <<boot, used, i>>

(* The condition of the loop of _i386_mem_init_bitset.  It excludes the    *)
(* frame that ends at the highest free address.                            *)
LoopReaches(f) == f * PageSize + PageSize < highest_free_address

(* One turn of that loop. *)
MarkFrame ==
  /\ phase = "init_bitset" /\ LoopReaches(i)
  /\ used' = IF i386_mem_check_reserved(i * PageSize) = MEM_RESERVED THEN used \cup {i} ELSE used
  /\ i' = i + 1
  /\ UNCHANGED <<boot, phase, curpos, placed>>

(* asa_init, after the loop has ended; kernel_early asserts its success. *)
AsaInit ==
  /\ phase = "init_bitset" /\ ~LoopReaches(i)
  /\ PlaceOrHalt("asa_bitset", i386_mem_kmalloc_real(curpos, AsaBitsetSize, FALSE),
                 AsaBitsetSize, "mmu_data_init")
  /\ UNCHANGED <<boot, used, i>>

(* i386_mmu_data_init; i386_paging_init panics when it fails. *)
MmuDataInit ==
  /\ phase = "mmu_data_init"
  /\ PlaceOrHalt("page_directory", i386_mem_kmalloc_real(curpos, PageSize, TRUE),
                 PageSize, "identity_map")
  /\ i' = 0
  /\ UNCHANGED <<boot, used>>

(* One turn of the loop of i386_paging_init.  The first one allocates the  *)
(* page table (allocate_page_table); when that fails, the code returned by *)
(* i386_identity_map_page is not looked at and the next turn tries again.  *)
(* The bit is set after the table entry, and its index is asserted.        *)
IdentityMap ==
  /\ phase = "identity_map" /\ i * PageSize < KvirtReserved
  /\ LET a == i386_mem_kmalloc_real(curpos, PageSize, TRUE)
         missing == "page_table" \notin DOMAIN placed
         failed == missing /\ a.start = 0
     IN  /\ IF missing /\ ~failed THEN Place("page_table", a, PageSize)
            ELSE UNCHANGED <<placed, curpos>>
         /\ phase' = IF ~failed /\ i >= bitset_length THEN "halted" ELSE phase
         /\ used' = IF failed \/ i >= bitset_length THEN used ELSE used \cup {i}
  /\ i' = i + 1
  /\ UNCHANGED boot

highest_page == kernel_heap_start + EarlyHeapMax
WINDOW_PAGE == highest_page + PageSize

(* Mutant: the room for the window page is not asserted. *)
PagingEnable_Unasserted ==
  /\ phase = "identity_map" /\ i * PageSize >= KvirtReserved
  /\ phase' = "done"
  /\ UNCHANGED <<boot, curpos, placed, used, i>>

(* The rest of i386_paging_init. *)
PagingEnable ==
  /\ phase = "identity_map" /\ i * PageSize >= KvirtReserved
  /\ phase' = IF highest_page + PageSize <= KvirtReserved THEN "done" ELSE "halted"
  /\ UNCHANGED <<boot, curpos, placed, used, i>>

Finished == phase \in {"done", "halted"} /\ UNCHANGED vars

Next ==
  \/ MemInitFail \/ MemInit \/ MarkFrame \/ AsaInit
  \/ MmuDataInit \/ IdentityMap \/ PagingEnable \/ Finished

Spec == Init /\ [][Next]_vars

-----------------------------------------------------------------------------
Names == {"frame_bitset", "asa_bitset", "page_directory", "page_table"}

early_heap == Region(kernel_heap_start, EarlyHeapMax)

(* Whatever the alignments skip, the early tables lie in the early heap,   *)
(* apart from each other, and the paging structures are page aligned; the  *)
(* region that is recorded as free, from curpos on, is free.               *)
EarlyDataDisjoint ==
  \A x \in DOMAIN placed :
    /\ Inside(placed[x], early_heap)
    /\ placed[x].start + placed[x].size <= curpos
    /\ x \in {"page_directory", "page_table"} => placed[x].start % PageSize = 0
    /\ \A y \in DOMAIN placed \ {x} : ~Overlap(placed[x], placed[y])

(* What module Paging assumes of the state it starts in: frame 0 and every *)
(* page below KVIRT_RESERVED are marked, directory and first table exist   *)
(* (no failure of the placement allocator went unnoticed), in frames of    *)
(* that range, apart from WINDOW_PAGE.  It does not say that WINDOW_PAGE   *)
(* itself lies in that range: the assertion of i386_paging_init allows it  *)
(* to be the page at KVIRT_RESERVED, which is not identity mapped.         *)
BootEstablished == phase = "done" =>
  /\ DOMAIN placed = Names
  /\ 0 .. KvirtReserved \div PageSize - 1 \subseteq used
  /\ \A x \in Names : Inside(placed[x], Region(PageSize, KvirtReserved - PageSize))
  /\ \A x \in Names : ~Overlap(placed[x], Region(WINDOW_PAGE, PageSize))

(* The frames that i386_mem_get_next_free_frame may find. *)
FreeFrames == (0 .. (bitset_length \div WordBits) * WordBits - 1) \ used
Frame(f) == Region(f * PageSize, PageSize)

(* Every frame left free is RAM, to its last byte, although frames of no   *)
(* map entry, of other types than RESERVED and beyond an entry that ends   *)
(* at 2^32 are not marked by _i386_mem_init_bitset; and none holds a part  *)
(* of the kernel, of its early data or, but for the one frame the loop     *)
(* does not reach, of the loader's structure.                              *)
FreeFramesUsable == phase = "done" =>
  \A f \in FreeFrames :
    /\ \A a \in f * PageSize .. f * PageSize + PageSize - 1 :
         \E n \in DOMAIN boot.mmap :
           /\ boot.mmap[n].type = "available"
           /\ a \in boot.mmap[n].addr .. boot.mmap[n].addr + boot.mmap[n].len - 1
    /\ \A n \in DOMAIN boot.sections : ~Overlap(Frame(f), boot.sections[n])
    /\ \A x \in DOMAIN placed : ~Overlap(Frame(f), placed[x])
    /\ LoopReaches(f) => ~Overlap(Frame(f), Region(boot.info, InfoSize))

(* The early heap starts after the kernel: it overlaps none of the         *)
(* sections the loader put into memory.                                    *)
HeapAfterKernel == phase # "mem_init" =>
  \A n \in DOMAIN boot.sections : ~Overlap(boot.sections[n], early_heap)
=============================================================================
