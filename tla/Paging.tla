------------------------------- MODULE Paging -------------------------------
(***************************************************************************)
(* The i386 paging code (arch/i386/paging.c) and the page-frame allocator  *)
(* under it (arch/i386/mem.c), at the level of the stores they make: a     *)
(* page directory and page tables that live in page frames, reached        *)
(* through one WINDOW_PAGE whose own page table entry is rewritten to      *)
(* point at the frame wanted next, and a TLB that keeps what invlpg does   *)
(* not remove.                                                             *)
(*                                                                         *)
(* A C function is an operator from a machine state (record s) and its     *)
(* arguments to the machine state after it and its result.  Addresses are  *)
(* page and frame numbers: every address these functions take is page      *)
(* aligned (they assert it).                                               *)
(***************************************************************************)
EXTENDS Naturals, FiniteSets

CONSTANTS
  Entries,         \* entries of a page table or directory (1024)
  FrameCount,      \* length of i386_mem_frame_bitset
  WordBits,        \* bits of one word of the bitset (32)
  ReservedPages,   \* KVIRT_RESERVED / PAGE_SIZE: pages identity mapped at boot
  WindowPage,      \* WINDOW_PAGE / PAGE_SIZE
  PageDirectory,   \* frame of the kernel's page directory (early heap)
  FirstTable,      \* frame of the table allocated during boot (early heap)
  ClientPages,     \* pages handed out by the address space allocator
  InitReserved     \* frames _i386_mem_init_bitset marked

Slots == 0 .. Entries - 1
Pages == 0 .. Entries * Entries - 1
Frames == 0 .. FrameCount - 1
NoRam == FrameCount          \* a physical address that no RAM answers

(* Mutant: the partial last word is scanned too. *)
ScannedFrames_RoundedUp == 0 .. (FrameCount \div WordBits + 1) * WordBits - 1

(* The frames i386_mem_get_next_free_frame looks at: those of the bitset   *)
(* words that lie completely below highest_free_address.                   *)
ScannedFrames == 0 .. (FrameCount \div WordBits) * WordBits - 1

ASSUME SizesAssumption ==
  /\ Entries \in Nat \ {0}
  /\ WordBits \in Nat \ {0}
  /\ FrameCount \in Nat
  /\ FrameCount < Entries * Entries
ASSUME ReservedAssumption ==
  /\ ReservedPages \in Nat
  /\ ReservedPages < Entries
  /\ ReservedPages < FrameCount
ASSUME EarlyHeapAssumption ==
  /\ PageDirectory \in 1 .. ReservedPages - 1
  /\ FirstTable \in 1 .. ReservedPages - 1
  /\ PageDirectory # FirstTable
(* The assertion at the end of i386_paging_init lets WINDOW_PAGE be the    *)
(* page after the last reserved one.                                       *)
ASSUME WindowAssumption ==
  /\ WindowPage \in 1 .. ReservedPages
  /\ WindowPage \notin {PageDirectory, FirstTable}
ASSUME ClientPagesAssumption == ClientPages \subseteq Pages \ (0 .. ReservedPages - 1)
ASSUME InitReservedAssumption == InitReserved \subseteq Frames /\ 0 \in InitReserved

K_SUCCESS == 0
K_OOM == 2
K_INVALOP == 6

(* A page table or directory entry: frame number and present flag.  Every  *)
(* caller passes PRESENT|RW, and PT_RW alone is the empty entry.           *)
Entry == [frame : 0 .. FrameCount, present : BOOLEAN]
NotPresent == [frame |-> 0, present |-> FALSE]
PresentAt(f) == [frame |-> f, present |-> TRUE]

EmptyTable == [i \in Slots |-> NotPresent]
(* What a frame holds that no table was cleared into: the 0xFF that        *)
(* kernel_main writes to its pages, read as present entries.               *)
Garbage == [i \in Slots |-> PresentAt(NoRam)]

(* Pages whose translation the TLB may hold back.  The other reserved      *)
(* pages are identity mapped for good.                                     *)
CachedPages == ClientPages \cup {WindowPage}

VARIABLES
  mem,               \* contents of every frame, read as a table
  tlb,               \* the cached translations (not present: not cached)
  used,              \* frames whose bit is set in i386_mem_frame_bitset
  early_init_done,   \* paging is on and WINDOW_PAGE in use
  halted,            \* an ASSERT failed or the page fault handler aborted
  boot_page,         \* the loop counter of i386_paging_init
  owned              \* pages the callers hold: allocated with K_SUCCESS, not freed

vars == <<mem, tlb, used, early_init_done, halted, boot_page, owned>>

machine == [mem |-> mem, tlb |-> tlb, used |-> used,
            early_init_done |-> early_init_done, halted |-> halted]

-----------------------------------------------------------------------------
(* The processor: address translation, loads and stores.                   *)

(* The entry that a page-table walk of page p ends at. *)
Walk(s, p) ==
  LET pde == s.mem[PageDirectory][p \div Entries]
  IN  IF pde.present THEN s.mem[pde.frame][p % Entries] ELSE NotPresent

Translate(s, p) ==
  IF ~s.early_init_done THEN PresentAt(p)
  ELSE IF p \in CachedPages /\ s.tlb[p].present THEN s.tlb[p]
  ELSE Walk(s, p)

(* The entry at index i of the page at virtual page p. *)
Load(s, p, i) == s.mem[Translate(s, p).frame][i]

(* An access leaves its translation in the TLB; one without a translation  *)
(* is a page fault, and __i386_page_fault_handler aborts.                  *)
Access(s, p) ==
  LET e == Translate(s, p)
  IN  [s EXCEPT !.tlb = IF s.early_init_done /\ p \in CachedPages
                        THEN [@ EXCEPT ![p] = e] ELSE @,
                !.halted = @ \/ ~e.present]

(* Replace the contents of the page at virtual page p. *)
Fill(s, p, contents) ==
  LET f == Translate(s, p).frame
  IN  [Access(s, p) EXCEPT !.mem = IF f = NoRam THEN @ ELSE [@ EXCEPT ![f] = contents]]

Store(s, p, i, entry) ==
  Fill(s, p, [s.mem[Translate(s, p).frame] EXCEPT ![i] = entry])

invlpg(s, p) ==
  [s EXCEPT !.tlb = IF p \in CachedPages THEN [@ EXCEPT ![p] = NotPresent] ELSE @]

-----------------------------------------------------------------------------
(* The frame bitset.  bitset_set_bit and bitset_clear_bit assert that the  *)
(* index is below the bitset's length.                                     *)

bitset_set_bit(s, f) ==
  [s EXCEPT !.used = IF f \in Frames THEN @ \cup {f} ELSE @,
            !.halted = @ \/ f \notin Frames]

bitset_clear_bit(s, f) ==
  [s EXCEPT !.used = @ \ {f}, !.halted = @ \/ f \notin Frames]

(* Mutant: the last full word is not scanned. *)
i386_mem_get_next_free_frame_ShortScan(s) ==
  LET free == (0 .. (FrameCount \div WordBits - 1) * WordBits - 1) \ s.used
  IN  IF free = {} THEN 0 ELSE CHOOSE f \in free : \A g \in free : f <= g

(* The first clear bit of the scanned words; 0 when there is none. *)
i386_mem_get_next_free_frame(s) ==
  LET free == ScannedFrames \ s.used
  IN  IF free = {} THEN 0 ELSE CHOOSE f \in free : \A g \in free : f <= g

(* Mutant: the bit of the frame found is not set. *)
marked_Unmarked(s, f) == [s |-> s, frame |-> f]

marked(s, f) == [s |-> IF f # 0 THEN bitset_set_bit(s, f) ELSE s, frame |-> f]

i386_mem_allocate_frame(s) == marked(s, i386_mem_get_next_free_frame(s))

-----------------------------------------------------------------------------
(* paging.c.  A function that goes on after a call is split there: the     *)
(* operator for the rest takes the result of the call as its parameter.    *)

(* Mutant: the old translation of the window is not invalidated. *)
get_virt_ptr_NoInvlpg(s, frame) ==
  IF ~s.early_init_done THEN [s |-> s, virt |-> frame]
  ELSE LET table == Load(s, PageDirectory, WindowPage \div Entries).frame
       IN  [s |-> Store(Access(s, PageDirectory), table, WindowPage % Entries, PresentAt(frame)),
            virt |-> WindowPage]

(* A virtual page through which the frame can be reached.  Before paging   *)
(* is on it is the frame itself, afterwards always WINDOW_PAGE: the entry  *)
(* of the window is written through the identity mapping of its table, and *)
(* the pointers handed out before now reach another frame.                 *)
get_virt_ptr(s, frame) ==
  IF ~s.early_init_done THEN [s |-> s, virt |-> frame]
  ELSE LET table == Load(s, PageDirectory, WindowPage \div Entries).frame
           moved == Store(Access(s, PageDirectory), table, WindowPage % Entries, PresentAt(frame))
       IN  [s |-> invlpg(moved, WindowPage), virt |-> WindowPage]

(* The page directory's pointer, after the entry has been read through it. *)
opened(pd) == [s |-> Access(pd.s, pd.virt), virt |-> pd.virt]
directory(s) == opened(get_virt_ptr(s, PageDirectory))

(* A frame for a page table, with every entry cleared.  During boot it is  *)
(* placed in the early heap; that kmalloc_ap may fail is in module         *)
(* EarlyMem, and its BootEstablished says that it did not.                 *)
cleared_table(w, frame) ==
  [s |-> Fill(w.s, w.virt, EmptyTable), ret |-> K_SUCCESS, phys |-> frame]
table_in_frame(a) ==
  IF a.frame = 0 THEN [s |-> a.s, ret |-> K_OOM, phys |-> 0]
  ELSE cleared_table(get_virt_ptr(a.s, a.frame), a.frame)
allocate_page_table(s) ==
  IF s.early_init_done THEN table_in_frame(i386_mem_allocate_frame(s))
  ELSE cleared_table([s |-> s, virt |-> FirstTable], FirstTable)

(* A pointer to the table that entry d of the directory names. *)
found(pt) == [s |-> pt.s, virt |-> pt.virt, ret |-> K_SUCCESS]
table_pointer(pd, d) ==
  found(get_virt_ptr(Access(pd.s, pd.virt), Load(pd.s, pd.virt, d).frame))

(* The directory with the new table entered. *)
entered(pd, d, phys) ==
  [s |-> Store(pd.s, pd.virt, d, PresentAt(phys)), virt |-> pd.virt]

(* Mutant: the directory's pointer is not obtained again after             *)
(* allocate_page_table has moved the window.                               *)
new_table_StalePointer(new, virt, d) ==
  IF new.ret # K_SUCCESS THEN [s |-> new.s, virt |-> virt, ret |-> new.ret]
  ELSE table_pointer(entered([s |-> new.s, virt |-> virt], d, new.phys), d)

new_table(new, virt, d) ==
  IF new.ret # K_SUCCESS THEN [s |-> new.s, virt |-> virt, ret |-> new.ret]
  ELSE table_pointer(entered(get_virt_ptr(new.s, PageDirectory), d, new.phys), d)

(* The part i386_allocate_page and i386_identity_map_page have in common:  *)
(* look the table up in the directory, allocate and enter it when it is    *)
(* missing, and leave a pointer to it in virt.                             *)
present_or_new(pd, d) ==
  IF Load(pd.s, pd.virt, d).present THEN table_pointer(pd, d)
  ELSE new_table(allocate_page_table(pd.s), pd.virt, d)
parent_table(s, d) == present_or_new(directory(s), d)

phys_in(pt, i) ==
  [s |-> Access(pt.s, pt.virt),
   phys |-> IF Load(pt.s, pt.virt, i).present THEN Load(pt.s, pt.virt, i).frame ELSE 0]

(* Mutant: the directory entry is not tested. *)
phys_under_NoDirCheck(pd, p) ==
  phys_in(get_virt_ptr(pd.s, Load(pd.s, PageDirectory, p \div Entries).frame), p % Entries)

(* The entry is tested through the window, and the table then looked up    *)
(* through the identity mapping of the directory.                          *)
phys_under(pd, p) ==
  IF ~Load(pd.s, pd.virt, p \div Entries).present THEN [s |-> pd.s, phys |-> 0]
  ELSE phys_in(get_virt_ptr(pd.s, Load(pd.s, PageDirectory, p \div Entries).frame), p % Entries)
i386_page_get_phys(s, p) == phys_under(directory(s), p)

(* Mutant: the frame is kept when there is none for the table. *)
map_page_KeepsFrame(t, frame, p) ==
  IF t.ret # K_SUCCESS THEN [s |-> t.s, ret |-> t.ret]
  ELSE [s |-> Store(t.s, t.virt, p % Entries, PresentAt(frame)), ret |-> K_SUCCESS]

map_page(t, frame, p) ==
  IF t.ret # K_SUCCESS THEN [s |-> bitset_clear_bit(t.s, frame), ret |-> t.ret]
  ELSE [s |-> Store(t.s, t.virt, p % Entries, PresentAt(frame)), ret |-> K_SUCCESS]
page_in_frame(a, p) ==
  IF a.frame = 0 THEN [s |-> a.s, ret |-> K_OOM]
  ELSE map_page(parent_table(a.s, p \div Entries), a.frame, p)
i386_allocate_page(s, p) == page_in_frame(i386_mem_allocate_frame(s), p)

(* Mutant: the freed page is not invalidated. *)
unmap_page_NoInvlpg(pt, p) ==
  bitset_clear_bit(Store(pt.s, pt.virt, p % Entries, NotPresent),
                   Load(pt.s, pt.virt, p % Entries).frame)

(* The present flag of the entry is not looked at. *)
unmap_page(pt, p) ==
  invlpg(bitset_clear_bit(Store(pt.s, pt.virt, p % Entries, NotPresent),
                          Load(pt.s, pt.virt, p % Entries).frame), p)
free_under(pd, p) ==
  IF ~Load(pd.s, pd.virt, p \div Entries).present THEN [s |-> pd.s, ret |-> K_INVALOP]
  ELSE [s |-> unmap_page(table_pointer(pd, p \div Entries), p), ret |-> K_SUCCESS]
i386_free_page(s, p) == free_under(directory(s), p)

(* The result is the page table entry made, or the code K_OOM taken for one. *)
identity_map(t, p) ==
  IF t.ret # K_SUCCESS THEN [s |-> t.s, ret |-> t.ret]
  ELSE [s |-> bitset_set_bit(Store(t.s, t.virt, p % Entries, PresentAt(p)), p),
        ret |-> K_SUCCESS]
i386_identity_map_page(s, p) == identity_map(parent_table(s, p \div Entries), p)

-----------------------------------------------------------------------------
Become(s) ==
  /\ mem' = s.mem
  /\ tlb' = s.tlb
  /\ used' = s.used
  /\ early_init_done' = s.early_init_done
  /\ halted' = s.halted

(* i386_mmu_data_init has allocated and cleared the page directory. *)
Init ==
  /\ mem = [f \in 0 .. FrameCount |-> IF f = PageDirectory THEN EmptyTable ELSE Garbage]
  /\ tlb = [p \in CachedPages |-> NotPresent]
  /\ used = InitReserved
  /\ early_init_done = FALSE
  /\ halted = FALSE
  /\ boot_page = 0
  /\ owned = {}

(* Mutant: the boot loop runs one page too far. *)
BootIdentityMap_OneMore ==
  /\ ~halted /\ ~early_init_done /\ boot_page <= ReservedPages
  /\ Become(i386_identity_map_page(machine, boot_page).s)
  /\ boot_page' = boot_page + 1
  /\ UNCHANGED owned

(* One turn of the loop of i386_paging_init. *)
BootIdentityMap ==
  /\ ~halted /\ boot_page < ReservedPages
  /\ Become(i386_identity_map_page(machine, boot_page).s)
  /\ boot_page' = boot_page + 1
  /\ UNCHANGED owned

(* The rest of i386_paging_init. *)
BootEnable ==
  /\ ~halted /\ boot_page = ReservedPages /\ ~early_init_done
  /\ early_init_done' = TRUE
  /\ UNCHANGED <<mem, tlb, used, halted, boot_page, owned>>

Running == early_init_done /\ ~halted

Returned(r, p) ==
  /\ Become(r.s)
  /\ owned' = IF r.ret = K_SUCCESS THEN owned \cup {p} ELSE owned

AllocatePage(p) ==
  /\ Running
  /\ Returned(i386_allocate_page(machine, p), p)
  /\ UNCHANGED boot_page

FreePage(p) ==
  /\ Running
  /\ Become(i386_free_page(machine, p).s)
  /\ owned' = owned \ {p}
  /\ UNCHANGED boot_page

GetPhys(p) ==
  /\ Running
  /\ Become(i386_page_get_phys(machine, p).s)
  /\ UNCHANGED <<boot_page, owned>>

(* kernel_main fills the page it was given with 0xFF. *)
ClientWrite(p) ==
  /\ Running /\ p \in owned
  /\ Become(Fill(machine, p, Garbage))
  /\ UNCHANGED <<boot_page, owned>>

Mapped(p) == Walk(machine, p).present

(* The processor may load a translation ahead of any access and drop one   *)
(* at any time.                                                            *)
TlbFill(p) ==
  /\ Running /\ ~tlb[p].present /\ Mapped(p)
  /\ tlb' = [tlb EXCEPT ![p] = Walk(machine, p)]
  /\ UNCHANGED <<mem, used, early_init_done, halted, boot_page, owned>>

TlbEvict(p) ==
  /\ Running /\ tlb[p].present
  /\ tlb' = [tlb EXCEPT ![p] = NotPresent]
  /\ UNCHANGED <<mem, used, early_init_done, halted, boot_page, owned>>

(* The kernel's callers: asa_alloc hands out a page once, so a page that is *)
(* held is not allocated again; kheap_expand frees only what it mapped.     *)
Next ==
  \/ BootIdentityMap
  \/ BootEnable
  \/ \E p \in ClientPages :
       \/ p \notin owned /\ AllocatePage(p)
       \/ p \in owned /\ FreePage(p)
       \/ GetPhys(p)
       \/ ClientWrite(p)
  \/ \E p \in CachedPages : TlbFill(p) \/ TlbEvict(p)

Spec == Init /\ [][Next]_vars

(* Callers that free a page whether or not they hold it, which             *)
(* i386_free_page documents an answer for.                                 *)
FreeAnyNext == Next \/ \E p \in ClientPages : FreePage(p)
FreeAnySpec == Init /\ [][FreeAnyNext]_vars

-----------------------------------------------------------------------------
TypeOK ==
  /\ mem \in [0 .. FrameCount -> [Slots -> Entry]]
  /\ tlb \in [CachedPages -> Entry]
  /\ used \in SUBSET Frames
  /\ early_init_done \in BOOLEAN
  /\ halted \in BOOLEAN
  /\ boot_page \in 0 .. ReservedPages
  /\ owned \in SUBSET ClientPages

(* The directory indices whose table was allocated after boot. *)
NewTables == {d \in Slots \ {0} : mem[PageDirectory][d].present}
TableFrame(d) == mem[PageDirectory][d].frame
PageFrame(p) == Walk(machine, p).frame

(* A page handed to a client is mapped, and never reaches a frame of the   *)
(* kernel's reserved memory (the page directory among them), the frame of  *)
(* a page table, or the frame of another client page.                      *)
FrameExclusive ==
  /\ \A p \in owned :
       /\ Mapped(p)
       /\ PageFrame(p) \in ReservedPages .. FrameCount - 1
       /\ \A q \in owned : PageFrame(q) = PageFrame(p) => p = q
       /\ \A d \in NewTables : PageFrame(p) # TableFrame(d)
  /\ \A d \in NewTables :
       /\ TableFrame(d) \in ReservedPages .. FrameCount - 1
       /\ \A e \in NewTables : TableFrame(d) = TableFrame(e) => d = e

(* The identity mapping made at boot survives every later operation: the   *)
(* kernel's code, its early heap, the page directory and the table that    *)
(* holds the window's entry stay where get_virt_ptr expects them.          *)
IdentityIntact == early_init_done =>
  \A p \in (0 .. ReservedPages - 1) \ {WindowPage} : Walk(machine, p) = PresentAt(p)

(* The TLB never holds a translation the page tables no longer have: every *)
(* entry that is rewritten or removed while it may be cached is            *)
(* invalidated before the function returns.                                *)
TlbCoherent ==
  \A p \in CachedPages : tlb[p].present => tlb[p] = Walk(machine, p)

(* No paging function faults on the window or on the identity mapping, and *)
(* no frame number taken from a table fails the assertion of the bitset.   *)
NeverHalts == ~halted

(* i386_page_get_phys, in whatever state window and TLB are, answers with  *)
(* what the processor would use, and 0 exactly for an unallocated page.    *)
GetPhysExact == Running =>
  \A p \in ClientPages :
    i386_page_get_phys(machine, p).phys = IF p \in owned THEN PageFrame(p) ELSE 0

(* i386_allocate_page of a page not held fails exactly when there are too  *)
(* few free frames for the page and, if it is missing, its table.          *)
OomExact == Running =>
  \A p \in ClientPages \ owned :
    LET needed == IF mem[PageDirectory][p \div Entries].present THEN 1 ELSE 2
    IN  i386_allocate_page(machine, p).ret = K_OOM
          <=> Cardinality(ScannedFrames \ used) < needed

(* Whatever is allocated, freed or looked up, a page that stays allocated  *)
(* keeps its frame, and its contents change only by a client's write.      *)
DataPreserved ==
  [][\A p \in owned \cap owned' :
       /\ PageFrame(p)' = PageFrame(p)
       /\ mem'[PageFrame(p)] \in {mem[PageFrame(p)], Garbage}]_vars

(* The frame bitset's first bit stays set, as the other reserved frames'   *)
(* do: frame 0 is the allocator's failure value and never a free frame.    *)
ZeroFrameReserved == early_init_done => 0 \in used

-----------------------------------------------------------------------------
(* The state of module PageMap that a state of this module stands for.     *)
Allocatable == ScannedFrames \ (InitReserved \cup 0 .. ReservedPages - 1)

Promise == INSTANCE PageMap WITH
  Pages <- ClientPages,
  Dirs <- Slots,
  BootDirs <- {0},
  DirOf <- [p \in ClientPages |-> p \div Entries],
  Frames <- Allocatable,
  NoFrame <- NoRam,
  map <- [p \in ClientPages |->
            IF early_init_done /\ Mapped(p) THEN PageFrame(p) ELSE NoRam],
  table <- [d \in Slots |-> IF d \in NewTables THEN TableFrame(d) ELSE NoRam],
  used <- used \cap Allocatable

(* Every step on page tables, window and TLB is a step of the promised map *)
(* from pages to frames, or invisible to it.                               *)
ImplementsPageMap == Promise!Spec
=============================================================================
