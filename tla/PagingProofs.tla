---------------------------- MODULE PagingProofs ----------------------------
(* Proofs about module Paging, for every size of tables and memory.        *)
EXTENDS Paging, TLAPS, WellFoundedInduction, FiniteSetTheorems

(* Directory index and table index of a page are indices of a table. *)
LEMMA DivModRange ==
  ASSUME NEW p \in Pages
  PROVE  p \div Entries \in Slots /\ p % Entries \in Slots
<1>1. p \in Nat /\ p < Entries * Entries /\ Entries \in Nat /\ Entries > 0
  BY SizesAssumption DEF Pages
<1>2. p % Entries \in Slots
  BY <1>1 DEF Slots
<1>3. p = Entries * (p \div Entries) + (p % Entries) /\ p \div Entries \in Nat
  BY <1>1
<1>4. ASSUME p \div Entries >= Entries PROVE FALSE
  <2> DEFINE q == p \div Entries
  <2>1. q \in Nat /\ q >= Entries /\ p >= Entries * q
    BY <1>1, <1>2, <1>3, <1>4 DEF Slots
  <2> HIDE DEF q
  <2>2. Entries * q >= Entries * Entries
    BY <1>1, <2>1
  <2> QED BY <1>1, <2>1, <2>2
<1> QED
  BY <1>2, <1>3, <1>4, <1>1 DEF Slots

(* A non-empty set of naturals has a least element, so the scan for a free *)
(* frame has a well-defined result.                                        *)
LEMMA LeastExists ==
  ASSUME NEW S \in SUBSET Nat, S # {}
  PROVE  \E m \in S : \A n \in S : m <= n
<1> DEFINE R == OpToRel(<, Nat)
<1>1. IsWellFoundedOn(R, Nat)
  BY NatLessThanWellFounded
<1>2. \A x, y \in Nat : x < y => <<x, y>> \in R
  BY DEF OpToRel
<1> HIDE DEF R
<1>3. PICK m \in S : \A n \in S : ~(<<n, m>> \in R)
  BY <1>1, WFMin
<1>4. ASSUME NEW n \in S PROVE m <= n
  <2>1. m \in Nat /\ n \in Nat
    OBVIOUS
  <2>2. ~(n < m)
    BY <1>2, <1>3, <2>1
  <2> QED
    BY <2>1, <2>2
<1> QED
  BY <1>4
-----------------------------------------------------------------------------
(* Types: every operator that models a function maps machine states to     *)
(* machine states.                                                         *)
Machine == [mem : [0 .. FrameCount -> [Slots -> Entry]],
            tlb : [CachedPages -> Entry],
            used : SUBSET Frames,
            early_init_done : BOOLEAN,
            halted : BOOLEAN]

(* A virtual page that may be accessed in state s: with paging off, a      *)
(* physical address.                                                       *)
Reachable(s, p) == p \in Pages /\ (s.early_init_done \/ p \in 0 .. FrameCount)

(* Frame numbers, the window page and the page directory are virtual pages. *)
LEMMA Ranges ==
  /\ 0 .. FrameCount \subseteq Pages
  /\ WindowPage \in 0 .. FrameCount /\ WindowPage \div Entries \in Slots
  /\ WindowPage % Entries \in Slots
  /\ PageDirectory \in 0 .. FrameCount
  /\ FirstTable \in 0 .. FrameCount
  /\ ClientPages \subseteq Pages /\ CachedPages \subseteq Pages
  /\ FrameCount \in Nat /\ Entries \in Nat /\ Entries * Entries \in Nat
<1> USE SizesAssumption, ReservedAssumption
<1>1. FrameCount \in Nat /\ Entries \in Nat /\ Entries * Entries \in Nat
  OBVIOUS
<1>2. 0 .. FrameCount \subseteq Pages
  BY <1>1 DEF Pages
<1>3. WindowPage \in 0 .. FrameCount
  BY WindowAssumption
<1>4. PageDirectory \in 0 .. FrameCount /\ FirstTable \in 0 .. FrameCount
  BY EarlyHeapAssumption
<1> QED
  BY <1>1, <1>2, <1>3, <1>4, ClientPagesAssumption, DivModRange DEF CachedPages

(* The entries and tables the code writes are well formed. *)
LEMMA EntryTypes ==
  /\ NotPresent \in Entry
  /\ \A f \in 0 .. FrameCount : PresentAt(f) \in Entry
  /\ EmptyTable \in [Slots -> Entry]
  /\ Garbage \in [Slots -> Entry]
  BY Ranges DEF NotPresent, PresentAt, EmptyTable, Garbage, Entry, NoRam

(* Translation of a reachable page yields an entry. *)
LEMMA TranslateType ==
  ASSUME NEW s \in Machine, NEW p, Reachable(s, p)
  PROVE  Translate(s, p) \in Entry /\ Walk(s, p) \in Entry
<1> USE Ranges, EntryTypes
<1>1. p \div Entries \in Slots /\ p % Entries \in Slots
  BY DivModRange DEF Reachable
<1>2. s.mem[PageDirectory][p \div Entries] \in Entry
  BY <1>1 DEF Machine
<1>3. s.mem[PageDirectory][p \div Entries].frame \in 0 .. FrameCount
  BY <1>2 DEF Entry
<1>4. Walk(s, p) \in Entry
  BY <1>1, <1>3 DEF Walk, Machine
<1>5. p \in CachedPages => s.tlb[p] \in Entry
  BY DEF Machine
<1>6. ~s.early_init_done => PresentAt(p) \in Entry
  BY DEF Reachable
<1> QED
  BY <1>4, <1>5, <1>6 DEF Translate

(* A load yields an entry. *)
LEMMA LoadType ==
  ASSUME NEW s \in Machine, NEW p, Reachable(s, p), NEW i \in Slots
  PROVE  Load(s, p, i) \in Entry
<1>1. Translate(s, p).frame \in 0 .. FrameCount
  BY TranslateType DEF Entry
<1> QED
  BY <1>1 DEF Load, Machine

(* An access changes the TLB and, on a fault, halts the machine. *)
LEMMA AccessType ==
  ASSUME NEW s \in Machine, NEW p, Reachable(s, p)
  PROVE  /\ Access(s, p) \in Machine
         /\ Access(s, p).early_init_done = s.early_init_done
         /\ Access(s, p).mem = s.mem
         /\ Access(s, p).used = s.used
<1>1. Translate(s, p) \in Entry
  BY TranslateType
<1>2. Translate(s, p).present \in BOOLEAN
  BY <1>1 DEF Entry
<1> QED
  BY <1>1, <1>2 DEF Access, Machine

(* Filling a page with a table changes memory only. *)
LEMMA FillType ==
  ASSUME NEW s \in Machine, NEW p, Reachable(s, p), NEW c \in [Slots -> Entry]
  PROVE  /\ Fill(s, p, c) \in Machine
         /\ Fill(s, p, c).early_init_done = s.early_init_done
         /\ Fill(s, p, c).used = s.used
<1> DEFINE f == Translate(s, p).frame
<1> DEFINE a == Access(s, p)
<1>1. f \in 0 .. FrameCount
  BY TranslateType DEF Entry
<1>2. /\ a \in Machine
      /\ a.early_init_done = s.early_init_done
      /\ a.used = s.used
  BY AccessType
<1> HIDE DEF a, f
<1> DEFINE m == IF f = NoRam THEN a.mem ELSE [a.mem EXCEPT ![f] = c]
<1>3. m \in [0 .. FrameCount -> [Slots -> Entry]]
  BY <1>1, <1>2 DEF Machine
<1> HIDE DEF m
<1>4. Fill(s, p, c) = [a EXCEPT !.mem = m]
  BY DEF Fill, a, f, m
<1> QED
  BY <1>2, <1>3, <1>4 DEF Machine

(* Storing one entry changes memory only. *)
LEMMA StoreType ==
  ASSUME NEW s \in Machine, NEW p, Reachable(s, p), NEW i \in Slots, NEW e \in Entry
  PROVE  /\ Store(s, p, i, e) \in Machine
         /\ Store(s, p, i, e).early_init_done = s.early_init_done
         /\ Store(s, p, i, e).used = s.used
<1>1. Translate(s, p).frame \in 0 .. FrameCount
  BY TranslateType DEF Entry
<1>2. [s.mem[Translate(s, p).frame] EXCEPT ![i] = e] \in [Slots -> Entry]
  BY <1>1 DEF Machine
<1> QED
  BY <1>2, FillType DEF Store

(* invlpg changes the TLB only. *)
LEMMA InvlpgType ==
  ASSUME NEW s \in Machine, NEW p
  PROVE  /\ invlpg(s, p) \in Machine
         /\ invlpg(s, p).early_init_done = s.early_init_done
         /\ invlpg(s, p).used = s.used
  BY EntryTypes DEF invlpg, Machine

(* The bitset operations change the bitset only, or halt the machine. *)
LEMMA BitsetType ==
  ASSUME NEW s \in Machine, NEW f
  PROVE  /\ bitset_set_bit(s, f) \in Machine
         /\ bitset_set_bit(s, f).early_init_done = s.early_init_done
         /\ bitset_clear_bit(s, f) \in Machine
         /\ bitset_clear_bit(s, f).early_init_done = s.early_init_done
  BY DEF bitset_set_bit, bitset_clear_bit, Machine
(* A frame that the allocator returns is the number of a frame of the      *)
(* bitset whose bit was clear, or 0.                                       *)
LEMMA NextFreeFrame ==
  ASSUME NEW s
  PROVE  \/ i386_mem_get_next_free_frame(s) = 0
         \/ i386_mem_get_next_free_frame(s) \in ScannedFrames \ s.used
<1> DEFINE free == ScannedFrames \ s.used
<1>1. free \in SUBSET Nat
  BY DEF ScannedFrames
<1>2. ASSUME free # {} PROVE (CHOOSE f \in free : \A g \in free : f <= g) \in free
  <2> HIDE DEF free
  <2> QED BY <1>1, <1>2, LeastExists
<1> QED
  BY <1>2 DEF i386_mem_get_next_free_frame

(* The scanned words hold no bit beyond the bitset's length. *)
LEMMA ScannedAreFrames == ScannedFrames \subseteq Frames
<1>1. WordBits \in Nat \ {0} /\ FrameCount \in Nat
  BY SizesAssumption
<1> DEFINE q == FrameCount \div WordBits
<1>2. q \in Nat /\ FrameCount = WordBits * q + (FrameCount % WordBits)
      /\ FrameCount % WordBits \in Nat
  BY <1>1
<1>3. q * WordBits \in Nat /\ q * WordBits <= FrameCount
  <2> HIDE DEF q
  <2>1. q * WordBits = WordBits * q /\ WordBits * q \in Nat
    BY <1>1, <1>2
  <2> QED BY <1>1, <1>2, <2>1
<1> QED
  BY <1>1, <1>3 DEF ScannedFrames, Frames

(* i386_mem_allocate_frame. *)
LEMMA AllocateFrameType ==
  ASSUME NEW s \in Machine
  PROVE  /\ i386_mem_allocate_frame(s).s \in Machine
         /\ i386_mem_allocate_frame(s).s.early_init_done = s.early_init_done
         /\ i386_mem_allocate_frame(s).frame \in 0 .. FrameCount
<1> DEFINE f == i386_mem_get_next_free_frame(s)
<1>1. f \in 0 .. FrameCount
  <2>1. f = 0 \/ f \in Frames
    BY NextFreeFrame, ScannedAreFrames
  <2> HIDE DEF f
  <2> QED
    BY <2>1, SizesAssumption DEF Frames
<1> QED
  BY <1>1, BitsetType DEF i386_mem_allocate_frame, marked

(* A pointer: a state and a virtual page that can be accessed in it. *)
IsPointer(r, on) ==
  /\ r.s \in Machine
  /\ r.s.early_init_done = on
  /\ r.virt \in 0 .. FrameCount
  /\ r.virt \in Pages

(* A pointer can be read and written through. *)
LEMMA PointerReachable ==
  ASSUME NEW r, NEW on, IsPointer(r, on)
  PROVE  r.s \in Machine /\ Reachable(r.s, r.virt)
  BY DEF IsPointer, Reachable

(* get_virt_ptr returns a pointer. *)
LEMMA GetVirtPtrType ==
  ASSUME NEW s \in Machine, NEW f \in 0 .. FrameCount
  PROVE  IsPointer(get_virt_ptr(s, f), s.early_init_done)
<1> USE Ranges
<1>1. CASE ~s.early_init_done
  BY <1>1 DEF get_virt_ptr, IsPointer
<1>2. CASE s.early_init_done
  <2> DEFINE a == Access(s, PageDirectory)
             t == Load(s, PageDirectory, WindowPage \div Entries).frame
             m == Store(a, t, WindowPage % Entries, PresentAt(f))
  <2>1. Reachable(s, PageDirectory)
    BY <1>2 DEF Reachable
  <2>2. a \in Machine /\ a.early_init_done = s.early_init_done
    BY <1>2, <2>1, AccessType
  <2>3. t \in 0 .. FrameCount
    BY <2>1, LoadType DEF Entry
  <2>4. Reachable(a, t)
    BY <1>2, <2>2, <2>3 DEF Reachable
  <2>5. m \in Machine /\ m.early_init_done = s.early_init_done
    <3> HIDE DEF a, t
    <3> QED BY <2>2, <2>4, StoreType, EntryTypes
  <2>6. /\ get_virt_ptr(s, f).s = invlpg(m, WindowPage)
        /\ get_virt_ptr(s, f).virt = WindowPage
    BY <1>2 DEF get_virt_ptr
  <2> HIDE DEF m
  <2>7. /\ invlpg(m, WindowPage) \in Machine
        /\ invlpg(m, WindowPage).early_init_done = s.early_init_done
    BY <2>5, InvlpgType
  <2> QED
    BY <2>6, <2>7 DEF IsPointer
<1> QED
  BY <1>1, <1>2

(* So does the look at the page directory. *)
LEMMA DirectoryType ==
  ASSUME NEW s \in Machine
  PROVE  IsPointer(directory(s), s.early_init_done)
<1> DEFINE pd == get_virt_ptr(s, PageDirectory)
<1>1. IsPointer(pd, s.early_init_done)
  BY GetVirtPtrType, Ranges
<1>2. directory(s).s = Access(pd.s, pd.virt) /\ directory(s).virt = pd.virt
  BY DEF directory, opened
<1> HIDE DEF pd
<1>3. Access(pd.s, pd.virt) \in Machine /\ Access(pd.s, pd.virt).early_init_done = pd.s.early_init_done
  BY <1>1, PointerReachable, AccessType
<1> QED
  BY <1>1, <1>2, <1>3 DEF IsPointer

(* A table is cleared through a pointer to it. *)
LEMMA ClearedTableType ==
  ASSUME NEW w, NEW on, IsPointer(w, on), NEW f \in 0 .. FrameCount
  PROVE  /\ cleared_table(w, f).s \in Machine
         /\ cleared_table(w, f).s.early_init_done = on
         /\ cleared_table(w, f).phys = f
<1>1. w.s \in Machine /\ Reachable(w.s, w.virt) /\ w.s.early_init_done = on
  BY PointerReachable DEF IsPointer
<1> QED
  BY <1>1, FillType, EntryTypes DEF cleared_table

(* allocate_page_table, before and after paging is on. *)
LEMMA AllocatePageTableType ==
  ASSUME NEW s \in Machine
  PROVE  /\ allocate_page_table(s).s \in Machine
         /\ allocate_page_table(s).s.early_init_done = s.early_init_done
         /\ allocate_page_table(s).phys \in 0 .. FrameCount
<1> USE Ranges
<1> DEFINE on == s.early_init_done
           a == i386_mem_allocate_frame(s)
           w == get_virt_ptr(a.s, a.frame)
           e == [s |-> s, virt |-> FirstTable]
<1>1. /\ a.s \in Machine
      /\ a.s.early_init_done = on
      /\ a.frame \in 0 .. FrameCount
  BY AllocateFrameType
<1>2. IsPointer(w, on)
  <2> HIDE DEF a
  <2> QED BY <1>1, GetVirtPtrType
<1>3. IsPointer(e, on)
  BY DEF IsPointer
<1>4. allocate_page_table(s) =
        IF on
        THEN IF a.frame = 0 THEN [s |-> a.s, ret |-> K_OOM, phys |-> 0]
             ELSE cleared_table(w, a.frame)
        ELSE cleared_table(e, FirstTable)
  BY DEF allocate_page_table, table_in_frame
<1> HIDE DEF a, w, e, on
<1>5. /\ cleared_table(w, a.frame).s \in Machine
      /\ cleared_table(w, a.frame).s.early_init_done = on
      /\ cleared_table(w, a.frame).phys = a.frame
  BY <1>1, <1>2, ClearedTableType
<1>6. /\ cleared_table(e, FirstTable).s \in Machine
      /\ cleared_table(e, FirstTable).s.early_init_done = on
      /\ cleared_table(e, FirstTable).phys = FirstTable
  BY <1>3, ClearedTableType
<1>7. /\ allocate_page_table(s).s \in Machine
      /\ allocate_page_table(s).s.early_init_done = on
      /\ allocate_page_table(s).phys \in 0 .. FrameCount
  BY <1>1, <1>4, <1>5, <1>6
<1> QED
  BY <1>7 DEF on

(* A pointer to the table a directory entry names. *)
LEMMA TablePointerType ==
  ASSUME NEW pd, NEW on, IsPointer(pd, on), NEW d \in Slots
  PROVE  IsPointer(table_pointer(pd, d), on)
<1> DEFINE a == Access(pd.s, pd.virt)
           f == Load(pd.s, pd.virt, d).frame
           pt == get_virt_ptr(a, f)
<1>1. pd.s \in Machine /\ Reachable(pd.s, pd.virt) /\ pd.s.early_init_done = on
  BY PointerReachable DEF IsPointer
<1>2. a \in Machine /\ a.early_init_done = on
  BY <1>1, AccessType
<1>3. f \in 0 .. FrameCount
  BY <1>1, LoadType DEF Entry
<1>4. table_pointer(pd, d).s = pt.s /\ table_pointer(pd, d).virt = pt.virt
  BY DEF table_pointer, found
<1> HIDE DEF a, f
<1>5. IsPointer(pt, on)
  BY <1>2, <1>3, GetVirtPtrType
<1> HIDE DEF pt
<1> QED
  BY <1>4, <1>5 DEF IsPointer

(* Entering a table leaves the directory's pointer usable. *)
LEMMA EnteredType ==
  ASSUME NEW pd, NEW on, IsPointer(pd, on), NEW d \in Slots, NEW f \in 0 .. FrameCount
  PROVE  IsPointer(entered(pd, d, f), on)
<1>1. pd.s \in Machine /\ Reachable(pd.s, pd.virt) /\ PresentAt(f) \in Entry
  BY PointerReachable, EntryTypes
<1>2. /\ Store(pd.s, pd.virt, d, PresentAt(f)) \in Machine
      /\ Store(pd.s, pd.virt, d, PresentAt(f)).early_init_done = pd.s.early_init_done
  BY <1>1, StoreType
<1> QED
  BY <1>2 DEF entered, IsPointer

(* A table newly allocated is entered and pointed at. *)
LEMMA NewTableType ==
  ASSUME NEW new, NEW on, NEW v \in 0 .. FrameCount, NEW d \in Slots,
         new.s \in Machine, new.s.early_init_done = on, new.phys \in 0 .. FrameCount
  PROVE  IsPointer(new_table(new, v, d), on)
<1> USE Ranges
<1> DEFINE pd == get_virt_ptr(new.s, PageDirectory)
           e == entered(pd, d, new.phys)
           t == table_pointer(e, d)
<1>1. IsPointer(pd, on)
  BY GetVirtPtrType
<1>2. new_table(new, v, d) =
        IF new.ret # K_SUCCESS THEN [s |-> new.s, virt |-> v, ret |-> new.ret] ELSE t
  BY DEF new_table
<1> HIDE DEF pd
<1>3. IsPointer(e, on)
  BY <1>1, EnteredType
<1> HIDE DEF e
<1>4. IsPointer(t, on)
  BY <1>3, TablePointerType
<1> HIDE DEF t
<1> QED
  BY <1>2, <1>4 DEF IsPointer

(* The table lookup common to the mapping functions. *)
LEMMA ParentTableType ==
  ASSUME NEW s \in Machine, NEW d \in Slots
  PROVE  IsPointer(parent_table(s, d), s.early_init_done)
<1> DEFINE on == s.early_init_done
           pd == directory(s)
           new == allocate_page_table(pd.s)
<1>1. IsPointer(pd, on)
  BY DirectoryType
<1>2. parent_table(s, d) = IF Load(pd.s, pd.virt, d).present THEN table_pointer(pd, d)
                           ELSE new_table(new, pd.virt, d)
  BY DEF parent_table, present_or_new
<1> HIDE DEF pd, on
<1>3. IsPointer(table_pointer(pd, d), on)
  BY <1>1, TablePointerType
<1>4. pd.s \in Machine /\ pd.s.early_init_done = on /\ pd.virt \in 0 .. FrameCount
  BY <1>1 DEF IsPointer
<1>5. new.s \in Machine /\ new.s.early_init_done = on /\ new.phys \in 0 .. FrameCount
  BY <1>4, AllocatePageTableType
<1> HIDE DEF new
<1>6. IsPointer(new_table(new, pd.virt, d), on)
  BY <1>4, <1>5, NewTableType
<1>7. IsPointer(parent_table(s, d), on)
  BY <1>2, <1>3, <1>6
<1> QED
  BY <1>7 DEF on

(* A page table entry is written through a pointer to its table. *)
LEMMA StoreThroughType ==
  ASSUME NEW t, NEW on, IsPointer(t, on), NEW i \in Slots, NEW e \in Entry
  PROVE  /\ Store(t.s, t.virt, i, e) \in Machine
         /\ Store(t.s, t.virt, i, e).early_init_done = on
<1>1. t.s \in Machine /\ Reachable(t.s, t.virt) /\ t.s.early_init_done = on
  BY PointerReachable DEF IsPointer
<1> QED
  BY <1>1, StoreType

(* i386_allocate_page leads from machine states to machine states. *)
LEMMA AllocatePageType ==
  ASSUME NEW s \in Machine, NEW p \in Pages
  PROVE  i386_allocate_page(s, p).s \in Machine
<1> DEFINE a == i386_mem_allocate_frame(s)
           t == parent_table(a.s, p \div Entries)
           c == bitset_clear_bit(t.s, a.frame)
           m == Store(t.s, t.virt, p % Entries, PresentAt(a.frame))
<1>1. p \div Entries \in Slots /\ p % Entries \in Slots
  BY DivModRange
<1>2. a.s \in Machine /\ a.frame \in 0 .. FrameCount
  BY AllocateFrameType
<1>3. i386_allocate_page(s, p).s =
        IF a.frame = 0 THEN a.s ELSE IF t.ret # K_SUCCESS THEN c ELSE m
  BY DEF i386_allocate_page, page_in_frame, map_page
<1> HIDE DEF a
<1>4. IsPointer(t, a.s.early_init_done)
  BY <1>1, <1>2, ParentTableType
<1> HIDE DEF t
<1>5. c \in Machine
  BY <1>4, BitsetType DEF IsPointer
<1>6. m \in Machine
  <2>1. PresentAt(a.frame) \in Entry
    BY <1>2, EntryTypes
  <2> QED
    BY <1>1, <1>4, <2>1, StoreThroughType
<1> HIDE DEF c, m
<1> QED
  BY <1>2, <1>3, <1>5, <1>6

(* i386_identity_map_page, used page by page at boot. *)
LEMMA IdentityMapPageType ==
  ASSUME NEW s \in Machine, NEW p \in 0 .. FrameCount
  PROVE  i386_identity_map_page(s, p).s \in Machine
<1> DEFINE t == parent_table(s, p \div Entries)
           m == Store(t.s, t.virt, p % Entries, PresentAt(p))
           b == bitset_set_bit(m, p)
<1>1. p \div Entries \in Slots /\ p % Entries \in Slots
  BY DivModRange, Ranges
<1>2. IsPointer(t, s.early_init_done)
  BY <1>1, ParentTableType
<1>3. i386_identity_map_page(s, p).s = IF t.ret # K_SUCCESS THEN t.s ELSE b
  BY DEF i386_identity_map_page, identity_map
<1> HIDE DEF t
<1>4. m \in Machine
  <2>1. PresentAt(p) \in Entry
    BY EntryTypes
  <2> QED
    BY <1>1, <1>2, <2>1, StoreThroughType
<1> HIDE DEF m
<1>5. b \in Machine
  BY <1>4, BitsetType
<1> HIDE DEF b
<1> QED
  BY <1>2, <1>3, <1>5 DEF IsPointer

(* i386_free_page. *)
LEMMA FreePageType ==
  ASSUME NEW s \in Machine, NEW p \in Pages
  PROVE  i386_free_page(s, p).s \in Machine
<1> DEFINE pd == directory(s)
           pt == table_pointer(pd, p \div Entries)
           frame == Load(pt.s, pt.virt, p % Entries).frame
           cleared == Store(pt.s, pt.virt, p % Entries, NotPresent)
           b == bitset_clear_bit(cleared, frame)
<1>1. p \div Entries \in Slots /\ p % Entries \in Slots
  BY DivModRange
<1>2. i386_free_page(s, p).s = IF ~Load(pd.s, pd.virt, p \div Entries).present
                               THEN pd.s ELSE invlpg(b, p)
  BY DEF i386_free_page, free_under, unmap_page
<1>3. IsPointer(pd, s.early_init_done)
  BY DirectoryType
<1> HIDE DEF pd
<1>4. IsPointer(pt, s.early_init_done)
  BY <1>1, <1>3, TablePointerType
<1> HIDE DEF pt
<1>5. cleared \in Machine
  BY <1>1, <1>4, StoreThroughType, EntryTypes
<1> HIDE DEF cleared, frame
<1>6. b \in Machine
  BY <1>5, BitsetType
<1> HIDE DEF b
<1> QED
  BY <1>2, <1>3, <1>6, InvlpgType DEF IsPointer

(* i386_page_get_phys. *)
LEMMA GetPhysType ==
  ASSUME NEW s \in Machine, NEW p \in Pages
  PROVE  i386_page_get_phys(s, p).s \in Machine
<1> USE Ranges
<1> DEFINE pd == directory(s)
           table == Load(pd.s, PageDirectory, p \div Entries).frame
           pt == get_virt_ptr(pd.s, table)
           last == Access(pt.s, pt.virt)
<1>1. p \div Entries \in Slots
  BY DivModRange
<1>2. i386_page_get_phys(s, p).s = IF ~Load(pd.s, pd.virt, p \div Entries).present
                                   THEN pd.s ELSE last
  BY DEF i386_page_get_phys, phys_under, phys_in
<1>3. pd.s \in Machine
  BY DirectoryType DEF IsPointer
<1> HIDE DEF pd
<1>4. table \in 0 .. FrameCount
  <2>1. Reachable(pd.s, PageDirectory)
    BY DEF Reachable
  <2> QED BY <1>1, <1>3, <2>1, LoadType DEF Entry
<1> HIDE DEF table
<1>5. IsPointer(pt, pd.s.early_init_done)
  BY <1>3, <1>4, GetVirtPtrType
<1> HIDE DEF pt
<1>6. last \in Machine
  BY <1>5, PointerReachable, AccessType
<1> HIDE DEF last
<1> QED
  BY <1>2, <1>3, <1>6

-----------------------------------------------------------------------------
(* A step that ends in a machine state keeps the machine's variables typed. *)
LEMMA BecomeType ==
  ASSUME NEW s \in Machine, Become(s)
  PROVE  /\ mem' \in [0 .. FrameCount -> [Slots -> Entry]]
         /\ tlb' \in [CachedPages -> Entry]
         /\ used' \in SUBSET Frames
         /\ early_init_done' \in BOOLEAN
         /\ halted' \in BOOLEAN
  BY DEF Become, Machine

(* The variables of a typed state form a machine state. *)
LEMMA MachineType == TypeOK => machine \in Machine
  BY DEF TypeOK, machine, Machine

(* The state after i386_mmu_data_init is typed. *)
LEMMA InitTypeOK == Init => TypeOK
<1> SUFFICES ASSUME Init PROVE TypeOK
  OBVIOUS
<1>1. mem \in [0 .. FrameCount -> [Slots -> Entry]]
  BY EntryTypes DEF Init
<1>2. tlb \in [CachedPages -> Entry]
  BY EntryTypes DEF Init
<1>3. used \in SUBSET Frames /\ owned \in SUBSET ClientPages
  BY InitReservedAssumption DEF Init
<1>4. boot_page \in 0 .. ReservedPages
  BY ReservedAssumption DEF Init
<1> QED
  BY <1>1, <1>2, <1>3, <1>4 DEF Init, TypeOK

(* Every action keeps the types. *)
LEMMA NextTypeOK ==
  ASSUME TypeOK, FreeAnyNext
  PROVE  TypeOK'
<1>1. machine \in Machine
  BY MachineType
<1>2. ClientPages \subseteq Pages /\ CachedPages \subseteq Pages
  BY Ranges
<1>3. CASE BootIdentityMap
  <2>1. boot_page \in 0 .. FrameCount /\ boot_page' \in 0 .. ReservedPages
    BY <1>3, ReservedAssumption, SizesAssumption DEF BootIdentityMap, TypeOK
  <2>2. i386_identity_map_page(machine, boot_page).s \in Machine
    BY <1>1, <2>1, IdentityMapPageType
  <2> QED
    BY <1>3, <2>1, <2>2, BecomeType DEF BootIdentityMap, TypeOK
<1>4. CASE BootEnable
  BY <1>4 DEF BootEnable, TypeOK
<1>5. ASSUME NEW p \in ClientPages, AllocatePage(p) PROVE TypeOK'
  <2>1. i386_allocate_page(machine, p).s \in Machine
    BY <1>1, <1>2, AllocatePageType
  <2>2. Become(i386_allocate_page(machine, p).s) /\ boot_page' = boot_page
    BY <1>5 DEF AllocatePage, Returned
  <2>3. owned' \in SUBSET ClientPages
    BY <1>5 DEF AllocatePage, Returned, TypeOK
  <2> QED
    BY <2>1, <2>2, <2>3, BecomeType DEF TypeOK
<1>6. ASSUME NEW p \in ClientPages, FreePage(p) PROVE TypeOK'
  <2>1. i386_free_page(machine, p).s \in Machine
    BY <1>1, <1>2, FreePageType
  <2> QED
    BY <1>6, <2>1, BecomeType DEF FreePage, TypeOK
<1>7. ASSUME NEW p \in ClientPages, GetPhys(p) PROVE TypeOK'
  <2>1. i386_page_get_phys(machine, p).s \in Machine
    BY <1>1, <1>2, GetPhysType
  <2> QED
    BY <1>7, <2>1, BecomeType DEF GetPhys, TypeOK
<1>8. ASSUME NEW p \in ClientPages, ClientWrite(p) PROVE TypeOK'
  <2>1. Reachable(machine, p)
    BY <1>2, <1>8 DEF ClientWrite, Running, Reachable, machine
  <2>2. Fill(machine, p, Garbage) \in Machine
    BY <1>1, <2>1, FillType, EntryTypes
  <2> QED
    BY <1>8, <2>2, BecomeType DEF ClientWrite, TypeOK
<1>9. ASSUME NEW p \in CachedPages, TlbFill(p) PROVE TypeOK'
  <2>1. Reachable(machine, p)
    BY <1>2, <1>9 DEF TlbFill, Running, Reachable, machine
  <2>2. Walk(machine, p) \in Entry
    BY <1>1, <2>1, TranslateType
  <2> QED
    BY <1>9, <2>2 DEF TlbFill, TypeOK
<1>10. ASSUME NEW p \in CachedPages, TlbEvict(p) PROVE TypeOK'
  BY <1>10, EntryTypes DEF TlbEvict, TypeOK
<1> QED
  BY <1>3, <1>4, <1>5, <1>6, <1>7, <1>8, <1>9, <1>10 DEF FreeAnyNext, Next

(* The state stays well typed whatever the callers free: no function       *)
(* stores a frame number beyond physical memory or sets a bit beyond the   *)
(* bitset's length.                                                        *)
THEOREM PagingTypeOK == FreeAnySpec => []TypeOK
<1>1. Init => TypeOK
  BY InitTypeOK
<1>2. TypeOK /\ [FreeAnyNext]_vars => TypeOK'
  <2> SUFFICES ASSUME TypeOK, [FreeAnyNext]_vars PROVE TypeOK'
    OBVIOUS
  <2>1. CASE FreeAnyNext
    BY <2>1, NextTypeOK
  <2>2. CASE UNCHANGED vars
    BY <2>2 DEF vars, TypeOK
  <2> QED
    BY <2>1, <2>2
<1> QED
  BY <1>1, <1>2, PTL DEF FreeAnySpec

-----------------------------------------------------------------------------
(* The scan's bound lies within the bitset. *)
LEMMA ScanWithinBitset == \A f \in ScannedFrames : f < FrameCount
<1>1. /\ FrameCount \in Nat /\ WordBits \in Nat /\ WordBits > 0
  BY SizesAssumption
<1>2. /\ FrameCount \div WordBits \in Nat
      /\ WordBits * (FrameCount \div WordBits) <= FrameCount
  BY <1>1
<1> QED
  BY <1>1, <1>2 DEF ScannedFrames

(* The constants under which Paging implements PageMap are such that the   *)
(* theorems about PageMap apply to it.                                     *)
THEOREM PromiseConstants == Promise!ConstantsAssumption
<1>1. [p \in ClientPages |-> p \div Entries] \in [ClientPages -> Slots]
  BY DivModRange, ClientPagesAssumption
<1>2. {0} \subseteq Slots
  BY SizesAssumption DEF Slots
<1>3. NoRam \notin Allocatable
  BY ScanWithinBitset, SizesAssumption DEF NoRam, Allocatable
<1> QED
  BY <1>1, <1>2, <1>3 DEF Promise!ConstantsAssumption

-----------------------------------------------------------------------------
(* The pages identity mapped at boot. *)
Reserved == 0 .. ReservedPages - 1

(* The one entry that get_virt_ptr rewrites. *)
WindowSlot(f, i) == f = FirstTable /\ i = WindowPage

(* Paging is on, and the first table and the identity mapping are where    *)
(* the boot put them.                                                      *)
Base(s) ==
  /\ s \in Machine /\ s.early_init_done /\ ~s.halted
  /\ s.mem[PageDirectory][0] = PresentAt(FirstTable)
  /\ \A p \in Reserved \ {WindowPage} : s.mem[FirstTable][p] = PresentAt(p)

(* The window reaches frame f, whether its translation is cached or not. *)
Window(s, f) ==
  /\ s.mem[FirstTable][WindowPage] = PresentAt(f)
  /\ s.tlb[WindowPage].present => s.tlb[WindowPage] = PresentAt(f)

(* States s and t differ in nothing but where the window points. *)
SameTlb(s, t) == \A p \in CachedPages \ {WindowPage} : t.tlb[p] = s.tlb[p]
SameMem(s, t) ==
  \A f \in 0 .. FrameCount, i \in Slots : ~WindowSlot(f, i) => t.mem[f][i] = s.mem[f][i]
SameElsewhere(s, t) == t.used = s.used /\ SameTlb(s, t) /\ SameMem(s, t)

(* The directory indices with a table allocated after boot. *)
TablesOf(s) == {d \in Slots \ {0} : s.mem[PageDirectory][d].present}

(* Every table allocated after boot has a frame of its own. *)
TablesOwn(s) ==
  \A d \in TablesOf(s) :
    /\ s.mem[PageDirectory][d].frame \in Allocatable \cap s.used
    /\ \A e \in TablesOf(s) :
         s.mem[PageDirectory][d].frame = s.mem[PageDirectory][e].frame => d = e

(* So has every page held, and no other client page is mapped. *)
PagesOwn(s, own) ==
  /\ \A p \in own :
       /\ Walk(s, p).present /\ Walk(s, p).frame \in Allocatable \cap s.used
       /\ \A q \in own : Walk(s, p).frame = Walk(s, q).frame => p = q
       /\ \A d \in TablesOf(s) : Walk(s, p).frame # s.mem[PageDirectory][d].frame
  /\ \A p \in ClientPages \ own : ~Walk(s, p).present

(* The TLB holds only what the page tables say. *)
Cached(s) == \A p \in CachedPages : s.tlb[p].present => s.tlb[p] = Walk(s, p)

(* A state in which paging is on and the callers hold the pages own. *)
Sound(s, own) ==
  /\ Base(s) /\ TablesOwn(s) /\ PagesOwn(s, own) /\ Cached(s)
  /\ InitReserved \cup Reserved \subseteq s.used
  /\ own \subseteq ClientPages

(* During boot: the pages below n are identity mapped. *)
Booting(s, n) ==
  /\ s \in Machine /\ ~s.early_init_done /\ ~s.halted
  /\ \A d \in Slots \ {0} : ~s.mem[PageDirectory][d].present
  /\ n = 0 => ~s.mem[PageDirectory][0].present
  /\ n > 0 => s.mem[PageDirectory][0] = PresentAt(FirstTable)
  /\ n > 0 => \A i \in Slots :
       s.mem[FirstTable][i] = IF i < n THEN PresentAt(i) ELSE NotPresent
  /\ \A p \in CachedPages : ~s.tlb[p].present
  /\ s.used = InitReserved \cup 0 .. n - 1

(* The inductive invariant. *)
IInv ==
  /\ TypeOK
  /\ early_init_done => boot_page = ReservedPages /\ Sound(machine, owned)
  /\ ~early_init_done => Booting(machine, boot_page) /\ owned = {}

-----------------------------------------------------------------------------
(* Where the reserved pages lie: in the first table, below the frames that *)
(* may be allocated, and outside what the TLB is modelled for.             *)
LEMMA Places ==
  /\ FrameCount \in Nat /\ Entries \in Nat /\ Entries > 0 /\ ReservedPages \in Nat
  /\ 0 \in Slots /\ WindowPage \in Slots
  /\ WindowPage \div Entries = 0 /\ WindowPage % Entries = WindowPage
  /\ Reserved \subseteq Slots /\ Reserved \subseteq Frames
  /\ \A p \in Reserved : p \div Entries = 0 /\ p % Entries = p
  /\ PageDirectory \in Reserved \ {WindowPage} /\ FirstTable \in Reserved \ {WindowPage}
  /\ PageDirectory # FirstTable /\ 0 \in Reserved
  /\ \A p \in Reserved \ {WindowPage} : p \notin CachedPages
  /\ WindowPage \in CachedPages
  /\ Frames \subseteq 0 .. FrameCount /\ NoRam \notin Frames /\ NoRam \in 0 .. FrameCount
<1> USE SizesAssumption, ReservedAssumption
<1>1. /\ FrameCount \in Nat /\ Entries \in Nat /\ Entries > 0 /\ ReservedPages \in Nat
      /\ ReservedPages < Entries /\ ReservedPages < FrameCount
  OBVIOUS
<1>2. \A n \in Nat : n < Entries => n \div Entries = 0 /\ n % Entries = n
  BY <1>1
<1>3. WindowPage \in Nat /\ WindowPage < Entries
  BY <1>1, WindowAssumption
<1>4. 0 \in Slots /\ WindowPage \in Slots /\ Reserved \subseteq Slots /\ Reserved \subseteq Frames
  BY <1>1, <1>3 DEF Slots, Reserved, Frames
<1>5. \A p \in Reserved : p \in Nat /\ p < Entries
  BY <1>1 DEF Reserved
<1>6. /\ PageDirectory \in Reserved \ {WindowPage} /\ FirstTable \in Reserved \ {WindowPage}
      /\ PageDirectory # FirstTable /\ 0 \in Reserved
  BY <1>1, EarlyHeapAssumption, WindowAssumption DEF Reserved
<1>7. \A p \in Reserved \ {WindowPage} : p \notin CachedPages
  BY ClientPagesAssumption DEF Reserved, CachedPages
<1>8. Frames \subseteq 0 .. FrameCount /\ NoRam \notin Frames /\ NoRam \in 0 .. FrameCount
  BY <1>1 DEF Frames, NoRam
<1> QED
  BY <1>1, <1>2, <1>3, <1>4, <1>5, <1>6, <1>7, <1>8 DEF CachedPages

(* An access with a translation changes the cached translation only. *)
LEMMA AccessIs ==
  ASSUME NEW s \in Machine, NEW p, NEW f, Translate(s, p) = PresentAt(f)
  PROVE  /\ Access(s, p).mem = s.mem /\ Access(s, p).used = s.used
         /\ Access(s, p).early_init_done = s.early_init_done
         /\ Access(s, p).halted = s.halted
         /\ Access(s, p).tlb = IF s.early_init_done /\ p \in CachedPages
                               THEN [s.tlb EXCEPT ![p] = PresentAt(f)] ELSE s.tlb
         /\ s.early_init_done /\ p \in CachedPages =>
              Access(s, p).tlb = [s.tlb EXCEPT ![p] = PresentAt(f)]
<1>1. Translate(s, p).present = TRUE
  BY DEF PresentAt
<1>2. s.halted \in BOOLEAN
  BY DEF Machine
<1>3. Access(s, p) = [s EXCEPT !.tlb = IF s.early_init_done /\ p \in CachedPages
                                       THEN [s.tlb EXCEPT ![p] = PresentAt(f)] ELSE s.tlb,
                               !.halted = s.halted \/ ~TRUE]
  BY <1>1 DEF Access
<1> QED
  BY <1>2, <1>3 DEF Machine

(* Filling a page that translates to a frame replaces the frame ... *)
LEMMA FillMem ==
  ASSUME NEW s \in Machine, NEW p, NEW f \in Frames, NEW c, Translate(s, p) = PresentAt(f)
  PROVE  Fill(s, p, c).mem = [s.mem EXCEPT ![f] = c]
<1> DEFINE a == Access(s, p)
<1>1. a.mem = s.mem
  BY AccessIs
<1>2. Translate(s, p).frame = f /\ f # NoRam
  BY Places DEF PresentAt
<1>3. Fill(s, p, c) = [a EXCEPT !.mem = [a.mem EXCEPT ![f] = c]]
  BY <1>2 DEF Fill
<1>4. DOMAIN a = {"mem", "tlb", "used", "early_init_done", "halted"}
  BY DEF Access, Machine
<1> HIDE DEF a
<1> QED
  BY <1>1, <1>3, <1>4

(* ... and is an access. *)
LEMMA FillRest ==
  ASSUME NEW s \in Machine, NEW p, NEW c
  PROVE  /\ Fill(s, p, c).used = Access(s, p).used
         /\ Fill(s, p, c).early_init_done = Access(s, p).early_init_done
         /\ Fill(s, p, c).halted = Access(s, p).halted
         /\ Fill(s, p, c).tlb = Access(s, p).tlb
<1> DEFINE a == Access(s, p)
           m == IF Translate(s, p).frame = NoRam THEN a.mem
                ELSE [a.mem EXCEPT ![Translate(s, p).frame] = c]
<1>1. Fill(s, p, c) = [a EXCEPT !.mem = m]
  BY DEF Fill
<1>2. DOMAIN a = {"mem", "tlb", "used", "early_init_done", "halted"}
  BY DEF Access, Machine
<1> HIDE DEF a, m
<1>3. /\ Fill(s, p, c).used = a.used
      /\ Fill(s, p, c).early_init_done = a.early_init_done
      /\ Fill(s, p, c).halted = a.halted
      /\ Fill(s, p, c).tlb = a.tlb
  BY <1>1, <1>2
<1> QED
  BY <1>3 DEF a

(* Through the identity mapping a reserved page is its own frame, and an   *)
(* access to it leaves the state as it is.                                 *)
LEMMA ReservedPage ==
  ASSUME NEW s, Base(s), NEW p \in Reserved \ {WindowPage}
  PROVE  /\ Walk(s, p) = PresentAt(p) /\ Translate(s, p) = PresentAt(p)
         /\ Access(s, p) = s
         /\ \A i \in Slots : Load(s, p, i) = s.mem[p][i]
<1> USE Places
<1>1. Walk(s, p) = PresentAt(p)
  BY DEF Base, Walk, PresentAt
<1>2. Translate(s, p) = PresentAt(p)
  BY <1>1 DEF Base, Translate
<1>3. s \in Machine /\ p \notin CachedPages /\ s.early_init_done
  BY DEF Base
<1>4. Access(s, p) = s
  <2>1. Access(s, p) = [s EXCEPT !.tlb = s.tlb, !.halted = s.halted \/ ~TRUE]
    BY <1>2, <1>3 DEF Access, PresentAt
  <2> QED
    BY <1>3, <2>1, ZenonT(30) DEF Machine
<1> QED
  BY <1>1, <1>2, <1>4 DEF Load, PresentAt

(* What a state keeps when its memory, apart from the first table and the  *)
(* directory's first entry, and its TLB change.                            *)
LEMMA StillBase ==
  ASSUME NEW s, Base(s), NEW t \in Machine,
         t.early_init_done = s.early_init_done, t.halted = s.halted,
         t.mem[PageDirectory][0] = s.mem[PageDirectory][0],
         \A p \in Reserved \ {WindowPage} : t.mem[FirstTable][p] = s.mem[FirstTable][p]
  PROVE  Base(t)
  BY DEF Base

(* SameElsewhere is reflexive and transitive. *)
LEMMA SameElsewhereSelf == \A s : SameElsewhere(s, s)
  BY DEF SameElsewhere, SameTlb, SameMem

(* Two moves of the window are one. *)
LEMMA SameElsewhereTrans ==
  ASSUME NEW s, NEW t, NEW u, SameElsewhere(s, t), SameElsewhere(t, u)
  PROVE  SameElsewhere(s, u)
  BY DEF SameElsewhere, SameTlb, SameMem

(* get_virt_ptr rewrites the window's entry and drops its cached           *)
(* translation; nothing else changes and nothing faults.                   *)
LEMMA MoveWindow ==
  ASSUME NEW s, Base(s), NEW f \in 0 .. FrameCount
  PROVE  /\ get_virt_ptr(s, f).virt = WindowPage
         /\ Base(get_virt_ptr(s, f).s)
         /\ Window(get_virt_ptr(s, f).s, f)
         /\ SameElsewhere(s, get_virt_ptr(s, f).s)
<1> USE Places
<1> DEFINE r == get_virt_ptr(s, f)
           c == [s.mem[FirstTable] EXCEPT ![WindowPage] = PresentAt(f)]
           m == Fill(s, FirstTable, c)
<1>1. s \in Machine /\ s.early_init_done /\ PresentAt(f) \in Entry
  BY EntryTypes DEF Base
<1>2. Access(s, PageDirectory) = s
  BY ReservedPage
<1>3. Load(s, PageDirectory, WindowPage \div Entries).frame = FirstTable
  <2>1. Load(s, PageDirectory, 0) = s.mem[PageDirectory][0]
    BY ReservedPage
  <2> QED
    BY <2>1 DEF Base, PresentAt
<1>4. Translate(s, FirstTable) = PresentAt(FirstTable) /\ Access(s, FirstTable) = s
  BY ReservedPage
<1>5. Store(s, FirstTable, WindowPage % Entries, PresentAt(f)) = m
  <2>1. Translate(s, FirstTable).frame = FirstTable
    BY <1>4 DEF PresentAt
  <2> QED
    BY <2>1 DEF Store
<1>6. r = [s |-> invlpg(m, WindowPage), virt |-> WindowPage]
  BY <1>1, <1>2, <1>3, <1>5 DEF get_virt_ptr
<1>7. c \in [Slots -> Entry]
  BY <1>1 DEF Machine
<1> HIDE DEF c
<1>8. /\ m \in Machine /\ m.mem = [s.mem EXCEPT ![FirstTable] = c]
      /\ m.used = s.used /\ m.early_init_done = s.early_init_done
      /\ m.halted = s.halted /\ m.tlb = s.tlb
  <2>1. Reachable(s, FirstTable) /\ FirstTable \in Frames
    BY <1>1, Ranges DEF Reachable
  <2>2. m \in Machine
    BY <1>1, <1>7, <2>1, FillType
  <2>3. m.mem = [s.mem EXCEPT ![FirstTable] = c]
    BY <1>1, <1>4, <2>1, FillMem
  <2> DEFINE a == Access(s, FirstTable)
  <2>4. /\ m.used = a.used /\ m.early_init_done = a.early_init_done
        /\ m.halted = a.halted /\ m.tlb = a.tlb
    BY <1>1, FillRest
  <2> HIDE DEF a, m
  <2> QED
    BY <1>4, <2>2, <2>3, <2>4 DEF a
<1> HIDE DEF m
<1> DEFINE t == invlpg(m, WindowPage)
<1>9. /\ t \in Machine /\ t.mem = m.mem /\ t.used = m.used
      /\ t.early_init_done = m.early_init_done /\ t.halted = m.halted
      /\ t.tlb = [m.tlb EXCEPT ![WindowPage] = NotPresent]
  BY <1>8, EntryTypes DEF invlpg, Machine
<1> HIDE DEF t
<1>10. s.mem \in [0 .. FrameCount -> [Slots -> Entry]] /\ s.tlb \in [CachedPages -> Entry]
  BY <1>1 DEF Machine
<1>11. /\ t.mem[FirstTable] = c
       /\ \A g \in 0 .. FrameCount : g # FirstTable => t.mem[g] = s.mem[g]
       /\ \A p \in CachedPages \ {WindowPage} : t.tlb[p] = s.tlb[p]
       /\ t.tlb[WindowPage] = NotPresent
  BY <1>8, <1>9, <1>10, ZenonT(30)
<1>12. /\ c[WindowPage] = PresentAt(f)
       /\ \A i \in Slots : i # WindowPage => c[i] = s.mem[FirstTable][i]
  BY <1>10 DEF c
<1>13. SameElsewhere(s, t)
  BY <1>8, <1>9, <1>11, <1>12 DEF SameElsewhere, SameTlb, SameMem, WindowSlot
<1>14. Window(t, f)
  BY <1>11, <1>12 DEF Window, NotPresent
<1>15. Base(t)
  <2>1. /\ t.mem[PageDirectory][0] = s.mem[PageDirectory][0]
        /\ \A p \in Reserved \ {WindowPage} : t.mem[FirstTable][p] = s.mem[FirstTable][p]
    BY <1>11, <1>12
  <2> QED
    BY <1>8, <1>9, <2>1, StillBase, ZenonT(30)
<1> QED
  BY <1>6, <1>13, <1>14, <1>15 DEF t

(* What the window shows. *)
LEMMA WindowShows ==
  ASSUME NEW s, Base(s), NEW f, Window(s, f)
  PROVE  /\ Walk(s, WindowPage) = PresentAt(f) /\ Translate(s, WindowPage) = PresentAt(f)
         /\ \A i : Load(s, WindowPage, i) = s.mem[f][i]
<1> USE Places
<1>1. Walk(s, WindowPage) = PresentAt(f)
  BY DEF Base, Walk, Window, PresentAt
<1>2. Translate(s, WindowPage) = PresentAt(f)
  BY <1>1 DEF Base, Translate, Window
<1> QED
  BY <1>1, <1>2 DEF Load, PresentAt

(* An access through the window caches what it shows. *)
LEMMA WindowAccess ==
  ASSUME NEW s, Base(s), NEW f, Window(s, f)
  PROVE  LET a == Access(s, WindowPage)
         IN  /\ a.mem = s.mem /\ a.used = s.used /\ a.early_init_done = s.early_init_done
             /\ a.halted = s.halted /\ a.tlb = [s.tlb EXCEPT ![WindowPage] = PresentAt(f)]
<1>1. /\ s \in Machine /\ s.early_init_done /\ Translate(s, WindowPage) = PresentAt(f)
      /\ WindowPage \in CachedPages
  BY WindowShows, Places DEF Base
<1> QED
  BY <1>1, AccessIs, ZenonT(30)

(* Reading through the window. *)
LEMMA ReadWindow ==
  ASSUME NEW s, Base(s), NEW f \in 0 .. FrameCount, Window(s, f)
  PROVE  /\ Base(Access(s, WindowPage)) /\ Window(Access(s, WindowPage), f)
         /\ SameElsewhere(s, Access(s, WindowPage))
<1> USE Places
<1> DEFINE a == Access(s, WindowPage)
<1>1. s \in Machine /\ s.early_init_done /\ Translate(s, WindowPage) = PresentAt(f)
  BY WindowShows DEF Base
<1>2. a \in Machine
  BY <1>1, AccessType, Ranges DEF Reachable
<1>3. /\ a.mem = s.mem /\ a.used = s.used /\ a.early_init_done = s.early_init_done
      /\ a.halted = s.halted /\ a.tlb = [s.tlb EXCEPT ![WindowPage] = PresentAt(f)]
  BY WindowAccess
<1> HIDE DEF a
<1>4. s.tlb \in [CachedPages -> Entry]
  BY <1>1 DEF Machine
<1>5. Base(a)
  BY <1>2, <1>3, StillBase
<1>6. Window(a, f)
  BY <1>3, <1>4 DEF Window
<1>7. SameElsewhere(s, a)
  BY <1>3, <1>4 DEF SameElsewhere, SameTlb, SameMem
<1> QED
  BY <1>5, <1>6, <1>7 DEF a

(* Replacing the frame the window shows, one that is not the directory or  *)
(* the first table.                                                        *)
LEMMA FillWindow ==
  ASSUME NEW s, Base(s), NEW f \in Frames, Window(s, f), NEW c \in [Slots -> Entry],
         \/ f \notin {PageDirectory, FirstTable}
         \/ f = PageDirectory /\ c[0] = PresentAt(FirstTable)
         \/ f = FirstTable /\ \A p \in Reserved \cup {WindowPage} : c[p] = s.mem[f][p]
  PROVE  LET t == Fill(s, WindowPage, c)
         IN  /\ Base(t) /\ Window(t, f)
             /\ t.used = s.used /\ SameTlb(s, t)
             /\ \A h \in 0 .. FrameCount, j \in Slots :
                  t.mem[h][j] = IF h = f THEN c[j] ELSE s.mem[h][j]
<1> USE Places
<1> DEFINE t == Fill(s, WindowPage, c)
<1>1. s \in Machine /\ s.early_init_done /\ Translate(s, WindowPage) = PresentAt(f)
  BY WindowShows DEF Base
<1>2. t \in Machine
  BY <1>1, FillType, Ranges DEF Reachable
<1>3. /\ t.mem = [s.mem EXCEPT ![f] = c] /\ t.used = s.used
      /\ t.early_init_done = s.early_init_done
      /\ t.halted = s.halted /\ t.tlb = [s.tlb EXCEPT ![WindowPage] = PresentAt(f)]
  <2> DEFINE a == Access(s, WindowPage)
  <2>1. /\ a.mem = s.mem /\ a.used = s.used /\ a.early_init_done = s.early_init_done
        /\ a.halted = s.halted /\ a.tlb = [s.tlb EXCEPT ![WindowPage] = PresentAt(f)]
    BY WindowAccess
  <2>2. t.mem = [s.mem EXCEPT ![f] = c]
    BY <1>1, FillMem
  <2>3. /\ t.used = a.used /\ t.early_init_done = a.early_init_done
        /\ t.halted = a.halted /\ t.tlb = a.tlb
    BY <1>1, FillRest
  <2> QED
    BY <2>1, <2>2, <2>3
<1> HIDE DEF t
<1>4. s.mem \in [0 .. FrameCount -> [Slots -> Entry]] /\ s.tlb \in [CachedPages -> Entry]
  BY <1>1 DEF Machine
<1>5. /\ t.mem[f] = c /\ \A g \in 0 .. FrameCount : g # f => t.mem[g] = s.mem[g]
  BY <1>3, <1>4
<1>6. /\ t.mem[PageDirectory][0] = s.mem[PageDirectory][0]
      /\ \A p \in Reserved \cup {WindowPage} : t.mem[FirstTable][p] = s.mem[FirstTable][p]
  BY <1>5 DEF Base
<1>7. Base(t)
  BY <1>2, <1>3, <1>6, StillBase, ZenonT(30)
<1>8. Window(t, f)
  BY <1>3, <1>4, <1>6 DEF Window
<1>9. SameTlb(s, t)
  BY <1>3, <1>4 DEF SameTlb
<1>10. \A h \in 0 .. FrameCount, j \in Slots : t.mem[h][j] = IF h = f THEN c[j] ELSE s.mem[h][j]
  BY <1>5
<1> QED
  BY <1>3, <1>7, <1>8, <1>9, <1>10 DEF t

(* Storing one entry through it: not the entry that names the first table, *)
(* and not one of the identity mapping or the window.                      *)
LEMMA StoreWindow ==
  ASSUME NEW s, Base(s), NEW f \in Frames, Window(s, f), NEW i \in Slots, NEW e \in Entry,
         f = PageDirectory => i # 0,
         f = FirstTable => i \notin Reserved \cup {WindowPage}
  PROVE  LET t == Store(s, WindowPage, i, e)
         IN  /\ Base(t) /\ Window(t, f)
             /\ t.used = s.used /\ SameTlb(s, t)
             /\ \A h \in 0 .. FrameCount, j \in Slots :
                  t.mem[h][j] = IF h = f /\ j = i THEN e ELSE s.mem[h][j]
<1> USE Places
<1> DEFINE c == [s.mem[f] EXCEPT ![i] = e]
<1>1. s \in Machine /\ Translate(s, WindowPage).frame = f
  BY WindowShows DEF Base, PresentAt
<1>2. s.mem[f] \in [Slots -> Entry]
  BY <1>1 DEF Machine
<1>3. c \in [Slots -> Entry] /\ \A h \in Slots : h # i => c[h] = s.mem[f][h]
  BY <1>2
<1>4. Store(s, WindowPage, i, e) = Fill(s, WindowPage, c)
  BY <1>1 DEF Store
<1>5. \/ f \notin {PageDirectory, FirstTable}
      \/ f = PageDirectory /\ c[0] = PresentAt(FirstTable)
      \/ f = FirstTable /\ \A p \in Reserved \cup {WindowPage} : c[p] = s.mem[f][p]
  BY <1>3 DEF Base
<1>6. c[i] = e
  BY <1>2
<1> HIDE DEF c
<1>7. LET t == Fill(s, WindowPage, c)
      IN  /\ Base(t) /\ Window(t, f)
          /\ t.used = s.used /\ SameTlb(s, t)
          /\ \A h \in 0 .. FrameCount, j \in Slots :
               t.mem[h][j] = IF h = f THEN c[j] ELSE s.mem[h][j]
  BY <1>3, <1>5, FillWindow
<1> QED
  BY <1>3, <1>4, <1>6, <1>7

-----------------------------------------------------------------------------
(* The functions of paging.c with paging on, in terms of what they change. *)

(* The directory's entries are the same wherever the window points. *)
LEMMA SameDirectory ==
  ASSUME NEW s, NEW t, SameMem(s, t), NEW d \in Slots
  PROVE  t.mem[PageDirectory][d] = s.mem[PageDirectory][d]
  BY Places DEF SameMem, WindowSlot

(* An entry of the directory names a frame. *)
LEMMA DirectoryEntry ==
  ASSUME NEW s \in Machine, NEW d \in Slots
  PROVE  s.mem[PageDirectory][d] \in Entry /\ s.mem[PageDirectory][d].frame \in 0 .. FrameCount
<1>1. s.mem[PageDirectory][d] \in Entry
  BY Places DEF Machine
<1> QED
  BY <1>1 DEF Entry

(* The window is moved to the directory. *)
LEMMA DirectoryIs ==
  ASSUME NEW s, Base(s)
  PROVE  LET r == directory(s)
         IN  /\ r.virt = WindowPage /\ Base(r.s) /\ Window(r.s, PageDirectory)
             /\ SameElsewhere(s, r.s)
<1> DEFINE g == get_virt_ptr(s, PageDirectory)
           a == Access(g.s, WindowPage)
<1>1. PageDirectory \in 0 .. FrameCount
  BY Places
<1>2. /\ g.virt = WindowPage /\ Base(g.s) /\ Window(g.s, PageDirectory)
      /\ SameElsewhere(s, g.s)
  BY <1>1, MoveWindow
<1>3. directory(s) = [s |-> a, virt |-> WindowPage]
  BY <1>2 DEF directory, opened
<1> HIDE DEF g
<1>4. Base(a) /\ Window(a, PageDirectory) /\ SameElsewhere(g.s, a)
  BY <1>1, <1>2, ReadWindow
<1> HIDE DEF a
<1>5. SameElsewhere(s, a)
  BY <1>2, <1>4, SameElsewhereTrans
<1> QED
  BY <1>3, <1>4, <1>5

(* The window is moved on to the table that a directory entry names. *)
LEMMA TablePointerIs ==
  ASSUME NEW pd, Base(pd.s), pd.virt = WindowPage, Window(pd.s, PageDirectory), NEW d \in Slots
  PROVE  LET r == table_pointer(pd, d)
         IN  /\ r.virt = WindowPage /\ r.ret = K_SUCCESS /\ Base(r.s)
             /\ Window(r.s, pd.s.mem[PageDirectory][d].frame)
             /\ SameElsewhere(pd.s, r.s)
<1> DEFINE a == Access(pd.s, WindowPage)
           f == pd.s.mem[PageDirectory][d].frame
           g == get_virt_ptr(a, f)
<1>1. PageDirectory \in 0 .. FrameCount
  BY Places
<1>2. Base(a) /\ SameElsewhere(pd.s, a)
  BY <1>1, ReadWindow
<1>3. f \in 0 .. FrameCount
  BY DirectoryEntry DEF Base
<1>4. Load(pd.s, pd.virt, d).frame = f
  BY WindowShows
<1>5. table_pointer(pd, d) = [s |-> g.s, virt |-> g.virt, ret |-> K_SUCCESS]
  BY <1>4 DEF table_pointer, found
<1> HIDE DEF a, f
<1>6. /\ g.virt = WindowPage /\ Base(g.s) /\ Window(g.s, f) /\ SameElsewhere(a, g.s)
  BY <1>2, <1>3, MoveWindow
<1> HIDE DEF g
<1>7. SameElsewhere(pd.s, g.s)
  BY <1>2, <1>6, SameElsewhereTrans
<1> QED
  BY <1>5, <1>6, <1>7 DEF f

(* i386_mem_allocate_frame marks a scanned frame that was free, or finds   *)
(* that there is none.                                                     *)
LEMMA TakeFrame ==
  ASSUME NEW s, Base(s), 0 \in s.used
  PROVE  LET a == i386_mem_allocate_frame(s)
         IN  \/ a.frame = 0 /\ a.s = s /\ ScannedFrames \subseteq s.used
             \/ /\ a.frame \in ScannedFrames \ s.used /\ a.frame # 0 /\ Base(a.s)
                /\ a.s.used = s.used \cup {a.frame} /\ a.s.mem = s.mem /\ a.s.tlb = s.tlb
<1> DEFINE f == i386_mem_get_next_free_frame(s)
           b == bitset_set_bit(s, f)
<1>1. i386_mem_allocate_frame(s) = [s |-> IF f # 0 THEN b ELSE s, frame |-> f]
  BY DEF i386_mem_allocate_frame, marked
<1>2. f \in ScannedFrames \ s.used \/ (f = 0 /\ ScannedFrames \subseteq s.used)
  <2>1. f = 0 \/ f \in ScannedFrames \ s.used
    BY NextFreeFrame
  <2>2. ASSUME ScannedFrames \ s.used # {} PROVE f \in ScannedFrames \ s.used
    <3>1. ScannedFrames \ s.used \in SUBSET Nat
      BY DEF ScannedFrames
    <3>2. \E m \in ScannedFrames \ s.used : \A n \in ScannedFrames \ s.used : m <= n
      BY <2>2, <3>1, LeastExists
    <3> QED
      BY <2>2, <3>2 DEF i386_mem_get_next_free_frame
  <2> HIDE DEF f
  <2> QED
    BY <2>1, <2>2
<1> HIDE DEF f
<1>3. CASE f \in ScannedFrames \ s.used
  <2>1. f \in Frames /\ f # 0 /\ s \in Machine /\ s.halted = FALSE
    BY <1>3, ScannedAreFrames DEF Base, Machine
  <2>2. /\ b \in Machine /\ b.used = s.used \cup {f} /\ b.mem = s.mem /\ b.tlb = s.tlb
        /\ b.early_init_done = s.early_init_done
    BY <2>1, BitsetType DEF bitset_set_bit, Machine
  <2>3. ~b.halted
    BY <2>1 DEF bitset_set_bit, Machine
  <2> HIDE DEF b
  <2>4. Base(b)
    BY <2>2, <2>3 DEF Base
  <2> QED
    BY <1>1, <1>3, <2>1, <2>2, <2>4
<1>4. CASE f = 0 /\ ScannedFrames \subseteq s.used
  BY <1>1, <1>4
<1> QED
  BY <1>2, <1>3, <1>4

(* The table's frame where the directory has an entry. *)
LEMMA ParentTablePresent ==
  ASSUME NEW s, Base(s), NEW d \in Slots, s.mem[PageDirectory][d].present
  PROVE  LET r == parent_table(s, d)
         IN  /\ r.virt = WindowPage /\ r.ret = K_SUCCESS /\ Base(r.s)
             /\ Window(r.s, s.mem[PageDirectory][d].frame)
             /\ SameElsewhere(s, r.s)
<1> DEFINE pd == directory(s)
           r == table_pointer(pd, d)
<1>1. /\ pd.virt = WindowPage /\ Base(pd.s) /\ Window(pd.s, PageDirectory)
      /\ SameElsewhere(s, pd.s)
  BY DirectoryIs
<1> HIDE DEF pd
<1>2. pd.s.mem[PageDirectory][d] = s.mem[PageDirectory][d]
  BY <1>1, SameDirectory DEF SameElsewhere
<1>3. Load(pd.s, pd.virt, d).present
  BY <1>1, <1>2, WindowShows
<1>4. parent_table(s, d) = r
  BY <1>3 DEF parent_table, present_or_new, pd
<1>5. /\ r.virt = WindowPage /\ r.ret = K_SUCCESS /\ Base(r.s)
      /\ Window(r.s, pd.s.mem[PageDirectory][d].frame)
      /\ SameElsewhere(pd.s, r.s)
  BY <1>1, TablePointerIs
<1> HIDE DEF r
<1>6. SameElsewhere(s, r.s)
  BY <1>1, <1>5, SameElsewhereTrans
<1> QED
  BY <1>2, <1>4, <1>5, <1>6

(* Frame g, cleared, has become the table of directory entry d. *)
NewTableIn(s, t, d, g) ==
  \A h \in 0 .. FrameCount, i \in Slots : ~WindowSlot(h, i) =>
    t.mem[h][i] = IF h = g THEN NotPresent
                  ELSE IF h = PageDirectory /\ i = d THEN PresentAt(g) ELSE s.mem[h][i]

(* A table for a directory entry that is missing: there is no frame for it *)
(* and nothing changes, or it is cleared before it is entered.             *)
LEMMA ParentTableMissing ==
  ASSUME NEW s, Base(s), Reserved \subseteq s.used, NEW d \in Slots,
         ~s.mem[PageDirectory][d].present
  PROVE  LET r == parent_table(s, d)
         IN  \/ /\ r.ret = K_OOM /\ ScannedFrames \subseteq s.used
                /\ Base(r.s) /\ Window(r.s, PageDirectory) /\ SameElsewhere(s, r.s)
             \/ \E g \in ScannedFrames \ s.used :
                  /\ r.virt = WindowPage /\ r.ret = K_SUCCESS /\ Base(r.s) /\ Window(r.s, g)
                  /\ r.s.used = s.used \cup {g} /\ SameTlb(s, r.s) /\ NewTableIn(s, r.s, d, g)
<1> USE Places
<1> DEFINE pd == directory(s)
           a == i386_mem_allocate_frame(pd.s)
           g == a.frame
           r == parent_table(s, d)
<1>1. /\ pd.virt = WindowPage /\ Base(pd.s) /\ Window(pd.s, PageDirectory)
      /\ SameElsewhere(s, pd.s)
  BY DirectoryIs
<1>2. r = new_table(allocate_page_table(pd.s), WindowPage, d) /\ d # 0
  <2> HIDE DEF pd
  <2>1. ~Load(pd.s, pd.virt, d).present
    <3>1. pd.s.mem[PageDirectory][d] = s.mem[PageDirectory][d]
      BY <1>1, SameDirectory DEF SameElsewhere
    <3> QED
      BY <1>1, <3>1, WindowShows
  <2>2. d # 0
    BY DEF Base, PresentAt
  <2> QED
    BY <1>1, <2>1, <2>2 DEF parent_table, present_or_new, pd
<1> HIDE DEF pd
<1>3. allocate_page_table(pd.s) = table_in_frame(a)
  BY <1>1 DEF allocate_page_table, Base
<1>4. pd.s.used = s.used /\ SameTlb(s, pd.s) /\ SameMem(s, pd.s)
  BY <1>1 DEF SameElsewhere
<1>5. \/ g = 0 /\ a.s = pd.s /\ ScannedFrames \subseteq s.used
      \/ /\ g \in ScannedFrames \ s.used /\ g # 0 /\ Base(a.s)
         /\ a.s.used = s.used \cup {g} /\ a.s.mem = pd.s.mem /\ a.s.tlb = pd.s.tlb
  BY <1>1, <1>4, TakeFrame
<1> HIDE DEF a
<1>6. CASE g = 0 /\ a.s = pd.s /\ ScannedFrames \subseteq s.used
  <2>1. r.s = pd.s /\ r.ret = K_OOM
    BY <1>2, <1>3, <1>6 DEF table_in_frame, new_table, K_OOM, K_SUCCESS
  <2> QED
    BY <1>1, <1>6, <2>1
<1>7. CASE /\ g \in ScannedFrames \ s.used /\ g # 0 /\ Base(a.s)
           /\ a.s.used = s.used \cup {g} /\ a.s.mem = pd.s.mem /\ a.s.tlb = pd.s.tlb
  <2> DEFINE w == get_virt_ptr(a.s, g)
             c == Fill(w.s, WindowPage, EmptyTable)
             pd2 == get_virt_ptr(c, PageDirectory)
             e == Store(pd2.s, WindowPage, d, PresentAt(g))
             pt == table_pointer([s |-> e, virt |-> WindowPage], d)
  <2>1. /\ g \in Frames /\ g \notin Reserved /\ g \notin {PageDirectory, FirstTable}
        /\ g \in 0 .. FrameCount
    BY <1>7, ScannedAreFrames
  <2> HIDE DEF g
  <2>2. /\ w.virt = WindowPage /\ Base(w.s) /\ Window(w.s, g) /\ SameElsewhere(a.s, w.s)
    BY <1>7, <2>1, MoveWindow
  <2>3. table_in_frame(a) = [s |-> c, ret |-> K_SUCCESS, phys |-> g]
    BY <1>7, <2>2 DEF table_in_frame, cleared_table, g
  <2> HIDE DEF w
  <2>4. /\ Base(c) /\ Window(c, g) /\ c.used = w.s.used /\ SameTlb(w.s, c)
        /\ \A h \in 0 .. FrameCount, i \in Slots :
             c.mem[h][i] = IF h = g THEN EmptyTable[i] ELSE w.s.mem[h][i]
    BY <2>1, <2>2, EntryTypes, FillWindow
  <2> HIDE DEF c
  <2>5. /\ pd2.virt = WindowPage /\ Base(pd2.s) /\ Window(pd2.s, PageDirectory)
        /\ SameElsewhere(c, pd2.s)
    BY <2>4, MoveWindow
  <2>6. r = pt
    BY <1>2, <1>3, <2>3, <2>5 DEF new_table, entered
  <2> HIDE DEF pd2
  <2>7. /\ Base(e) /\ Window(e, PageDirectory) /\ e.used = pd2.s.used /\ SameTlb(pd2.s, e)
        /\ \A h \in 0 .. FrameCount, i \in Slots :
             e.mem[h][i] = IF h = PageDirectory /\ i = d THEN PresentAt(g)
                           ELSE pd2.s.mem[h][i]
    <3>1. /\ Base(pd2.s) /\ PageDirectory \in Frames /\ Window(pd2.s, PageDirectory)
          /\ d \in Slots /\ PresentAt(g) \in Entry /\ d # 0 /\ PageDirectory # FirstTable
      BY <1>2, <2>1, <2>5, EntryTypes
    <3> QED
      BY ONLY <3>1, StoreWindow
  <2> HIDE DEF e
  <2>8. /\ pt.virt = WindowPage /\ pt.ret = K_SUCCESS /\ Base(pt.s)
        /\ Window(pt.s, e.mem[PageDirectory][d].frame)
        /\ SameElsewhere(e, pt.s)
    <3> DEFINE x == [s |-> e, virt |-> WindowPage]
    <3>1. x.s = e /\ x.virt = WindowPage
      OBVIOUS
    <3> HIDE DEF x
    <3> QED
      BY <2>7, <3>1, TablePointerIs DEF x
  <2> HIDE DEF pt
  <2>9. e.mem[PageDirectory][d].frame = g
    <3>1. e.mem[PageDirectory][d] = PresentAt(g)
      BY <2>7
    <3> QED
      BY <3>1 DEF PresentAt
  <2>10. pt.s.used = s.used \cup {g} /\ SameTlb(s, pt.s)
    BY <1>4, <1>7, <2>2, <2>4, <2>5, <2>7, <2>8 DEF SameElsewhere, SameTlb
  <2>11. NewTableIn(s, pt.s, d, g)
    <3> SUFFICES ASSUME NEW h \in 0 .. FrameCount, NEW i \in Slots, ~WindowSlot(h, i)
                 PROVE  pt.s.mem[h][i] = IF h = g THEN NotPresent
                          ELSE IF h = PageDirectory /\ i = d THEN PresentAt(g) ELSE s.mem[h][i]
      BY DEF NewTableIn
    <3>1. w.s.mem[h][i] = s.mem[h][i]
      BY <1>4, <1>7, <2>2 DEF SameElsewhere, SameMem
    <3>2. c.mem[h][i] = IF h = g THEN NotPresent ELSE w.s.mem[h][i]
      BY <2>4 DEF EmptyTable
    <3>3. pd2.s.mem[h][i] = c.mem[h][i]
      BY <2>5 DEF SameElsewhere, SameMem
    <3>4. e.mem[h][i] = IF h = PageDirectory /\ i = d THEN PresentAt(g) ELSE pd2.s.mem[h][i]
      BY <2>7
    <3>5. pt.s.mem[h][i] = e.mem[h][i]
      BY <2>8 DEF SameElsewhere, SameMem
    <3> QED
      BY <2>1, <3>1, <3>2, <3>3, <3>4, <3>5
  <2> QED
    BY <1>7, <2>6, <2>8, <2>9, <2>10, <2>11
<1> QED
  BY <1>5, <1>6, <1>7

(* The window is in use. *)
Settled(s) == Base(s) /\ \E f \in 0 .. FrameCount : Window(s, f)

(* Entry i of the table in frame g has become e. *)
EntryIs(s, t, g, i, e) ==
  \A h \in 0 .. FrameCount, j \in Slots : ~WindowSlot(h, j) =>
    t.mem[h][j] = IF h = g /\ j = i THEN e ELSE s.mem[h][j]

(* The directory entry and the frame of the table of a page. *)
DirEntry(s, p) == s.mem[PageDirectory][p \div Entries]

(* A page in a table that exists has been given frame f. *)
MappedTo(s, t, p, f) ==
  /\ DirEntry(s, p).present
  /\ f \in ScannedFrames \ s.used
  /\ t.used = s.used \cup {f} /\ SameTlb(s, t)
  /\ EntryIs(s, t, DirEntry(s, p).frame, p % Entries, PresentAt(f))

(* A page has been given frame f, in a new table in frame g. *)
MappedInNew(s, t, p, f, g) ==
  /\ ~DirEntry(s, p).present
  /\ f \in ScannedFrames \ s.used /\ g \in ScannedFrames \ (s.used \cup {f})
  /\ t.used = s.used \cup {f, g} /\ SameTlb(s, t)
  /\ \A h \in 0 .. FrameCount, j \in Slots : ~WindowSlot(h, j) =>
       t.mem[h][j] = IF h = g THEN (IF j = p % Entries THEN PresentAt(f) ELSE NotPresent)
                     ELSE IF h = PageDirectory /\ j = p \div Entries THEN PresentAt(g)
                     ELSE s.mem[h][j]

(* Nothing was mapped: there was no frame, or one and none for the table. *)
NoFrames(s, p) ==
  \/ ScannedFrames \subseteq s.used
  \/ /\ ~DirEntry(s, p).present
     /\ \E f \in ScannedFrames \ s.used : ScannedFrames \subseteq s.used \cup {f}

(* Two pages with the same place are the same page. *)
LEMMA PageSlot ==
  ASSUME NEW p \in Pages, NEW q \in Pages, p \div Entries = q \div Entries,
         p % Entries = q % Entries
  PROVE  p = q
<1>1. p \in Nat /\ q \in Nat /\ Entries \in Nat /\ Entries > 0
  BY SizesAssumption DEF Pages
<1>2. p = Entries * (p \div Entries) + (p % Entries) /\ q = Entries * (q \div Entries) + (q % Entries)
  BY <1>1
<1> QED
  BY <1>2

(* Frames that may be allocated lie outside the reserved ones. *)
LEMMA AllocatableFrames ==
  /\ Allocatable \subseteq ScannedFrames /\ Allocatable \subseteq Frames
  /\ Allocatable \cap Reserved = {}
  /\ \A S : InitReserved \cup Reserved \subseteq S => ScannedFrames \ S \subseteq Allocatable
  BY ScannedAreFrames DEF Allocatable, Reserved

(* The table that holds a client page's entry: a frame that is not the     *)
(* directory, and the entry is none of the identity mapping's.             *)
LEMMA TableOf ==
  ASSUME NEW s, Base(s), TablesOwn(s), WindowPage \notin ClientPages, NEW p \in ClientPages,
         DirEntry(s, p).present
  PROVE  /\ DirEntry(s, p).frame \in Frames /\ DirEntry(s, p).frame # PageDirectory
         /\ DirEntry(s, p).frame = FirstTable => p % Entries \notin Reserved \cup {WindowPage}
         /\ DirEntry(s, p).frame = FirstTable <=> p \div Entries = 0
<1> USE Places
<1>1. /\ p \in Pages /\ p \div Entries \in Slots /\ p % Entries \in Slots
      /\ p \notin Reserved /\ p # WindowPage
  BY ClientPagesAssumption, DivModRange DEF Reserved
<1>2. CASE p \div Entries = 0
  <2>1. DirEntry(s, p).frame = FirstTable
    BY <1>2 DEF DirEntry, Base, PresentAt
  <2>2. p % Entries = p
    <3>1. p \in Nat /\ p = Entries * (p \div Entries) + (p % Entries)
      BY <1>1, SizesAssumption DEF Pages
    <3> QED
      BY <1>1, <1>2, <3>1 DEF Slots
  <2> QED
    BY <1>1, <1>2, <2>1, <2>2
<1>3. CASE p \div Entries # 0
  <2>1. p \div Entries \in TablesOf(s)
    BY <1>1, <1>3 DEF TablesOf, DirEntry
  <2>2. DirEntry(s, p).frame \in Allocatable
    BY <2>1 DEF TablesOwn, DirEntry
  <2> QED
    BY <1>3, <2>2, AllocatableFrames, ZenonT(30)
<1> QED
  BY <1>2, <1>3

(* i386_allocate_page. *)
LEMMA AllocatePageIs ==
  ASSUME NEW s, Base(s), TablesOwn(s), Reserved \subseteq s.used,
         WindowPage \notin ClientPages, NEW p \in ClientPages
  PROVE  LET r == i386_allocate_page(s, p)
         IN  \/ r.ret = K_OOM /\ NoFrames(s, p) /\ SameElsewhere(s, r.s) /\ (Settled(r.s) \/ r.s = s)
             \/ r.ret = K_SUCCESS /\ Settled(r.s) /\ \E f \in Frames : MappedTo(s, r.s, p, f)
             \/ r.ret = K_SUCCESS /\ Settled(r.s) /\ \E f, g \in Frames : MappedInNew(s, r.s, p, f, g)
<1> USE Places
<1> DEFINE a == i386_mem_allocate_frame(s)
           f == a.frame
           d == p \div Entries
           k == p % Entries
           t == parent_table(a.s, d)
           r == i386_allocate_page(s, p)
           m == Store(t.s, WindowPage, k, PresentAt(f))
<1>1. p \in Pages /\ d \in Slots /\ k \in Slots
  BY ClientPagesAssumption, DivModRange
<1>2. \/ f = 0 /\ a.s = s /\ ScannedFrames \subseteq s.used
      \/ /\ f \in ScannedFrames \ s.used /\ f # 0 /\ Base(a.s)
         /\ a.s.used = s.used \cup {f} /\ a.s.mem = s.mem /\ a.s.tlb = s.tlb
  BY TakeFrame
<1>3. r = IF f = 0 THEN [s |-> a.s, ret |-> K_OOM] ELSE map_page(t, f, p)
  BY DEF i386_allocate_page, page_in_frame
<1> HIDE DEF a, r, d, k
<1>4. CASE f = 0 /\ a.s = s /\ ScannedFrames \subseteq s.used
  <2>1. r.ret = K_OOM /\ r.s = s
    BY <1>3, <1>4
  <2> QED
    BY <1>4, <2>1, SameElsewhereSelf DEF NoFrames, r
<1>5. CASE /\ f \in ScannedFrames \ s.used /\ f # 0 /\ Base(a.s)
           /\ a.s.used = s.used \cup {f} /\ a.s.mem = s.mem /\ a.s.tlb = s.tlb
  <2> HIDE DEF f
  <2>1. f \in Frames /\ f \in 0 .. FrameCount /\ PresentAt(f) \in Entry
    BY <1>5, ScannedAreFrames, EntryTypes
  <2>2. Reserved \subseteq a.s.used
    BY <1>5
  <2>3. DirEntry(s, p) = a.s.mem[PageDirectory][d]
    BY <1>5 DEF DirEntry, d
  <2>4. CASE DirEntry(s, p).present
    <3> DEFINE g == DirEntry(s, p).frame
    <3>1. /\ t.virt = WindowPage /\ t.ret = K_SUCCESS /\ Base(t.s)
          /\ Window(t.s, g) /\ SameElsewhere(a.s, t.s)
      BY <1>1, <1>5, <2>3, <2>4, ParentTablePresent
    <3>2. r = [s |-> m, ret |-> K_SUCCESS]
      BY <1>3, <1>5, <3>1 DEF map_page, k
    <3> HIDE DEF t
    <3>3. /\ g \in Frames /\ g # PageDirectory
          /\ g = FirstTable => k \notin Reserved \cup {WindowPage}
      BY <2>4, TableOf DEF k
    <3> HIDE DEF g
    <3>4. /\ Base(m) /\ Window(m, g) /\ m.used = t.s.used /\ SameTlb(t.s, m)
          /\ \A h \in 0 .. FrameCount, j \in Slots :
               m.mem[h][j] = IF h = g /\ j = k THEN PresentAt(f) ELSE t.s.mem[h][j]
      <4>1. g = PageDirectory => k # 0
        BY <3>3
      <4> QED
        BY ONLY <1>1, <2>1, <3>1, <3>3, <4>1, StoreWindow
    <3> HIDE DEF m
    <3>5. EntryIs(s, m, g, k, PresentAt(f))
      BY <1>5, <3>1, <3>4 DEF EntryIs, SameElsewhere, SameMem
    <3>6. m.used = s.used \cup {f} /\ SameTlb(s, m)
      BY <1>5, <3>1, <3>4 DEF SameElsewhere, SameTlb
    <3>7. MappedTo(s, m, p, f)
      BY <1>5, <2>4, <3>5, <3>6 DEF MappedTo, g, k
    <3>8. Settled(m)
      BY <3>3, <3>4 DEF Settled
    <3> QED
      BY <2>1, <3>2, <3>7, <3>8 DEF r
  <2>5. CASE ~DirEntry(s, p).present
    <3>1. CASE /\ t.ret = K_OOM /\ ScannedFrames \subseteq a.s.used
               /\ Base(t.s) /\ Window(t.s, PageDirectory) /\ SameElsewhere(a.s, t.s)
      <4> DEFINE b == bitset_clear_bit(t.s, f)
      <4>1. r = [s |-> b, ret |-> K_OOM]
        BY <1>3, <1>5, <3>1 DEF map_page, K_OOM, K_SUCCESS
      <4> HIDE DEF t
      <4>2. t.s \in Machine /\ t.s.halted = FALSE
        BY <3>1 DEF Base, Machine
      <4>3. /\ b \in Machine /\ b.mem = t.s.mem /\ b.tlb = t.s.tlb
            /\ b.early_init_done = t.s.early_init_done /\ b.used = t.s.used \ {f}
        <5>1. b \in Machine /\ b.early_init_done = t.s.early_init_done
          BY ONLY <4>2, BitsetType
        <5>2. b.mem = t.s.mem /\ b.tlb = t.s.tlb /\ b.used = t.s.used \ {f}
          BY ONLY <4>2 DEF bitset_clear_bit, Machine
        <5> QED
          BY ONLY <5>1, <5>2
      <4>4. ~b.halted
        BY <2>1, <4>2 DEF bitset_clear_bit, Machine
      <4> HIDE DEF b
      <4>5. Base(b) /\ Window(b, PageDirectory)
        BY <3>1, <4>3, <4>4 DEF Base, Window
      <4>6. SameElsewhere(s, b)
        BY <1>5, <3>1, <4>3 DEF SameElsewhere, SameTlb, SameMem
      <4>7. NoFrames(s, p)
        BY <1>5, <2>5, <3>1 DEF NoFrames
      <4>8. Settled(b)
        BY <4>5 DEF Settled
      <4> QED
        BY <4>1, <4>6, <4>7, <4>8 DEF r
    <3>2. ASSUME NEW g \in ScannedFrames \ a.s.used,
                 /\ t.virt = WindowPage /\ t.ret = K_SUCCESS /\ Base(t.s) /\ Window(t.s, g)
                 /\ t.s.used = a.s.used \cup {g} /\ SameTlb(a.s, t.s)
                 /\ NewTableIn(a.s, t.s, d, g)
          PROVE  /\ r.ret = K_SUCCESS /\ Settled(r.s)
                 /\ g \in Frames /\ MappedInNew(s, r.s, p, f, g)
      <4>1. r = [s |-> m, ret |-> K_SUCCESS]
        BY <1>3, <1>5, <3>2 DEF map_page, k
      <4> HIDE DEF t
      <4>2. /\ g \in Frames /\ g \notin Reserved /\ g # PageDirectory /\ g # FirstTable
            /\ g \in ScannedFrames \ (s.used \cup {f})
        BY <1>5, <2>2, ScannedAreFrames
      <4>3. /\ Base(m) /\ Window(m, g) /\ m.used = t.s.used /\ SameTlb(t.s, m)
            /\ \A h \in 0 .. FrameCount, j \in Slots :
                 m.mem[h][j] = IF h = g /\ j = k THEN PresentAt(f) ELSE t.s.mem[h][j]
        BY <1>1, <2>1, <3>2, <4>2, StoreWindow
      <4> HIDE DEF m
      <4>4. m.used = s.used \cup {f, g} /\ SameTlb(s, m)
        BY <1>5, <3>2, <4>3 DEF SameTlb
      <4>5. \A h \in 0 .. FrameCount, j \in Slots : ~WindowSlot(h, j) =>
              m.mem[h][j] = IF h = g THEN (IF j = k THEN PresentAt(f) ELSE NotPresent)
                            ELSE IF h = PageDirectory /\ j = d THEN PresentAt(g)
                            ELSE s.mem[h][j]
        BY <1>5, <3>2, <4>3 DEF NewTableIn
      <4>6. MappedInNew(s, m, p, f, g)
        BY <1>5, <2>5, <4>2, <4>4, <4>5 DEF MappedInNew, d, k
      <4>7. Settled(m)
        BY <4>2, <4>3 DEF Settled
      <4> QED
        BY <4>1, <4>2, <4>6, <4>7
    <3>3. \/ /\ t.ret = K_OOM /\ ScannedFrames \subseteq a.s.used
             /\ Base(t.s) /\ Window(t.s, PageDirectory) /\ SameElsewhere(a.s, t.s)
          \/ \E g \in ScannedFrames \ a.s.used :
               /\ t.virt = WindowPage /\ t.ret = K_SUCCESS /\ Base(t.s) /\ Window(t.s, g)
               /\ t.s.used = a.s.used \cup {g} /\ SameTlb(a.s, t.s) /\ NewTableIn(a.s, t.s, d, g)
      BY <1>1, <1>5, <2>2, <2>3, <2>5, ParentTableMissing
    <3> HIDE DEF t
    <3> QED
      BY <2>1, <3>1, <3>2, <3>3 DEF r
  <2> QED
    BY <2>4, <2>5
<1> QED
  BY <1>2, <1>4, <1>5

(* The entry of a page whose table exists. *)
LEMMA WalkIs ==
  ASSUME NEW s, NEW p
  PROVE  /\ DirEntry(s, p).present => Walk(s, p) = s.mem[DirEntry(s, p).frame][p % Entries]
         /\ ~DirEntry(s, p).present => Walk(s, p) = NotPresent
  BY DEF Walk, DirEntry

(* The cached translation of a page has been dropped. *)
TlbWithout(s, t, p) ==
  \A q \in CachedPages \ {WindowPage} : t.tlb[q] = IF q = p THEN NotPresent ELSE s.tlb[q]

(* A mapped page has lost its entry, its frame and its cached translation. *)
Freed(s, t, p) ==
  /\ DirEntry(s, p).present
  /\ t.used = s.used \ {Walk(s, p).frame}
  /\ TlbWithout(s, t, p)
  /\ EntryIs(s, t, DirEntry(s, p).frame, p % Entries, NotPresent)

(* i386_free_page of a page that is mapped. *)
LEMMA FreePageIs ==
  ASSUME NEW s, Base(s), TablesOwn(s), WindowPage \notin ClientPages, NEW p \in ClientPages,
         Walk(s, p).present, Walk(s, p).frame \in Frames
  PROVE  LET t == i386_free_page(s, p).s
         IN  /\ Settled(t) /\ DirEntry(s, p).present
             /\ t.used = s.used \ {Walk(s, p).frame}
             /\ TlbWithout(s, t, p)
             /\ EntryIs(s, t, DirEntry(s, p).frame, p % Entries, NotPresent)
<1> USE Places
<1> DEFINE pd == directory(s)
           d == p \div Entries
           k == p % Entries
           pt == table_pointer(pd, d)
           g == DirEntry(s, p).frame
           f == Walk(s, p).frame
           st == Store(pt.s, WindowPage, k, NotPresent)
           b == bitset_clear_bit(st, f)
           t == invlpg(b, p)
<1>1. d \in Slots /\ k \in Slots /\ p \in CachedPages /\ p # WindowPage
  BY ClientPagesAssumption, DivModRange DEF CachedPages
<1>2. DirEntry(s, p).present /\ Walk(s, p) = s.mem[g][k]
  BY WalkIs DEF NotPresent
<1>3. /\ g \in Frames /\ g # PageDirectory
      /\ g = FirstTable => k \notin Reserved \cup {WindowPage}
  BY <1>2, TableOf
<1>4. /\ pd.virt = WindowPage /\ Base(pd.s) /\ Window(pd.s, PageDirectory)
      /\ SameElsewhere(s, pd.s)
  BY DirectoryIs
<1>5. pd.s.mem[PageDirectory][d] = DirEntry(s, p)
  BY <1>1, <1>4, SameDirectory DEF SameElsewhere, DirEntry
<1>6. /\ pt.virt = WindowPage /\ Base(pt.s) /\ Window(pt.s, g) /\ SameElsewhere(pd.s, pt.s)
  <2> HIDE DEF pd, d
  <2> QED
    BY <1>1, <1>4, <1>5, TablePointerIs
<1>7. SameElsewhere(s, pt.s)
  BY <1>4, <1>6, SameElsewhereTrans
<1>8. Load(pt.s, pt.virt, k).frame = f
  <2>1. Load(pt.s, pt.virt, k) = pt.s.mem[g][k]
    BY <1>6, WindowShows
  <2>2. pt.s.mem[g][k] = s.mem[g][k]
    BY <1>1, <1>3, <1>7 DEF SameElsewhere, SameMem, WindowSlot
  <2> QED
    BY <1>2, <2>1, <2>2
<1>9. i386_free_page(s, p).s = t
  <2>1. Load(pd.s, pd.virt, d).present
    BY <1>2, <1>4, <1>5, WindowShows
  <2> QED
    BY <1>6, <1>8, <2>1 DEF i386_free_page, free_under, unmap_page
<1> HIDE DEF pd, d, k, pt, g, f
<1>10. /\ Base(st) /\ Window(st, g) /\ st.used = pt.s.used /\ SameTlb(pt.s, st)
       /\ \A h \in 0 .. FrameCount, j \in Slots :
            st.mem[h][j] = IF h = g /\ j = k THEN NotPresent ELSE pt.s.mem[h][j]
  <2>1. NotPresent \in Entry /\ (g = PageDirectory => k # 0)
    BY <1>3, EntryTypes
  <2> QED
    BY ONLY <1>1, <1>3, <1>6, <2>1, StoreWindow
<1> HIDE DEF st
<1>11. st \in Machine /\ st.halted = FALSE /\ st.early_init_done /\ f \in Frames
  BY <1>10 DEF Base, Machine, f
<1>12. /\ b \in Machine /\ b.mem = st.mem /\ b.tlb = st.tlb
       /\ b.early_init_done = st.early_init_done /\ b.used = st.used \ {f}
  BY <1>11, BitsetType DEF bitset_clear_bit, Machine
<1>13. ~b.halted
  BY <1>11 DEF bitset_clear_bit, Machine
<1> HIDE DEF b
<1>14. /\ t \in Machine /\ t.mem = b.mem /\ t.used = b.used
       /\ t.early_init_done = b.early_init_done /\ t.halted = b.halted
       /\ t.tlb = [b.tlb EXCEPT ![p] = NotPresent]
  BY <1>1, <1>12, EntryTypes DEF invlpg, Machine
<1> HIDE DEF t
<1>15. \A q \in CachedPages : t.tlb[q] = IF q = p THEN NotPresent ELSE st.tlb[q]
  <2>1. b.tlb \in [CachedPages -> Entry]
    BY <1>12 DEF Machine
  <2> QED
    BY <1>12, <1>14, <2>1
<1>16. Base(t)
  BY <1>10, <1>12, <1>13, <1>14 DEF Base
<1>17. Window(t, g)
  BY <1>1, <1>10, <1>12, <1>14, <1>15 DEF Window
<1>18. EntryIs(s, t, g, k, NotPresent)
  BY <1>7, <1>10, <1>12, <1>14 DEF EntryIs, SameElsewhere, SameMem
<1>19. t.used = s.used \ {f} /\ TlbWithout(s, t, p)
  BY <1>7, <1>10, <1>12, <1>14, <1>15 DEF SameElsewhere, SameTlb, TlbWithout
<1>20. Settled(t)
  BY <1>3, <1>16, <1>17 DEF Settled
<1> QED
  BY <1>2, <1>9, <1>18, <1>19, <1>20 DEF f, g, k

(* i386_page_get_phys answers with the page table's entry. *)
LEMMA GetPhysIs ==
  ASSUME NEW s, Base(s), TablesOwn(s), WindowPage \notin ClientPages, NEW p \in ClientPages
  PROVE  LET r == i386_page_get_phys(s, p)
         IN  /\ Settled(r.s) /\ SameElsewhere(s, r.s)
             /\ r.phys = IF Walk(s, p).present THEN Walk(s, p).frame ELSE 0
<1> USE Places
<1> DEFINE pd == directory(s)
           d == p \div Entries
           k == p % Entries
           g == DirEntry(s, p).frame
           pt == get_virt_ptr(pd.s, g)
           a == Access(pt.s, WindowPage)
           r == i386_page_get_phys(s, p)
<1>1. d \in Slots /\ k \in Slots
  BY ClientPagesAssumption, DivModRange
<1>2. /\ pd.virt = WindowPage /\ Base(pd.s) /\ Window(pd.s, PageDirectory)
      /\ SameElsewhere(s, pd.s)
  BY DirectoryIs
<1>3. /\ Load(pd.s, pd.virt, d) = DirEntry(s, p)
      /\ Load(pd.s, PageDirectory, d) = DirEntry(s, p)
  <2> HIDE DEF pd
  <2>1. pd.s.mem[PageDirectory][d] = DirEntry(s, p)
    BY <1>1, <1>2, SameDirectory DEF SameElsewhere, DirEntry
  <2>2. Load(pd.s, pd.virt, d) = pd.s.mem[PageDirectory][d]
    BY <1>2, WindowShows
  <2>3. Load(pd.s, PageDirectory, d) = pd.s.mem[PageDirectory][d]
    BY <1>1, <1>2, ReservedPage
  <2> QED
    BY <2>1, <2>2, <2>3
<1>4. r = IF ~DirEntry(s, p).present THEN [s |-> pd.s, phys |-> 0] ELSE phys_in(pt, k)
  BY <1>3 DEF i386_page_get_phys, phys_under
<1> HIDE DEF pd, d, k, r
<1>5. CASE ~DirEntry(s, p).present
  <2>1. ~Walk(s, p).present
    BY <1>5, WalkIs DEF NotPresent
  <2>2. r.s = pd.s /\ r.phys = 0
    BY <1>4, <1>5
  <2>3. Settled(pd.s)
    BY <1>2 DEF Settled
  <2> QED
    BY <1>2, <2>1, <2>2, <2>3 DEF r
<1>6. CASE DirEntry(s, p).present
  <2>1. /\ g \in Frames /\ g # PageDirectory
        /\ g = FirstTable => k \notin Reserved \cup {WindowPage}
    BY <1>6, TableOf DEF k
  <2>2. Walk(s, p) = s.mem[g][k]
    BY <1>6, WalkIs DEF k
  <2> HIDE DEF g
  <2>3. /\ pt.virt = WindowPage /\ Base(pt.s) /\ Window(pt.s, g) /\ SameElsewhere(pd.s, pt.s)
    BY <1>2, <2>1, MoveWindow
  <2> HIDE DEF pt
  <2>4. SameElsewhere(s, pt.s)
    BY <1>2, <2>3, SameElsewhereTrans
  <2>5. Load(pt.s, pt.virt, k) = Walk(s, p)
    <3>1. Load(pt.s, pt.virt, k) = pt.s.mem[g][k]
      BY <2>3, WindowShows
    <3>2. pt.s.mem[g][k] = s.mem[g][k]
      BY <1>1, <2>1, <2>4 DEF SameElsewhere, SameMem, WindowSlot
    <3> QED
      BY <2>2, <3>1, <3>2
  <2>6. r.s = a /\ r.phys = IF Walk(s, p).present THEN Walk(s, p).frame ELSE 0
    BY <1>4, <1>6, <2>3, <2>5 DEF phys_in
  <2>7. Base(a) /\ Window(a, g) /\ SameElsewhere(pt.s, a)
    BY <2>1, <2>3, ReadWindow
  <2> HIDE DEF a
  <2>8. SameElsewhere(s, a)
    BY <2>4, <2>7, SameElsewhereTrans
  <2>9. Settled(a)
    BY <2>1, <2>7 DEF Settled
  <2> QED
    BY <2>6, <2>8, <2>9 DEF r
<1> QED
  BY <1>5, <1>6

-----------------------------------------------------------------------------
(* What a change of the tables does to the translation of every page. *)

(* Two pages whose entries are in the same frame have the same table. *)
LEMMA TableInjective ==
  ASSUME NEW s, Base(s), TablesOwn(s), WindowPage \notin ClientPages,
         NEW p \in ClientPages, NEW q \in ClientPages,
         DirEntry(s, p).present, DirEntry(s, q).present,
         DirEntry(s, p).frame = DirEntry(s, q).frame
  PROVE  p \div Entries = q \div Entries
<1>1. p \div Entries \in Slots /\ q \div Entries \in Slots
  BY ClientPagesAssumption, DivModRange
<1>2. p \div Entries = 0 <=> q \div Entries = 0
  BY TableOf
<1>3. ASSUME p \div Entries # 0 PROVE p \div Entries = q \div Entries
  <2>1. p \div Entries \in TablesOf(s) /\ q \div Entries \in TablesOf(s)
    BY <1>1, <1>2, <1>3 DEF TablesOf, DirEntry
  <2> QED
    BY <2>1 DEF TablesOwn, DirEntry
<1> QED
  BY <1>2, <1>3

(* One entry changed: the translation of one page. *)
LEMMA WalkEntry ==
  ASSUME NEW s, Base(s), TablesOwn(s), WindowPage \notin ClientPages, NEW p \in ClientPages,
         DirEntry(s, p).present, NEW t, NEW e,
         EntryIs(s, t, DirEntry(s, p).frame, p % Entries, e)
  PROVE  /\ Walk(t, p) = e
         /\ \A q \in ClientPages : q # p => Walk(t, q) = Walk(s, q)
         /\ \A d \in Slots : t.mem[PageDirectory][d] = s.mem[PageDirectory][d]
<1> USE Places
<1> DEFINE g == DirEntry(s, p).frame
           k == p % Entries
<1>1. /\ g \in Frames /\ g # PageDirectory
      /\ g = FirstTable => k \notin Reserved \cup {WindowPage}
  BY TableOf
<1>2. k \in Slots /\ \A q \in ClientPages : q \in Pages /\ q \div Entries \in Slots /\ q % Entries \in Slots
  BY ClientPagesAssumption, DivModRange
<1>3. \A d \in Slots : t.mem[PageDirectory][d] = s.mem[PageDirectory][d]
  BY <1>1 DEF EntryIs, WindowSlot
<1>4. \A q \in ClientPages : DirEntry(t, q) = DirEntry(s, q)
  BY <1>2, <1>3 DEF DirEntry
<1>5. Walk(t, p) = e
  <2>1. t.mem[g][k] = e
    BY <1>1, <1>2 DEF EntryIs, WindowSlot
  <2> QED
    BY <1>4, <2>1, WalkIs
<1>6. ASSUME NEW q \in ClientPages, q # p PROVE Walk(t, q) = Walk(s, q)
  <2>1. CASE ~DirEntry(s, q).present
    BY <1>4, <2>1, WalkIs
  <2>2. CASE DirEntry(s, q).present
    <3> DEFINE h == DirEntry(s, q).frame
               j == q % Entries
    <3>1. ~(h = g /\ j = k)
      BY <1>2, <1>6, <2>2, TableInjective, PageSlot
    <3>2. h \in 0 .. FrameCount /\ j \in Slots /\ ~WindowSlot(h, j)
      BY <1>2, <2>2, TableOf DEF WindowSlot
    <3>3. t.mem[h][j] = s.mem[h][j]
      BY <3>1, <3>2 DEF EntryIs
    <3> QED
      BY <1>4, <2>2, <3>3, WalkIs
  <2> QED
    BY <2>1, <2>2
<1> QED
  BY <1>3, <1>5, <1>6

(* Nothing changed but the window: no translation. *)
LEMMA WalkSame ==
  ASSUME NEW s, Base(s), TablesOwn(s), WindowPage \notin ClientPages, NEW t, SameMem(s, t)
  PROVE  /\ \A q \in ClientPages : Walk(t, q) = Walk(s, q)
         /\ \A d \in Slots : t.mem[PageDirectory][d] = s.mem[PageDirectory][d]
<1> USE Places
<1>1. \A q \in ClientPages : q \div Entries \in Slots /\ q % Entries \in Slots
  BY ClientPagesAssumption, DivModRange
<1>2. \A d \in Slots : t.mem[PageDirectory][d] = s.mem[PageDirectory][d]
  BY SameDirectory
<1>3. \A q \in ClientPages : DirEntry(t, q) = DirEntry(s, q)
  BY <1>1, <1>2 DEF DirEntry
<1>4. ASSUME NEW q \in ClientPages PROVE Walk(t, q) = Walk(s, q)
  <2>1. CASE ~DirEntry(s, q).present
    BY <1>3, <2>1, WalkIs
  <2>2. CASE DirEntry(s, q).present
    <3> DEFINE h == DirEntry(s, q).frame
               j == q % Entries
    <3>1. h \in 0 .. FrameCount /\ j \in Slots /\ ~WindowSlot(h, j)
      BY <1>1, <2>2, TableOf DEF WindowSlot
    <3>2. t.mem[h][j] = s.mem[h][j]
      BY <3>1 DEF SameMem
    <3> QED
      BY <1>3, <2>2, <3>2, WalkIs
  <2> QED
    BY <2>1, <2>2
<1> QED
  BY <1>2, <1>4

(* A table is among the frames in use. *)
LEMMA TableUsed ==
  ASSUME NEW s, Base(s), TablesOwn(s), Reserved \subseteq s.used, NEW q \in ClientPages,
         DirEntry(s, q).present
  PROVE  DirEntry(s, q).frame \in s.used
<1>1. q \div Entries \in Slots
  BY ClientPagesAssumption, DivModRange
<1>2. CASE q \div Entries = 0
  BY <1>2, Places DEF DirEntry, Base, PresentAt
<1>3. CASE q \div Entries # 0
  <2>1. q \div Entries \in TablesOf(s)
    BY <1>1, <1>3 DEF TablesOf, DirEntry
  <2> QED
    BY <2>1 DEF TablesOwn, DirEntry
<1> QED
  BY <1>2, <1>3

(* A page in a new table: its translation only. *)
LEMMA WalkNew ==
  ASSUME NEW s, Base(s), TablesOwn(s), Reserved \subseteq s.used, WindowPage \notin ClientPages,
         NEW p \in ClientPages, NEW t, NEW f, NEW g, MappedInNew(s, t, p, f, g)
  PROVE  /\ Walk(t, p) = PresentAt(f)
         /\ \A q \in ClientPages : q # p => Walk(t, q) = Walk(s, q)
         /\ \A d \in Slots : t.mem[PageDirectory][d] =
              IF d = p \div Entries THEN PresentAt(g) ELSE s.mem[PageDirectory][d]
<1> USE Places
<1> DEFINE k == p % Entries
<1>1. \A q \in ClientPages : q \in Pages /\ q \div Entries \in Slots /\ q % Entries \in Slots
  BY ClientPagesAssumption, DivModRange
<1>2. /\ g \in Frames /\ g \notin s.used /\ g # PageDirectory /\ g # FirstTable
      /\ g \in 0 .. FrameCount
  BY ScannedAreFrames DEF MappedInNew
<1>3. \A d \in Slots : t.mem[PageDirectory][d] =
        IF d = p \div Entries THEN PresentAt(g) ELSE s.mem[PageDirectory][d]
  BY <1>1, <1>2 DEF MappedInNew, WindowSlot
<1>4. \A j \in Slots : t.mem[g][j] = IF j = k THEN PresentAt(f) ELSE NotPresent
  BY <1>2 DEF MappedInNew, WindowSlot
<1>5. Walk(t, p) = PresentAt(f)
  <2>1. DirEntry(t, p) = PresentAt(g)
    BY <1>1, <1>3 DEF DirEntry
  <2>2. DirEntry(t, p).present /\ DirEntry(t, p).frame = g
    BY <2>1 DEF PresentAt
  <2>3. t.mem[g][k] = PresentAt(f)
    BY <1>1, <1>4
  <2> QED
    BY <2>2, <2>3, WalkIs
<1>6. ASSUME NEW q \in ClientPages, q # p PROVE Walk(t, q) = Walk(s, q)
  <2>1. CASE q \div Entries = p \div Entries
    <3>1. ~DirEntry(s, q).present /\ DirEntry(t, q) = PresentAt(g)
      BY <1>1, <1>3, <2>1 DEF DirEntry, MappedInNew
    <3>2. q % Entries # k
      BY <1>1, <1>6, <2>1, PageSlot
    <3>3. Walk(t, q) = NotPresent
      <4>1. DirEntry(t, q).present /\ DirEntry(t, q).frame = g
        BY <3>1 DEF PresentAt
      <4>2. t.mem[g][q % Entries] = NotPresent
        BY <1>1, <1>4, <3>2
      <4> QED
        BY <4>1, <4>2, WalkIs
    <3> QED
      BY <3>1, <3>3, WalkIs
  <2>2. CASE q \div Entries # p \div Entries
    <3>1. DirEntry(t, q) = DirEntry(s, q)
      BY <1>1, <1>3, <2>2 DEF DirEntry
    <3>2. CASE ~DirEntry(s, q).present
      BY <3>1, <3>2, WalkIs
    <3>3. CASE DirEntry(s, q).present
      <4> DEFINE h == DirEntry(s, q).frame
                 j == q % Entries
      <4>1. h \in 0 .. FrameCount /\ h # PageDirectory /\ j \in Slots /\ ~WindowSlot(h, j)
        BY <1>1, <3>3, TableOf DEF WindowSlot
      <4>2. h # g
        BY <1>2, <3>3, TableUsed
      <4>3. t.mem[h][j] = s.mem[h][j]
        BY <4>1, <4>2 DEF MappedInNew
      <4> QED
        BY <3>1, <3>3, <4>3, WalkIs
    <3> QED
      BY <3>2, <3>3
  <2> QED
    BY <2>1, <2>2
<1> QED
  BY <1>3, <1>5, <1>6

-----------------------------------------------------------------------------
(* Every function of paging.c leaves a sound state sound. *)

(* With the window in use, what is left to show of the TLB are the client  *)
(* pages.                                                                  *)
LEMMA CachedSettled ==
  ASSUME NEW t, Settled(t), \A q \in ClientPages : t.tlb[q].present => t.tlb[q] = Walk(t, q)
  PROVE  Cached(t)
<1>1. PICK f : Window(t, f)
  BY DEF Settled
<1>2. t.tlb[WindowPage].present => t.tlb[WindowPage] = Walk(t, WindowPage)
  BY <1>1, WindowShows DEF Settled, Window
<1> QED
  BY <1>2 DEF Cached, CachedPages

(* Moving the window. *)
LEMMA SoundWindow ==
  ASSUME NEW s, NEW own, Sound(s, own), WindowPage \notin ClientPages,
         NEW t, Settled(t), SameElsewhere(s, t)
  PROVE  Sound(t, own)
<1>1. /\ \A q \in ClientPages : Walk(t, q) = Walk(s, q)
      /\ \A d \in Slots : t.mem[PageDirectory][d] = s.mem[PageDirectory][d]
  BY WalkSame DEF Sound, SameElsewhere
<1>2. t.used = s.used /\ own \subseteq ClientPages
  BY DEF Sound, SameElsewhere
<1>3. TablesOf(t) = TablesOf(s)
  BY <1>1 DEF TablesOf
<1>4. TablesOwn(t)
  BY <1>1, <1>2, <1>3 DEF TablesOwn, Sound, TablesOf
<1>5. PagesOwn(t, own)
  BY <1>1, <1>2, <1>3 DEF PagesOwn, Sound, TablesOf
<1>6. Cached(t)
  <2>1. \A q \in ClientPages : t.tlb[q] = s.tlb[q]
    BY DEF SameElsewhere, SameTlb, CachedPages
  <2>2. \A q \in ClientPages : s.tlb[q].present => s.tlb[q] = Walk(s, q)
    BY DEF Sound, Cached, CachedPages
  <2> QED
    BY <1>1, <2>1, <2>2, CachedSettled
<1> QED
  BY <1>2, <1>4, <1>5, <1>6 DEF Sound, Settled

(* A mapping for one page more. *)
LEMMA SoundMapped ==
  ASSUME NEW s, NEW own, Sound(s, own), WindowPage \notin ClientPages,
         NEW p \in ClientPages \ own, NEW t, Settled(t), NEW f, MappedTo(s, t, p, f)
  PROVE  Sound(t, own \cup {p})
<1>1. /\ Walk(t, p) = PresentAt(f)
      /\ \A q \in ClientPages : q # p => Walk(t, q) = Walk(s, q)
      /\ \A d \in Slots : t.mem[PageDirectory][d] = s.mem[PageDirectory][d]
  <2>1. /\ Base(s) /\ TablesOwn(s) /\ DirEntry(s, p).present
        /\ EntryIs(s, t, DirEntry(s, p).frame, p % Entries, PresentAt(f))
    BY DEF Sound, MappedTo
  <2> QED
    BY <2>1, WalkEntry, ZenonT(60)
<1>2. /\ f \in Allocatable \ s.used /\ t.used = s.used \cup {f} /\ SameTlb(s, t)
      /\ own \subseteq ClientPages
  BY AllocatableFrames DEF Sound, MappedTo
<1>3. TablesOf(t) = TablesOf(s)
  BY <1>1 DEF TablesOf
<1>4. TablesOwn(t)
  BY <1>1, <1>2, <1>3 DEF TablesOwn, Sound, TablesOf
<1>5. PagesOwn(t, own \cup {p})
  <2>1. Walk(t, p).present /\ Walk(t, p).frame = f
    BY <1>1 DEF PresentAt
  <2>2. ASSUME NEW q \in own PROVE Walk(t, q) = Walk(s, q) /\ Walk(s, q).frame \in s.used
    BY <1>1, <1>2, <2>2 DEF Sound, PagesOwn
  <2>3. ASSUME NEW d \in TablesOf(s)
        PROVE  /\ t.mem[PageDirectory][d] = s.mem[PageDirectory][d]
               /\ s.mem[PageDirectory][d].frame \in s.used
    BY <1>1, <2>3 DEF Sound, TablesOwn, TablesOf
  <2>4. ASSUME NEW q \in own \cup {p}
        PROVE  /\ Walk(t, q).present /\ Walk(t, q).frame \in Allocatable \cap t.used
               /\ \A x \in own \cup {p} : Walk(t, q).frame = Walk(t, x).frame => q = x
               /\ \A d \in TablesOf(t) : Walk(t, q).frame # t.mem[PageDirectory][d].frame
    <3>1. CASE q = p
      BY <1>2, <1>3, <2>1, <2>2, <2>3, <3>1
    <3>2. CASE q \in own
      BY <1>2, <1>3, <2>1, <2>2, <2>3, <3>2 DEF Sound, PagesOwn
    <3> QED
      BY <3>1, <3>2
  <2>5. \A q \in ClientPages \ (own \cup {p}) : ~Walk(t, q).present
    BY <1>1 DEF Sound, PagesOwn
  <2> QED
    BY <2>4, <2>5 DEF PagesOwn
<1>6. Cached(t)
  <2>1. \A q \in ClientPages : t.tlb[q] = s.tlb[q]
    BY <1>2 DEF SameTlb, CachedPages
  <2>2. \A q \in ClientPages : s.tlb[q].present => s.tlb[q] = Walk(s, q)
    BY DEF Sound, Cached, CachedPages
  <2>3. ~s.tlb[p].present
    BY <2>2 DEF Sound, PagesOwn
  <2> QED
    BY <1>1, <2>1, <2>2, <2>3, CachedSettled
<1> QED
  BY <1>2, <1>4, <1>5, <1>6 DEF Sound, Settled

(* A page and its table. *)
LEMMA SoundMappedInNew ==
  ASSUME NEW s, NEW own, Sound(s, own), WindowPage \notin ClientPages,
         NEW p \in ClientPages \ own, NEW t, Settled(t), NEW f, NEW g, MappedInNew(s, t, p, f, g)
  PROVE  Sound(t, own \cup {p}) /\ p \div Entries \in Slots \ {0}
<1>0. p \div Entries \in Slots \ {0}
  <2>1. p \div Entries \in Slots
    BY ClientPagesAssumption, DivModRange
  <2> QED
    BY <2>1 DEF Sound, Base, MappedInNew, DirEntry, PresentAt
<1>1. /\ Walk(t, p) = PresentAt(f)
      /\ \A q \in ClientPages : q # p => Walk(t, q) = Walk(s, q)
      /\ \A d \in Slots : t.mem[PageDirectory][d] =
           IF d = p \div Entries THEN PresentAt(g) ELSE s.mem[PageDirectory][d]
  BY WalkNew DEF Sound
<1>2. /\ f \in Allocatable \ s.used /\ g \in Allocatable \ (s.used \cup {f})
      /\ t.used = s.used \cup {f, g} /\ SameTlb(s, t)
      /\ own \subseteq ClientPages
  BY AllocatableFrames DEF Sound, MappedInNew
<1> DEFINE e == p \div Entries
<1> HIDE DEF e
<1>3. /\ e \in Slots \ {0} /\ t.mem[PageDirectory][e].frame = g
      /\ TablesOf(t) = TablesOf(s) \cup {e}
      /\ e \notin TablesOf(s)
      /\ \A d \in TablesOf(s) : /\ t.mem[PageDirectory][d] = s.mem[PageDirectory][d]
                                /\ s.mem[PageDirectory][d].frame \in s.used \cap Allocatable
  <2>1. t.mem[PageDirectory][e] = PresentAt(g) /\ e \in Slots \ {0}
    BY <1>0, <1>1 DEF e
  <2>2. e \notin TablesOf(s)
    BY DEF TablesOf, MappedInNew, DirEntry, e
  <2>3. \A d \in Slots : d # e => t.mem[PageDirectory][d] = s.mem[PageDirectory][d]
    BY <1>1 DEF e
  <2>4. TablesOf(t) = TablesOf(s) \cup {e}
    BY <2>1, <2>3 DEF TablesOf, PresentAt
  <2>5. \A d \in TablesOf(s) : s.mem[PageDirectory][d].frame \in s.used \cap Allocatable
    BY DEF Sound, TablesOwn
  <2> QED
    BY <2>1, <2>2, <2>3, <2>4, <2>5 DEF TablesOf, PresentAt
<1>4. TablesOwn(t)
  <2> SUFFICES ASSUME NEW d \in TablesOf(t)
               PROVE  /\ t.mem[PageDirectory][d].frame \in Allocatable \cap t.used
                      /\ \A x \in TablesOf(t) :
                           t.mem[PageDirectory][d].frame = t.mem[PageDirectory][x].frame => d = x
    BY DEF TablesOwn
  <2>1. CASE d = e
    BY <1>2, <1>3, <2>1
  <2>2. CASE d \in TablesOf(s)
    BY <1>2, <1>3, <2>2 DEF Sound, TablesOwn
  <2> QED
    BY <1>3, <2>1, <2>2
<1>5. PagesOwn(t, own \cup {p})
  <2>1. Walk(t, p).present /\ Walk(t, p).frame = f
    BY <1>1 DEF PresentAt
  <2>2. ASSUME NEW q \in own PROVE Walk(t, q) = Walk(s, q) /\ Walk(s, q).frame \in s.used
    BY <1>1, <1>2, <2>2 DEF Sound, PagesOwn
  <2>3. ASSUME NEW q \in own \cup {p}
        PROVE  /\ Walk(t, q).present /\ Walk(t, q).frame \in Allocatable \cap t.used
               /\ \A x \in own \cup {p} : Walk(t, q).frame = Walk(t, x).frame => q = x
               /\ \A d \in TablesOf(t) : Walk(t, q).frame # t.mem[PageDirectory][d].frame
    <3>1. CASE q = p
      BY <1>2, <1>3, <2>1, <2>2, <3>1
    <3>2. CASE q \in own
      BY <1>2, <1>3, <2>1, <2>2, <3>2 DEF Sound, PagesOwn
    <3> QED
      BY <3>1, <3>2
  <2>4. \A q \in ClientPages \ (own \cup {p}) : ~Walk(t, q).present
    BY <1>1 DEF Sound, PagesOwn
  <2> QED
    BY <2>3, <2>4 DEF PagesOwn
<1>6. Cached(t)
  <2>1. \A q \in ClientPages : t.tlb[q] = s.tlb[q]
    BY <1>2 DEF SameTlb, CachedPages
  <2>2. \A q \in ClientPages : s.tlb[q].present => s.tlb[q] = Walk(s, q)
    BY DEF Sound, Cached, CachedPages
  <2>3. ~s.tlb[p].present
    BY <2>2 DEF Sound, PagesOwn
  <2> QED
    BY <1>1, <2>1, <2>2, <2>3, CachedSettled
<1> QED
  BY <1>0, <1>2, <1>4, <1>5, <1>6 DEF Sound, Settled

(* A page that was held is freed. *)
LEMMA SoundFreed ==
  ASSUME NEW s, NEW own, Sound(s, own), WindowPage \notin ClientPages, NEW p, p \in own, NEW t,
         Settled(t), Freed(s, t, p)
  PROVE  Sound(t, own \ {p})
<1> USE DEF Freed
<1>1. /\ Walk(t, p) = NotPresent
      /\ \A q \in ClientPages : q # p => Walk(t, q) = Walk(s, q)
      /\ \A d \in Slots : t.mem[PageDirectory][d] = s.mem[PageDirectory][d]
  <2>1. /\ Base(s) /\ TablesOwn(s) /\ p \in ClientPages /\ WindowPage \notin ClientPages
        /\ DirEntry(s, p).present
        /\ EntryIs(s, t, DirEntry(s, p).frame, p % Entries, NotPresent)
    BY DEF Sound
  <2> QED
    BY ONLY <2>1, WalkEntry
<1>2. own \subseteq ClientPages /\ p \in ClientPages /\ Walk(s, p).frame \in Allocatable
  BY DEF Sound, PagesOwn
<1>3. TablesOf(t) = TablesOf(s)
  BY <1>1 DEF TablesOf
<1>4. TablesOwn(t)
  <2>1. \A d \in TablesOf(s) : s.mem[PageDirectory][d].frame # Walk(s, p).frame
    BY DEF Sound, PagesOwn
  <2> QED
    BY <1>1, <1>3, <2>1 DEF TablesOwn, Sound, TablesOf
<1>5. PagesOwn(t, own \ {p})
  <2>1. \A q \in own \ {p} : Walk(t, q) = Walk(s, q) /\ Walk(s, q).frame # Walk(s, p).frame
    BY <1>1, <1>2 DEF Sound, PagesOwn
  <2>2. ~Walk(t, p).present
    BY <1>1 DEF NotPresent
  <2>3. \A q \in ClientPages \ (own \ {p}) : ~Walk(t, q).present
    BY <1>1, <2>2 DEF Sound, PagesOwn
  <2>4. \A d \in TablesOf(s) : t.mem[PageDirectory][d] = s.mem[PageDirectory][d]
    BY <1>1 DEF TablesOf
  <2> QED
    BY <1>3, <2>1, <2>3, <2>4 DEF Sound, PagesOwn
<1>6. Cached(t)
  <2>1. \A q \in ClientPages : t.tlb[q] = IF q = p THEN NotPresent ELSE s.tlb[q]
    BY DEF TlbWithout, CachedPages
  <2>2. \A q \in ClientPages : s.tlb[q].present => s.tlb[q] = Walk(s, q)
    BY DEF Sound, Cached, CachedPages
  <2> QED
    BY <1>1, <2>1, <2>2, CachedSettled DEF NotPresent
<1>7. InitReserved \cup Reserved \subseteq t.used
  BY <1>2 DEF Sound, Allocatable, Reserved
<1> QED
  BY <1>1, <1>2, <1>4, <1>5, <1>6, <1>7 DEF Sound, Settled

(* A client writes to a page it holds: its own frame changes. *)
LEMMA SoundWritten ==
  ASSUME NEW s, NEW own, Sound(s, own), WindowPage \notin ClientPages, NEW p \in own
  PROVE  LET t == Fill(s, p, Garbage)
         IN  /\ Sound(t, own) /\ t.used = s.used
             /\ t.mem = [s.mem EXCEPT ![Walk(s, p).frame] = Garbage]
             /\ \A q \in CachedPages : Walk(t, q) = Walk(s, q)
             /\ \A d \in Slots : t.mem[PageDirectory][d] = s.mem[PageDirectory][d]
<1> USE Places
<1> DEFINE f == Walk(s, p).frame
           t == Fill(s, p, Garbage)
<1>1. /\ s \in Machine /\ s.early_init_done /\ ~s.halted /\ p \in ClientPages
      /\ own \subseteq ClientPages
      /\ p \in CachedPages /\ p \in Pages /\ Reachable(s, p)
  BY Ranges DEF Sound, Base, CachedPages, Reachable
<1>2. /\ f \in Allocatable /\ f \in Frames /\ f \notin Reserved /\ Walk(s, p).present
      /\ \A d \in TablesOf(s) : f # s.mem[PageDirectory][d].frame
  BY AllocatableFrames DEF Sound, PagesOwn
<1>3. Walk(s, p) = PresentAt(f)
  <2>1. Walk(s, p) \in Entry
    BY <1>1, TranslateType
  <2> QED
    BY <1>2, <2>1 DEF Entry, PresentAt
<1>4. Translate(s, p) = PresentAt(f)
  BY <1>1, <1>3 DEF Sound, Cached, Translate
<1>5. t \in Machine
  BY <1>1, FillType, EntryTypes
<1>6. t.mem = [s.mem EXCEPT ![f] = Garbage]
  <2> HIDE DEF f
  <2> QED
    BY ONLY <1>1, <1>2, <1>4, FillMem
<1>7. /\ t.used = s.used /\ t.early_init_done = s.early_init_done /\ t.halted = s.halted
      /\ t.tlb = [s.tlb EXCEPT ![p] = PresentAt(f)]
  <2> DEFINE a == Access(s, p)
  <2>1. /\ a.mem = s.mem /\ a.used = s.used /\ a.early_init_done = s.early_init_done
        /\ a.halted = s.halted /\ a.tlb = [s.tlb EXCEPT ![p] = PresentAt(f)]
    <3> HIDE DEF f
    <3>1. /\ s \in Machine /\ s.early_init_done /\ Translate(s, p) = PresentAt(f)
          /\ p \in CachedPages
      BY <1>1, <1>4
    <3> QED
      BY ONLY <3>1, AccessIs, ZenonT(30)
  <2>2. /\ t.used = a.used /\ t.early_init_done = a.early_init_done
        /\ t.halted = a.halted /\ t.tlb = a.tlb
    BY <1>1, FillRest
  <2> HIDE DEF a, t, f
  <2> QED
    BY <2>1, <2>2
<1>8. s.mem \in [0 .. FrameCount -> [Slots -> Entry]] /\ s.tlb \in [CachedPages -> Entry]
  BY <1>1 DEF Machine
<1> HIDE DEF t, f
<1>9. \A h \in 0 .. FrameCount : h # f => t.mem[h] = s.mem[h]
  BY <1>6, <1>8
<1>10. t.mem[PageDirectory] = s.mem[PageDirectory] /\ t.mem[FirstTable] = s.mem[FirstTable]
  BY <1>2, <1>9
<1>11. Base(t)
  BY <1>5, <1>7, <1>10, StillBase DEF Sound
<1>12. \A q \in CachedPages : Walk(t, q) = Walk(s, q)
  <2> SUFFICES ASSUME NEW q \in CachedPages PROVE Walk(t, q) = Walk(s, q)
    OBVIOUS
  <2>1. q \in Pages /\ q \div Entries \in Slots
    BY Ranges, DivModRange
  <2>2. DirEntry(t, q) = DirEntry(s, q)
    BY <1>10 DEF DirEntry
  <2>3. CASE ~DirEntry(s, q).present
    BY <2>2, <2>3, WalkIs
  <2>4. CASE DirEntry(s, q).present
    <3>1. DirEntry(s, q).frame # f
      <4>1. CASE q \div Entries = 0
        BY <1>2, <4>1 DEF DirEntry, Sound, Base, PresentAt
      <4>2. CASE q \div Entries # 0
        BY <1>2, <2>1, <2>4, <4>2 DEF DirEntry, TablesOf
      <4> QED
        BY <4>1, <4>2
    <3>2. DirEntry(s, q).frame \in 0 .. FrameCount
      BY <1>1, <2>1, DirectoryEntry DEF DirEntry
    <3> QED
      BY <1>9, <2>2, <2>4, <3>1, <3>2, WalkIs
  <2> QED
    BY <2>3, <2>4
<1>13. TablesOf(t) = TablesOf(s)
  BY <1>10 DEF TablesOf
<1>14. TablesOwn(t)
  BY <1>7, <1>10, <1>13 DEF TablesOwn, Sound
<1>15. PagesOwn(t, own)
  BY <1>1, <1>7, <1>10, <1>12, <1>13 DEF PagesOwn, Sound, CachedPages
<1>16. Cached(t)
  BY <1>1, <1>3, <1>7, <1>8, <1>12 DEF Cached, Sound
<1>17. Sound(t, own)
  BY <1>1, <1>7, <1>11, <1>14, <1>15, <1>16 DEF Sound
<1> QED
  BY <1>6, <1>7, <1>10, <1>12, <1>17 DEF t, f

(* The processor loads or drops a translation. *)
LEMMA SoundTlb ==
  ASSUME NEW s, NEW own, Sound(s, own), NEW t \in Machine,
         t.mem = s.mem, t.used = s.used, t.early_init_done = s.early_init_done,
         t.halted = s.halted, NEW p \in CachedPages, NEW e,
         t.tlb = [s.tlb EXCEPT ![p] = e], e.present => e = Walk(s, p)
  PROVE  Sound(t, own)
<1>1. \A q : Walk(t, q) = Walk(s, q)
  BY DEF Walk
<1>2. Base(t)
  BY DEF Sound, Base
<1>3. TablesOwn(t)
  BY DEF Sound, TablesOwn, TablesOf
<1>4. PagesOwn(t, own)
  BY <1>1 DEF Sound, PagesOwn, TablesOf
<1>5. Cached(t)
  <2>1. s.tlb \in [CachedPages -> Entry]
    BY DEF Sound, Base, Machine
  <2> QED
    BY <1>1, <2>1 DEF Sound, Cached
<1> QED
  BY <1>2, <1>3, <1>4, <1>5 DEF Sound

-----------------------------------------------------------------------------
(* The boot: paging is off, an address is its own translation. *)
LEMMA BootAccess ==
  ASSUME NEW s \in Machine, ~s.early_init_done
  PROVE  \A p : /\ Translate(s, p) = PresentAt(p) /\ Access(s, p) = s
                /\ \A i : Load(s, p, i) = s.mem[p][i]
                /\ get_virt_ptr(s, p) = [s |-> s, virt |-> p]
<1> SUFFICES ASSUME NEW p
             PROVE  /\ Translate(s, p) = PresentAt(p) /\ Access(s, p) = s
                    /\ \A i : Load(s, p, i) = s.mem[p][i]
                    /\ get_virt_ptr(s, p) = [s |-> s, virt |-> p]
  OBVIOUS
<1>1. Translate(s, p) = PresentAt(p)
  BY DEF Translate
<1>2. Access(s, p) = s
  <2>1. Access(s, p) = [s EXCEPT !.tlb = s.tlb, !.halted = s.halted \/ ~TRUE]
    BY <1>1 DEF Access, PresentAt
  <2> QED
    BY <2>1 DEF Machine
<1> QED
  BY <1>1, <1>2 DEF Load, PresentAt, get_virt_ptr

(* During boot a page is filled where its frame lies ... *)
LEMMA BootFill ==
  ASSUME NEW s \in Machine, ~s.early_init_done, NEW f \in Frames, NEW c \in [Slots -> Entry]
  PROVE  LET t == Fill(s, f, c)
         IN  /\ t \in Machine /\ t.mem = [s.mem EXCEPT ![f] = c]
             /\ t.tlb = s.tlb /\ t.used = s.used /\ t.halted = s.halted
             /\ t.early_init_done = s.early_init_done
<1> DEFINE t == Fill(s, f, c)
           a == Access(s, f)
<1>1. Translate(s, f) = PresentAt(f) /\ a = s
  BY BootAccess
<1>2. t \in Machine
  <2>1. Reachable(s, f)
    BY Places, Ranges DEF Reachable
  <2> QED
    BY <2>1, FillType
<1>3. t.mem = [s.mem EXCEPT ![f] = c]
  BY <1>1, FillMem
<1>4. /\ t.used = a.used /\ t.early_init_done = a.early_init_done
      /\ t.halted = a.halted /\ t.tlb = a.tlb
  BY FillRest
<1> HIDE DEF t, a
<1>5. /\ t.used = s.used /\ t.early_init_done = s.early_init_done
      /\ t.halted = s.halted /\ t.tlb = s.tlb
  BY <1>1, <1>4
<1> QED
  BY <1>2, <1>3, <1>5 DEF t

(* ... and an entry stored there. *)
LEMMA BootStore ==
  ASSUME NEW s \in Machine, ~s.early_init_done, NEW f \in Frames, NEW i \in Slots, NEW e \in Entry
  PROVE  LET t == Store(s, f, i, e)
         IN  /\ t \in Machine
             /\ \A h \in 0 .. FrameCount, j \in Slots :
                  t.mem[h][j] = IF h = f /\ j = i THEN e ELSE s.mem[h][j]
             /\ t.tlb = s.tlb /\ t.used = s.used /\ t.halted = s.halted
             /\ t.early_init_done = s.early_init_done
<1> DEFINE c == [s.mem[f] EXCEPT ![i] = e]
           t == Store(s, f, i, e)
<1>1. Translate(s, f).frame = f
  BY BootAccess DEF PresentAt
<1>2. t = Fill(s, f, c)
  BY <1>1 DEF Store
<1>3. f \in 0 .. FrameCount /\ s.mem \in [0 .. FrameCount -> [Slots -> Entry]]
  BY Places DEF Machine
<1>4. c \in [Slots -> Entry] /\ c[i] = e /\ \A j \in Slots : j # i => c[j] = s.mem[f][j]
  BY <1>3
<1> HIDE DEF c, t
<1>5. /\ t \in Machine /\ t.mem = [s.mem EXCEPT ![f] = c]
      /\ t.tlb = s.tlb /\ t.used = s.used /\ t.halted = s.halted
      /\ t.early_init_done = s.early_init_done
  BY <1>2, <1>4, BootFill
<1>6. \A h \in 0 .. FrameCount, j \in Slots :
        t.mem[h][j] = IF h = f /\ j = i THEN e ELSE s.mem[h][j]
  BY <1>3, <1>4, <1>5
<1> QED
  BY <1>5, <1>6 DEF t

(* The parent table during boot is FirstTable, allocated and cleared for   *)
(* the first page.                                                         *)
LEMMA BootTable ==
  ASSUME NEW s, NEW n \in Reserved, Booting(s, n)
  PROVE  LET t == parent_table(s, 0)
         IN  /\ t.ret = K_SUCCESS /\ t.virt = FirstTable
             /\ t.s \in Machine /\ ~t.s.early_init_done /\ ~t.s.halted
             /\ t.s.tlb = s.tlb /\ t.s.used = s.used
             /\ t.s.mem[PageDirectory][0] = PresentAt(FirstTable)
             /\ \A d \in Slots \ {0} : ~t.s.mem[PageDirectory][d].present
             /\ \A i \in Slots : t.s.mem[FirstTable][i] = IF i < n THEN PresentAt(i) ELSE NotPresent
<1> USE Places
<1> DEFINE pd == [s |-> s, virt |-> PageDirectory]
           t == parent_table(s, 0)
<1>1. s \in Machine /\ ~s.early_init_done
  BY DEF Booting
<1>2. directory(s) = pd
  BY <1>1, BootAccess DEF directory, opened
<1>3. Load(s, PageDirectory, 0) = s.mem[PageDirectory][0]
  BY <1>1, BootAccess
<1>4. CASE n > 0
  <2>1. s.mem[PageDirectory][0] = PresentAt(FirstTable)
    BY <1>4 DEF Booting
  <2>2. t = table_pointer(pd, 0)
    BY <1>2, <1>3, <2>1 DEF parent_table, present_or_new, PresentAt
  <2>3. Access(s, PageDirectory) = s /\ get_virt_ptr(s, FirstTable) = [s |-> s, virt |-> FirstTable]
    BY <1>1, BootAccess
  <2>4. t = [s |-> s, virt |-> FirstTable, ret |-> K_SUCCESS]
    BY <1>3, <2>1, <2>2, <2>3 DEF table_pointer, found, PresentAt
  <2> QED
    BY <1>4, <2>1, <2>4 DEF Booting
<1>5. CASE n = 0
  <2> DEFINE c == Fill(s, FirstTable, EmptyTable)
             e == Store(c, PageDirectory, 0, PresentAt(FirstTable))
             pe == [s |-> e, virt |-> PageDirectory]
  <2>1. ~s.mem[PageDirectory][0].present
    BY <1>5 DEF Booting
  <2>2. t = new_table(allocate_page_table(s), PageDirectory, 0)
    BY <1>2, <1>3, <2>1 DEF parent_table, present_or_new
  <2>3. allocate_page_table(s) = [s |-> c, ret |-> K_SUCCESS, phys |-> FirstTable]
    BY <1>1 DEF allocate_page_table, cleared_table
  <2>4. /\ c \in Machine /\ c.mem = [s.mem EXCEPT ![FirstTable] = EmptyTable]
        /\ c.tlb = s.tlb /\ c.used = s.used /\ c.halted = s.halted
        /\ c.early_init_done = s.early_init_done
    BY <1>1, EntryTypes, BootFill, ZenonT(30)
  <2> HIDE DEF c
  <2>5. get_virt_ptr(c, PageDirectory) = [s |-> c, virt |-> PageDirectory]
    BY <1>1, <2>4, BootAccess
  <2>6. t = table_pointer(pe, 0)
    BY <2>2, <2>3, <2>5 DEF new_table, entered
  <2>7. /\ e \in Machine
        /\ \A h \in 0 .. FrameCount, j \in Slots :
             e.mem[h][j] = IF h = PageDirectory /\ j = 0 THEN PresentAt(FirstTable) ELSE c.mem[h][j]
        /\ e.tlb = c.tlb /\ e.used = c.used /\ e.halted = c.halted
        /\ e.early_init_done = c.early_init_done
    <3>1. /\ PresentAt(FirstTable) \in Entry /\ PageDirectory \in Frames /\ 0 \in Slots
          /\ c \in Machine /\ ~c.early_init_done
      BY <1>1, <2>4, EntryTypes
    <3> QED
      BY ONLY <3>1, BootStore
  <2> HIDE DEF e
  <2>8. e.mem[PageDirectory][0] = PresentAt(FirstTable)
    BY <2>7
  <2>9. /\ Access(e, PageDirectory) = e /\ Load(e, PageDirectory, 0) = e.mem[PageDirectory][0]
        /\ get_virt_ptr(e, FirstTable) = [s |-> e, virt |-> FirstTable]
    BY <1>1, <2>4, <2>7, BootAccess
  <2>10. t = [s |-> e, virt |-> FirstTable, ret |-> K_SUCCESS]
    BY <2>6, <2>8, <2>9 DEF table_pointer, found, PresentAt
  <2>11. s.mem \in [0 .. FrameCount -> [Slots -> Entry]]
    BY <1>1 DEF Machine
  <2>12. c.mem[FirstTable] = EmptyTable /\ c.mem[PageDirectory] = s.mem[PageDirectory]
    BY <2>4, <2>11
  <2>13. \A i \in Slots : e.mem[FirstTable][i] = NotPresent
    <3>1. FirstTable \in 0 .. FrameCount /\ PageDirectory # FirstTable
      OBVIOUS
    <3>2. \A i \in Slots : e.mem[FirstTable][i] = EmptyTable[i]
      BY ONLY <2>7, <2>12, <3>1
    <3> QED
      BY ONLY <3>2 DEF EmptyTable
  <2>14. \A d \in Slots \ {0} : e.mem[PageDirectory][d] = s.mem[PageDirectory][d]
    BY <2>7, <2>12
  <2>15. \A i \in Slots : ~(i < n)
    BY <1>5 DEF Slots
  <2> QED
    BY <1>1, <2>4, <2>7, <2>8, <2>10, <2>13, <2>14, <2>15 DEF Booting
<1> QED
  BY <1>4, <1>5 DEF Reserved

(* One turn of the boot's loop. *)
LEMMA BootTurn ==
  ASSUME NEW s, NEW n \in Reserved, Booting(s, n)
  PROVE  Booting(i386_identity_map_page(s, n).s, n + 1)
<1> USE Places
<1> DEFINE t == parent_table(s, 0)
           m == Store(t.s, FirstTable, n, PresentAt(n))
           b == bitset_set_bit(m, n)
<1>1. /\ t.ret = K_SUCCESS /\ t.virt = FirstTable
      /\ t.s \in Machine /\ ~t.s.early_init_done /\ ~t.s.halted
      /\ t.s.tlb = s.tlb /\ t.s.used = s.used
      /\ t.s.mem[PageDirectory][0] = PresentAt(FirstTable)
      /\ \A d \in Slots \ {0} : ~t.s.mem[PageDirectory][d].present
      /\ \A i \in Slots : t.s.mem[FirstTable][i] = IF i < n THEN PresentAt(i) ELSE NotPresent
  BY BootTable
<1>2. i386_identity_map_page(s, n).s = b
  BY <1>1 DEF i386_identity_map_page, identity_map
<1>3. n \in Slots /\ n \in Frames /\ PresentAt(n) \in Entry /\ n \in Nat
  BY EntryTypes DEF Reserved
<1> HIDE DEF t
<1>4. /\ m \in Machine
      /\ \A h \in 0 .. FrameCount, j \in Slots :
           m.mem[h][j] = IF h = FirstTable /\ j = n THEN PresentAt(n) ELSE t.s.mem[h][j]
      /\ m.tlb = t.s.tlb /\ m.used = t.s.used /\ m.halted = t.s.halted
      /\ m.early_init_done = t.s.early_init_done
  <2>1. /\ t.s \in Machine /\ ~t.s.early_init_done /\ FirstTable \in Frames
        /\ n \in Slots /\ PresentAt(n) \in Entry
    BY <1>1, <1>3
  <2> QED
    BY ONLY <2>1, BootStore
<1> HIDE DEF m
<1>5. /\ b \in Machine /\ b.mem = m.mem /\ b.tlb = m.tlb /\ b.used = m.used \cup {n}
      /\ b.early_init_done = m.early_init_done
  <2>1. m \in Machine /\ n \in Frames
    BY <1>3, <1>4
  <2> QED
    BY ONLY <2>1, BitsetType DEF bitset_set_bit, Machine
<1>6. ~b.halted
  <2>1. m.halted = FALSE
    BY <1>1, <1>4 DEF Machine
  <2> QED
    BY <1>3, <1>4, <2>1 DEF bitset_set_bit, Machine
<1> HIDE DEF b
<1>7. \A i \in Slots : b.mem[FirstTable][i] = IF i < n + 1 THEN PresentAt(i) ELSE NotPresent
  BY <1>1, <1>3, <1>4, <1>5 DEF Slots
<1>8. \A d \in Slots : b.mem[PageDirectory][d] = t.s.mem[PageDirectory][d]
  <2>1. PageDirectory \in 0 .. FrameCount /\ PageDirectory # FirstTable
    OBVIOUS
  <2> QED
    BY ONLY <1>4, <1>5, <2>1
<1>9. b.used = InitReserved \cup 0 .. (n + 1) - 1
  <2>1. s.used = InitReserved \cup 0 .. n - 1
    BY DEF Booting
  <2> QED
    BY <1>1, <1>3, <1>4, <1>5, <2>1
<1>10. \A p \in CachedPages : ~b.tlb[p].present
  BY <1>1, <1>4, <1>5 DEF Booting
<1>11. /\ b.mem[PageDirectory][0] = PresentAt(FirstTable)
       /\ \A d \in Slots \ {0} : ~b.mem[PageDirectory][d].present
       /\ ~b.early_init_done
  BY <1>1, <1>4, <1>5, <1>8
<1>12. Booting(b, n + 1)
  BY <1>3, <1>5, <1>6, <1>7, <1>9, <1>10, <1>11 DEF Booting
<1> QED
  BY <1>2, <1>12

(* When paging is turned on the state is sound: no client page is mapped. *)
LEMMA BootedSound ==
  ASSUME NEW s, Booting(s, ReservedPages), NEW t \in Machine, t.early_init_done,
         t.mem = s.mem, t.tlb = s.tlb, t.used = s.used, t.halted = s.halted
  PROVE  Sound(t, {}) /\ \A q \in ClientPages : ~Walk(t, q).present
<1> USE Places
<1>1. ReservedPages \in Nat /\ ReservedPages > 0
  BY EarlyHeapAssumption
<1>2. /\ t.mem[PageDirectory][0] = PresentAt(FirstTable)
      /\ \A d \in Slots \ {0} : ~t.mem[PageDirectory][d].present
      /\ \A i \in Slots : t.mem[FirstTable][i] = IF i < ReservedPages THEN PresentAt(i) ELSE NotPresent
  BY <1>1 DEF Booting
<1>3. Base(t)
  BY <1>2 DEF Base, Booting, Reserved
<1>4. TablesOf(t) = {}
  BY <1>2 DEF TablesOf
<1>5. ASSUME NEW q \in ClientPages PROVE ~Walk(t, q).present
  <2>1. /\ q \in Pages /\ q \div Entries \in Slots /\ q % Entries \in Slots /\ q \notin Reserved
    BY ClientPagesAssumption, DivModRange DEF Reserved
  <2>2. CASE q \div Entries # 0
    BY <1>2, <2>1, <2>2 DEF Walk, NotPresent
  <2>3. CASE q \div Entries = 0
    <3>1. q \in Nat /\ q = Entries * (q \div Entries) + (q % Entries)
      BY <2>1, SizesAssumption DEF Pages
    <3>2. q % Entries = q /\ ~(q < ReservedPages)
      BY <1>1, <2>1, <2>3, <3>1 DEF Slots, Reserved
    <3>3. Walk(t, q) = NotPresent
      <4>1. t.mem[FirstTable][q % Entries] = NotPresent
        BY <1>2, <2>1, <3>2
      <4> QED
        BY <1>2, <2>3, <4>1 DEF Walk, PresentAt
    <3> QED
      BY <3>3 DEF NotPresent
  <2> QED
    BY <2>2, <2>3
<1>6. TablesOwn(t) /\ PagesOwn(t, {})
  BY <1>4, <1>5 DEF TablesOwn, PagesOwn
<1>7. Cached(t)
  BY DEF Cached, Booting
<1>8. InitReserved \cup Reserved \subseteq t.used
  BY DEF Booting, Reserved
<1> QED
  BY <1>3, <1>5, <1>6, <1>7, <1>8 DEF Sound

-----------------------------------------------------------------------------
(* The steps of the specification. *)

(* The variables after a function has returned state s. *)
LEMMA BecomeMachine ==
  ASSUME NEW s \in Machine, Become(s)
  PROVE  machine' = s /\ early_init_done' = s.early_init_done
  BY DEF Become, machine, Machine

(* IInv in a running system. *)
LEMMA RunningSound ==
  ASSUME IInv, early_init_done
  PROVE  /\ Sound(machine, owned) /\ machine.early_init_done /\ machine.used = used
         /\ machine.mem = mem /\ machine.tlb = tlb
         /\ owned \subseteq ClientPages /\ machine \in Machine
  BY MachineType DEF IInv, machine, Sound

(* What is left to show of IInv after a step of the running system. *)
LEMMA StillRunning ==
  ASSUME IInv, early_init_done, NEW s \in Machine, s.early_init_done, Become(s),
         boot_page' = boot_page, Sound(s, owned')
  PROVE  IInv'
<1>1. machine' = s /\ early_init_done'
  BY BecomeMachine
<1>2. Sound(machine', owned')
  BY <1>1
<1>3. TypeOK'
  <2>1. owned' \in SUBSET ClientPages
    BY DEF Sound
  <2> QED
    BY <2>1, BecomeType DEF IInv, TypeOK
<1> QED
  BY <1>1, <1>2, <1>3 DEF IInv

(* i386_allocate_page of a page that is not held. *)
LEMMA AllocateStep ==
  ASSUME IInv, WindowPage \notin ClientPages, NEW p \in ClientPages \ owned, AllocatePage(p)
  PROVE  /\ IInv' /\ early_init_done /\ early_init_done' /\ Sound(machine', owned')
         /\ \/ owned' = owned /\ SameElsewhere(machine, machine')
            \/ owned' = owned \cup {p} /\ \E f \in Frames : MappedTo(machine, machine', p, f)
            \/ owned' = owned \cup {p} /\ \E f, g \in Frames : MappedInNew(machine, machine', p, f, g)
<1> DEFINE s == machine
           r == i386_allocate_page(s, p)
<1>1. /\ early_init_done /\ Become(r.s) /\ boot_page' = boot_page
      /\ owned' = IF r.ret = K_SUCCESS THEN owned \cup {p} ELSE owned
  BY DEF AllocatePage, Returned, Running
<1>2. Sound(s, owned) /\ s \in Machine /\ s.early_init_done
  BY <1>1, RunningSound
<1>3. r.s \in Machine
  BY <1>2, AllocatePageType, Ranges
<1>4. \/ r.ret = K_OOM /\ SameElsewhere(s, r.s) /\ (Settled(r.s) \/ r.s = s)
      \/ r.ret = K_SUCCESS /\ Settled(r.s) /\ \E f \in Frames : MappedTo(s, r.s, p, f)
      \/ r.ret = K_SUCCESS /\ Settled(r.s) /\ \E f, g \in Frames : MappedInNew(s, r.s, p, f, g)
  <2> HIDE DEF s
  <2>1. Base(s) /\ TablesOwn(s) /\ Reserved \subseteq s.used
    BY <1>2 DEF Sound
  <2> QED
    BY <2>1, AllocatePageIs
<1>5. machine' = r.s /\ early_init_done' = r.s.early_init_done
  BY <1>1, <1>3, BecomeMachine
<1> HIDE DEF s, r
<1>6. /\ Sound(r.s, owned')
      /\ \/ owned' = owned /\ SameElsewhere(s, r.s)
         \/ owned' = owned \cup {p} /\ \E f \in Frames : MappedTo(s, r.s, p, f)
         \/ owned' = owned \cup {p} /\ \E f, g \in Frames : MappedInNew(s, r.s, p, f, g)
  <2>1. CASE r.ret = K_OOM /\ SameElsewhere(s, r.s) /\ (Settled(r.s) \/ r.s = s)
    <3>1. owned' = owned
      BY <1>1, <2>1 DEF K_OOM, K_SUCCESS
    <3> QED
      BY <1>2, <2>1, <3>1, SoundWindow
  <2>2. CASE r.ret = K_SUCCESS /\ Settled(r.s) /\ \E f \in Frames : MappedTo(s, r.s, p, f)
    <3>1. owned' = owned \cup {p}
      BY <1>1, <2>2
    <3>2. PICK f \in Frames : MappedTo(s, r.s, p, f)
      BY <2>2
    <3>3. Sound(r.s, owned \cup {p})
      BY <1>2, <2>2, <3>2, SoundMapped
    <3> QED
      BY <3>1, <3>2, <3>3
  <2>3. CASE r.ret = K_SUCCESS /\ Settled(r.s) /\ \E f, g \in Frames : MappedInNew(s, r.s, p, f, g)
    <3>1. owned' = owned \cup {p}
      BY <1>1, <2>3
    <3>2. PICK f \in Frames, g \in Frames : MappedInNew(s, r.s, p, f, g)
      BY <2>3
    <3>3. Sound(r.s, owned \cup {p})
      BY <1>2, <2>3, <3>2, SoundMappedInNew
    <3> QED
      BY <3>1, <3>2, <3>3
  <2> QED
    BY <1>4, <2>1, <2>2, <2>3
<1>7. r.s.early_init_done
  BY <1>6 DEF Sound, Base
<1>8. IInv'
  BY <1>1, <1>3, <1>6, <1>7, StillRunning
<1> QED
  BY <1>1, <1>5, <1>6, <1>7, <1>8 DEF s

(* i386_free_page of a page that is held. *)
LEMMA FreeStep ==
  ASSUME IInv, WindowPage \notin ClientPages, NEW p \in owned, FreePage(p)
  PROVE  /\ IInv' /\ early_init_done /\ early_init_done' /\ Sound(machine', owned')
         /\ owned' = owned \ {p} /\ Freed(machine, machine', p)
         /\ Walk(machine', p) = NotPresent
         /\ \A q \in ClientPages : q # p => Walk(machine', q) = Walk(machine, q)
         /\ \A d \in Slots : machine'.mem[PageDirectory][d] = machine.mem[PageDirectory][d]
<1> DEFINE s == machine
           t == i386_free_page(s, p).s
<1>1. early_init_done /\ Become(t) /\ boot_page' = boot_page /\ owned' = owned \ {p}
  BY DEF FreePage, Running
<1>2. /\ Sound(s, owned) /\ s \in Machine /\ s.early_init_done /\ s.used = used
      /\ p \in ClientPages
  BY <1>1, RunningSound
<1>3. t \in Machine
  BY <1>2, FreePageType, Ranges
<1>4. machine' = t /\ early_init_done' = t.early_init_done /\ used' = t.used
  BY <1>1, <1>3, BecomeMachine DEF Become
<1>5. /\ Settled(t) /\ DirEntry(s, p).present
      /\ t.used = s.used \ {Walk(s, p).frame}
      /\ TlbWithout(s, t, p)
      /\ EntryIs(s, t, DirEntry(s, p).frame, p % Entries, NotPresent)
  <2> HIDE DEF s
  <2>1. Base(s) /\ TablesOwn(s) /\ Walk(s, p).present /\ Walk(s, p).frame \in Frames
    BY <1>2, AllocatableFrames DEF Sound, PagesOwn
  <2> QED
    BY <1>2, <2>1, FreePageIs
<1> HIDE DEF s, t
<1>6. /\ Sound(t, owned \ {p}) /\ Walk(t, p) = NotPresent
      /\ \A q \in ClientPages : q # p => Walk(t, q) = Walk(s, q)
      /\ \A d \in Slots : t.mem[PageDirectory][d] = s.mem[PageDirectory][d]
  <2>1. /\ Sound(s, owned) /\ WindowPage \notin ClientPages /\ p \in owned
        /\ Settled(t) /\ Freed(s, t, p)
    BY <1>2, <1>5 DEF Freed
  <2>2. Sound(t, owned \ {p})
    BY ONLY <2>1, SoundFreed
  <2>3. /\ Base(s) /\ TablesOwn(s) /\ p \in ClientPages /\ WindowPage \notin ClientPages
        /\ DirEntry(s, p).present
        /\ EntryIs(s, t, DirEntry(s, p).frame, p % Entries, NotPresent)
    BY <1>2, <1>5 DEF Sound
  <2>4. /\ Walk(t, p) = NotPresent
        /\ \A q \in ClientPages : q # p => Walk(t, q) = Walk(s, q)
        /\ \A d \in Slots : t.mem[PageDirectory][d] = s.mem[PageDirectory][d]
    BY ONLY <2>3, WalkEntry
  <2> QED
    BY <2>2, <2>4
<1>7. t.early_init_done
  BY <1>6 DEF Sound, Base
<1>8. IInv'
  BY <1>1, <1>3, <1>6, <1>7, StillRunning
<1> QED
  BY <1>1, <1>2, <1>4, <1>5, <1>6, <1>7, <1>8 DEF s, Freed

(* i386_page_get_phys. *)
LEMMA GetPhysStep ==
  ASSUME IInv, WindowPage \notin ClientPages, NEW p \in ClientPages, GetPhys(p)
  PROVE  /\ IInv' /\ early_init_done /\ early_init_done' /\ owned' = owned
         /\ SameElsewhere(machine, machine')
<1> DEFINE s == machine
           t == i386_page_get_phys(s, p).s
<1>1. early_init_done /\ Become(t) /\ boot_page' = boot_page /\ owned' = owned
  BY DEF GetPhys, Running
<1>2. Sound(s, owned) /\ s \in Machine /\ s.early_init_done
  BY <1>1, RunningSound
<1>3. t \in Machine
  BY <1>2, GetPhysType, Ranges
<1>4. machine' = t /\ early_init_done' = t.early_init_done
  BY <1>1, <1>3, BecomeMachine
<1>5. Settled(t) /\ SameElsewhere(s, t)
  <2> HIDE DEF s
  <2>1. Base(s) /\ TablesOwn(s)
    BY <1>2 DEF Sound
  <2> QED
    BY <2>1, GetPhysIs
<1> HIDE DEF s, t
<1>6. Sound(t, owned)
  BY <1>2, <1>5, SoundWindow
<1>7. t.early_init_done
  BY <1>6 DEF Sound, Base
<1>8. IInv'
  BY <1>1, <1>3, <1>6, <1>7, StillRunning
<1> QED
  BY <1>1, <1>4, <1>5, <1>7, <1>8 DEF s

(* A client's write. *)
LEMMA WriteStep ==
  ASSUME IInv, WindowPage \notin ClientPages, NEW p \in ClientPages, ClientWrite(p)
  PROVE  /\ IInv' /\ early_init_done /\ early_init_done' /\ owned' = owned /\ used' = used
         /\ p \in owned /\ mem' = [mem EXCEPT ![Walk(machine, p).frame] = Garbage]
         /\ \A q \in ClientPages : Walk(machine', q) = Walk(machine, q)
         /\ \A d \in Slots : machine'.mem[PageDirectory][d] = machine.mem[PageDirectory][d]
<1> DEFINE s == machine
           t == Fill(s, p, Garbage)
<1>1. /\ early_init_done /\ Become(t) /\ boot_page' = boot_page /\ owned' = owned
      /\ p \in owned
  BY DEF ClientWrite, Running
<1>2. /\ Sound(s, owned) /\ s \in Machine /\ s.early_init_done /\ s.used = used
      /\ s.mem = mem
  BY <1>1, RunningSound
<1>3. t \in Machine
  <2>1. Reachable(s, p)
    BY <1>2, Ranges DEF Reachable
  <2> QED
    BY <1>2, <2>1, FillType, EntryTypes
<1>4. /\ machine' = t /\ early_init_done' = t.early_init_done /\ used' = t.used
      /\ mem' = t.mem
  BY <1>1, <1>3, BecomeMachine DEF Become
<1> HIDE DEF s
<1>5. /\ Sound(t, owned) /\ t.used = s.used
      /\ t.mem = [s.mem EXCEPT ![Walk(s, p).frame] = Garbage]
      /\ \A q \in CachedPages : Walk(t, q) = Walk(s, q)
      /\ \A d \in Slots : t.mem[PageDirectory][d] = s.mem[PageDirectory][d]
  BY <1>1, <1>2, SoundWritten
<1> HIDE DEF t
<1>6. t.early_init_done
  BY <1>5 DEF Sound, Base
<1>7. IInv'
  BY <1>1, <1>3, <1>5, <1>6, StillRunning
<1>8. \A q \in ClientPages : Walk(t, q) = Walk(s, q)
  BY <1>5 DEF CachedPages
<1> QED
  BY <1>1, <1>2, <1>4, <1>5, <1>6, <1>7, <1>8 DEF s

(* The TLB's own steps. *)
LEMMA TlbStep ==
  ASSUME IInv, NEW p \in CachedPages, TlbFill(p) \/ TlbEvict(p)
  PROVE  IInv'
<1>1. /\ early_init_done /\ UNCHANGED <<mem, used, early_init_done, halted, boot_page, owned>>
      /\ \E e \in {Walk(machine, p), NotPresent} : tlb' = [tlb EXCEPT ![p] = e]
  BY DEF TlbFill, TlbEvict, Running
<1>2. PICK e \in {Walk(machine, p), NotPresent} : tlb' = [tlb EXCEPT ![p] = e]
  BY <1>1
<1>3. Sound(machine, owned) /\ machine \in Machine /\ machine.tlb = tlb
  BY <1>1, RunningSound
<1>4. TypeOK'
  BY NextTypeOK DEF IInv, FreeAnyNext, Next
<1>5. machine' \in Machine
  BY <1>4 DEF TypeOK, machine, Machine
<1>6. /\ machine'.mem = machine.mem /\ machine'.used = machine.used
      /\ machine'.early_init_done = machine.early_init_done
      /\ machine'.halted = machine.halted
      /\ machine'.tlb = [machine.tlb EXCEPT ![p] = e]
  BY <1>1, <1>2 DEF machine
<1>7. e.present => e = Walk(machine, p)
  BY DEF NotPresent
<1>8. Sound(machine', owned)
  BY <1>3, <1>5, <1>6, <1>7, SoundTlb
<1> QED
  BY <1>1, <1>4, <1>8 DEF IInv

(* The directory is empty, and nothing is mapped, cached or held. *)
LEMMA InitIInv == Init => IInv
<1> SUFFICES ASSUME Init PROVE IInv
  OBVIOUS
<1> USE Places
<1>1. TypeOK
  BY InitTypeOK
<1>2. machine \in Machine
  BY <1>1, MachineType
<1>3. /\ machine.mem[PageDirectory] = EmptyTable /\ machine.used = InitReserved
      /\ ~machine.early_init_done /\ ~machine.halted
  BY DEF Init, machine
<1>4. \A d \in Slots : ~machine.mem[PageDirectory][d].present
  BY <1>3 DEF EmptyTable, NotPresent
<1>5. \A p \in CachedPages : ~machine.tlb[p].present
  BY DEF Init, machine, NotPresent
<1>6. machine.used = InitReserved \cup 0 .. 0 - 1 /\ ~(0 > 0)
  BY <1>3
<1> HIDE DEF machine
<1>7. Booting(machine, 0)
  BY ONLY <1>2, <1>3, <1>4, <1>5, <1>6, Places DEF Booting
<1> QED
  BY <1>1, <1>7 DEF Init, IInv

(* One turn of the boot loop. *)
LEMMA BootIdentityMapStep ==
  ASSUME IInv, BootIdentityMap
  PROVE  IInv' /\ ~early_init_done /\ ~early_init_done' /\ owned' = {}
<1> DEFINE r == i386_identity_map_page(machine, boot_page).s
<1>1. /\ boot_page < ReservedPages /\ Become(r) /\ boot_page' = boot_page + 1 /\ owned' = owned
  BY DEF BootIdentityMap
<1>2. /\ ~early_init_done /\ Booting(machine, boot_page) /\ owned = {}
      /\ boot_page \in Reserved
  BY <1>1, ReservedAssumption DEF IInv, TypeOK, Reserved
<1>3. Booting(r, boot_page + 1)
  BY <1>2, BootTurn
<1> HIDE DEF r
<1>4. r \in Machine /\ ~r.early_init_done
  BY <1>3 DEF Booting
<1>5. machine' = r /\ early_init_done' = r.early_init_done
  BY <1>1, <1>4, BecomeMachine
<1>6. TypeOK'
  BY NextTypeOK DEF IInv, FreeAnyNext, Next
<1> QED
  BY <1>1, <1>2, <1>3, <1>4, <1>5, <1>6 DEF IInv

(* Paging is turned on. *)
LEMMA BootEnableStep ==
  ASSUME IInv, BootEnable
  PROVE  /\ IInv' /\ ~early_init_done /\ early_init_done'
         /\ Sound(machine', {}) /\ owned' = {} /\ owned = {}
         /\ Booting(machine, ReservedPages) /\ used' = used /\ mem' = mem
<1>1. /\ boot_page = ReservedPages /\ ~early_init_done /\ early_init_done'
      /\ UNCHANGED <<mem, tlb, used, halted, boot_page, owned>>
  BY DEF BootEnable
<1>2. Booting(machine, ReservedPages) /\ owned = {}
  BY <1>1 DEF IInv
<1>3. TypeOK'
  BY NextTypeOK DEF IInv, FreeAnyNext, Next
<1>4. machine' \in Machine
  BY <1>3 DEF TypeOK, machine, Machine
<1>5. /\ machine'.early_init_done /\ machine'.mem = machine.mem /\ machine'.tlb = machine.tlb
      /\ machine'.used = machine.used /\ machine'.halted = machine.halted
  BY <1>1 DEF machine
<1>6. Sound(machine', {})
  BY <1>2, <1>4, <1>5, BootedSound
<1> QED
  BY <1>1, <1>2, <1>3, <1>6 DEF IInv

(* IInv is inductive when the window's page is no client's. *)
LEMMA NextIInv ==
  ASSUME WindowPage \notin ClientPages, IInv, [Next]_vars
  PROVE  IInv'
<1>1. CASE BootIdentityMap
  BY <1>1, BootIdentityMapStep
<1>2. CASE BootEnable
  BY <1>2, BootEnableStep
<1>3. ASSUME NEW p \in ClientPages, p \notin owned, AllocatePage(p) PROVE IInv'
  BY <1>3, AllocateStep
<1>4. ASSUME NEW p \in ClientPages, p \in owned, FreePage(p) PROVE IInv'
  BY <1>4, FreeStep
<1>5. ASSUME NEW p \in ClientPages, GetPhys(p) PROVE IInv'
  BY <1>5, GetPhysStep
<1>6. ASSUME NEW p \in ClientPages, ClientWrite(p) PROVE IInv'
  BY <1>6, WriteStep
<1>7. ASSUME NEW p \in CachedPages, TlbFill(p) \/ TlbEvict(p) PROVE IInv'
  BY <1>7, TlbStep
<1>8. CASE UNCHANGED vars
  <2>1. machine' = machine
    BY <1>8 DEF vars, machine
  <2>2. TypeOK'
    BY <1>8 DEF IInv, TypeOK, vars
  <2> QED
    BY <1>8, <2>1, <2>2 DEF IInv, vars
<1> QED
  BY <1>1, <1>2, <1>3, <1>4, <1>5, <1>6, <1>7, <1>8 DEF Next

-----------------------------------------------------------------------------
(* The inductive invariant, for a window page that asa never hands out:    *)
(* the assertion at the end of i386_paging_init admits one more page.      *)
THEOREM PagingInvariant ==
  ASSUME WindowPage \notin ClientPages
  PROVE  Spec => []IInv
<1>1. Init => IInv
  BY InitIInv
<1>2. IInv /\ [Next]_vars => IInv'
  BY NextIInv
<1> QED
  BY <1>1, <1>2, PTL DEF Spec

(* What IInv says of frames: those of pages held and of tables are         *)
(* exclusive.                                                              *)
LEMMA FramesExclusive == IInv => FrameExclusive
<1> SUFFICES ASSUME IInv PROVE FrameExclusive
  OBVIOUS
<1>1. /\ NewTables = TablesOf(machine)
      /\ \A d : TableFrame(d) = machine.mem[PageDirectory][d].frame
  BY DEF NewTables, TablesOf, TableFrame, machine
<1>2. CASE ~early_init_done
  <2>1. owned = {} /\ TablesOf(machine) = {}
    BY <1>2 DEF IInv, Booting, TablesOf
  <2> QED
    BY <1>1, <2>1 DEF FrameExclusive
<1>3. CASE early_init_done
  <2>1. TablesOwn(machine) /\ PagesOwn(machine, owned)
    BY <1>3 DEF IInv, Sound
  <2>2. Allocatable \subseteq ReservedPages .. FrameCount - 1
    <3>1. \A f \in Allocatable : f \in Nat /\ f \notin 0 .. ReservedPages - 1 /\ f \in Frames
      BY AllocatableFrames, Places DEF Allocatable, Frames
    <3> QED
      BY <3>1, Places DEF Frames
  <2> QED
    BY <1>1, <2>1, <2>2 DEF FrameExclusive, TablesOwn, PagesOwn, Mapped, PageFrame
<1> QED
  BY <1>2, <1>3

(* What it says of the identity mapping, the TLB and the assertions. *)
LEMMA MappingIntact == IInv => IdentityIntact /\ TlbCoherent /\ NeverHalts
<1> SUFFICES ASSUME IInv PROVE IdentityIntact /\ TlbCoherent /\ NeverHalts
  OBVIOUS
<1>1. machine.tlb = tlb /\ machine.halted = halted
  BY DEF machine
<1>2. CASE ~early_init_done
  <2>1. Booting(machine, boot_page)
    BY <1>2 DEF IInv
  <2> QED
    BY <1>1, <1>2, <2>1 DEF Booting, IdentityIntact, TlbCoherent, NeverHalts
<1>3. CASE early_init_done
  <2>1. Base(machine) /\ Cached(machine)
    BY <1>3 DEF IInv, Sound
  <2>2. \A p \in Reserved \ {WindowPage} : Walk(machine, p) = PresentAt(p)
    BY <2>1, ReservedPage
  <2>3. IdentityIntact
    BY <2>2 DEF IdentityIntact, Reserved
  <2>4. TlbCoherent
    BY <1>1, <2>1 DEF Cached, TlbCoherent
  <2>5. NeverHalts
    BY <1>1, <2>1 DEF Base, NeverHalts
  <2> QED
    BY <2>3, <2>4, <2>5
<1> QED
  BY <1>2, <1>3

(* What i386_page_get_phys answers in a state of IInv. *)
LEMMA PhysExact == ASSUME WindowPage \notin ClientPages, IInv PROVE GetPhysExact
<1> SUFFICES ASSUME early_init_done, NEW p \in ClientPages
             PROVE  i386_page_get_phys(machine, p).phys =
                      IF p \in owned THEN PageFrame(p) ELSE 0
  BY DEF GetPhysExact, Running
<1>1. Base(machine) /\ TablesOwn(machine) /\ PagesOwn(machine, owned)
  BY DEF IInv, Sound
<1>2. i386_page_get_phys(machine, p).phys =
        IF Walk(machine, p).present THEN Walk(machine, p).frame ELSE 0
  BY <1>1, GetPhysIs
<1>3. p \in owned => Walk(machine, p).present
  BY <1>1 DEF PagesOwn
<1>4. p \notin owned => ~Walk(machine, p).present
  BY <1>1 DEF PagesOwn
<1> QED
  BY <1>2, <1>3, <1>4 DEF PageFrame

(* Two free frames, one, or none. *)
LEMMA FreeFrames ==
  ASSUME NEW S
  PROVE  LET free == ScannedFrames \ S
         IN  /\ ScannedFrames \subseteq S => Cardinality(free) = 0
             /\ \A f \in free : ScannedFrames \subseteq S \cup {f} => Cardinality(free) = 1
             /\ \A f \in free : Cardinality(free) >= 1
             /\ \A f \in free : \A g \in ScannedFrames \ (S \cup {f}) : Cardinality(free) >= 2
<1> DEFINE free == ScannedFrames \ S
<1>1. IsFiniteSet(ScannedFrames)
  BY FS_Interval, SizesAssumption DEF ScannedFrames
<1>2. IsFiniteSet(free)
  BY <1>1, FS_Difference
<1>3. ScannedFrames \subseteq S => free = {}
  OBVIOUS
<1>4. \A f \in free : ScannedFrames \subseteq S \cup {f} => free = {f}
  OBVIOUS
<1>5. \A f \in free : \A g \in ScannedFrames \ (S \cup {f}) : g \in free /\ f # g
  OBVIOUS
<1> HIDE DEF free
<1>6. Cardinality(free) \in Nat /\ (Cardinality(free) = 0 <=> free = {})
  BY <1>2, FS_CardinalityType, FS_EmptySet
<1>7. Cardinality(free) = 1 <=> \E x : free = {x}
  BY <1>2, FS_Singleton
<1>8. \A f, g \in free : f # g => Cardinality(free) >= 2
  <2>1. \A f, g \in free : f # g => Cardinality(free) # 1 /\ Cardinality(free) # 0
    BY <1>6, <1>7
  <2> QED
    BY <1>6, <2>1
<1>9. \A f \in free : Cardinality(free) >= 1
  BY <1>6
<1>10. \A f \in free : ScannedFrames \subseteq S \cup {f} => Cardinality(free) = 1
  BY <1>4, <1>7
<1>11. \A f \in free : \A g \in ScannedFrames \ (S \cup {f}) : Cardinality(free) >= 2
  BY <1>5, <1>8
<1>12. ScannedFrames \subseteq S => Cardinality(free) = 0
  BY <1>3, <1>6
<1> QED
  BY <1>9, <1>10, <1>11, <1>12 DEF free

(* When i386_allocate_page fails in a state of IInv. *)
LEMMA FailsExact == ASSUME WindowPage \notin ClientPages, IInv PROVE OomExact
<1> SUFFICES ASSUME early_init_done, NEW p \in ClientPages \ owned
             PROVE  i386_allocate_page(machine, p).ret = K_OOM
                      <=> Cardinality(ScannedFrames \ used) <
                            (IF mem[PageDirectory][p \div Entries].present THEN 1 ELSE 2)
  BY DEF OomExact, Running
<1> DEFINE s == machine
           r == i386_allocate_page(s, p)
           n == Cardinality(ScannedFrames \ s.used)
<1>1. /\ Base(s) /\ TablesOwn(s) /\ Reserved \subseteq s.used
  BY DEF IInv, Sound
<1>2. s.used = used /\ DirEntry(s, p) = mem[PageDirectory][p \div Entries]
  BY DEF machine, DirEntry
<1>3. /\ ScannedFrames \subseteq s.used => n = 0
      /\ \A f \in ScannedFrames \ s.used : ScannedFrames \subseteq s.used \cup {f} => n = 1
      /\ \A f \in ScannedFrames \ s.used : n >= 1
      /\ \A f \in ScannedFrames \ s.used : \A g \in ScannedFrames \ (s.used \cup {f}) : n >= 2
  BY FreeFrames
<1>4. n \in Nat
  <2>1. IsFiniteSet(ScannedFrames)
    BY FS_Interval, SizesAssumption DEF ScannedFrames
  <2> QED
    BY <2>1, FS_Difference, FS_CardinalityType
<1> HIDE DEF s
<1>5. \/ r.ret = K_OOM /\ NoFrames(s, p)
      \/ r.ret = K_SUCCESS /\ \E f \in Frames : MappedTo(s, r.s, p, f)
      \/ r.ret = K_SUCCESS /\ \E f, g \in Frames : MappedInNew(s, r.s, p, f, g)
  BY <1>1, AllocatePageIs
<1> HIDE DEF r, n
<1>6. r.ret = K_OOM <=> n < (IF DirEntry(s, p).present THEN 1 ELSE 2)
  <2>1. CASE r.ret = K_OOM /\ NoFrames(s, p)
    BY <1>3, <1>4, <2>1 DEF NoFrames
  <2>2. CASE r.ret = K_SUCCESS /\ \E f \in Frames : MappedTo(s, r.s, p, f)
    BY <1>3, <1>4, <2>2 DEF MappedTo, K_SUCCESS, K_OOM
  <2>3. CASE r.ret = K_SUCCESS /\ \E f, g \in Frames : MappedInNew(s, r.s, p, f, g)
    BY <1>3, <1>4, <2>3 DEF MappedInNew, K_SUCCESS, K_OOM
  <2> QED
    BY <1>5, <2>1, <2>2, <2>3
<1> QED
  BY <1>2, <1>6 DEF s, r, n

-----------------------------------------------------------------------------
(* The frame of a page held is not the first table or another table, and   *)
(* is in use.                                                              *)
LEMMA HeldFrame ==
  ASSUME NEW s, NEW own, Sound(s, own), NEW p \in own
  PROVE  /\ Walk(s, p).frame \in Frames \cap s.used
         /\ Walk(s, p).frame # FirstTable /\ Walk(s, p).frame # PageDirectory
         /\ \A q \in ClientPages : DirEntry(s, q).present => DirEntry(s, q).frame # Walk(s, p).frame
<1>1. /\ Walk(s, p).frame \in Allocatable \cap s.used
      /\ \A d \in TablesOf(s) : Walk(s, p).frame # s.mem[PageDirectory][d].frame
  BY DEF Sound, PagesOwn
<1>2. Walk(s, p).frame \notin Reserved /\ Walk(s, p).frame \in Frames
  BY <1>1, AllocatableFrames
<1>3. Walk(s, p).frame # FirstTable /\ Walk(s, p).frame # PageDirectory
  BY <1>2, Places
<1>4. ASSUME NEW q \in ClientPages, DirEntry(s, q).present
      PROVE  DirEntry(s, q).frame # Walk(s, p).frame
  <2>1. q \div Entries \in Slots
    BY ClientPagesAssumption, DivModRange
  <2>2. CASE q \div Entries = 0
    BY <1>3, <2>2 DEF Sound, Base, DirEntry, PresentAt
  <2>3. CASE q \div Entries # 0
    <3>1. q \div Entries \in TablesOf(s)
      BY <1>4, <2>1, <2>3 DEF TablesOf, DirEntry
    <3> QED
      BY <1>1, <3>1 DEF DirEntry
  <2> QED
    BY <2>2, <2>3
<1> QED
  BY <1>1, <1>2, <1>3, <1>4

(* Frame f holds in t what it held in s. *)
Keeps(s, t, f) == \A i \in Slots : t.mem[f][i] = s.mem[f][i]

(* What the paging functions may have stored: to the window's entry, and   *)
(* what mapping or freeing a page takes.                                   *)
Operated(s, t) ==
  \/ SameElsewhere(s, t)
  \/ \E q \in ClientPages, f \in Frames : MappedTo(s, t, q, f)
  \/ \E q \in ClientPages, f, g \in Frames : MappedInNew(s, t, q, f, g)
  \/ \E q \in ClientPages : Freed(s, t, q)

(* An operation that stores only to the window's entry, to tables and to   *)
(* frames that were free keeps what the frame of a page held holds.        *)
LEMMA KeepsHeld ==
  ASSUME NEW s, NEW own, Sound(s, own), NEW p, p \in own, NEW t, Operated(s, t),
         NEW h, h = Walk(s, p).frame
  PROVE  Keeps(s, t, h)
<1>1. /\ h \in 0 .. FrameCount /\ h \in s.used /\ h # FirstTable /\ h # PageDirectory
      /\ \A q \in ClientPages : DirEntry(s, q).present => DirEntry(s, q).frame # h
  BY HeldFrame, Places
<1>2. \A i \in Slots : ~WindowSlot(h, i)
  BY <1>1 DEF WindowSlot
<1>3. CASE SameElsewhere(s, t)
  BY <1>1, <1>2, <1>3 DEF SameElsewhere, SameMem, Keeps
<1>4. ASSUME NEW q \in ClientPages, NEW f \in Frames, MappedTo(s, t, q, f)
      PROVE  Keeps(s, t, h)
  BY <1>1, <1>2, <1>4 DEF MappedTo, EntryIs, Keeps
<1>5. ASSUME NEW q \in ClientPages, NEW f \in Frames, NEW g \in Frames, MappedInNew(s, t, q, f, g)
      PROVE  Keeps(s, t, h)
  BY <1>1, <1>2, <1>5 DEF MappedInNew, Keeps
<1>6. ASSUME NEW q \in ClientPages, Freed(s, t, q)
      PROVE  Keeps(s, t, h)
  BY <1>1, <1>2, <1>6 DEF Freed, EntryIs, Keeps
<1> QED
  BY <1>3, <1>4, <1>5, <1>6 DEF Operated

(* The page's frame keeps its contents as a whole. *)
LEMMA KeepsFrame ==
  ASSUME NEW s \in Machine, NEW t \in Machine, NEW f \in Frames, Keeps(s, t, f)
  PROVE  t.mem[f] = s.mem[f]
<1>1. t.mem[f] \in [Slots -> Entry] /\ s.mem[f] \in [Slots -> Entry]
  BY Places DEF Machine
<1> QED
  BY <1>1 DEF Keeps

(* What a step between running states does to a page that stays held. *)
Preserved(p) ==
  /\ PageFrame(p)' = PageFrame(p)
  /\ mem'[PageFrame(p)] \in {mem[PageFrame(p)], Garbage}

(* The steps that keep every page held and its frame's contents. *)
LEMMA PreservedByTables ==
  ASSUME IInv, IInv', early_init_done, early_init_done', NEW p \in owned, p \in owned',
         Walk(machine', p) = Walk(machine, p), Operated(machine, machine')
  PROVE  Preserved(p)
<1> DEFINE s == machine
           t == machine'
<1>1. Sound(s, owned) /\ s \in Machine /\ s.mem = mem
  BY RunningSound
<1>2. t \in Machine /\ t.mem = mem'
  <2>1. TypeOK'
    BY DEF IInv
  <2> QED
    BY <2>1 DEF TypeOK, machine, Machine
<1>3. Walk(s, p).frame \in Frames
  BY <1>1, HeldFrame
<1>4. PageFrame(p)' = PageFrame(p) /\ PageFrame(p) = Walk(s, p).frame
  BY DEF PageFrame
<1> DEFINE h == Walk(s, p).frame
<1>5. Sound(s, owned) /\ p \in owned /\ Operated(s, t) /\ h = Walk(s, p).frame
  BY <1>1
<1> HIDE DEF s, t, h
<1>6. Keeps(s, t, h)
  BY ONLY <1>5, KeepsHeld
<1>7. t.mem[h] = s.mem[h]
  BY <1>1, <1>2, <1>3, <1>5, <1>6, KeepsFrame
<1> QED
  BY <1>1, <1>2, <1>4, <1>5, <1>7 DEF Preserved

(* What an operation means to the callers: nothing, ... *)
Stays(s, t) ==
  /\ t.used \cap Allocatable = s.used \cap Allocatable
  /\ \A q \in ClientPages : Walk(t, q) = Walk(s, q)
  /\ \A d \in Slots : t.mem[PageDirectory][d] = s.mem[PageDirectory][d]

(* ... page p gains frame f, ... *)
Gains(s, t, p, f) ==
  /\ DirEntry(s, p).present /\ f \in Allocatable \ s.used /\ t.used = s.used \cup {f}
  /\ Walk(t, p) = PresentAt(f)
  /\ \A q \in ClientPages : q # p => Walk(t, q) = Walk(s, q)
  /\ \A d \in Slots : t.mem[PageDirectory][d] = s.mem[PageDirectory][d]

(* ... with a new table in frame g, ... *)
GainsTable(s, t, p, f, g) ==
  /\ ~DirEntry(s, p).present /\ p \div Entries \in Slots \ {0}
  /\ f \in Allocatable \ s.used /\ g \in Allocatable \ (s.used \cup {f})
  /\ t.used = s.used \cup {f, g}
  /\ Walk(t, p) = PresentAt(f)
  /\ \A q \in ClientPages : q # p => Walk(t, q) = Walk(s, q)
  /\ \A d \in Slots : t.mem[PageDirectory][d] =
       IF d = p \div Entries THEN PresentAt(g) ELSE s.mem[PageDirectory][d]

(* ... or loses the one it has. *)
Loses(s, t, p) ==
  /\ t.used = s.used \ {Walk(s, p).frame}
  /\ Walk(t, p) = NotPresent
  /\ \A q \in ClientPages : q # p => Walk(t, q) = Walk(s, q)
  /\ \A d \in Slots : t.mem[PageDirectory][d] = s.mem[PageDirectory][d]

(* What the stores of i386_allocate_page mean. *)
LEMMA AllocateMeans ==
  ASSUME NEW s, NEW own, Sound(s, own), WindowPage \notin ClientPages,
         NEW p \in ClientPages \ own, NEW t
  PROVE  /\ SameElsewhere(s, t) => Stays(s, t)
         /\ \A f \in Frames : MappedTo(s, t, p, f) => Gains(s, t, p, f)
         /\ \A f, g \in Frames : MappedInNew(s, t, p, f, g) => GainsTable(s, t, p, f, g)
<1>1. /\ Base(s) /\ TablesOwn(s) /\ InitReserved \cup Reserved \subseteq s.used
      /\ Reserved \subseteq s.used
  BY DEF Sound
<1>2. ScannedFrames \ s.used \subseteq Allocatable
  BY <1>1, AllocatableFrames
<1>3. ASSUME SameElsewhere(s, t) PROVE Stays(s, t)
  BY <1>1, <1>3, WalkSame DEF SameElsewhere, Stays
<1>4. ASSUME NEW f \in Frames, MappedTo(s, t, p, f) PROVE Gains(s, t, p, f)
  <2>1. /\ Base(s) /\ TablesOwn(s) /\ DirEntry(s, p).present
        /\ EntryIs(s, t, DirEntry(s, p).frame, p % Entries, PresentAt(f))
    BY <1>1, <1>4 DEF MappedTo
  <2>2. /\ Walk(t, p) = PresentAt(f)
        /\ \A q \in ClientPages : q # p => Walk(t, q) = Walk(s, q)
        /\ \A d \in Slots : t.mem[PageDirectory][d] = s.mem[PageDirectory][d]
    BY <2>1, WalkEntry, ZenonT(30)
  <2> QED
    BY <1>2, <1>4, <2>1, <2>2 DEF MappedTo, Gains
<1>5. ASSUME NEW f \in Frames, NEW g \in Frames, MappedInNew(s, t, p, f, g)
      PROVE  GainsTable(s, t, p, f, g)
  <2>1. p \div Entries \in Slots
    BY ClientPagesAssumption, DivModRange
  <2>2. p \div Entries \in Slots \ {0}
    BY <1>1, <1>5, <2>1 DEF Base, MappedInNew, DirEntry, PresentAt
  <2>3. /\ Walk(t, p) = PresentAt(f)
        /\ \A q \in ClientPages : q # p => Walk(t, q) = Walk(s, q)
        /\ \A d \in Slots : t.mem[PageDirectory][d] =
             IF d = p \div Entries THEN PresentAt(g) ELSE s.mem[PageDirectory][d]
    BY <1>1, <1>5, WalkNew
  <2> QED
    BY <1>2, <1>5, <2>2, <2>3 DEF MappedInNew, GainsTable
<1> QED
  BY <1>3, <1>4, <1>5

(* A step of the running system, as the stores it makes and as what they   *)
(* mean to the callers.                                                    *)
LEMMA RunningStep ==
  ASSUME WindowPage \notin ClientPages, IInv, Next, early_init_done
  PROVE  /\ early_init_done'
         /\ \/ owned' = owned /\ Stays(machine, machine')
            \/ \E p \in ClientPages \ owned, f \in Frames :
                 owned' = owned \cup {p} /\ Gains(machine, machine', p, f)
            \/ \E p \in ClientPages \ owned, f, g \in Frames :
                 owned' = owned \cup {p} /\ GainsTable(machine, machine', p, f, g)
            \/ \E p \in owned : owned' = owned \ {p} /\ Loses(machine, machine', p)
         /\ \/ Operated(machine, machine')
            \/ mem' = mem
            \/ \E p \in owned : mem' = [mem EXCEPT ![Walk(machine, p).frame] = Garbage]
<1>1. Sound(machine, owned) /\ Base(machine) /\ TablesOwn(machine) /\ owned \subseteq ClientPages
  BY RunningSound DEF Sound
<1>2. ~BootIdentityMap /\ ~BootEnable
  BY ReservedAssumption DEF BootIdentityMap, BootEnable, IInv
<1> DEFINE Goal == /\ early_init_done'
                   /\ \/ owned' = owned /\ Stays(machine, machine')
                      \/ \E p \in ClientPages \ owned, f \in Frames :
                           owned' = owned \cup {p} /\ Gains(machine, machine', p, f)
                      \/ \E p \in ClientPages \ owned, f, g \in Frames :
                           owned' = owned \cup {p} /\ GainsTable(machine, machine', p, f, g)
                      \/ \E p \in owned : owned' = owned \ {p} /\ Loses(machine, machine', p)
                   /\ \/ Operated(machine, machine')
                      \/ mem' = mem
                      \/ \E p \in owned : mem' = [mem EXCEPT ![Walk(machine, p).frame] = Garbage]
<1>3. ASSUME NEW p \in ClientPages, p \notin owned, AllocatePage(p) PROVE Goal
  <2> DEFINE s == machine
             t == machine'
  <2>1. /\ early_init_done'
        /\ \/ owned' = owned /\ SameElsewhere(s, t)
           \/ owned' = owned \cup {p} /\ \E f \in Frames : MappedTo(s, t, p, f)
           \/ owned' = owned \cup {p} /\ \E f, g \in Frames : MappedInNew(s, t, p, f, g)
    BY <1>3, AllocateStep
  <2>2. Sound(s, owned) /\ WindowPage \notin ClientPages /\ p \in ClientPages \ owned
    BY <1>1, <1>3
  <2>3. Operated(s, t)
    BY <2>1, <2>2 DEF Operated
  <2> HIDE DEF s, t
  <2>4. /\ SameElsewhere(s, t) => Stays(s, t)
        /\ \A f \in Frames : MappedTo(s, t, p, f) => Gains(s, t, p, f)
        /\ \A f, g \in Frames : MappedInNew(s, t, p, f, g) => GainsTable(s, t, p, f, g)
    BY ONLY <2>2, AllocateMeans
  <2>5. \/ owned' = owned /\ Stays(s, t)
        \/ owned' = owned \cup {p} /\ \E f \in Frames : Gains(s, t, p, f)
        \/ owned' = owned \cup {p} /\ \E f, g \in Frames : GainsTable(s, t, p, f, g)
    BY <2>1, <2>4
  <2> QED
    BY <2>1, <2>2, <2>3, <2>5 DEF s, t
<1>4. ASSUME NEW p \in ClientPages, p \in owned, FreePage(p) PROVE Goal
  <2>1. /\ early_init_done' /\ owned' = owned \ {p} /\ Freed(machine, machine', p)
        /\ Walk(machine', p) = NotPresent
        /\ \A q \in ClientPages : q # p => Walk(machine', q) = Walk(machine, q)
        /\ \A d \in Slots : machine'.mem[PageDirectory][d] = machine.mem[PageDirectory][d]
    BY <1>4, FreeStep
  <2>2. Loses(machine, machine', p)
    BY <2>1 DEF Loses, Freed
  <2>3. Operated(machine, machine')
    BY <2>1 DEF Operated
  <2> QED
    BY <1>4, <2>1, <2>2, <2>3
<1>5. ASSUME NEW p \in ClientPages, GetPhys(p) PROVE Goal
  <2>1. early_init_done' /\ owned' = owned /\ SameElsewhere(machine, machine')
    BY <1>5, GetPhysStep
  <2>2. /\ machine'.used = machine.used
        /\ \A q \in ClientPages : Walk(machine', q) = Walk(machine, q)
        /\ \A d \in Slots : machine'.mem[PageDirectory][d] = machine.mem[PageDirectory][d]
    BY <1>1, <2>1, WalkSame DEF SameElsewhere
  <2>3. Stays(machine, machine') /\ Operated(machine, machine')
    BY <2>1, <2>2 DEF Stays, Operated
  <2> QED
    BY <2>1, <2>3
<1>6. ASSUME NEW p \in ClientPages, ClientWrite(p) PROVE Goal
  <2>1. /\ early_init_done' /\ owned' = owned /\ used' = used
        /\ p \in owned /\ mem' = [mem EXCEPT ![Walk(machine, p).frame] = Garbage]
        /\ \A q \in ClientPages : Walk(machine', q) = Walk(machine, q)
        /\ \A d \in Slots : machine'.mem[PageDirectory][d] = machine.mem[PageDirectory][d]
    BY <1>6, WriteStep
  <2>2. machine'.used = machine.used
    BY <2>1 DEF machine
  <2> QED
    BY <2>1, <2>2 DEF Stays
<1>7. ASSUME NEW p \in CachedPages, TlbFill(p) \/ TlbEvict(p) PROVE Goal
  <2>1. UNCHANGED <<mem, used, early_init_done, owned>>
    BY <1>7 DEF TlbFill, TlbEvict
  <2>2. machine'.mem = machine.mem /\ machine'.used = machine.used
    BY <2>1 DEF machine
  <2>3. \A q : Walk(machine', q) = Walk(machine, q)
    BY <2>2 DEF Walk
  <2> QED
    BY <2>1, <2>2, <2>3 DEF Stays
<1> HIDE DEF Goal
<1>8. Goal
  BY <1>2, <1>3, <1>4, <1>5, <1>6, <1>7 DEF Next
<1> QED
  BY <1>8 DEF Goal

(* A page that stays held keeps its translation. *)
LEMMA HeldWalk ==
  ASSUME WindowPage \notin ClientPages, IInv, Next, early_init_done,
         NEW p \in owned, p \in owned'
  PROVE  Walk(machine', p) = Walk(machine, p)
<1>1. p \in ClientPages
  BY RunningSound
<1>2. /\ Stays(machine, machine') => Walk(machine', p) = Walk(machine, p)
      /\ \A q, f : Gains(machine, machine', q, f) /\ q # p => Walk(machine', p) = Walk(machine, p)
      /\ \A q, f, g : GainsTable(machine, machine', q, f, g) /\ q # p =>
           Walk(machine', p) = Walk(machine, p)
      /\ \A q : Loses(machine, machine', q) /\ q # p => Walk(machine', p) = Walk(machine, p)
  BY <1>1 DEF Stays, Gains, GainsTable, Loses
<1>3. \/ Stays(machine, machine')
      \/ \E q \in ClientPages \ owned, f \in Frames : Gains(machine, machine', q, f)
      \/ \E q \in ClientPages \ owned, f, g \in Frames : GainsTable(machine, machine', q, f, g)
      \/ \E q \in owned : owned' = owned \ {q} /\ Loses(machine, machine', q)
  BY RunningStep
<1> QED
  BY <1>2, <1>3

(* A step preserves the data of the pages that stay held. *)
LEMMA DataStep ==
  ASSUME WindowPage \notin ClientPages, IInv, Next, NEW p \in owned \cap owned'
  PROVE  Preserved(p)
<1>1. early_init_done
  BY DEF IInv
<1>2. /\ early_init_done' /\ IInv'
      /\ \/ Operated(machine, machine')
         \/ mem' = mem
         \/ \E q \in owned : mem' = [mem EXCEPT ![Walk(machine, q).frame] = Garbage]
  BY <1>1, RunningStep, NextIInv
<1>3. Walk(machine', p) = Walk(machine, p)
  BY <1>1, HeldWalk
<1>4. PageFrame(p)' = PageFrame(p) /\ PageFrame(p) = Walk(machine, p).frame
  BY <1>3 DEF PageFrame
<1>5. CASE Operated(machine, machine')
  BY <1>1, <1>2, <1>3, <1>5, PreservedByTables
<1>6. CASE mem' = mem
  BY <1>4, <1>6 DEF Preserved
<1>7. ASSUME NEW q \in owned, mem' = [mem EXCEPT ![Walk(machine, q).frame] = Garbage]
      PROVE  Preserved(p)
  <2>1. Walk(machine, p).frame \in Frames
    BY <1>1, RunningSound, HeldFrame
  <2>2. Walk(machine, p).frame \in DOMAIN mem
    BY <2>1, Places DEF IInv, TypeOK
  <2> QED
    BY <1>4, <1>7, <2>2 DEF Preserved
<1> QED
  BY <1>2, <1>5, <1>6, <1>7

-----------------------------------------------------------------------------
(* The promised map, tables and bitset of a machine state. *)
MapOf(s) ==
  [p \in ClientPages |-> IF s.early_init_done /\ Walk(s, p).present THEN Walk(s, p).frame ELSE NoRam]
TableMap(s) ==
  [d \in Slots |-> IF d \in TablesOf(s) THEN s.mem[PageDirectory][d].frame ELSE NoRam]
UsedOf(s) == s.used \cap Allocatable

(* They are the ones that the refinement mapping of Paging names. *)
LEMMA PromisedState ==
  /\ [p \in ClientPages |-> IF early_init_done /\ Mapped(p) THEN PageFrame(p) ELSE NoRam]
       = MapOf(machine)
  /\ [d \in Slots |-> IF d \in NewTables THEN TableFrame(d) ELSE NoRam] = TableMap(machine)
  /\ used \cap Allocatable = UsedOf(machine)
<1>1. /\ machine.early_init_done = early_init_done /\ machine.used = used /\ machine.mem = mem
  BY DEF machine
<1>2. NewTables = TablesOf(machine)
  BY <1>1 DEF NewTables, TablesOf
<1> QED
  BY <1>1, <1>2 DEF Mapped, PageFrame, TableFrame, MapOf, TableMap, UsedOf

(* The same after a step. *)
LEMMA PromisedNext ==
  /\ [p \in ClientPages |-> IF early_init_done /\ Mapped(p) THEN PageFrame(p) ELSE NoRam]'
       = MapOf(machine')
  /\ [d \in Slots |-> IF d \in NewTables THEN TableFrame(d) ELSE NoRam]' = TableMap(machine')
  /\ (used \cap Allocatable)' = UsedOf(machine')
<1>1. /\ machine'.early_init_done = early_init_done' /\ machine'.used = used'
      /\ machine'.mem = mem'
  BY DEF machine
<1>2. NewTables' = TablesOf(machine')
  BY <1>1 DEF NewTables, TablesOf
<1> QED
  BY <1>1, <1>2 DEF Mapped, PageFrame, TableFrame, MapOf, TableMap, UsedOf

(* Before paging is on, and when it is turned on, nothing is promised. *)
LEMMA BootPromise ==
  ASSUME NEW s, NEW n, Booting(s, n), n \in 0 .. ReservedPages
  PROVE  /\ MapOf(s) = [p \in ClientPages |-> NoRam]
         /\ TableMap(s) = [d \in Slots |-> NoRam]
         /\ UsedOf(s) = {}
<1>1. TablesOf(s) = {}
  BY DEF Booting, TablesOf
<1>2. ~s.early_init_done
  BY DEF Booting
<1>3. s.used \subseteq InitReserved \cup 0 .. ReservedPages - 1
  BY Places DEF Booting
<1> QED
  BY <1>1, <1>2, <1>3 DEF MapOf, TableMap, UsedOf, Allocatable

(* The steps in terms of the promised state. *)
LEMMA StaysPromise ==
  ASSUME NEW s, NEW t, Stays(s, t), s.early_init_done, t.early_init_done
  PROVE  MapOf(t) = MapOf(s) /\ TableMap(t) = TableMap(s) /\ UsedOf(t) = UsedOf(s)
<1>1. TablesOf(t) = TablesOf(s)
  BY DEF Stays, TablesOf
<1>2. \A d \in TablesOf(s) : t.mem[PageDirectory][d] = s.mem[PageDirectory][d]
  BY DEF Stays, TablesOf
<1>3. MapOf(t) = MapOf(s)
  BY DEF Stays, MapOf
<1>4. TableMap(t) = TableMap(s)
  BY <1>1, <1>2 DEF TableMap
<1> QED
  BY <1>3, <1>4 DEF Stays, UsedOf

(* A page not held is promised no frame, a page held the one it has. *)
LEMMA HeldPromise ==
  ASSUME NEW s, NEW own, Sound(s, own), NEW p \in ClientPages
  PROVE  /\ p \notin own => MapOf(s)[p] = NoRam
         /\ p \in own => MapOf(s)[p] = Walk(s, p).frame /\ Walk(s, p).frame \in Allocatable \cap s.used
         /\ NoRam \notin Allocatable
<1>1. NoRam \notin Allocatable
  BY Places, AllocatableFrames
<1>2. p \notin own => ~Walk(s, p).present
  BY DEF Sound, PagesOwn
<1>3. p \in own => Walk(s, p).present /\ Walk(s, p).frame \in Allocatable \cap s.used
  BY DEF Sound, PagesOwn
<1>4. s.early_init_done
  BY DEF Sound, Base
<1> QED
  BY <1>1, <1>2, <1>3, <1>4 DEF MapOf

(* A directory entry is present when a table is promised or made at boot. *)
LEMMA TablePromise ==
  ASSUME NEW s, NEW own, Sound(s, own), NEW p \in ClientPages
  PROVE  DirEntry(s, p).present <=> p \div Entries = 0 \/ TableMap(s)[p \div Entries] # NoRam
<1> DEFINE d == p \div Entries
<1>1. d \in Slots
  BY ClientPagesAssumption, DivModRange
<1>2. d = 0 => s.mem[PageDirectory][d].present
  BY DEF Sound, Base, PresentAt
<1> HIDE DEF d
<1>3. d \in TablesOf(s) => s.mem[PageDirectory][d].frame # NoRam
  <2>1. d \in TablesOf(s) => s.mem[PageDirectory][d].frame \in Allocatable
    BY DEF Sound, TablesOwn
  <2> QED
    BY <2>1, Places, AllocatableFrames
<1>4. d \in TablesOf(s) <=> d # 0 /\ s.mem[PageDirectory][d].present
  BY <1>1 DEF TablesOf
<1>5. TableMap(s)[d] # NoRam <=> d \in TablesOf(s)
  BY <1>1, <1>3 DEF TableMap
<1>6. s.mem[PageDirectory][d].present <=> d = 0 \/ TableMap(s)[d] # NoRam
  BY <1>2, <1>4, <1>5
<1> QED
  BY <1>6 DEF d, DirEntry

(* Page p gains a frame: the promised map gains the pair. *)
LEMMA GainsPromise ==
  ASSUME NEW s, NEW t, NEW p \in ClientPages, NEW f, Gains(s, t, p, f),
         s.early_init_done, t.early_init_done
  PROVE  /\ MapOf(t) = [MapOf(s) EXCEPT ![p] = f] /\ TableMap(t) = TableMap(s)
         /\ UsedOf(t) = UsedOf(s) \cup {f} /\ f \in Allocatable \ UsedOf(s)
<1>1. TablesOf(t) = TablesOf(s)
  BY DEF Gains, TablesOf
<1>2. \A d \in TablesOf(s) : t.mem[PageDirectory][d] = s.mem[PageDirectory][d]
  BY DEF Gains, TablesOf
<1>3. Walk(t, p).present /\ Walk(t, p).frame = f
  BY DEF Gains, PresentAt
<1>4. \A q \in ClientPages : q # p => Walk(t, q) = Walk(s, q)
  BY DEF Gains
<1>5. MapOf(t) = [MapOf(s) EXCEPT ![p] = f]
  BY <1>3, <1>4 DEF MapOf
<1>6. TableMap(t) = TableMap(s)
  BY <1>1, <1>2 DEF TableMap
<1>7. UsedOf(t) = UsedOf(s) \cup {f} /\ f \in Allocatable \ UsedOf(s)
  BY DEF Gains, UsedOf
<1> QED
  BY <1>5, <1>6, <1>7

(* ... and, with a new table, the table's frame. *)
LEMMA GainsTablePromise ==
  ASSUME NEW s, NEW t, NEW p \in ClientPages, NEW f, NEW g, GainsTable(s, t, p, f, g),
         s.early_init_done, t.early_init_done
  PROVE  /\ MapOf(t) = [MapOf(s) EXCEPT ![p] = f]
         /\ TableMap(t) = [TableMap(s) EXCEPT ![p \div Entries] = g]
         /\ UsedOf(t) = UsedOf(s) \cup {f, g} /\ f \in Allocatable \ UsedOf(s)
         /\ g \in Allocatable \ (UsedOf(s) \cup {f})
<1> DEFINE e == p \div Entries
<1>1. e \in Slots \ {0} /\ \A d \in Slots : t.mem[PageDirectory][d] =
        IF d = e THEN PresentAt(g) ELSE s.mem[PageDirectory][d]
  BY DEF GainsTable
<1> HIDE DEF e
<1>2. TablesOf(t) = TablesOf(s) \cup {e}
  BY <1>1 DEF TablesOf, PresentAt
<1>3. /\ t.mem[PageDirectory][e].frame = g
      /\ \A d \in Slots : d # e => t.mem[PageDirectory][d] = s.mem[PageDirectory][d]
  BY <1>1 DEF PresentAt
<1>4. TableMap(t) = [TableMap(s) EXCEPT ![e] = g]
  BY <1>1, <1>2, <1>3 DEF TableMap
<1>5. Walk(t, p).present /\ Walk(t, p).frame = f
  BY DEF GainsTable, PresentAt
<1>6. \A q \in ClientPages : q # p => Walk(t, q) = Walk(s, q)
  BY DEF GainsTable
<1>7. MapOf(t) = [MapOf(s) EXCEPT ![p] = f]
  BY <1>5, <1>6 DEF MapOf
<1>8. /\ UsedOf(t) = UsedOf(s) \cup {f, g} /\ f \in Allocatable \ UsedOf(s)
      /\ g \in Allocatable \ (UsedOf(s) \cup {f})
  BY DEF GainsTable, UsedOf
<1> QED
  BY <1>4, <1>7, <1>8 DEF e

(* Page p loses its frame: the promised map loses the pair. *)
LEMMA LosesPromise ==
  ASSUME NEW s, NEW t, NEW p \in ClientPages, Loses(s, t, p), Walk(s, p).present,
         s.early_init_done, t.early_init_done
  PROVE  /\ MapOf(t) = [MapOf(s) EXCEPT ![p] = NoRam] /\ TableMap(t) = TableMap(s)
         /\ UsedOf(t) = UsedOf(s) \ {MapOf(s)[p]}
<1>1. TablesOf(t) = TablesOf(s)
  BY DEF Loses, TablesOf
<1>2. \A d \in TablesOf(s) : t.mem[PageDirectory][d] = s.mem[PageDirectory][d]
  BY DEF Loses, TablesOf
<1>3. ~Walk(t, p).present
  BY DEF Loses, NotPresent
<1>4. \A q \in ClientPages : q # p => Walk(t, q) = Walk(s, q)
  BY DEF Loses
<1>5. MapOf(t) = [MapOf(s) EXCEPT ![p] = NoRam]
  BY <1>3, <1>4 DEF MapOf
<1>6. TableMap(t) = TableMap(s)
  BY <1>1, <1>2 DEF TableMap
<1>7. MapOf(s)[p] = Walk(s, p).frame
  BY DEF MapOf
<1>8. UsedOf(t) = UsedOf(s) \ {Walk(s, p).frame}
  BY DEF Loses, UsedOf
<1> QED
  BY <1>5, <1>6, <1>7, <1>8

(* A step of the running system is a step of the promised map, or none. *)
LEMMA PromiseRunning ==
  ASSUME WindowPage \notin ClientPages, IInv, Next, early_init_done
  PROVE  [Promise!Next]_(Promise!vars)
<1> DEFINE s == machine
           t == machine'
<1>1. Sound(s, owned) /\ owned \subseteq ClientPages /\ s.early_init_done
  BY RunningSound
<1>2. t.early_init_done
  <2>1. early_init_done'
    BY RunningStep
  <2> QED
    BY <2>1 DEF machine
<1>3. \/ Stays(s, t)
      \/ \E p \in ClientPages \ owned, f \in Frames : Gains(s, t, p, f)
      \/ \E p \in ClientPages \ owned, f, g \in Frames : GainsTable(s, t, p, f, g)
      \/ \E p \in owned : Loses(s, t, p)
  BY RunningStep
<1>4. /\ [p \in ClientPages |-> IF early_init_done /\ Mapped(p) THEN PageFrame(p) ELSE NoRam]
           = MapOf(s)
      /\ [d \in Slots |-> IF d \in NewTables THEN TableFrame(d) ELSE NoRam] = TableMap(s)
      /\ used \cap Allocatable = UsedOf(s)
  BY PromisedState
<1>5. /\ [p \in ClientPages |-> IF early_init_done /\ Mapped(p) THEN PageFrame(p) ELSE NoRam]'
           = MapOf(t)
      /\ [d \in Slots |-> IF d \in NewTables THEN TableFrame(d) ELSE NoRam]' = TableMap(t)
      /\ (used \cap Allocatable)' = UsedOf(t)
  BY PromisedNext
<1> HIDE DEF s, t
<1>6. CASE Stays(s, t)
  <2>1. MapOf(t) = MapOf(s) /\ TableMap(t) = TableMap(s) /\ UsedOf(t) = UsedOf(s)
    BY <1>1, <1>2, <1>6, StaysPromise
  <2> QED
    BY <1>4, <1>5, <2>1 DEF Promise!vars
<1>7. ASSUME NEW p \in ClientPages \ owned, NEW f \in Frames, Gains(s, t, p, f)
      PROVE  Promise!AllocateInTable(p)
  <2>1. /\ MapOf(t) = [MapOf(s) EXCEPT ![p] = f] /\ TableMap(t) = TableMap(s)
        /\ UsedOf(t) = UsedOf(s) \cup {f} /\ f \in Allocatable \ UsedOf(s)
    BY <1>1, <1>2, <1>7, GainsPromise
  <2>2. MapOf(s)[p] = NoRam
    BY <1>1, HeldPromise
  <2>3. p \div Entries = 0 \/ TableMap(s)[p \div Entries] # NoRam
    BY <1>1, <1>7, TablePromise DEF Gains
  <2> QED
    BY <1>4, <1>5, <2>1, <2>2, <2>3 DEF Promise!AllocateInTable, Promise!HasTable
<1>8. ASSUME NEW p \in ClientPages \ owned, NEW f \in Frames, NEW g \in Frames,
             GainsTable(s, t, p, f, g)
      PROVE  Promise!AllocateWithTable(p)
  <2>1. /\ MapOf(t) = [MapOf(s) EXCEPT ![p] = f]
        /\ TableMap(t) = [TableMap(s) EXCEPT ![p \div Entries] = g]
        /\ UsedOf(t) = UsedOf(s) \cup {f, g} /\ f \in Allocatable \ UsedOf(s)
        /\ g \in Allocatable \ (UsedOf(s) \cup {f})
    BY <1>1, <1>2, <1>8, GainsTablePromise
  <2>2. MapOf(s)[p] = NoRam
    BY <1>1, HeldPromise
  <2>3. ~(p \div Entries = 0 \/ TableMap(s)[p \div Entries] # NoRam)
    BY <1>1, <1>8, TablePromise DEF GainsTable
  <2> QED
    BY <1>4, <1>5, <2>1, <2>2, <2>3 DEF Promise!AllocateWithTable, Promise!HasTable
<1>9. ASSUME NEW p \in owned, Loses(s, t, p)
      PROVE  p \in ClientPages /\ Promise!Free(p)
  <2>1. p \in ClientPages /\ Walk(s, p).present
    BY <1>1 DEF Sound, PagesOwn
  <2>2. /\ MapOf(t) = [MapOf(s) EXCEPT ![p] = NoRam] /\ TableMap(t) = TableMap(s)
        /\ UsedOf(t) = UsedOf(s) \ {MapOf(s)[p]}
    BY <1>1, <1>2, <1>9, <2>1, LosesPromise
  <2>3. MapOf(s)[p] # NoRam
    BY <1>1, <2>1, HeldPromise
  <2> QED
    BY <1>4, <1>5, <2>1, <2>2, <2>3 DEF Promise!Free
<1> QED
  BY <1>3, <1>6, <1>7, <1>8, <1>9 DEF Promise!Next

(* Nothing is promised while paging is off: the boot's steps are invisible. *)
LEMMA PromiseBooting ==
  ASSUME WindowPage \notin ClientPages, IInv, Next, ~early_init_done
  PROVE  UNCHANGED Promise!vars
<1> DEFINE s == machine
           t == machine'
<1>1. Booting(s, boot_page) /\ boot_page \in 0 .. ReservedPages
  BY DEF IInv, TypeOK
<1>2. BootIdentityMap \/ BootEnable
  BY DEF Next, AllocatePage, FreePage, GetPhys, ClientWrite, TlbFill, TlbEvict, Running
<1>3. /\ MapOf(s) = [p \in ClientPages |-> NoRam]
      /\ TableMap(s) = [d \in Slots |-> NoRam]
      /\ UsedOf(s) = {}
  BY <1>1, BootPromise
<1>4. /\ MapOf(t) = [p \in ClientPages |-> NoRam]
      /\ TableMap(t) = [d \in Slots |-> NoRam]
      /\ UsedOf(t) = {}
  <2>1. CASE BootIdentityMap
    <3>1. IInv' /\ ~early_init_done'
      BY <2>1, BootIdentityMapStep
    <3>2. Booting(t, boot_page') /\ boot_page' \in 0 .. ReservedPages
      BY <3>1 DEF IInv, TypeOK
    <3> QED
      BY <3>2, BootPromise
  <2>2. CASE BootEnable
    <3>1. Sound(t, {}) /\ used' = used /\ mem' = mem
      BY <2>2, BootEnableStep
    <3>2. t.mem = s.mem /\ t.used = s.used
      BY <3>1 DEF machine
    <3>3. \A q \in ClientPages : ~Walk(t, q).present
      BY <3>1 DEF Sound, PagesOwn
    <3>4. TablesOf(t) = {}
      BY <1>1, <3>2 DEF Booting, TablesOf
    <3> HIDE DEF s, t
    <3>5. UsedOf(t) = {}
      BY <1>3, <3>2 DEF UsedOf
    <3> QED
      BY <3>3, <3>4, <3>5 DEF MapOf, TableMap
  <2> QED
    BY <1>2, <2>1, <2>2
<1>5. /\ [p \in ClientPages |-> IF early_init_done /\ Mapped(p) THEN PageFrame(p) ELSE NoRam]
           = MapOf(s)
      /\ [d \in Slots |-> IF d \in NewTables THEN TableFrame(d) ELSE NoRam] = TableMap(s)
      /\ used \cap Allocatable = UsedOf(s)
  BY PromisedState
<1>6. /\ [p \in ClientPages |-> IF early_init_done /\ Mapped(p) THEN PageFrame(p) ELSE NoRam]'
           = MapOf(t)
      /\ [d \in Slots |-> IF d \in NewTables THEN TableFrame(d) ELSE NoRam]' = TableMap(t)
      /\ (used \cap Allocatable)' = UsedOf(t)
  BY PromisedNext
<1> HIDE DEF s, t
<1> QED
  BY <1>3, <1>4, <1>5, <1>6 DEF Promise!vars

(* A step that changes nothing changes nothing that is promised. *)
LEMMA PromiseStutter ==
  ASSUME UNCHANGED vars
  PROVE  UNCHANGED Promise!vars
  BY DEF vars, Promise!vars, NewTables, TableFrame, Mapped, PageFrame, machine

-----------------------------------------------------------------------------
(* No page reaches the frame of another page, of a table or of the         *)
(* kernel's reserved memory.                                               *)
THEOREM PagingFrameExclusive ==
  ASSUME WindowPage \notin ClientPages
  PROVE  Spec => []FrameExclusive
  BY PagingInvariant, FramesExclusive, PTL

(* The identity mapping that get_virt_ptr relies on is never overwritten. *)
THEOREM PagingIdentityIntact ==
  ASSUME WindowPage \notin ClientPages
  PROVE  Spec => []IdentityIntact
  BY PagingInvariant, MappingIntact, PTL

(* No translation outlives the page table entry it was loaded from. *)
THEOREM PagingTlbCoherent ==
  ASSUME WindowPage \notin ClientPages
  PROVE  Spec => []TlbCoherent
  BY PagingInvariant, MappingIntact, PTL

(* No access of the paging functions faults, no bitset assertion fails. *)
THEOREM PagingNeverHalts ==
  ASSUME WindowPage \notin ClientPages
  PROVE  Spec => []NeverHalts
  BY PagingInvariant, MappingIntact, PTL

(* i386_page_get_phys answers with the frame the processor uses. *)
THEOREM PagingGetPhysExact ==
  ASSUME WindowPage \notin ClientPages
  PROVE  Spec => []GetPhysExact
<1>1. IInv => GetPhysExact
  BY PhysExact
<1> QED
  BY <1>1, PagingInvariant, PTL

(* i386_allocate_page fails exactly for want of frames. *)
THEOREM PagingOomExact ==
  ASSUME WindowPage \notin ClientPages
  PROVE  Spec => []OomExact
<1>1. IInv => OomExact
  BY FailsExact
<1> QED
  BY <1>1, PagingInvariant, PTL

(* What a client wrote to a page stays there, whatever is done to others. *)
THEOREM PagingDataPreserved ==
  ASSUME WindowPage \notin ClientPages
  PROVE  Spec => DataPreserved
<1>1. IInv /\ [Next]_vars =>
        [\A p \in owned \cap owned' :
           /\ PageFrame(p)' = PageFrame(p)
           /\ mem'[PageFrame(p)] \in {mem[PageFrame(p)], Garbage}]_vars
  BY DataStep DEF Preserved
<1> QED
  BY <1>1, PagingInvariant, PTL DEF Spec, DataPreserved

(* The page tables, window and TLB implement the promised map from pages   *)
(* to frames, to which the theorems about PageMap then apply.              *)
THEOREM PagingImplementsPageMap ==
  ASSUME WindowPage \notin ClientPages
  PROVE  Spec => ImplementsPageMap
<1>1. Init => Promise!Init
  <2> SUFFICES ASSUME Init PROVE Promise!Init
    OBVIOUS
  <2>1. Booting(machine, 0) /\ 0 \in 0 .. ReservedPages
    BY InitIInv, Places DEF IInv, Init
  <2>2. /\ MapOf(machine) = [p \in ClientPages |-> NoRam]
        /\ TableMap(machine) = [d \in Slots |-> NoRam]
        /\ UsedOf(machine) = {}
    BY <2>1, BootPromise
  <2> QED
    BY <2>2, PromisedState DEF Promise!Init
<1>2. IInv /\ [Next]_vars => [Promise!Next]_(Promise!vars)
  BY PromiseRunning, PromiseBooting, PromiseStutter
<1> QED
  BY <1>1, <1>2, PagingInvariant, PTL DEF Spec, ImplementsPageMap, Promise!Spec

-----------------------------------------------------------------------------
(* No frame is lost: the bitset of the implementation marks the frames     *)
(* that pages and tables own, and no others.                               *)

(* The frames that a map from the members of a set gives them. *)
FramesOf(S, m) == {m[p] : p \in S} \ {NoRam}

(* The bits set by i386_mem_allocate_frame and not cleared since are those *)
(* of owned frames.                                                        *)
Accounted(s) == UsedOf(s) = FramesOf(ClientPages, MapOf(s)) \cup FramesOf(Slots, TableMap(s))

(* That is PageMap's accounting, read off the machine. *)
LEMMA AccountedPromise == Promise!FramesAccounted <=> Accounted(machine)
  BY PromisedState DEF Promise!FramesAccounted, Promise!MappedFrames, Promise!TableFrames,
     Accounted, FramesOf

(* Nothing else owns the frame of a page that is held. *)
LEMMA HeldAlone ==
  ASSUME NEW s, NEW own, Sound(s, own), s.early_init_done, NEW p \in own
  PROVE  /\ \A q \in ClientPages : MapOf(s)[q] = MapOf(s)[p] => q = p
         /\ \A d \in Slots : TableMap(s)[d] # MapOf(s)[p]
<1>1. /\ p \in ClientPages /\ own \subseteq ClientPages
      /\ Walk(s, p).present /\ Walk(s, p).frame \in Allocatable
  BY DEF Sound, PagesOwn
<1>2. NoRam \notin Allocatable
  BY PromiseConstants DEF Promise!ConstantsAssumption
<1>3. MapOf(s)[p] = Walk(s, p).frame
  BY <1>1 DEF MapOf
<1>4. ASSUME NEW q \in ClientPages, MapOf(s)[q] = MapOf(s)[p]
      PROVE  q = p
  <2>1. CASE q \in own
    <3>1. Walk(s, q).present
      BY <2>1 DEF Sound, PagesOwn
    <3>2. MapOf(s)[q] = Walk(s, q).frame
      BY <3>1 DEF MapOf
    <3> QED
      BY <1>3, <1>4, <2>1, <3>2 DEF Sound, PagesOwn
  <2>2. CASE q \notin own
    <3>1. ~Walk(s, q).present
      BY <2>2 DEF Sound, PagesOwn
    <3>2. MapOf(s)[q] = NoRam
      BY <3>1 DEF MapOf
    <3> QED
      BY <1>1, <1>2, <1>3, <1>4, <3>2
  <2> QED
    BY <2>1, <2>2
<1>5. ASSUME NEW d \in Slots
      PROVE  TableMap(s)[d] # MapOf(s)[p]
  <2>1. CASE d \in TablesOf(s)
    BY <1>3, <2>1 DEF TableMap, Sound, PagesOwn
  <2>2. CASE d \notin TablesOf(s)
    BY <1>1, <1>2, <1>3, <2>2 DEF TableMap
  <2> QED
    BY <2>1, <2>2
<1> QED
  BY <1>4, <1>5

(* A call that takes frames gives them owners, a call that gives one back  *)
(* takes its only owner away, and every other step leaves both alone.      *)
LEMMA AccountedRunning ==
  ASSUME WindowPage \notin ClientPages, IInv, Next, early_init_done, Accounted(machine)
  PROVE  Accounted(machine')
<1> DEFINE s == machine
           t == machine'
<1>1. Sound(s, owned) /\ s.early_init_done
  BY DEF IInv, machine
<1>2. t.early_init_done
  <2>1. early_init_done'
    BY RunningStep
  <2> QED
    BY <2>1 DEF machine
<1>3. \/ Stays(s, t)
      \/ \E p \in ClientPages \ owned, f \in Frames : Gains(s, t, p, f)
      \/ \E p \in ClientPages \ owned, f, g \in Frames : GainsTable(s, t, p, f, g)
      \/ \E p \in owned : Loses(s, t, p)
  BY RunningStep
<1>4. Accounted(s)
  OBVIOUS
<1> HIDE DEF s, t
<1>5. NoRam \notin Allocatable
  BY PromiseConstants DEF Promise!ConstantsAssumption
<1>6. DOMAIN MapOf(s) = ClientPages /\ DOMAIN TableMap(s) = Slots
  BY DEF MapOf, TableMap
<1>7. ASSUME Stays(s, t)
      PROVE  Accounted(t)
  <2>1. MapOf(t) = MapOf(s) /\ TableMap(t) = TableMap(s) /\ UsedOf(t) = UsedOf(s)
    BY <1>1, <1>2, <1>7, StaysPromise
  <2> QED
    BY <1>4, <2>1 DEF Accounted
<1>8. ASSUME NEW p \in ClientPages \ owned, NEW f \in Frames, Gains(s, t, p, f)
      PROVE  Accounted(t)
  <2>1. /\ MapOf(t) = [MapOf(s) EXCEPT ![p] = f] /\ TableMap(t) = TableMap(s)
        /\ UsedOf(t) = UsedOf(s) \cup {f} /\ f \in Allocatable \ UsedOf(s)
    BY <1>1, <1>2, <1>8, GainsPromise
  <2>2. MapOf(s)[p] = NoRam /\ f # NoRam /\ p \in ClientPages
    BY <1>1, <1>5, <2>1, HeldPromise
  <2>3. FramesOf(ClientPages, [MapOf(s) EXCEPT ![p] = f])
          = FramesOf(ClientPages, MapOf(s)) \cup {f}
    BY ONLY <1>6, <2>2 DEF FramesOf
  <2> QED
    BY <1>4, <2>1, <2>3 DEF Accounted
<1>9. ASSUME NEW p \in ClientPages \ owned, NEW f \in Frames, NEW g \in Frames,
             GainsTable(s, t, p, f, g)
      PROVE  Accounted(t)
  <2> DEFINE d == p \div Entries
  <2>1. /\ MapOf(t) = [MapOf(s) EXCEPT ![p] = f]
        /\ TableMap(t) = [TableMap(s) EXCEPT ![p \div Entries] = g]
        /\ UsedOf(t) = UsedOf(s) \cup {f, g} /\ f \in Allocatable \ UsedOf(s)
        /\ g \in Allocatable \ (UsedOf(s) \cup {f})
    BY <1>1, <1>2, <1>9, GainsTablePromise
  <2>2. MapOf(s)[p] = NoRam /\ f # NoRam /\ g # NoRam /\ p \in ClientPages
    BY <1>1, <1>5, <2>1, HeldPromise
  <2>3. TableMap(s)[d] = NoRam
    BY <1>1, <1>9, TablePromise DEF GainsTable
  <2>4. d \in Slots
    BY <2>2, PromiseConstants DEF Promise!ConstantsAssumption
  <2> HIDE DEF d
  <2>5. FramesOf(ClientPages, [MapOf(s) EXCEPT ![p] = f])
          = FramesOf(ClientPages, MapOf(s)) \cup {f}
    BY ONLY <1>6, <2>2 DEF FramesOf
  <2>6. FramesOf(Slots, [TableMap(s) EXCEPT ![d] = g]) = FramesOf(Slots, TableMap(s)) \cup {g}
    BY ONLY <1>6, <2>2, <2>3, <2>4 DEF FramesOf
  <2> QED
    BY <1>4, <2>1, <2>5, <2>6 DEF Accounted, d
<1>10. ASSUME NEW p \in owned, Loses(s, t, p)
       PROVE  Accounted(t)
  <2>1. p \in ClientPages /\ Walk(s, p).present
    BY <1>1 DEF Sound, PagesOwn
  <2>2. /\ MapOf(t) = [MapOf(s) EXCEPT ![p] = NoRam] /\ TableMap(t) = TableMap(s)
        /\ UsedOf(t) = UsedOf(s) \ {MapOf(s)[p]}
    BY <1>1, <1>2, <1>10, <2>1, LosesPromise
  <2>3. /\ MapOf(s)[p] # NoRam
        /\ \A q \in ClientPages : MapOf(s)[q] = MapOf(s)[p] => q = p
        /\ \A e \in Slots : TableMap(s)[e] # MapOf(s)[p]
    BY <1>1, <2>1, HeldPromise, HeldAlone
  <2>4. FramesOf(ClientPages, [MapOf(s) EXCEPT ![p] = NoRam])
          = FramesOf(ClientPages, MapOf(s)) \ {MapOf(s)[p]}
    BY ONLY <1>6, <2>1, <2>3 DEF FramesOf
  <2>5. MapOf(s)[p] \notin FramesOf(Slots, TableMap(s))
    BY <2>3 DEF FramesOf
  <2> QED
    BY <1>4, <2>2, <2>4, <2>5 DEF Accounted
<1>11. Accounted(t)
  BY <1>3, <1>7, <1>8, <1>9, <1>10
<1> QED
  BY <1>11 DEF t

(* The page tables own every frame the bitset marks beyond the kernel's    *)
(* reserved memory: i386_allocate_page loses no frame when it fails, and   *)
(* i386_free_page gives every frame back.                                  *)
THEOREM PagingFramesAccounted ==
  ASSUME WindowPage \notin ClientPages
  PROVE  Spec => []Promise!FramesAccounted
<1>1. Init => Promise!FramesAccounted
  <2> SUFFICES ASSUME Init PROVE Promise!FramesAccounted
    OBVIOUS
  <2>1. Booting(machine, 0) /\ 0 \in 0 .. ReservedPages
    BY InitIInv, Places DEF IInv, Init
  <2>2. Accounted(machine)
    BY <2>1, BootPromise DEF Accounted, FramesOf
  <2> QED
    BY <2>2, AccountedPromise
<1>2. IInv /\ Promise!FramesAccounted /\ [Next]_vars => Promise!FramesAccounted'
  <2> SUFFICES ASSUME IInv, Promise!FramesAccounted, [Next]_vars
               PROVE  Promise!FramesAccounted'
    OBVIOUS
  <2>1. CASE Next /\ early_init_done
    <3>1. Accounted(machine')
      BY <2>1, AccountedPromise, AccountedRunning
    <3> QED
      BY <3>1, PromisedNext DEF Promise!FramesAccounted, Promise!MappedFrames,
         Promise!TableFrames, Accounted, FramesOf
  <2>2. CASE UNCHANGED Promise!vars
    BY <2>2 DEF Promise!vars, Promise!FramesAccounted, Promise!MappedFrames, Promise!TableFrames
  <2> QED
    BY <2>1, <2>2, PromiseBooting, PromiseStutter
<1> QED
  BY <1>1, <1>2, PagingInvariant, PTL DEF Spec

-----------------------------------------------------------------------------
(* What the promise is worth: theorems about module PageMap, for any       *)
(* pages, directories and frames, and over variables of its own.  Paging's *)
(* constants are among those they are about (PromiseConstants).            *)

CONSTANTS PmPages, Dirs, BootDirs, DirOf, PmFrames, NoFrame
VARIABLES pm_map, pm_table, pm_used

(* The map from pages to frames, on its own. *)
Map == INSTANCE PageMap WITH
  Pages <- PmPages, Frames <- PmFrames, map <- pm_map, table <- pm_table, used <- pm_used

(* Exclusive ownership is inductive only together with the accounting of   *)
(* the bitset: a frame taken from outside used has no owner yet because    *)
(* every owned frame is in used, and clearing a freed frame's bit keeps    *)
(* the accounting because the frame had no second owner.                   *)
MapIInv == Map!TypeOK /\ Map!FrameExclusive /\ Map!FramesAccounted /\ Map!MappedInTable

(* Initially nothing is owned and no bit is set. *)
LEMMA MapInitIInv == Map!Init => MapIInv
  BY DEF Map!Init, MapIInv, Map!TypeOK, Map!FrameExclusive, Map!FramesAccounted,
         Map!MappedInTable, Map!MappedFrames, Map!TableFrames, Map!HasTable

(* Under the accounting, a frame whose bit is clear is owned by no page    *)
(* and by no table.                                                        *)
LEMMA MapClearBitUnowned ==
  ASSUME Map!ConstantsAssumption, Map!FramesAccounted, NEW f \in PmFrames, f \notin pm_used
  PROVE  /\ \A p \in PmPages : pm_map[p] # f
         /\ \A d \in Dirs : pm_table[d] # f
  BY DEF Map!ConstantsAssumption, Map!FramesAccounted, Map!MappedFrames, Map!TableFrames

(* i386_allocate_page into an existing table preserves the invariant. *)
LEMMA MapAllocateInTableIInv ==
  ASSUME Map!ConstantsAssumption, MapIInv, NEW p \in PmPages, Map!AllocateInTable(p)
  PROVE  MapIInv'
<1> USE DEF MapIInv, Map!ConstantsAssumption
<1>1. PICK f \in PmFrames \ pm_used :
        pm_map' = [pm_map EXCEPT ![p] = f] /\ pm_used' = pm_used \cup {f}
  BY DEF Map!AllocateInTable
<1>2. pm_map[p] = NoFrame /\ Map!HasTable(DirOf[p]) /\ pm_table' = pm_table
  BY DEF Map!AllocateInTable
<1>3. Map!TypeOK'
  BY <1>1, <1>2 DEF Map!TypeOK
<1>4. Map!FrameExclusive'
  BY <1>1, <1>2, MapClearBitUnowned DEF Map!TypeOK, Map!FrameExclusive
<1>5. Map!FramesAccounted'
  <2>1. Map!MappedFrames' = Map!MappedFrames \cup {f}
    BY <1>1, <1>2 DEF Map!MappedFrames, Map!TypeOK
  <2> QED
    BY <1>1, <1>2, <2>1 DEF Map!FramesAccounted, Map!TableFrames
<1>6. Map!MappedInTable'
  BY <1>1, <1>2 DEF Map!MappedInTable, Map!HasTable, Map!TypeOK
<1> QED
  BY <1>3, <1>4, <1>5, <1>6

(* i386_allocate_page that allocates the table too preserves it. *)
LEMMA MapAllocateWithTableIInv ==
  ASSUME Map!ConstantsAssumption, MapIInv, NEW p \in PmPages, Map!AllocateWithTable(p)
  PROVE  MapIInv'
<1> USE DEF MapIInv, Map!ConstantsAssumption
<1>1. PICK f \in PmFrames \ pm_used, g \in PmFrames \ pm_used :
        /\ f # g
        /\ pm_map' = [pm_map EXCEPT ![p] = f]
        /\ pm_table' = [pm_table EXCEPT ![DirOf[p]] = g]
        /\ pm_used' = pm_used \cup {f, g}
  BY DEF Map!AllocateWithTable
<1>2. pm_map[p] = NoFrame /\ pm_table[DirOf[p]] = NoFrame /\ DirOf[p] \in Dirs
  BY DEF Map!AllocateWithTable, Map!HasTable
<1>3. Map!TypeOK'
  BY <1>1, <1>2 DEF Map!TypeOK
<1>4. /\ \A q \in PmPages : pm_map[q] # f /\ pm_map[q] # g
      /\ \A d \in Dirs : pm_table[d] # f /\ pm_table[d] # g
  BY MapClearBitUnowned
<1>5. Map!FrameExclusive'
  BY <1>1, <1>2, <1>4 DEF Map!TypeOK, Map!FrameExclusive
<1>6. Map!FramesAccounted'
  <2>1. Map!MappedFrames' = Map!MappedFrames \cup {f}
    BY <1>1, <1>2 DEF Map!MappedFrames, Map!TypeOK
  <2>2. Map!TableFrames' = Map!TableFrames \cup {g}
    BY <1>1, <1>2 DEF Map!TableFrames, Map!TypeOK
  <2> QED
    BY <1>1, <2>1, <2>2 DEF Map!FramesAccounted
<1>7. Map!MappedInTable'
  BY <1>1, <1>2 DEF Map!MappedInTable, Map!HasTable, Map!TypeOK
<1> QED
  BY <1>3, <1>5, <1>6, <1>7

(* i386_free_page of a mapped page preserves it. *)
LEMMA MapFreeIInv ==
  ASSUME Map!ConstantsAssumption, MapIInv, NEW p \in PmPages, Map!Free(p)
  PROVE  MapIInv'
<1> USE DEF MapIInv, Map!ConstantsAssumption
<1>1. /\ pm_map[p] # NoFrame
      /\ pm_map' = [pm_map EXCEPT ![p] = NoFrame]
      /\ pm_used' = pm_used \ {pm_map[p]}
      /\ pm_table' = pm_table
  BY DEF Map!Free
<1>2. Map!TypeOK'
  BY <1>1 DEF Map!TypeOK
<1>3. Map!FrameExclusive'
  BY <1>1 DEF Map!TypeOK, Map!FrameExclusive
<1>4. Map!FramesAccounted'
  <2>1. Map!MappedFrames' = Map!MappedFrames \ {pm_map[p]}
    BY <1>1 DEF Map!MappedFrames, Map!TypeOK, Map!FrameExclusive
  <2>2. pm_map[p] \notin Map!TableFrames
    BY <1>1 DEF Map!TableFrames, Map!FrameExclusive
  <2> QED
    BY <1>1, <2>1, <2>2 DEF Map!FramesAccounted, Map!TableFrames
<1>5. Map!MappedInTable'
  BY <1>1 DEF Map!MappedInTable, Map!HasTable, Map!TypeOK
<1> QED
  BY <1>2, <1>3, <1>4, <1>5

(* Every reachable state satisfies the inductive invariant. *)
THEOREM PageMapInvariant ==
  ASSUME Map!ConstantsAssumption PROVE Map!Spec => []MapIInv
<1>1. Map!Init => MapIInv
  BY MapInitIInv
<1>2. MapIInv /\ [Map!Next]_(Map!vars) => MapIInv'
  <2> SUFFICES ASSUME MapIInv, [Map!Next]_(Map!vars) PROVE MapIInv'
    OBVIOUS
  <2>1. CASE Map!Next
    BY <2>1, MapAllocateInTableIInv, MapAllocateWithTableIInv, MapFreeIInv DEF Map!Next
  <2>2. CASE UNCHANGED Map!vars
    BY <2>2 DEF Map!vars, MapIInv, Map!TypeOK, Map!FrameExclusive, Map!FramesAccounted,
                Map!MappedInTable, Map!MappedFrames, Map!TableFrames, Map!HasTable
  <2> QED
    BY <2>1, <2>2
<1> QED
  BY <1>1, <1>2, PTL DEF Map!Spec

(* No two owners ever share a frame: neither two pages, nor two page       *)
(* tables, nor a page and a table.                                         *)
THEOREM PageMapFrameExclusive ==
  ASSUME Map!ConstantsAssumption PROVE Map!Spec => []Map!FrameExclusive
<1>1. MapIInv => Map!FrameExclusive
  BY DEF MapIInv
<1> QED
  BY <1>1, PageMapInvariant, PTL

(* The frame bitset marks exactly the owned frames. *)
THEOREM PageMapFramesAccounted ==
  ASSUME Map!ConstantsAssumption PROVE Map!Spec => []Map!FramesAccounted
<1>1. MapIInv => Map!FramesAccounted
  BY DEF MapIInv
<1> QED
  BY <1>1, PageMapInvariant, PTL
=============================================================================
