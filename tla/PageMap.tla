------------------------------- MODULE PageMap -------------------------------
(***************************************************************************)
(* What the i386 paging code (arch/i386/paging.c on top of the frame       *)
(* bitset of arch/i386/mem.c) promises its callers once paging is on: a    *)
(* partial map from virtual pages to page frames in which every frame has  *)
(* one owner - a mapped page or a page table - and the frame bitset says   *)
(* exactly which frames are owned.  Module Paging, which works on page     *)
(* tables in memory through a window page and a TLB, implements this one.  *)
(***************************************************************************)
CONSTANTS
  Pages,       \* virtual pages the callers of kpage_allocate/kpage_free use
  Dirs,        \* indices of the page directory
  BootDirs,    \* the directory entries filled while paging was set up
  DirOf,       \* the directory index of each page
  Frames,      \* page frames the allocator may hand out
  NoFrame

(* What the theorems assume of the constants; an implementation has to     *)
(* give them values for which it holds.                                    *)
ConstantsAssumption ==
  /\ DirOf \in [Pages -> Dirs]
  /\ BootDirs \subseteq Dirs
  /\ NoFrame \notin Frames

VARIABLES
  map,         \* page -> frame: the page table entries
  table,       \* directory index -> frame of a table allocated after boot
  used         \* the frames whose bit is set in i386_mem_frame_bitset

vars == <<map, table, used>>

(* The page has a page table: one made at boot or one allocated since. *)
HasTable(d) == d \in BootDirs \/ table[d] # NoFrame

Init ==
  /\ map = [p \in Pages |-> NoFrame]
  /\ table = [d \in Dirs |-> NoFrame]
  /\ used = {}

(* i386_allocate_page where the page table exists. *)
AllocateInTable(p) ==
  /\ map[p] = NoFrame
  /\ HasTable(DirOf[p])
  /\ \E f \in Frames \ used :
       /\ map' = [map EXCEPT ![p] = f]
       /\ used' = used \cup {f}
  /\ UNCHANGED table

(* i386_allocate_page where the page table has to be allocated first: the  *)
(* call takes two frames or none (K_OOM leaves everything as it was).      *)
AllocateWithTable(p) ==
  /\ map[p] = NoFrame
  /\ ~HasTable(DirOf[p])
  /\ \E f \in Frames \ used : \E g \in Frames \ (used \cup {f}) :
       /\ map' = [map EXCEPT ![p] = f]
       /\ table' = [table EXCEPT ![DirOf[p]] = g]
       /\ used' = used \cup {f, g}

(* i386_free_page of a mapped page.  Page tables are never given back. *)
Free(p) ==
  /\ map[p] # NoFrame
  /\ map' = [map EXCEPT ![p] = NoFrame]
  /\ used' = used \ {map[p]}
  /\ UNCHANGED table

Next ==
  \E p \in Pages : AllocateInTable(p) \/ AllocateWithTable(p) \/ Free(p)

Spec == Init /\ [][Next]_vars

-----------------------------------------------------------------------------
TypeOK ==
  /\ map \in [Pages -> Frames \cup {NoFrame}]
  /\ table \in [Dirs -> Frames \cup {NoFrame}]
  /\ used \in SUBSET Frames

MappedFrames == {map[p] : p \in Pages} \ {NoFrame}
TableFrames == {table[d] : d \in Dirs} \ {NoFrame}

(* Two pages never share a frame, two tables never share a frame, and no   *)
(* page maps the frame of a page table: a write through one page cannot    *)
(* reach another page or the translation itself.                           *)
FrameExclusive ==
  /\ \A p, q \in Pages : map[p] = map[q] /\ map[p] # NoFrame => p = q
  /\ \A d, e \in Dirs : table[d] = table[e] /\ table[d] # NoFrame => d = e
  /\ \A p \in Pages, d \in Dirs : map[p] = table[d] => map[p] = NoFrame

(* The bitset marks the owned frames and no others: nothing handed out is  *)
(* still free, and nothing is lost when a page is freed or a call fails.   *)
FramesAccounted == used = MappedFrames \cup TableFrames

(* A mapped page has a table to hold its entry. *)
MappedInTable == \A p \in Pages : map[p] # NoFrame => HasTable(DirOf[p])
=============================================================================
