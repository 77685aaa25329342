-------------------------------- MODULE Vfs --------------------------------
(***************************************************************************)
(* The file system switch (fs/vfs.c): the list of drivers, the array of    *)
(* superblocks and the reference counts of inodes.                         *)
(*                                                                         *)
(* Drivers are outside the repository.  A driver's function may answer     *)
(* with any result code, and fs_mount may call back: it may install        *)
(* drivers and mount other file systems before it returns.  Nothing guards *)
(* the list and the array, so these calls are nested and never concurrent. *)
(* The reference counts are guarded by a spinlock; inodes are opened and   *)
(* closed by concurrent callers, and closed only if they were opened.      *)
(***************************************************************************)
EXTENDS Integers, Sequences, SequencesExt, FiniteSets

CONSTANTS
  Names,           \* names of file system drivers
  Inodes, Callers,
  Ops,             \* Ops[n]: which of open and close inode n's ops have, none if it has no ops
  MaxSuperblocks,  \* VFS_MAX_SUPERBLOCKS (24)
  MaxDrivers,      \* bound: drivers installed
  MaxMounts,       \* bound: superblocks allocated
  MaxDepth,        \* bound: mounts inside each other
  MaxOpens         \* bound: opens counted

ASSUME VfsAssumption ==
  /\ {MaxSuperblocks, MaxDrivers, MaxMounts, MaxDepth, MaxOpens} \subseteq Nat
  /\ Ops \in [Inodes -> SUBSET {"open", "close"}]
  /\ Inodes # {} /\ IsFiniteSet(Callers)

K_SUCCESS == 0
K_IO == 3

(* What a driver may answer: success, a code of kernel.h, or a negative    *)
(* one, as kernel.h:8 wants errors to be.                                  *)
DriverCodes == {K_SUCCESS, K_IO, -K_IO}

VARIABLES
  vfs_drivers,         \* the linked list from its head on, by the drivers' names
  vfs_superblocks,     \* the entries of the array in use: numbers of superblocks
  allocated,           \* superblocks allocated so far
  mounting,            \* the calls of fs_mount under way, the innermost first
  vfs_refcountLocked, refcount,
  caller,              \* where each caller is: [at, node, delta, count]
  mounted,             \* history: superblocks whose driver answered K_SUCCESS
  opens,               \* history: opens counted
  handles              \* history: how often each inode was opened and not begun to be closed

mounts == <<vfs_drivers, vfs_superblocks, allocated, mounting, mounted>>
inodes == <<vfs_refcountLocked, refcount, caller, opens, handles>>
vars == <<mounts, inodes>>

NoCall == [at |-> "idle", node |-> CHOOSE n \in Inodes : TRUE, delta |-> 0, count |-> 0]

Init ==
  /\ vfs_drivers = <<>> /\ vfs_superblocks = <<>>
  /\ allocated = 0 /\ mounting = <<>> /\ mounted = {}
  /\ vfs_refcountLocked = 0
  /\ refcount = [n \in Inodes |-> 0]
  /\ caller = [c \in Callers |-> NoCall]
  /\ opens = 0 /\ handles = [n \in Inodes |-> 0]

-----------------------------------------------------------------------------
(* Drivers and mounts *)

vfs_install_driver(name) ==
  /\ Len(vfs_drivers) < MaxDrivers
  /\ vfs_drivers' = << name >> \o vfs_drivers
  /\ UNCHANGED <<vfs_superblocks, allocated, mounting, mounted, inodes>>

(* vfs_get_driver: the place of the first with that name, 0 for NULL. *)
vfs_get_driver(name) == SelectInSeq(vfs_drivers, LAMBDA d : d = name)

(* vfs_mount up to the call of the driver's fs_mount with a new            *)
(* superblock; without a driver of that name it answers K_NOTSUP instead.  *)
MountBegin(name) ==
  /\ vfs_get_driver(name) # 0
  /\ allocated < MaxMounts /\ Len(mounting) < MaxDepth
  /\ allocated' = allocated + 1
  /\ mounting' = << allocated' >> \o mounting
  /\ UNCHANGED <<vfs_drivers, vfs_superblocks, mounted, inodes>>

(* Mutant: the test for a full list is off by one. *)
MountFull_OffByOne == Len(vfs_superblocks) > MaxSuperblocks

(* vfs_superblocks_size + 1 > VFS_MAX_SUPERBLOCKS *)
MountFull == Len(vfs_superblocks) + 1 > MaxSuperblocks

(* Mutant: the superblock replaces the last one. *)
Recorded_InPlace(super) ==
  IF vfs_superblocks = <<>> THEN << super >> ELSE [vfs_superblocks EXCEPT ![Len(vfs_superblocks)] = super]

Recorded(super) == Append(vfs_superblocks, super)

(* The rest of vfs_mount, after the innermost fs_mount.  Only a negative   *)
(* answer is taken for a failure; with a full array it answers K_OOM.      *)
MountEnd(res) ==
  /\ mounting # <<>>
  /\ mounting' = Tail(mounting)
  /\ mounted' = IF res = K_SUCCESS THEN mounted \cup {Head(mounting)} ELSE mounted
  /\ vfs_superblocks' = IF res < 0 \/ MountFull THEN vfs_superblocks ELSE Recorded(Head(mounting))
  /\ UNCHANGED <<vfs_drivers, allocated, inodes>>

-----------------------------------------------------------------------------
(* Inodes *)

(* vfs_inode_read, write, readdir and finddir hand on to the driver or     *)
(* answer K_UNIMPL, as open and close do for an inode without them: either *)
(* way nothing here changes.                                               *)
Forward(c) == caller[c].at = "idle" /\ UNCHANGED vars

Goto(c, l) == caller' = [caller EXCEPT ![c].at = l]

vfs_inode_open(c, n) ==
  /\ caller[c].at = "idle" /\ "open" \in Ops[n]
  /\ opens < MaxOpens /\ opens' = opens + 1
  /\ caller' = [caller EXCEPT ![c] = [at |-> "lock", node |-> n, delta |-> 1, count |-> 0]]
  /\ UNCHANGED <<mounts, vfs_refcountLocked, refcount, handles>>

vfs_inode_close(c, n) ==
  /\ caller[c].at = "idle" /\ handles[n] > 0 /\ "close" \in Ops[n]
  /\ caller' = [caller EXCEPT ![c] = [at |-> "lock", node |-> n, delta |-> -1, count |-> 0]]
  /\ handles' = [handles EXCEPT ![n] = @ - 1]
  /\ UNCHANGED <<mounts, vfs_refcountLocked, refcount, opens>>

(* Mutant: the lock is tested and set in two steps, here without the test. *)
Lock_Untested(c) ==
  /\ caller[c].at = "lock"
  /\ vfs_refcountLocked' = 1
  /\ Goto(c, "load")
  /\ UNCHANGED <<mounts, refcount, opens, handles>>

(* SPINLOCK_LOCK: the compare and swap that succeeds. *)
Lock(c) ==
  /\ caller[c].at = "lock" /\ vfs_refcountLocked = 0
  /\ vfs_refcountLocked' = 1
  /\ Goto(c, "load")
  /\ UNCHANGED <<mounts, refcount, opens, handles>>

(* node->refcount++ and node->refcount--: a load and a store. *)
LoadCount(c) ==
  /\ caller[c].at = "load"
  /\ caller' = [caller EXCEPT ![c].at = "store", ![c].count = refcount[caller[c].node]]
  /\ UNCHANGED <<mounts, vfs_refcountLocked, refcount, opens, handles>>

StoreCount(c) ==
  /\ caller[c].at = "store"
  /\ refcount' = [refcount EXCEPT ![caller[c].node] = caller[c].count + caller[c].delta]
  /\ Goto(c, "unlock")
  /\ UNCHANGED <<mounts, vfs_refcountLocked, opens, handles>>

Unlock(c) ==
  /\ caller[c].at = "unlock"
  /\ vfs_refcountLocked' = 0
  /\ Goto(c, "call")
  /\ UNCHANGED <<mounts, refcount, opens, handles>>

(* return ops->open(node) or ops->close(node).  A failed open leaves the   *)
(* count as it is.                                                         *)
DriverReturns(c, res) ==
  /\ caller[c].at = "call"
  /\ caller' = [caller EXCEPT ![c] = NoCall]
  /\ handles' = IF caller[c].delta = 1 /\ res = K_SUCCESS
                THEN [handles EXCEPT ![caller[c].node] = @ + 1] ELSE handles
  /\ UNCHANGED <<mounts, vfs_refcountLocked, refcount, opens>>

Next ==
  \/ \E name \in Names : vfs_install_driver(name) \/ MountBegin(name)
  \/ \E res \in DriverCodes : MountEnd(res)
  \/ \E c \in Callers, n \in Inodes : vfs_inode_open(c, n) \/ vfs_inode_close(c, n)
  \/ \E c \in Callers : Forward(c) \/ Lock(c) \/ LoadCount(c) \/ StoreCount(c) \/ Unlock(c)
                          \/ \E res \in DriverCodes : DriverReturns(c, res)

Spec == Init /\ [][Next]_vars

-----------------------------------------------------------------------------
(* The array of superblocks is not written beyond its end, and no count is *)
(* lowered below 0, where it would wrap.                                   *)
TypeOK ==
  /\ vfs_drivers \in Seq(Names)
  /\ vfs_superblocks \in Seq(1 .. MaxMounts) /\ Len(vfs_superblocks) <= MaxSuperblocks
  /\ allocated \in 0 .. MaxMounts /\ mounting \in Seq(1 .. MaxMounts)
  /\ mounted \subseteq 1 .. MaxMounts
  /\ vfs_refcountLocked \in {0, 1} /\ refcount \in [Inodes -> 0 .. MaxOpens]
  /\ caller \in [Callers -> [at : {"idle", "lock", "load", "store", "unlock", "call"}, node : Inodes,
                             delta : {-1, 0, 1}, count : 0 .. MaxOpens]]
  /\ opens \in 0 .. MaxOpens /\ handles \in [Inodes -> 0 .. MaxOpens]

(* Unless the array is full, every file system that its driver has mounted *)
(* is recorded, and none twice, also when mounts are nested in each other. *)
MountsRecorded ==
  /\ IsInjective(vfs_superblocks)
  /\ ~MountFull => mounted \subseteq Range(vfs_superblocks)

(* The count of an inode is never below the number of opens that have      *)
(* succeeded and were not closed, wherever the callers meet and whichever  *)
(* driver calls fail: an inode in use never looks unused.                  *)
RefcountCoversHandles ==
  \A n \in Inodes : refcount[n] >= handles[n]
=============================================================================
