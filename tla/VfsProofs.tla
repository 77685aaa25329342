----------------------------- MODULE VfsProofs -----------------------------
(* Proofs about module Vfs, for any drivers, inodes, callers and bounds.   *)
EXTENDS Vfs, TLAPS, FiniteSetTheorems, SequenceTheorems

-----------------------------------------------------------------------------
(* Mounts *)

(* The superblocks of mounts under way are distinct and new: none of them  *)
(* is recorded or counted as mounted, and all were allocated.  Without     *)
(* this a mount that ends could be recorded a second time.                 *)
MountingFresh ==
  /\ \A j, k \in 1 .. Len(mounting) : mounting[j] = mounting[k] => j = k
  /\ \A j \in 1 .. Len(mounting) :
       /\ mounting[j] <= allocated /\ mounting[j] \notin mounted
       /\ \A k \in 1 .. Len(vfs_superblocks) : vfs_superblocks[k] # mounting[j]
  /\ \A k \in 1 .. Len(vfs_superblocks) : vfs_superblocks[k] <= allocated
  /\ \A m \in mounted : m <= allocated

(* The types of the mounts' variables. *)
MountTypes ==
  /\ vfs_drivers \in Seq(Names)
  /\ vfs_superblocks \in Seq(1 .. MaxMounts) /\ Len(vfs_superblocks) <= MaxSuperblocks
  /\ allocated \in 0 .. MaxMounts /\ mounting \in Seq(1 .. MaxMounts)
  /\ mounted \subseteq 1 .. MaxMounts

(* MountsRecorded, with positions instead of the range of a sequence. *)
RecordedOnce ==
  /\ \A j, k \in 1 .. Len(vfs_superblocks) : vfs_superblocks[j] = vfs_superblocks[k] => j = k
  /\ ~MountFull => \A m \in mounted : \E k \in 1 .. Len(vfs_superblocks) : vfs_superblocks[k] = m

(* The inductive invariant of mounting. *)
MInv == MountTypes /\ MountingFresh /\ RecordedOnce

(* Positions or range: the two ways to say it agree. *)
LEMMA RecordedOnceIsMountsRecorded == MountTypes /\ RecordedOnce => MountsRecorded
<1> SUFFICES ASSUME MountTypes, RecordedOnce PROVE MountsRecorded
  OBVIOUS
<1>1. DOMAIN vfs_superblocks = 1 .. Len(vfs_superblocks)
  BY DEF MountTypes
<1> QED
  BY <1>1 DEF RecordedOnce, MountsRecorded, IsInjective, Range

(* What a step in front of a sequence, or behind it, does to it. *)
LEMMA Prepended ==
  ASSUME NEW S, NEW q \in Seq(S), NEW e \in S
  PROVE  /\ << e >> \o q \in Seq(S) /\ Len(<< e >> \o q) = Len(q) + 1
         /\ \A j \in 1 .. Len(q) + 1 : (<< e >> \o q)[j] = IF j = 1 THEN e ELSE q[j - 1]
<1>1. << e >> \in Seq(S) /\ Len(<< e >>) = 1 /\ << e >>[1] = e
  OBVIOUS
<1>2. /\ << e >> \o q \in Seq(S) /\ Len(<< e >> \o q) = Len(<< e >>) + Len(q)
      /\ \A j \in 1 .. Len(<< e >>) + Len(q) :
           (<< e >> \o q)[j] = IF j <= Len(<< e >>) THEN << e >>[j] ELSE q[j - Len(<< e >>)]
  BY <1>1, ConcatProperties
<1>3. Len(q) \in Nat
  OBVIOUS
<1> HIDE <1>1
<1>4. ASSUME NEW j \in 1 .. Len(q) + 1
      PROVE  (<< e >> \o q)[j] = IF j = 1 THEN e ELSE q[j - 1]
  BY <1>1, <1>2, <1>3
<1> QED
  BY <1>1, <1>2, <1>3, <1>4

(* The elements of the sequences, as numbers. *)
LEMMA MountElements ==
  ASSUME MountTypes
  PROVE  /\ Len(mounting) \in Nat /\ Len(vfs_superblocks) \in Nat
         /\ allocated \in Nat /\ MaxMounts \in Nat /\ MaxSuperblocks \in Nat
         /\ \A j \in 1 .. Len(mounting) : mounting[j] \in Nat
         /\ \A j \in 1 .. Len(vfs_superblocks) : vfs_superblocks[j] \in Nat
         /\ \A m \in mounted : m \in Nat
<1>1. MaxMounts \in Nat /\ MaxSuperblocks \in Nat
  BY VfsAssumption
<1>2. Len(mounting) \in Nat /\ Len(vfs_superblocks) \in Nat /\ allocated \in Nat
  BY <1>1 DEF MountTypes
<1>3. ASSUME NEW j \in 1 .. Len(mounting) PROVE mounting[j] \in 1 .. MaxMounts
  BY ElementOfSeq DEF MountTypes
<1>4. ASSUME NEW j \in 1 .. Len(vfs_superblocks) PROVE vfs_superblocks[j] \in 1 .. MaxMounts
  BY ElementOfSeq DEF MountTypes
<1>5. ASSUME NEW m \in mounted PROVE m \in 1 .. MaxMounts
  BY DEF MountTypes
<1> QED
  BY <1>1, <1>2, <1>3, <1>4, <1>5

(* vfs_install_driver *)
LEMMA InstallMInv ==
  ASSUME MInv, NEW name \in Names, vfs_install_driver(name)
  PROVE  MInv'
<1>1. (<< name >> \o vfs_drivers) \in Seq(Names)
  BY Prepended DEF MInv, MountTypes
<1> QED
  BY <1>1 DEF MInv, MountTypes, MountingFresh, RecordedOnce, MountFull, vfs_install_driver

(* vfs_mount up to the driver: the new superblock is above all others. *)
LEMMA MountBeginMInv ==
  ASSUME MInv, NEW name \in Names, MountBegin(name)
  PROVE  MInv'
<1> USE DEF MInv
<1>1. /\ allocated' = allocated + 1 /\ allocated' \in 1 .. MaxMounts
      /\ mounting' = << allocated' >> \o mounting
      /\ vfs_drivers' = vfs_drivers /\ vfs_superblocks' = vfs_superblocks /\ mounted' = mounted
  BY MountElements DEF MountBegin, MountTypes
<1>2. /\ mounting' \in Seq(1 .. MaxMounts) /\ Len(mounting') = Len(mounting) + 1
      /\ \A j \in 1 .. Len(mounting) + 1 :
           mounting'[j] = IF j = 1 THEN allocated' ELSE mounting[j - 1]
  BY <1>1, Prepended DEF MountTypes
<1>3. /\ Len(mounting) \in Nat /\ Len(vfs_superblocks) \in Nat /\ allocated \in Nat
      /\ \A j \in 1 .. Len(mounting) : mounting[j] \in Nat
      /\ \A j \in 1 .. Len(vfs_superblocks) : vfs_superblocks[j] \in Nat
      /\ \A m \in mounted : m \in Nat
  BY MountElements
<1>4. MountTypes'
  BY <1>1, <1>2 DEF MountTypes
<1>5. MountingFresh'
  <2>1. \A j, k \in 1 .. Len(mounting') : mounting'[j] = mounting'[k] => j = k
    <3> SUFFICES ASSUME NEW j \in 1 .. Len(mounting'), NEW k \in 1 .. Len(mounting'),
                        mounting'[j] = mounting'[k], j # 1 \/ k # 1
                 PROVE  j = k
      OBVIOUS
    <3>1. j # 1 => j - 1 \in 1 .. Len(mounting) /\ mounting[j - 1] <= allocated
      BY <1>2, <1>3 DEF MountingFresh
    <3>2. k # 1 => k - 1 \in 1 .. Len(mounting) /\ mounting[k - 1] <= allocated
      BY <1>2, <1>3 DEF MountingFresh
    <3> QED
      BY <1>1, <1>2, <1>3, <3>1, <3>2 DEF MountingFresh
  <2>2. \A j \in 1 .. Len(mounting') :
          /\ mounting'[j] <= allocated' /\ mounting'[j] \notin mounted
          /\ \A k \in 1 .. Len(vfs_superblocks) : vfs_superblocks[k] # mounting'[j]
    <3> SUFFICES ASSUME NEW j \in 1 .. Len(mounting')
                 PROVE  /\ mounting'[j] <= allocated' /\ mounting'[j] \notin mounted
                        /\ \A k \in 1 .. Len(vfs_superblocks) : vfs_superblocks[k] # mounting'[j]
      OBVIOUS
    <3>1. CASE j = 1
      BY <1>1, <1>2, <1>3, <3>1 DEF MountingFresh
    <3>2. CASE j # 1
      <4>1. j - 1 \in 1 .. Len(mounting) /\ mounting'[j] = mounting[j - 1]
        BY <1>2, <1>3, <3>2
      <4> QED
        BY <1>1, <1>3, <4>1 DEF MountingFresh
    <3> QED
      BY <3>1, <3>2
  <2> QED
    BY <1>1, <1>3, <2>1, <2>2 DEF MountingFresh
<1>6. RecordedOnce'
  BY <1>1 DEF RecordedOnce, MountFull
<1> QED
  BY <1>4, <1>5, <1>6

(* The rest of vfs_mount: the superblock recorded is the innermost one,    *)
(* which was nowhere else.                                                 *)
LEMMA MountEndMInv ==
  ASSUME MInv, NEW res \in DriverCodes, MountEnd(res)
  PROVE  MInv'
<1> USE DEF MInv
<1>1. /\ mounting # <<>> /\ mounting' = Tail(mounting)
      /\ vfs_drivers' = vfs_drivers /\ allocated' = allocated
      /\ mounted' = IF res = K_SUCCESS THEN mounted \cup {Head(mounting)} ELSE mounted
  BY DEF MountEnd
<1>2. /\ Len(mounting) \in Nat \ {0} /\ Head(mounting) = mounting[1]
      /\ mounting' \in Seq(1 .. MaxMounts) /\ Len(mounting') = Len(mounting) - 1
      /\ \A j \in 1 .. Len(mounting) - 1 : mounting'[j] = mounting[j + 1]
  BY <1>1, HeadTailProperties, EmptySeq DEF MountTypes
<1>3. /\ Len(vfs_superblocks) \in Nat /\ allocated \in Nat /\ MaxSuperblocks \in Nat
      /\ \A j \in 1 .. Len(mounting) : mounting[j] \in Nat
      /\ \A j \in 1 .. Len(vfs_superblocks) : vfs_superblocks[j] \in Nat
      /\ \A m \in mounted : m \in Nat
  BY MountElements
<1>0. mounting[1] \in 1 .. MaxMounts
  BY <1>1, <1>2, HeadTailProperties DEF MountTypes
<1>4. CASE vfs_superblocks' = vfs_superblocks /\ (res < 0 \/ MountFull)
  <2>1. MountTypes'
    BY <1>0, <1>1, <1>2, <1>4 DEF MountTypes
  <2>2. MountingFresh'
    BY <1>1, <1>2, <1>3, <1>4 DEF MountingFresh
  <2>3. res < 0 => mounted' = mounted
    BY <1>1 DEF DriverCodes, K_SUCCESS, K_IO
  <2>4. RecordedOnce'
    BY <1>4, <2>3 DEF RecordedOnce, MountFull
  <2> QED
    BY <2>1, <2>2, <2>4
<1>5. CASE vfs_superblocks' = Append(vfs_superblocks, Head(mounting)) /\ ~MountFull
  <2>1. /\ vfs_superblocks' \in Seq(1 .. MaxMounts)
        /\ Len(vfs_superblocks') = Len(vfs_superblocks) + 1
        /\ \A k \in 1 .. Len(vfs_superblocks) : vfs_superblocks'[k] = vfs_superblocks[k]
        /\ vfs_superblocks'[Len(vfs_superblocks) + 1] = mounting[1]
    BY <1>0, <1>2, <1>3, <1>5, AppendProperties DEF MountTypes
  <2>2. MountTypes'
    <3>1. Len(vfs_superblocks') <= MaxSuperblocks
      BY <1>3, <1>5, <2>1 DEF MountFull
    <3>2. mounted' \subseteq 1 .. MaxMounts
      BY <1>0, <1>1, <1>2 DEF MountTypes
    <3> QED
      BY <1>1, <1>2, <2>1, <3>1, <3>2 DEF MountTypes
  <2>3. MountingFresh'
    BY <1>1, <1>2, <1>3, <1>5, <2>1 DEF MountingFresh
  <2>4. \A j, k \in 1 .. Len(vfs_superblocks') : vfs_superblocks'[j] = vfs_superblocks'[k] => j = k
    BY <1>2, <1>3, <2>1, SMTT(30) DEF MountingFresh, RecordedOnce
  <2>5. \A m \in mounted' : \E k \in 1 .. Len(vfs_superblocks') : vfs_superblocks'[k] = m
    BY <1>1, <1>2, <1>3, <1>5, <2>1 DEF RecordedOnce
  <2> QED
    BY <2>2, <2>3, <2>4, <2>5 DEF RecordedOnce
<1>6. \/ vfs_superblocks' = vfs_superblocks /\ (res < 0 \/ MountFull)
      \/ vfs_superblocks' = Append(vfs_superblocks, Head(mounting)) /\ ~MountFull
  BY DEF MountEnd, Recorded
<1> QED
  BY <1>4, <1>5, <1>6

-----------------------------------------------------------------------------
(* Reference counts *)

(* Who is between taking the lock and giving it back. *)
Locking == {"load", "store", "unlock"}

(* The spinlock admits one caller, whose copy of the count is current. *)
LockHeld ==
  /\ \A c \in Callers : caller[c].at \in Locking => vfs_refcountLocked = 1
  /\ \A c, e \in Callers : caller[c].at \in Locking /\ caller[e].at \in Locking => c = e
  /\ \A c \in Callers : caller[c].at = "store" => caller[c].count = refcount[caller[c].node]

(* The callers for whom inode m's count stands although its handles do     *)
(* not: closes that have not lowered it yet and opens that have raised it. *)
Owed(m) == {c \in Callers :
  /\ caller[c].node = m
  /\ \/ caller[c].delta = -1 /\ caller[c].at \in {"lock", "load", "store"}
     \/ caller[c].delta = 1 /\ caller[c].at \in {"unlock", "call"}}

(* The opens of inode m that have not raised its count yet. *)
Opening(m) == {c \in Callers :
  caller[c].node = m /\ caller[c].delta = 1 /\ caller[c].at \in {"lock", "load", "store"}}

(* The count stands for every handle and every caller it is owed to, and   *)
(* is never more than the opens begun.                                     *)
CountsCover ==
  \A m \in Inodes : /\ refcount[m] >= handles[m] + Cardinality(Owed(m))
                    /\ refcount[m] + Cardinality(Opening(m)) <= opens

(* The types of inodes and of the callers' program counters. *)
InodeTypes ==
  /\ vfs_refcountLocked \in {0, 1} /\ refcount \in [Inodes -> 0 .. MaxOpens]
  /\ caller \in [Callers -> [at : {"idle", "lock", "load", "store", "unlock", "call"}, node : Inodes,
                             delta : {-1, 0, 1}, count : 0 .. MaxOpens]]
  /\ opens \in 0 .. MaxOpens /\ handles \in [Inodes -> 0 .. MaxOpens]

(* The inductive invariant of the reference counts. *)
RInv == InodeTypes /\ LockHeld /\ CountsCover

(* The sets of callers are finite. *)
LEMMA CallersFinite ==
  \A S : S \subseteq Callers => IsFiniteSet(S) /\ Cardinality(S) \in Nat
  BY VfsAssumption, FS_Subset, FS_CardinalityType

(* Adding one caller, and taking one away. *)
LEMMA OneMore ==
  ASSUME NEW S, S \subseteq Callers, NEW c \in Callers
  PROVE  /\ c \notin S => Cardinality(S \cup {c}) = Cardinality(S) + 1
         /\ c \in S => Cardinality(S \ {c}) = Cardinality(S) - 1
  BY CallersFinite, FS_AddElement, FS_RemoveElement

(* A step of caller c alone changes the sets by at most c. *)
LEMMA OwedStep ==
  ASSUME NEW c \in Callers, \A e \in Callers \ {c} : caller'[e] = caller[e], NEW m \in Inodes
  PROVE  /\ Cardinality(Owed(m)) \in Nat /\ Cardinality(Owed(m)') \in Nat
         /\ (c \in Owed(m) <=> c \in Owed(m)') => Cardinality(Owed(m)') = Cardinality(Owed(m))
         /\ c \in Owed(m)' /\ c \notin Owed(m) => Cardinality(Owed(m)') = Cardinality(Owed(m)) + 1
         /\ c \notin Owed(m)' /\ c \in Owed(m) => Cardinality(Owed(m)') = Cardinality(Owed(m)) - 1
<1>1. Owed(m) \subseteq Callers /\ Owed(m)' \subseteq Callers
  BY DEF Owed
<1>2. \A e \in Callers \ {c} : e \in Owed(m)' <=> e \in Owed(m)
  BY DEF Owed
<1>3. (c \in Owed(m) <=> c \in Owed(m)') => Owed(m)' = Owed(m)
  BY <1>1, <1>2
<1>4. c \in Owed(m)' /\ c \notin Owed(m) => Owed(m)' = Owed(m) \cup {c}
  BY <1>1, <1>2
<1>5. c \notin Owed(m)' /\ c \in Owed(m) => Owed(m)' = Owed(m) \ {c}
  BY <1>1, <1>2
<1> QED
  BY <1>1, <1>3, <1>4, <1>5, OneMore, CallersFinite

(* Only caller c moves: the callers in vfs_open change by c at most. *)
LEMMA OpeningStep ==
  ASSUME NEW c \in Callers, \A e \in Callers \ {c} : caller'[e] = caller[e], NEW m \in Inodes
  PROVE  /\ Cardinality(Opening(m)) \in Nat /\ Cardinality(Opening(m)') \in Nat
         /\ (c \in Opening(m) <=> c \in Opening(m)') => Cardinality(Opening(m)') = Cardinality(Opening(m))
         /\ c \in Opening(m)' /\ c \notin Opening(m) => Cardinality(Opening(m)') = Cardinality(Opening(m)) + 1
         /\ c \notin Opening(m)' /\ c \in Opening(m) => Cardinality(Opening(m)') = Cardinality(Opening(m)) - 1
<1>1. Opening(m) \subseteq Callers /\ Opening(m)' \subseteq Callers
  BY DEF Opening
<1>2. \A e \in Callers \ {c} : e \in Opening(m)' <=> e \in Opening(m)
  BY DEF Opening
<1>3. (c \in Opening(m) <=> c \in Opening(m)') => Opening(m)' = Opening(m)
  BY <1>1, <1>2
<1>4. c \in Opening(m)' /\ c \notin Opening(m) => Opening(m)' = Opening(m) \cup {c}
  BY <1>1, <1>2
<1>5. c \notin Opening(m)' /\ c \in Opening(m) => Opening(m)' = Opening(m) \ {c}
  BY <1>1, <1>2
<1> QED
  BY <1>1, <1>3, <1>4, <1>5, OneMore, CallersFinite

(* The counts as numbers, and a caller in either set makes its set's       *)
(* cardinality positive.                                                   *)
LEMMA CountNumbers ==
  ASSUME InodeTypes, NEW m \in Inodes
  PROVE  /\ refcount[m] \in Nat /\ handles[m] \in Nat /\ opens \in Nat /\ MaxOpens \in Nat
         /\ Cardinality(Owed(m)) \in Nat /\ Cardinality(Opening(m)) \in Nat
         /\ \A c \in Owed(m) : Cardinality(Owed(m)) >= 1
         /\ \A c \in Opening(m) : Cardinality(Opening(m)) >= 1
<1>1. MaxOpens \in Nat
  BY VfsAssumption
<1>2. refcount[m] \in Nat /\ handles[m] \in Nat /\ opens \in Nat
  BY <1>1 DEF InodeTypes
<1>3. Owed(m) \subseteq Callers /\ Opening(m) \subseteq Callers
  BY DEF Owed, Opening
<1>4. ASSUME NEW S, S \subseteq Callers, NEW c \in S PROVE Cardinality(S) >= 1
  <2>1. Cardinality(S \ {c}) = Cardinality(S) - 1 /\ c \in Callers
    BY <1>4, OneMore
  <2>2. Cardinality(S \ {c}) \in Nat /\ Cardinality(S) \in Nat
    BY <1>4, CallersFinite
  <2> QED
    BY <2>1, <2>2
<1> QED
  BY <1>1, <1>2, <1>3, <1>4, CallersFinite

(* vfs_inode_open up to the lock. *)
LEMMA OpenRInv ==
  ASSUME RInv, NEW c \in Callers, NEW i \in Inodes, vfs_inode_open(c, i)
  PROVE  RInv'
<1> USE DEF RInv
<1>1. /\ caller[c].at = "idle" /\ opens < MaxOpens /\ opens' = opens + 1
      /\ caller' = [caller EXCEPT ![c] = [at |-> "lock", node |-> i, delta |-> 1, count |-> 0]]
      /\ vfs_refcountLocked' = vfs_refcountLocked /\ refcount' = refcount /\ handles' = handles
  BY DEF vfs_inode_open
<1>2. /\ caller'[c] = [at |-> "lock", node |-> i, delta |-> 1, count |-> 0]
      /\ \A e \in Callers \ {c} : caller'[e] = caller[e]
  BY <1>1 DEF InodeTypes
<1>3. InodeTypes'
  BY <1>1, CountNumbers DEF InodeTypes
<1>4. LockHeld'
  BY <1>1, <1>2 DEF LockHeld, Locking
<1>5. ASSUME NEW m \in Inodes
      PROVE  /\ refcount'[m] >= handles'[m] + Cardinality(Owed(m)')
             /\ refcount'[m] + Cardinality(Opening(m)') <= opens'
  <2>1. c \notin Owed(m) /\ c \notin Owed(m)' /\ c \notin Opening(m)
    BY <1>1, <1>2 DEF Owed, Opening
  <2>2. Cardinality(Owed(m)') = Cardinality(Owed(m))
    BY <1>2, <2>1, OwedStep
  <2>3. Cardinality(Opening(m)') \in {Cardinality(Opening(m)), Cardinality(Opening(m)) + 1}
    BY <1>2, <2>1, OpeningStep
  <2> QED
    BY <1>1, <2>2, <2>3, CountNumbers DEF CountsCover
<1> QED
  BY <1>3, <1>4, <1>5 DEF CountsCover

(* vfs_inode_close up to the lock: the handle given up is owed to c. *)
LEMMA CloseRInv ==
  ASSUME RInv, NEW c \in Callers, NEW i \in Inodes, vfs_inode_close(c, i)
  PROVE  RInv'
<1> USE DEF RInv
<1>1. /\ caller[c].at = "idle" /\ handles[i] > 0
      /\ caller' = [caller EXCEPT ![c] = [at |-> "lock", node |-> i, delta |-> -1, count |-> 0]]
      /\ handles' = [handles EXCEPT ![i] = @ - 1]
      /\ vfs_refcountLocked' = vfs_refcountLocked /\ refcount' = refcount /\ opens' = opens
  BY DEF vfs_inode_close
<1>2. /\ caller'[c] = [at |-> "lock", node |-> i, delta |-> -1, count |-> 0]
      /\ \A e \in Callers \ {c} : caller'[e] = caller[e]
  BY <1>1 DEF InodeTypes
<1>3. InodeTypes'
  <2>1. handles[i] - 1 \in 0 .. MaxOpens
    BY <1>1, CountNumbers DEF InodeTypes
  <2> QED
    BY <1>1, <2>1, CountNumbers DEF InodeTypes
<1>4. LockHeld'
  BY <1>1, <1>2 DEF LockHeld, Locking
<1>5. ASSUME NEW m \in Inodes
      PROVE  /\ refcount'[m] >= handles'[m] + Cardinality(Owed(m)')
             /\ refcount'[m] + Cardinality(Opening(m)') <= opens'
  <2>1. /\ c \notin Owed(m) /\ c \notin Opening(m) /\ c \notin Opening(m)'
        /\ c \in Owed(m)' <=> m = i
    BY <1>1, <1>2 DEF Owed, Opening
  <2>2. Cardinality(Owed(m)') = IF m = i THEN Cardinality(Owed(m)) + 1 ELSE Cardinality(Owed(m))
    BY <1>2, <2>1, OwedStep
  <2>3. Cardinality(Opening(m)') = Cardinality(Opening(m))
    BY <1>2, <2>1, OpeningStep
  <2>4. handles'[m] = IF m = i THEN handles[m] - 1 ELSE handles[m]
    BY <1>1 DEF InodeTypes
  <2> QED
    BY <1>1, <2>2, <2>3, <2>4, CountNumbers DEF CountsCover
<1> QED
  BY <1>3, <1>4, <1>5 DEF CountsCover

(* A step inside the call that leaves count and handles alone, and c in    *)
(* the sets it is in, leaves the counts covered.                           *)
LEMMA QuietStep ==
  ASSUME CountsCover, NEW c \in Callers, \A e \in Callers \ {c} : caller'[e] = caller[e],
         refcount' = refcount, handles' = handles, opens' = opens,
         \A m \in Inodes : /\ c \in Owed(m) <=> c \in Owed(m)'
                           /\ c \in Opening(m) <=> c \in Opening(m)'
  PROVE  CountsCover'
<1> SUFFICES ASSUME NEW m \in Inodes
             PROVE  /\ refcount'[m] >= handles'[m] + Cardinality(Owed(m)')
                    /\ refcount'[m] + Cardinality(Opening(m)') <= opens'
  BY DEF CountsCover
<1>1. Cardinality(Owed(m)') = Cardinality(Owed(m)) /\ Cardinality(Opening(m)') = Cardinality(Opening(m))
  BY OwedStep, OpeningStep
<1> QED
  BY <1>1 DEF CountsCover

(* SPINLOCK_LOCK succeeds only while nobody holds the lock. *)
LEMMA LockRInv ==
  ASSUME RInv, NEW c \in Callers, Lock(c)
  PROVE  RInv'
<1> USE DEF RInv
<1>1. /\ caller[c].at = "lock" /\ vfs_refcountLocked = 0 /\ vfs_refcountLocked' = 1
      /\ caller' = [caller EXCEPT ![c].at = "load"]
      /\ refcount' = refcount /\ opens' = opens /\ handles' = handles
  BY DEF Lock, Goto
<1>2. /\ caller'[c] = [caller[c] EXCEPT !.at = "load"]
      /\ \A e \in Callers \ {c} : caller'[e] = caller[e]
  BY <1>1 DEF InodeTypes
<1>3. /\ caller'[c].at = "load" /\ caller'[c].node = caller[c].node
      /\ caller'[c].delta = caller[c].delta
  BY <1>2 DEF InodeTypes
<1>4. InodeTypes'
  BY <1>1 DEF InodeTypes
<1>5. LockHeld'
  BY <1>1, <1>2, <1>3 DEF LockHeld, Locking
<1>6. \A m \in Inodes : /\ c \in Owed(m) <=> c \in Owed(m)'
                        /\ c \in Opening(m) <=> c \in Opening(m)'
  BY <1>1, <1>3 DEF Owed, Opening
<1> QED
  BY <1>1, <1>2, <1>4, <1>5, <1>6, QuietStep

(* The load makes c's copy current. *)
LEMMA LoadRInv ==
  ASSUME RInv, NEW c \in Callers, LoadCount(c)
  PROVE  RInv'
<1> USE DEF RInv
<1>1. /\ caller[c].at = "load" /\ vfs_refcountLocked' = vfs_refcountLocked
      /\ caller' = [caller EXCEPT ![c].at = "store", ![c].count = refcount[caller[c].node]]
      /\ refcount' = refcount /\ opens' = opens /\ handles' = handles
  BY DEF LoadCount
<1>2. /\ caller'[c] = [caller[c] EXCEPT !.at = "store", !.count = refcount[caller[c].node]]
      /\ \A e \in Callers \ {c} : caller'[e] = caller[e]
  BY <1>1 DEF InodeTypes
<1>3. /\ caller'[c].at = "store" /\ caller'[c].node = caller[c].node
      /\ caller'[c].delta = caller[c].delta /\ caller'[c].count = refcount[caller[c].node]
  BY <1>2 DEF InodeTypes
<1>4. InodeTypes'
  BY <1>1 DEF InodeTypes
<1>5. LockHeld'
  <2>1. caller[c].at \in Locking /\ caller'[c].at \in Locking
    BY <1>1, <1>3 DEF Locking
  <2>2. \A e \in Callers : caller'[e].at \in Locking <=> caller[e].at \in Locking
    BY <1>2, <2>1
  <2>3. \A e \in Callers : caller'[e].at = "store" => caller'[e].count = refcount'[caller'[e].node]
    <3> SUFFICES ASSUME NEW e \in Callers, caller'[e].at = "store"
                 PROVE  caller'[e].count = refcount'[caller'[e].node]
      OBVIOUS
    <3>1. CASE e = c
      BY <1>1, <1>3, <3>1
    <3>2. CASE e # c
      <4>1. caller'[e] = caller[e]
        BY <1>2, <3>2
      <4>2. caller[e].count = refcount[caller[e].node]
        BY <4>1 DEF LockHeld
      <4> QED
        BY <1>1, <4>1, <4>2
    <3> QED
      BY <3>1, <3>2
  <2> QED
    BY <1>1, <2>2, <2>3 DEF LockHeld
<1>6. \A m \in Inodes : /\ c \in Owed(m) <=> c \in Owed(m)'
                        /\ c \in Opening(m) <=> c \in Opening(m)'
  BY <1>1, <1>3 DEF Owed, Opening
<1> QED
  BY <1>1, <1>2, <1>4, <1>5, <1>6, QuietStep

(* SPINLOCK_UNLOCK *)
LEMMA UnlockRInv ==
  ASSUME RInv, NEW c \in Callers, Unlock(c)
  PROVE  RInv'
<1> USE DEF RInv
<1>1. /\ caller[c].at = "unlock" /\ vfs_refcountLocked' = 0
      /\ caller' = [caller EXCEPT ![c].at = "call"]
      /\ refcount' = refcount /\ opens' = opens /\ handles' = handles
  BY DEF Unlock, Goto
<1>2. /\ caller'[c] = [caller[c] EXCEPT !.at = "call"]
      /\ \A e \in Callers \ {c} : caller'[e] = caller[e]
  BY <1>1 DEF InodeTypes
<1>3. /\ caller'[c].at = "call" /\ caller'[c].node = caller[c].node
      /\ caller'[c].delta = caller[c].delta
  BY <1>2 DEF InodeTypes
<1>4. InodeTypes'
  BY <1>1 DEF InodeTypes
<1>5. LockHeld'
  BY <1>1, <1>2, <1>3 DEF LockHeld, Locking
<1>6. \A m \in Inodes : /\ c \in Owed(m) <=> c \in Owed(m)'
                        /\ c \in Opening(m) <=> c \in Opening(m)'
  BY <1>1, <1>3 DEF Owed, Opening
<1> QED
  BY <1>1, <1>2, <1>4, <1>5, <1>6, QuietStep

(* The store: an open's raises the count that c is then owed, a close's    *)
(* lowers the count c was owed.                                            *)
LEMMA StoreRInv ==
  ASSUME RInv, NEW c \in Callers, StoreCount(c)
  PROVE  RInv'
<1> USE DEF RInv
<1> DEFINE i == caller[c].node
           delta == caller[c].delta
<1>1. /\ caller[c].at = "store" /\ vfs_refcountLocked' = vfs_refcountLocked
      /\ caller' = [caller EXCEPT ![c].at = "unlock"]
      /\ refcount' = [refcount EXCEPT ![i] = caller[c].count + delta]
      /\ opens' = opens /\ handles' = handles
  BY DEF StoreCount, Goto
<1>2. /\ caller'[c] = [caller[c] EXCEPT !.at = "unlock"]
      /\ \A e \in Callers \ {c} : caller'[e] = caller[e]
  BY <1>1 DEF InodeTypes
<1>3. /\ caller'[c].at = "unlock" /\ caller'[c].node = i /\ caller'[c].delta = delta
      /\ i \in Inodes /\ delta \in {-1, 0, 1}
  BY <1>2 DEF InodeTypes
<1>4. refcount' = [refcount EXCEPT ![i] = refcount[i] + delta]
  BY <1>1 DEF LockHeld
<1>5. \A m \in Inodes : refcount'[m] = IF m = i THEN refcount[m] + delta ELSE refcount[m]
  BY <1>4 DEF InodeTypes
<1>6. ASSUME NEW m \in Inodes
      PROVE  /\ refcount'[m] >= handles'[m] + Cardinality(Owed(m)')
             /\ refcount'[m] + Cardinality(Opening(m)') <= opens'
             /\ refcount'[m] \in 0 .. MaxOpens
  <2>1. /\ c \in Owed(m) <=> m = i /\ delta = -1
        /\ c \in Owed(m)' <=> m = i /\ delta = 1
        /\ c \in Opening(m) <=> m = i /\ delta = 1
        /\ c \notin Opening(m)'
    BY <1>1, <1>3 DEF Owed, Opening
  <2>2. /\ Cardinality(Owed(m)') = Cardinality(Owed(m)) + (IF m = i THEN delta ELSE 0)
        /\ Cardinality(Owed(m)') \in Nat
    BY <1>2, <1>3, <2>1, OwedStep
  <2>3. /\ Cardinality(Opening(m)') = Cardinality(Opening(m)) - (IF m = i /\ delta = 1 THEN 1 ELSE 0)
        /\ Cardinality(Opening(m)') \in Nat
    BY <1>2, <2>1, OpeningStep
  <2>4. /\ refcount[m] >= handles[m] + Cardinality(Owed(m))
        /\ refcount[m] + Cardinality(Opening(m)) <= opens
        /\ opens <= MaxOpens
    BY CountNumbers DEF CountsCover, InodeTypes
  <2> HIDE DEF i, delta
  <2>5. CASE m = i
    BY <1>1, <1>3, <1>5, <2>2, <2>3, <2>4, <2>5, CountNumbers
  <2>6. CASE m # i
    BY <1>1, <1>3, <1>5, <2>2, <2>3, <2>4, <2>6, CountNumbers
  <2> QED
    BY <2>5, <2>6
<1>7. InodeTypes'
  <2>1. refcount' \in [Inodes -> 0 .. MaxOpens]
    BY <1>4, <1>6 DEF InodeTypes
  <2> QED
    BY <1>1, <2>1 DEF InodeTypes
<1>8. LockHeld'
  BY <1>1, <1>2, <1>3 DEF LockHeld, Locking
<1> QED
  BY <1>6, <1>7, <1>8 DEF CountsCover

(* The driver's answer: an open that succeeded turns what c is owed into a *)
(* handle, one that failed leaves the count too high.                      *)
LEMMA ReturnsRInv ==
  ASSUME RInv, NEW c \in Callers, NEW res \in DriverCodes, DriverReturns(c, res)
  PROVE  RInv'
<1> USE DEF RInv
<1> DEFINE i == caller[c].node
           got == caller[c].delta = 1 /\ res = K_SUCCESS
<1>1. /\ caller[c].at = "call" /\ caller' = [caller EXCEPT ![c] = NoCall]
      /\ handles' = IF got THEN [handles EXCEPT ![i] = @ + 1] ELSE handles
      /\ vfs_refcountLocked' = vfs_refcountLocked /\ refcount' = refcount /\ opens' = opens
  BY DEF DriverReturns
<1>2. caller'[c] = NoCall /\ \A e \in Callers \ {c} : caller'[e] = caller[e]
  BY <1>1 DEF InodeTypes
<1>3. /\ NoCall \in [at : {"idle"}, node : Inodes, delta : {0}, count : {0}]
      /\ i \in Inodes
  BY VfsAssumption DEF NoCall, InodeTypes
<1>4. ASSUME NEW m \in Inodes
      PROVE  /\ refcount'[m] >= handles'[m] + Cardinality(Owed(m)')
             /\ refcount'[m] + Cardinality(Opening(m)') <= opens'
             /\ handles'[m] \in 0 .. MaxOpens
  <2>1. /\ c \in Owed(m) <=> m = i /\ caller[c].delta = 1
        /\ c \notin Owed(m)' /\ c \notin Opening(m)' /\ c \notin Opening(m)
    BY <1>1, <1>2, <1>3 DEF Owed, Opening
  <2>2. /\ Cardinality(Owed(m)')
             = Cardinality(Owed(m)) - (IF m = i /\ caller[c].delta = 1 THEN 1 ELSE 0)
        /\ Cardinality(Owed(m)') \in Nat
    BY <1>2, <2>1, OwedStep
  <2>3. Cardinality(Opening(m)') = Cardinality(Opening(m))
    BY <1>2, <2>1, OpeningStep
  <2>4. handles'[m] = IF m = i /\ got THEN handles[m] + 1 ELSE handles[m]
    BY <1>1 DEF InodeTypes
  <2>5. /\ refcount[m] >= handles[m] + Cardinality(Owed(m))
        /\ refcount[m] + Cardinality(Opening(m)) <= opens
        /\ refcount[m] <= MaxOpens
    BY CountNumbers DEF CountsCover, InodeTypes
  <2> HIDE DEF i
  <2> QED
    BY <1>1, <2>2, <2>3, <2>4, <2>5, CountNumbers
<1>5. InodeTypes'
  <2>1. handles' \in [Inodes -> 0 .. MaxOpens]
    BY <1>1, <1>4 DEF InodeTypes
  <2>2. 0 \in 0 .. MaxOpens
    BY VfsAssumption
  <2> QED
    BY <1>1, <1>3, <2>1, <2>2 DEF InodeTypes
<1>6. LockHeld'
  BY <1>1, <1>2, <1>3 DEF LockHeld, Locking
<1> QED
  BY <1>4, <1>5, <1>6 DEF CountsCover

-----------------------------------------------------------------------------
(* The whole switch *)

(* The whole inductive invariant. *)
IInv == MInv /\ RInv

(* Initially nothing is mounted, opened or locked. *)
LEMMA InitIInv == Init => IInv
<1> SUFFICES ASSUME Init PROVE IInv
  OBVIOUS
<1>1. MaxMounts \in Nat /\ MaxSuperblocks \in Nat /\ MaxOpens \in Nat
  BY VfsAssumption
<1>2. /\ vfs_drivers \in Seq(Names) /\ vfs_superblocks \in Seq(1 .. MaxMounts)
      /\ mounting \in Seq(1 .. MaxMounts) /\ Len(vfs_superblocks) = 0 /\ Len(mounting) = 0
  BY EmptySeq DEF Init
<1>3. MInv
  BY <1>1, <1>2 DEF Init, MInv, MountTypes, MountingFresh, RecordedOnce
<1>4. NoCall \in [at : {"idle"}, node : Inodes, delta : {0}, count : {0}]
  BY VfsAssumption DEF NoCall
<1>5. InodeTypes
  BY <1>1, <1>4 DEF Init, InodeTypes
<1>6. \A c \in Callers : caller[c].at = "idle"
  BY <1>4 DEF Init
<1>7. LockHeld
  BY <1>6 DEF LockHeld, Locking
<1>8. CountsCover
  <2>1. \A m \in Inodes : Owed(m) = {} /\ Opening(m) = {}
    BY <1>6 DEF Owed, Opening
  <2>2. Cardinality({}) = 0
    BY FS_EmptySet
  <2>3. opens = 0 /\ \A m \in Inodes : refcount[m] = 0 /\ handles[m] = 0
    BY DEF Init
  <2> QED
    BY <2>1, <2>2, <2>3 DEF CountsCover
<1> QED
  BY <1>3, <1>5, <1>7, <1>8 DEF IInv, RInv

(* What leaves one half of the state alone leaves its invariant alone. *)
LEMMA MountsUnchanged == MInv /\ UNCHANGED mounts => MInv'
  BY DEF mounts, MInv, MountTypes, MountingFresh, RecordedOnce, MountFull

(* What says nothing but of inodes is kept with them. *)
LEMMA InodesUnchanged == RInv /\ UNCHANGED inodes => RInv'
<1> SUFFICES ASSUME RInv, UNCHANGED inodes PROVE RInv'
  OBVIOUS
<1>1. /\ vfs_refcountLocked' = vfs_refcountLocked /\ refcount' = refcount /\ caller' = caller
      /\ opens' = opens /\ handles' = handles
  BY DEF inodes
<1>2. \A m \in Inodes : Owed(m)' = Owed(m) /\ Opening(m)' = Opening(m)
  BY <1>1 DEF Owed, Opening
<1> QED
  BY <1>1, <1>2 DEF RInv, InodeTypes, LockHeld, CountsCover

(* Every step preserves the invariant. *)
LEMMA NextIInv == IInv /\ [Next]_vars => IInv'
<1> SUFFICES ASSUME IInv, [Next]_vars PROVE IInv'
  OBVIOUS
<1> USE DEF IInv
<1>1. ASSUME NEW name \in Names, vfs_install_driver(name) PROVE IInv'
  <2>1. UNCHANGED inodes
    BY <1>1 DEF vfs_install_driver
  <2> QED
    BY <1>1, <2>1, InstallMInv, InodesUnchanged
<1>2. ASSUME NEW name \in Names, MountBegin(name) PROVE IInv'
  <2>1. UNCHANGED inodes
    BY <1>2 DEF MountBegin
  <2> QED
    BY <1>2, <2>1, MountBeginMInv, InodesUnchanged
<1>3. ASSUME NEW res \in DriverCodes, MountEnd(res) PROVE IInv'
  <2>1. UNCHANGED inodes
    BY <1>3 DEF MountEnd
  <2> QED
    BY <1>3, <2>1, MountEndMInv, InodesUnchanged
<1>4. ASSUME NEW c \in Callers, NEW i \in Inodes, vfs_inode_open(c, i) PROVE IInv'
  <2>1. UNCHANGED mounts
    BY <1>4 DEF vfs_inode_open
  <2> QED
    BY <1>4, <2>1, OpenRInv, MountsUnchanged
<1>5. ASSUME NEW c \in Callers, NEW i \in Inodes, vfs_inode_close(c, i) PROVE IInv'
  <2>1. UNCHANGED mounts
    BY <1>5 DEF vfs_inode_close
  <2> QED
    BY <1>5, <2>1, CloseRInv, MountsUnchanged
<1>6. ASSUME NEW c \in Callers, Lock(c) \/ LoadCount(c) \/ StoreCount(c) \/ Unlock(c) PROVE IInv'
  <2>1. UNCHANGED mounts
    BY <1>6 DEF Lock, LoadCount, StoreCount, Unlock
  <2> QED
    BY <1>6, <2>1, LockRInv, LoadRInv, StoreRInv, UnlockRInv, MountsUnchanged
<1>7. ASSUME NEW c \in Callers, NEW res \in DriverCodes, DriverReturns(c, res) PROVE IInv'
  <2>1. UNCHANGED mounts
    BY <1>7 DEF DriverReturns
  <2> QED
    BY <1>7, <2>1, ReturnsRInv, MountsUnchanged
<1>8. ASSUME UNCHANGED vars PROVE IInv'
  <2>1. UNCHANGED mounts /\ UNCHANGED inodes
    BY <1>8 DEF vars
  <2> QED
    BY <2>1, MountsUnchanged, InodesUnchanged
<1>9. ASSUME NEW c \in Callers, Forward(c) PROVE IInv'
  BY <1>8, <1>9 DEF Forward
<1> QED
  BY <1>1, <1>2, <1>3, <1>4, <1>5, <1>6, <1>7, <1>8, <1>9 DEF Next

(* Every reachable state satisfies the inductive invariant. *)
THEOREM VfsInvariant == Spec => []IInv
  BY InitIInv, NextIInv, PTL DEF Spec

(* vfs_mount never writes past the end of vfs_superblocks, and neither     *)
(* vfs_inode_close nor a race on refcount takes a count below 0.           *)
THEOREM VfsTypeOK == Spec => []TypeOK
<1>1. IInv => TypeOK
  BY DEF IInv, MInv, RInv, MountTypes, InodeTypes, TypeOK
<1> QED
  BY <1>1, VfsInvariant, PTL

(* Whatever mounts call back from inside fs_mount: while vfs_superblocks   *)
(* has room every mounted file system is in it, and none is in it twice.   *)
THEOREM VfsMountsRecorded == Spec => []MountsRecorded
<1>1. IInv => MountsRecorded
  BY RecordedOnceIsMountsRecorded DEF IInv, MInv
<1> QED
  BY <1>1, VfsInvariant, PTL

(* For any number of concurrent callers and any failing drivers, refcount  *)
(* is at least the number of handles: an inode in use never looks unused.  *)
THEOREM VfsRefcountCoversHandles == Spec => []RefcountCoversHandles
<1>1. IInv => RefcountCoversHandles
  <2> SUFFICES ASSUME IInv, NEW m \in Inodes PROVE refcount[m] >= handles[m]
    BY DEF RefcountCoversHandles
  <2>1. refcount[m] >= handles[m] + Cardinality(Owed(m))
    BY DEF IInv, RInv, CountsCover
  <2> QED
    BY <2>1, CountNumbers DEF IInv, RInv
<1> QED
  BY <1>1, VfsInvariant, PTL
=============================================================================
