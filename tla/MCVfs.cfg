CONSTANTS
  n1 = n1
  n2 = n2
  Names = {ext2, fat}
  Inodes = {n1, n2}
  Callers = {c1, c2}
  Ops <- MCOps
  MaxSuperblocks = 2
  MaxDrivers = 1
  MaxMounts = 3
  MaxDepth = 2
  MaxOpens = 3
SPECIFICATION Spec
INVARIANTS
  TypeOK
  MountsRecorded
  RefcountCoversHandles
