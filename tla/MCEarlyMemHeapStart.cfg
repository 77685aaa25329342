CONSTANTS
  PageSize = 4
  Alignment = 2
  WordBits = 4
  WordSize = 1
  InfoSize = 3
  EarlyHeapMax = 20
  KvirtReserved = 44
  AsaBitsetSize = 2
  UpperStart = 8
  Wrap = 128
  BootInfos <- MCBootInfos
SPECIFICATION Spec
INVARIANTS
  HeapAfterKernel
CHECK_DEADLOCK TRUE
