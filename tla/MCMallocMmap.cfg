CONSTANTS
  MaxAddr = 19
  UsesSbrk = FALSE
  HeaderSize = 2
  Chunk = 4
  Page = 4
  Alignment = 2
  FirstBreaks = {1}
  Requests = {0, 1, 5, 17}
  SizeLimit = 64
SPECIFICATION Spec
INVARIANTS
  TypeOK
  MainChainSorted
  FreeChainLinked
  BackwardSearchFindsPlace
  Coalesced
  MemoryAccounted
  ReallocKeepsBytes
PROPERTY
  ImplementsAllocator
CHECK_DEADLOCK FALSE
