SPECIFICATION MCFairSpec
CONSTANTS
  LevelBits = 2
  OrderMax = 5
  SetSize = 1
  MetaOrder = 1
  MaxHeld = 3
  PagingUnits = 4
  MaxOrder = 1
  TableOrder = 1
  HeapOrder = 0
  BucketOrder = 0
  SegBase = 10
  MaxCommands = 2
  MaxBuckets = 1
  MaxBus = 1
  Chunks = {0, 1}
  Pids = {1, 2}
  MaxRequests = 3
  MaxAccesses = 1
  FrameAddrs = {1, 2}
  NrWords = 2
  NrPadding = 2
  MaxJunk = 5
INVARIANTS
  TreeSound
  PagingSound
  ChunkTablesAgree
  IcapDiscipline
PROPERTIES
  Implements
  MemoryAnswers
CHECK_DEADLOCK FALSE
