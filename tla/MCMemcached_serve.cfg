SPECIFICATION MCFairSpec
CONSTANTS
  Parts = {"table", "store", "protocol", "host"}
  KeyLen <- TwoKeys
  Hash <- OneBucket
  Buckets = 1
  Stride = 3
  Bins = 2
  FilterEntries = 2
  Requests <- AllRequests
  MaxRequests = 3
  Addrs = {100, 101}
  Builds <- BothBuilds
  Addresses = {1, 2}
  LineWords = 2
  MaxWords = 4
  FilterSize = 2
  MaxOps = 3
  StoreBuilds <- Steady
  Packets <- Sizes
  HitLengths = {9, 17}
  MaxPackets = 2
  PoolStart <- Starts
  PoolSize <- FewAddresses
  PoolGran <- Granularities
  MEDIUM = 2
  LARGE = 4
  NUM_MEDIUM = 1
  NUM_LARGE = 1
  HostDepth = 2
  ReadyDelays = {0}
INVARIANTS
  AnswersSequential
  AddressesUnshared
  GetsFresh
  ParsedExactly
  AnswersFramed
  AddressesOwned
PROPERTIES
  AllAnswered
CHECK_DEADLOCK FALSE
