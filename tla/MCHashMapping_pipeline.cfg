SPECIFICATION FairSpec
CONSTANTS
  Keys = {1, 2, 3, 4}
  Vals = {1, 2}
  NBram = 4
  Ratio = 2
  NSlots = 1
  NResv = 3
  BucketBytes = 2
  NChain = 16
  Base = 16
  Pool <- NoBucket
  Inputs <- Lookups
  FifoDepth = 1
  MaxReqs = 5
INVARIANTS
  StagesAgree
  TableTracksPipeline
  BucketExclusive
  ChainExclusive
PROPERTY
  EveryRequestAnswered
