SPECIFICATION Spec
CONSTANTS
  Keys = {1, 2, 3, 5}
  Vals = {1, 2}
  NBram = 2
  Ratio = 2
  NSlots = 1
  NResv = 4
  BucketBytes = 2
  NChain = 16
  Base = 16
  Pool <- OneBucket
  Inputs <- TwoBuckets
  FifoDepth = 1
  MaxReqs = 4
INVARIANTS
  TypeOK
  ChainsWellFormed
  BramCoherent
  PostedOnce
PROPERTY
  Refines
