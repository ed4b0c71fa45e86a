SPECIFICATION Spec
CONSTANTS
  Keys = {1, 3}
  Vals = {1, 2}
  NBram = 1
  Ratio = 1
  NSlots = 1
  NResv = 2
  BucketBytes = 2
  NChain = 16
  Base = 16
  Pool <- OneBucket
  Inputs <- ReadOnlyKey
  FifoDepth = 1
  MaxReqs = 4
PROPERTY
  RefinesGuarded
