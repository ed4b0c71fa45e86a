SPECIFICATION Spec
CONSTANTS
  LevelBits = 2
  OrderMax = 5
  SetSize = 2
  MetaOrder = 1
  MaxHeld = 3
INVARIANTS
  EmptyMemoryServes
