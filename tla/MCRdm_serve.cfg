SPECIFICATION MCFairSpec
CONSTANTS
  Ips = {"rdm_mapping", "rdm_segment"}
  Packets <- WellFormed
  MaxPackets = 3
  Frames = {0, 4}
  PageUnits = 2
  Obedient = FALSE
  AppPackets <- Mixed
  MaxAppPackets = 3
  TestLengths <- Lengths
  Depth = 2
  Widths = {512, 256, 64}
  RxFrames <- SomeFrames
  MaxRxFrames = 3
  TxFrames <- AppFrames
  MaxTxFrames = 3
INVARIANTS
  RepliesWhole
  WritesInPlace
  NetFramesWhole
PROPERTIES
  RdmProgress
CHECK_DEADLOCK FALSE
