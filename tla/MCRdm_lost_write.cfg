SPECIFICATION MCSpec
CONSTANTS
  Ips = {"rdm_mapping"}
  Packets <- Writes
  MaxPackets = 4
  Frames = {0, 4}
  PageUnits = 2
  Obedient = TRUE
  AppPackets <- Mixed
  MaxAppPackets = 0
  TestLengths <- Lengths
  Depth = 2
  Widths = {512}
  RxFrames <- SomeFrames
  MaxRxFrames = 0
  TxFrames <- AppFrames
  MaxTxFrames = 0
INVARIANTS
  FailureStaysLocal
CHECK_DEADLOCK FALSE
