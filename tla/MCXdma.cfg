SPECIFICATION MCSpec
CONSTANTS
  Parts = {"engine", "cyclic", "device", "files"}
  Threads = {t1, t2}
  Sizes = {3}
  MaxDesc = 2
  MaxRequests = 2
  MaxFaults = 1
  Word = 16
  EngineModes <- AllModes
  Pages = 3
  Credits = 2
  Tries = 2
  MaxProduced = 4
  MaxSessions = 2
  CyclicModes <- AllCyclic
  NBars = 6
  Channels = 2
  UserMax = 1
  MaxProbes = 1
  MaxCycles = 3
  Layouts <- SomeLayouts
  DeviceModes <- AllDevices
  Procs = {p1, p2}
  Users = {0, 1}
  H2CMax = 1
  ShiftWidth = 2
  BitCounts = {1, 2, 3}
  PageCounts = {1, 3}
  Calls = 4
  Vectored = {TRUE, FALSE}
INVARIANTS
  ReportsTrue
  EngineClean
  CyclicSound
  DeviceSound
  FilesSound
PROPERTIES
  XdmaProgress
CHECK_DEADLOCK FALSE
