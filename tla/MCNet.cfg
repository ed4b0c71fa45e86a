SPECIFICATION MCSpec
CONSTANTS
  NetParts = {"ip", "rx", "tx", "mac", "clients", "icmp"}
  Frames <- SomeFrames
  MaxFrames = 2
  IpDepth <- IpFifoDepth
  MaxDatagram = 50
  RxPackets <- SomePackets
  MaxPackets = 2
  RxDepth <- RxFifoDepth
  RxPorts = {"a"}
  OpenPorts = {"b"}
  MaxPortOps = 2
  TxSizes = {3, 8, 13}
  DhcpLength = 12
  DhcpLastWord = 1
  DhcpLastBytes = 4
  MaxSends = 2
  TxDepth <- TxFifoDepth
  Hosts = {"gw"}
  Gateway = "gw"
  Dests = {"far", "broadcast"}
  IpSizes = {30, 33}
  MaxOut = 2
  MaxArp = 1
  MacDepth <- MacFifoDepth
  AppWords = {2}
  Layout <- ShortLayout
  Forms <- ProperForms
  Addresses = {"a1", "a2"}
  Types = {"OFFER", "ACK"}
  Static = "static"
  TIME_5S = 1
  MaxDatagrams = 2
  MaxTries = 2
  MaxToggles = 1
  ClientDepth <- ClientFifoDepth
  IcmpPackets <- SomeIcmp
  MaxIcmp = 2
  IcmpDepth <- IcmpFifoDepth
  FlagLayouts = {"separate", "shared"}
INVARIANTS
  FramesSorted
  DatagramsDelivered
  PacketsComposed
  FramesAddressed
  ClientsSound
  AnswersWhole
PROPERTIES
  NothingStuck
CHECK_DEADLOCK FALSE
