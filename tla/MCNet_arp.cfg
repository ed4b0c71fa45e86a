SPECIFICATION MCSpec
CONSTANTS
  NetParts = {"mac"}
  Frames <- SomeFrames
  MaxFrames = 2
  IpDepth <- IpFifoDepth
  MaxDatagram = 50
  RxPackets <- SomePackets
  MaxPackets = 2
  RxDepth <- RxFifoDepth
  RxPorts = {"a"}
  OpenPorts = {"b"}
  MaxPortOps = 2
  TxSizes = {3, 8, 13}
  DhcpLength = 12
  DhcpLastWord = 1
  DhcpLastBytes = 4
  MaxSends = 2
  TxDepth <- TxFifoDepth
  Hosts = {"gw"}
  Gateway = "gw"
  Dests = {"far"}
  IpSizes = {30}
  MaxOut = 2
  MaxArp = 3
  MacDepth <- MacFifoDepth
  AppWords = {2}
  Layout <- ShortLayout
  Forms <- ProperForms
  Addresses = {"a1"}
  Types = {"OFFER", "ACK"}
  Static = "static"
  TIME_5S = 1
  MaxDatagrams = 3
  MaxTries = 2
  MaxToggles = 1
  ClientDepth <- ClientFifoDepth
  IcmpPackets <- SomeIcmp
  MaxIcmp = 2
  IcmpDepth <- IcmpFifoDepth
  FlagLayouts = {"separate", "shared"}
PROPERTY
  RepliesConsumed
CHECK_DEADLOCK FALSE
