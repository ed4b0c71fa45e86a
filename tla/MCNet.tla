------------------------------- MODULE MCNet -------------------------------
(***************************************************************************)
(* Instances of the UDP offload engine for TLC: the IP handler, the        *)
(* receive and send sides of the UDP engine, the encoder with the ARP      *)
(* server, the users of the engine and the ICMP server are checked in      *)
(* turn. In a behaviour one of them takes steps and the others stay in     *)
(* their initial states. Inner FIFOs have room for a few words, the ones   *)
(* that must hold a packet for the largest packet here.                    *)
(***************************************************************************)
EXTENDS UoeIpHandler, UdpReceive, UdpTransmit, UoeMacArp, UdpClients, IcmpServer

CONSTANT NetParts

VARIABLE netPart   \* which part takes steps; never changes

Shallow(fs, d) == [f \in fs |-> d]

\* The least frame has 60 bytes: a packet that fills its words, one that does not,
\* one with options, and one for each reason to drop it.
GoodFrame == [mine |-> TRUE, type |-> "ip", version |-> TRUE, whole |-> TRUE, sum |-> TRUE, ihl |-> 5,
              total |-> 32, pad |-> 14, proto |-> "udp", ttl |-> 64]
SomeFrames ==
  { GoodFrame,
    [GoodFrame EXCEPT !.total = 44, !.pad = 2, !.proto = "tcp", !.ihl = 6],
    [GoodFrame EXCEPT !.total = 49, !.pad = 0, !.proto = "icmp", !.ttl = 1],
    [GoodFrame EXCEPT !.type = "arp", !.total = 28, !.pad = 18],
    [GoodFrame EXCEPT !.mine = FALSE],
    [GoodFrame EXCEPT !.type = "other"],
    [GoodFrame EXCEPT !.version = FALSE],
    [GoodFrame EXCEPT !.whole = FALSE, !.total = 48, !.pad = 0],
    [GoodFrame EXCEPT !.sum = FALSE, !.ihl = 7],
    [GoodFrame EXCEPT !.total = 56, !.pad = 0] }
IpFifoDepth == Shallow({"lengthCheckIn", "ipData", "drop", "cut"} \cup IpFlags, 1) @@ [check |-> 5]

\* Headers with and without options; the even one (6) only where its path ends
\* its words: an open port and a last word of more than four bytes.
Datagram(ihl, bytes, port, good) == [ihl |-> ihl, bytes |-> bytes, port |-> port, sum |-> good]
SomePackets ==
  { Datagram(5, 0, "a", TRUE), Datagram(5, 3, "a", TRUE), Datagram(5, 14, "a", TRUE),
    Datagram(5, 9, "a", FALSE), Datagram(7, 6, "a", TRUE), Datagram(6, 8, "b", TRUE) }
RxFifoDepth == Shallow({"ip", "cs", "csRsp", "portReq", "portRsp"}, 1) @@ [data |-> 4, header |-> 4]

TxFifoDepth ==
  Shallow({"dataDhcp", "metaDhcp", "lengthDhcp", "dataApp", "metaApp", "lengthApp", "data", "meta", "length",
           "packetLength", "udpMetadata", "cs", "checksum", "udpData", "addresses", "ipLength"}, 1) @@ [packetData |-> 3]

MacFifoDepth ==
  Shallow({"checksums", "buffer1", "arpReq", "arpRsp", "replyMeta", "requestMeta", "insert", "updateReq", "lookupReq", "lookupRsp"}, 1)
    @@ [buffer0 |-> 3, buffer2 |-> 3, updateRsp |-> 1]

\* The fields of a DHCP message in two words, and a message as it should be.
ShortLayout == <<{"id", "ip", "mac"}, {"cookie", "type"}>>
GoodForm == [words |-> 2, reply |-> TRUE, mac |-> TRUE, cookie |-> TRUE, first |-> TRUE]
ProperForms == {GoodForm}
ClientFifoDepth == Shallow(ClientFifos \ {"rxData", "rxMeta", "appOut"}, 1)

IcmpPacket(source, bytes) == [source |-> source, bytes |-> bytes, good |-> TRUE]
SomeIcmp == { IcmpPacket("echo", 32), IcmpPacket("echo", 41), [IcmpPacket("echo", 33) EXCEPT !.good = FALSE],
              IcmpPacket("udp", 31), IcmpPacket("ttl", 36) }
IcmpFifoDepth == Shallow({"valid", "stream0", "stream1", "sums0", "sums1"}, 1) @@ [package |-> 6, data |-> 5, header |-> 3]

MCInit ==
  /\ netPart \in NetParts
  /\ InitIp /\ InitRx /\ InitTx /\ InitMac /\ InitClients /\ InitIcmp
  /\ netPart # "icmp" => layout = "separate"
  /\ netPart # "clients" => dhcpEnable

MCNext ==
  /\ \/ netPart = "ip" /\ NextIp /\ UNCHANGED <<rxvars, txvars, macvars, clvars, icvars>>
     \/ netPart = "rx" /\ NextRx /\ UNCHANGED <<ipvars, txvars, macvars, clvars, icvars>>
     \/ netPart = "tx" /\ NextTx /\ UNCHANGED <<ipvars, rxvars, macvars, clvars, icvars>>
     \/ netPart = "mac" /\ NextMac /\ UNCHANGED <<ipvars, rxvars, txvars, clvars, icvars>>
     \/ netPart = "clients" /\ NextClients /\ UNCHANGED <<ipvars, rxvars, txvars, macvars, icvars>>
     \/ netPart = "icmp" /\ NextIcmp /\ UNCHANGED <<ipvars, rxvars, txvars, macvars, clvars>>
  /\ UNCHANGED netPart

netvars == <<ipvars, rxvars, txvars, macvars, clvars, icvars, netPart>>

\* Every function of a dataflow region is called in every cycle, so a region in
\* which one of them can do something does something. A part that stays in its
\* initial state has nothing to do.
IpWork == detect_mac_protocol \/ length_check \/ check_ip_checksum \/ iph_check_ip_checksum \/ ip_invalid_dropper \/ cut_length \/ detect_ip_protocol
RxWork == PortTable \/ stripIpHeader \/ rxEngineUdpChecksumVerification \/ inputPathRxEngine
TxWork == send_message \/ txPath \/ appMuxTxPath \/ outputPathWriteFunction \/ udpChecksumCalculation \/ outputPathReadFunction \/ addIpHeader
MacWork == compute_ip_checksum \/ ip_checksum_insert \/ extract_ip_address \/ handle_arp_reply \/ arp_pkg_receiver \/ arp_pkg_sender \/ arp_table \/ CamSteps
ClientsWork == PortOpens \/ appMuxRxPath \/ appMuxPortPath \/ rxPath \/ open_dhcp_port \/ receive_message \/ dhcp_fsm
IcmpWork == check_icmp_checksum \/ dropper \/ udpPortUnreachable \/ udpAddIpHeader \/ insertChecksum
Work == CASE netPart = "ip" -> IpWork /\ UNCHANGED <<rxvars, txvars, macvars, clvars, icvars>>
          [] netPart = "rx" -> RxWork /\ UNCHANGED <<ipvars, txvars, macvars, clvars, icvars>>
          [] netPart = "tx" -> TxWork /\ UNCHANGED <<ipvars, rxvars, macvars, clvars, icvars>>
          [] netPart = "mac" -> MacWork /\ UNCHANGED <<ipvars, rxvars, txvars, clvars, icvars>>
          [] netPart = "clients" -> ClientsWork /\ UNCHANGED <<ipvars, rxvars, txvars, macvars, icvars>>
          [] netPart = "icmp" -> IcmpWork /\ UNCHANGED <<ipvars, rxvars, txvars, macvars, clvars>>
MCSpec == MCInit /\ [][MCNext]_netvars /\ WF_netvars(Work /\ UNCHANGED netPart)

\* Answers that come while DHCP is off are not read, and those behind them wait (dhcp_client.cpp:264-277);
\* so it is here when the transactions are used up.
Backlogged == dhcp.st = "INIT" /\ (~dhcpEnable \/ dhcp.next > MaxTries) /\ Len(cq.replyMeta) = ClientDepth.replyMeta

\* What has arrived gets through: no part waits for ever on a full or an empty
\* FIFO of its own, no datagram stays in front of its client unless the DHCP client
\* is off, and no DHCP transaction waits for an answer that was lost (the depths
\* of rxEngine, txEngine, mac_ip_encode, icmp_server; udpAppMux.cpp:31-96;
\* dhcp_client.cpp:278-318). One ARP message is heard: RepliesConsumed is about more.
NetSettled ==
  CASE netPart = "ip" -> IpSettled [] netPart = "rx" -> RxSettled [] netPart = "tx" -> TxSettled
    [] netPart = "mac" -> MacSettled [] netPart = "icmp" -> IcmpSettled \/ layout = "shared"
    [] netPart = "clients" -> ClientsSettled \/ Backlogged
NothingStuck == []<>NetSettled

\* The answer to an update of the ARP table is read sooner or later (arp_server.cpp:217-219). It is not
\* when a lookup is taken up in the same call, and the answers left fill the port to the CAM.
RepliesConsumed == []<>(mq.updateRsp = <<>>)
=============================================================================
