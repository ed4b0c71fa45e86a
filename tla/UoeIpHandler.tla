---------------------------- MODULE UoeIpHandler ----------------------------
(***************************************************************************)
(* ip_handler of the UDP offload engine (ip_handler.cpp): Ethernet frames  *)
(* are sorted into ARP, ICMP, UDP and TCP packets. Three stages judge a    *)
(* packet on different words of it and pass their verdicts on FIFOs beside *)
(* the data, so the verdicts must stay in step with the packets. A frame   *)
(* is a record of what the stages look at; sums over the header are its    *)
(* field sum. Frames have at least 60 bytes and a header of at least 5     *)
(* 32-bit words.                                                           *)
(***************************************************************************)
EXTENDS Streams

CONSTANTS
  Frames,       \* frames that may arrive
  MaxFrames,    \* bound on how many do
  IpDepth,      \* depth of each bounded FIFO
  MaxDatagram   \* MaxDatagramSize

ASSUME IpAssumption == MaxFrames \in Nat /\ MaxDatagram \in Nat

VARIABLES
  frames,   \* the frames that arrived so far
  ipq,      \* the FIFOs
  dmp,      \* statics of detect_mac_protocol
  lc,       \* statics of length_check
  cics,     \* statics of check_ip_checksum
  iid,      \* statics of ip_invalid_dropper
  cl,       \* statics of cut_length
  dip       \* statics of detect_ip_protocol

ipvars == <<frames, ipq, dmp, lc, cics, iid, cl, dip>>

Classes == {"arp", "icmp", "exp", "udp", "tcp"}
IpFlags == {"subSums", "valid", "version", "fragment"}
IpData == {"dataIn", "lengthCheckIn", "ipData", "check", "drop", "cut"}
NoWord == Word(0, 0, 0, FALSE)

InitIp ==
  /\ frames = <<>>
  /\ ipq = [f \in Classes \cup IpFlags \cup IpData |-> <<>>]
  /\ dmp = [flush |-> FALSE, count |-> 0, type |-> "drop", prev |-> NoWord]
  /\ lc = [count |-> 0, left |-> 0, filter |-> FALSE, buf |-> <<NoWord, NoWord>>]
  /\ cics = [count |-> 0, hdr |-> 0, prev |-> NoWord, wasLast |-> FALSE]
  /\ iid = [first |-> TRUE, drop |-> FALSE]
  /\ cl = [count |-> 0, drop |-> FALSE]
  /\ dip = [count |-> 0, class |-> "none", prev |-> NoWord, left |-> FALSE]

FrameBytes(g) == 14 + g.total + g.pad

Arrive(g) ==
  /\ Len(frames) < MaxFrames
  /\ frames' = Append(frames, g)
  /\ ipq' = [ipq EXCEPT !.dataIn = @ \o WordsOf(Len(frames) + 1, FrameBytes(g))]
  /\ UNCHANGED <<dmp, lc, cics, iid, cl, dip>>

\* A call that takes a word from each FIFO of ins and writes p.
Calls(ins, p) == Possible(ipq, IpDepth, ins, p) /\ ipq' = Passed(ipq, ins, p) /\ UNCHANGED frames

-----------------------------------------------------------------------------
ByType(type, w) ==
  CASE type = "arp" -> [arp |-> <<w>>]
    [] type = "ip" -> [lengthCheckIn |-> <<w>>]
    [] OTHER -> Nothing

\* The destination is in word 0, the type in word 1; words leave one call late.
detect_mac_protocol ==
  /\ \/ /\ ~dmp.flush /\ ipq.dataIn # <<>>
        /\ LET w == Head(ipq.dataIn)
               type == CASE dmp.count = 0 -> IF frames[w.p].mine THEN "forward" ELSE "drop"
                         [] dmp.count = 1 /\ dmp.type # "drop" -> frames[w.p].type
                         [] OTHER -> dmp.type
           IN /\ Calls({"dataIn"}, Only(dmp.count > 0, ByType(type, dmp.prev)))
              /\ dmp' = [flush |-> w.last, type |-> type, prev |-> w,
                         count |-> IF w.last THEN 0 ELSE Least(dmp.count + 1, 2)]
     \/ dmp.flush /\ Calls({}, ByType(dmp.type, dmp.prev)) /\ dmp' = [dmp EXCEPT !.flush = FALSE]
  /\ UNCHANGED <<lc, cics, iid, cl, dip>>

\* The length is in word 2; wordBuffer holds the two words before it back.
length_check ==
  /\ \/ /\ lc.left = 0 /\ ipq.lengthCheckIn # <<>>
        /\ LET w == Head(ipq.lengthCheckIn)
               filter == IF lc.count = 2 THEN frames[w.p].total > MaxDatagram ELSE lc.filter
           IN /\ Calls({"lengthCheckIn"}, Only(lc.count >= 2 /\ ~filter, [ipData |-> <<lc.buf[1]>>]))
              /\ lc' = [buf |-> <<lc.buf[2], w>>, filter |-> filter, left |-> IF w.last THEN 2 ELSE 0,
                        count |-> IF w.last THEN 0 ELSE Least(lc.count + 1, 3)]
     \/ /\ lc.left > 0
        /\ Calls({}, Only(~lc.filter, [ipData |-> <<lc.buf[1]>>]))
        /\ lc' = [lc EXCEPT !.buf = <<lc.buf[2], NoWord>>, !.left = @ - 1]
  /\ UNCHANGED <<dmp, cics, iid, cl, dip>>

\* The six bytes of w behind the two that the previous word left over.
Joined(w) == Word(w.p, w.k - 2, Least(8, w.n + 2), w.n <= 6)

\* The header words still to be summed once the call has seen word count.
HeaderLeft(g, count, hdr) ==
  CASE count = 1 -> g.ihl
    [] count \in {2, 3} -> (hdr - 2) % 256
    [] count = 4 -> IF hdr <= 2 THEN 0 ELSE hdr - 2
    [] OTHER -> hdr

\* Takes the MAC header off and sums the IP header; each verdict goes out with
\* the word that decides it.
check_ip_checksum ==
  /\ \/ /\ ~cics.wasLast /\ ipq.ipData # <<>>
        /\ LET w == Head(ipq.ipData)
               g == frames[w.p]
               c == cics.count
               s == Joined(w)
           IN /\ Calls({"ipData"},
                       Both(Both(Only(c = 1, [version |-> <<g.version>>]), Only(c = 2, [fragment |-> <<g.whole>>])),
                            Both(Only(c = 4 /\ cics.hdr \in {1, 2}, [subSums |-> <<g.sum>>]),
                                 Only(c >= 2, [check |-> <<s>>]))))
              /\ cics' = [count |-> IF w.last THEN 0 ELSE Least(c + 1, 4), hdr |-> HeaderLeft(g, c, cics.hdr),
                          prev |-> w, wasLast |-> w.last /\ ~s.last]
     \/ /\ cics.wasLast
        /\ Calls({}, [check |-> <<Word(cics.prev.p, cics.prev.k - 1, cics.prev.n - 6, TRUE)>>])
        /\ cics' = [cics EXCEPT !.wasLast = FALSE]
  /\ UNCHANGED <<dmp, lc, iid, cl, dip>>

iph_check_ip_checksum ==
  /\ ipq.subSums # <<>> /\ Calls({"subSums"}, [valid |-> <<Head(ipq.subSums)>>])
  /\ UNCHANGED <<dmp, lc, cics, iid, cl, dip>>

\* A packet passes when its three verdicts add up to 3.
ip_invalid_dropper ==
  /\ ipq.check # <<>>
  /\ LET w == Head(ipq.check)
         accept == iid.first /\ Head(ipq.valid) /\ Head(ipq.version) /\ Head(ipq.fragment)
     IN /\ \/ iid.drop /\ Calls({"check"}, Nothing)
           \/ /\ ~iid.drop /\ iid.first /\ \A f \in {"valid", "version", "fragment"} : ipq[f] # <<>>
              /\ Calls({"check", "valid", "version", "fragment"}, Only(accept, [drop |-> <<w>>]))
           \/ ~iid.drop /\ ~iid.first /\ Calls({"check"}, [drop |-> <<w>>])
        /\ iid' = [first |-> w.last, drop |-> ~w.last /\ (iid.drop \/ (iid.first /\ ~accept))]
  /\ UNCHANGED <<dmp, lc, cics, cl, dip>>

\* Seeded fault: a packet that fills its last word keeps the padding behind it.
PastEnd(count, total) == (count + 1) * 8 > total

LastReal(count, total) == (count + 1) * 8 >= total

\* Takes the padding of short frames off.
cut_length ==
  /\ ipq.drop # <<>>
  /\ LET w == Head(ipq.drop)
         total == frames[w.p].total
         cut == cl.count > 0 /\ LastReal(cl.count, total)
         last == w.last \/ cut
     IN IF cl.drop
        THEN Calls({"drop"}, Nothing) /\ cl' = [cl EXCEPT !.drop = ~w.last]
        ELSE /\ Calls({"drop"}, [cut |-> <<Word(w.p, w.k, IF cut THEN total - cl.count * 8 ELSE w.n, last)>>])
             /\ cl' = [count |-> IF last THEN 0 ELSE cl.count + 1, drop |-> cut /\ ~w.last]
  /\ UNCHANGED <<dmp, lc, cics, iid, dip>>

ByClass(class, w) == IF class \in Classes THEN [c \in {class} |-> <<w>>] ELSE Nothing

\* Protocol and time to live are in word 1; words leave one call late.
detect_ip_protocol ==
  /\ \/ /\ ~dip.left /\ ipq.cut # <<>>
        /\ LET w == Head(ipq.cut)
               g == frames[w.p]
               class == IF dip.count # 1 THEN dip.class ELSE IF g.ttl = 1 THEN "exp" ELSE g.proto
           IN /\ Calls({"cut"}, Only(dip.count > 0, ByClass(class, dip.prev)))
              /\ dip' = [count |-> IF w.last THEN 0 ELSE Least(dip.count + 1, 2), class |-> class,
                         prev |-> w, left |-> w.last]
     \/ dip.left /\ Calls({}, ByClass(dip.class, dip.prev)) /\ dip' = [dip EXCEPT !.left = FALSE]
  /\ UNCHANGED <<dmp, lc, cics, iid, cl>>

NextIp ==
  \/ \E g \in Frames : Arrive(g)
  \/ detect_mac_protocol
  \/ length_check
  \/ check_ip_checksum
  \/ iph_check_ip_checksum
  \/ ip_invalid_dropper
  \/ cut_length
  \/ detect_ip_protocol

-----------------------------------------------------------------------------
ClassOf(g) ==
  CASE ~g.mine \/ g.type \notin {"arp", "ip"} -> "none"
    [] g.type = "arp" -> "arp"
    [] g.total > MaxDatagram \/ ~(g.version /\ g.whole /\ g.sum) -> "none"
    [] g.ttl = 1 -> "exp"
    [] OTHER -> g.proto

SortedTo(c) ==
  Concatenated([i \in DOMAIN frames |->
                  IF ClassOf(frames[i]) # c THEN <<>>
                  ELSE WordsOf(i, IF c = "arp" THEN FrameBytes(frames[i]) ELSE frames[i].total)])

IpSettled ==
  /\ \A f \in IpData \cup {"subSums"} : ipq[f] = <<>>
  /\ ~dmp.flush /\ lc.left = 0 /\ ~cics.wasLast /\ ~dip.left

\* Every output carries exactly the packets of its class, whole, trimmed to the
\* length the IP header gives and in the order of arrival, whatever was dropped
\* before or between them; when the pipeline is empty all of them are out and no
\* verdict is left over for the next packet (ip_handler.cpp:316-354).
FramesSorted ==
  /\ \A c \in Classes : IsPrefix(ipq[c], SortedTo(c))
  /\ IpSettled => /\ \A c \in Classes : ipq[c] = SortedTo(c)
                  /\ \A f \in IpFlags : ipq[f] = <<>>
=============================================================================
