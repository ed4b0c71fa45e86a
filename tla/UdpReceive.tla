----------------------------- MODULE UdpReceive -----------------------------
(***************************************************************************)
(* The receive side of the UDP engine (udp.cpp): stripIpHeader splits a    *)
(* packet into header words, UDP words and checksum words, the checksum    *)
(* and the port table give their verdicts, and inputPathRxEngine delivers, *)
(* drops or returns the datagram. Header words and UDP words of a packet   *)
(* are taken by separate counts, which must come out even at its end.      *)
(* Packet p has a header of ihl 32-bit words, bytes of payload, a port and *)
(* a checksum that is good or bad (an absent one is good).                 *)
(***************************************************************************)
EXTENDS Streams

CONSTANTS
  RxPackets,   \* packets that may arrive
  MaxPackets,  \* bound on how many do
  RxDepth,     \* depth of each bounded FIFO
  RxPorts,     \* UDP ports that the application opens and gives back
  OpenPorts,   \* ports that it opened before
  MaxPortOps   \* bound on the requests of the application

ASSUME RxAssumption == MaxPackets \in Nat /\ MaxPortOps \in Nat

VARIABLES
  rxpk,      \* the packets that arrived so far
  rxq,       \* the FIFOs
  strip,     \* statics of stripIpHeader
  verify,    \* rxEngineUdpChecksumVerification: packets whose words are in the sum
  rx,        \* statics of inputPathRxEngine
  portTable, \* the open ports
  replies,   \* history: what portTable answered to the queries, in order
  portOps

rxvars == <<rxpk, rxq, strip, verify, rx, portTable, replies, portOps>>

RxInner == {"in", "data", "header", "ip", "cs", "csRsp", "portReq", "portRsp"}
RxOuter == {"payload", "meta", "unreachable", "open", "release", "assign"}
Blank == Word(0, 0, 0, FALSE)

InitRx ==
  /\ rxpk = <<>> /\ rxq = [f \in RxInner \cup RxOuter |-> <<>>]
  /\ strip = [st |-> "IDLE", hdr |-> 0, count |-> 0, word |-> Blank]
  /\ verify = {}
  /\ rx = [st |-> "IDLE", hdr |-> 0, p |-> 0, empty |-> FALSE, first |-> Blank]
  /\ portTable = OpenPorts /\ replies = <<>> /\ portOps = 0

RxArrive(g) ==
  /\ Len(rxpk) < MaxPackets
  /\ rxpk' = Append(rxpk, g)
  /\ rxq' = [rxq EXCEPT !.in = @ \o WordsOf(Len(rxpk) + 1, 4 * g.ihl + 8 + g.bytes)]
  /\ UNCHANGED <<strip, verify, rx, portTable, replies, portOps>>

RxCalls(ins, p) == Possible(rxq, RxDepth, ins, p) /\ rxq' = Passed(rxq, ins, p) /\ UNCHANGED rxpk

\* The application asks for a port to be opened or gives one back.
AskPort(f, port) ==
  /\ portOps < MaxPortOps /\ portOps' = portOps + 1
  /\ rxq' = [rxq EXCEPT ![f] = Append(@, port)]
  /\ UNCHANGED <<rxpk, strip, verify, rx, portTable, replies>>

-----------------------------------------------------------------------------
\* Queries of the receive path go first, then openings, then releases.
PortTable ==
  /\ \/ /\ rxq.portReq # <<>>
        /\ LET open == Head(rxq.portReq) \in portTable
           IN RxCalls({"portReq"}, [portRsp |-> <<open>>]) /\ replies' = Append(replies, open)
        /\ UNCHANGED portTable
     \/ /\ rxq.portReq = <<>> /\ rxq.open # <<>>
        /\ RxCalls({"open"}, [assign |-> <<Head(rxq.open) \notin portTable>>])
        /\ portTable' = portTable \cup {Head(rxq.open)} /\ UNCHANGED replies
     \/ /\ rxq.portReq = <<>> /\ rxq.open = <<>> /\ rxq.release # <<>>
        /\ RxCalls({"release"}, Nothing)
        /\ portTable' = portTable \ {Head(rxq.release)} /\ UNCHANGED replies
  /\ UNCHANGED <<strip, verify, rx, portOps>>

-----------------------------------------------------------------------------
(* stripIpHeader. An odd header length leaves UDP data in the upper half   *)
(* of a word, and every UDP word is put together from two; an even one     *)
(* leaves them aligned.                                                    *)

CsWord(w, last) == [p |-> w.p, last |-> last]

\* The upper half of one word and the lower half of the next one.
Spliced(w, last) == Word(w.p, w.k - (rxpk[w.p].ihl + 1) \div 2, 4 + Least(4, w.n), last)
Shifted(w) == Word(w.p, w.k - rxpk[w.p].ihl \div 2, w.n, w.last)
Upper(w) == Word(w.p, w.k + 1 - (rxpk[w.p].ihl + 1) \div 2, w.n - 4, TRUE)

\* The first word behind word 1 completes the addresses and opens the checksum.
AddressWords(w) == Only(strip.count = 1, [ip |-> <<w.p>>, cs |-> <<CsWord(w, FALSE)>>])

StripTo(st) == strip' = [strip EXCEPT !.st = st]
StripTakes(st, w) == strip' = [strip EXCEPT !.st = st, !.word = w]
AfterOptions(left) == CASE left = 2 -> "FORWARDALIGNED" [] left = 3 -> "IP2" [] left > 3 -> "SKIPOPTIONS"

StripHeader(w) ==
  \/ /\ strip.st = "IDLE" /\ RxCalls({"in"}, [header |-> <<w>>])
     /\ strip' = [st |-> "IP", hdr |-> rxpk[w.p].ihl, count |-> 0, word |-> w]
  \/ /\ strip.st = "IP" /\ RxCalls({"in"}, [header |-> <<w>>])
     /\ strip' = [st |-> IF strip.hdr - 2 = 3 THEN "IP2" ELSE "SKIPOPTIONS", hdr |-> strip.hdr - 2, count |-> 1, word |-> w]
  \/ /\ strip.st = "SKIPOPTIONS" /\ RxCalls({"in"}, Both([header |-> <<w>>], AddressWords(w)))
     /\ strip' = [st |-> AfterOptions(strip.hdr - 2), hdr |-> strip.hdr - 2, count |-> strip.count + 1, word |-> w]
  \/ /\ strip.st = "IP2" /\ RxCalls({"in"}, Both([header |-> <<Word(w.p, w.k, 4, TRUE)>>], AddressWords(w)))
     /\ StripTakes("FORWARD", w)

StripForward(w) ==
  \/ /\ strip.st = "FORWARD"
     /\ RxCalls({"in"}, [cs |-> <<CsWord(w, FALSE)>>, data |-> <<Spliced(w, FALSE)>>])
     /\ StripTakes(IF w.last THEN "RESIDUE" ELSE "FORWARD_CS", w)
  \/ /\ strip.st = "FORWARD_CS"
     /\ RxCalls({"in"}, [cs |-> <<CsWord(strip.word, FALSE)>>, data |-> <<Spliced(w, w.last /\ w.n <= 4)>>])
     /\ StripTakes(IF ~w.last THEN "FORWARD_CS" ELSE IF w.n > 4 THEN "RESIDUE" ELSE "CS_RESIDUE", w)
  \/ /\ strip.st = "FORWARDALIGNED"
     /\ RxCalls({"in"}, [cs |-> <<CsWord(w, FALSE)>>, data |-> <<Shifted(w)>>])
     /\ StripTakes("FORWARDCSALIGNED", w)
  \/ /\ strip.st = "FORWARDCSALIGNED"
     /\ RxCalls({"in"}, [cs |-> <<CsWord(w, FALSE)>>, data |-> <<Shifted(w)>>])
     /\ StripTakes(IF ~w.last THEN "FORWARDCSALIGNED" ELSE IF w.n > 4 THEN "CS_RESIDUEALIGNED" ELSE "IDLE", w)

\* Seeded fault: the half word that is left over is not written.
NoHalfWord == [cs |-> <<CsWord(strip.word, TRUE)>>]

Residue == [cs |-> <<CsWord(strip.word, TRUE)>>, data |-> <<Upper(strip.word)>>]

StripResidue ==
  \/ strip.st = "RESIDUE" /\ RxCalls({}, Residue) /\ StripTo("IDLE")
  \/ strip.st \in {"CS_RESIDUE", "CS_RESIDUEALIGNED"} /\ RxCalls({}, [cs |-> <<CsWord(strip.word, TRUE)>>]) /\ StripTo("IDLE")

stripIpHeader ==
  /\ \/ rxq.in # <<>> /\ (StripHeader(Head(rxq.in)) \/ StripForward(Head(rxq.in)))
     \/ StripResidue
  /\ UNCHANGED <<verify, rx, portTable, replies, portOps>>

\* The sum runs until a word marked as the last one.
rxEngineUdpChecksumVerification ==
  /\ rxq.cs # <<>>
  /\ LET w == Head(rxq.cs)
         sum == verify \cup {w.p}
     IN /\ RxCalls({"cs"}, Only(w.last, [csRsp |-> <<\A p \in sum : rxpk[p].sum>>]))
        /\ verify' = IF w.last THEN {} ELSE sum
  /\ UNCHANGED <<strip, rx, portTable, replies, portOps>>

-----------------------------------------------------------------------------
(* inputPathRxEngine. The count of header words is a 4-bit number.         *)

RxTo(st) == rx' = [rx EXCEPT !.st = st]
RxCounts(st, hdr) == rx' = [rx EXCEPT !.st = st, !.hdr = hdr % 16]
RxKeeps == UNCHANGED <<strip, verify, portTable, replies, portOps>>

IP_IDLE ==
  /\ rx.st = "IDLE" /\ rxq.data # <<>> /\ rxq.ip # <<>> /\ rxq.header # <<>>
  /\ LET w == Head(rxq.data)
         h == Head(rxq.header)
     IN /\ RxCalls({"data", "ip", "header"}, [portReq |-> <<rxpk[w.p].port>>])
        /\ rx' = [st |-> "WAIT", hdr |-> rxpk[h.p].ihl - 2, p |-> w.p, empty |-> rxpk[w.p].bytes = 0, first |-> h]
  /\ RxKeeps

IP_WAIT ==
  /\ rx.st = "WAIT" /\ rxq.portRsp # <<>> /\ rxq.csRsp # <<>>
  /\ RxCalls({"portRsp", "csRsp"}, Nothing)
  /\ RxTo(CASE Head(rxq.portRsp) /\ Head(rxq.csRsp) /\ ~rx.empty -> "STREAMFIRST"
            [] ~Head(rxq.csRsp) \/ rx.empty -> "DROP"
            [] OTHER -> "UNREACHABLE_FIRST")
  /\ RxKeeps

IP_STREAM ==
  /\ rxq.data # <<>>
  /\ LET w == Head(rxq.data)
     IN \/ /\ rx.st = "STREAMFIRST"
           /\ RxCalls({"data"}, [payload |-> <<w>>, meta |-> <<rx.p>>])
           /\ RxTo(IF w.last THEN "DRAIN" ELSE "STREAMIP")
        \/ /\ rx.st = "STREAMIP" /\ rxq.header # <<>>
           /\ RxCalls({"data", "header"}, [payload |-> <<w>>])
           /\ RxCounts(CASE rx.hdr <= 2 -> IF w.last THEN "IDLE" ELSE "STREAMREST"
                         [] OTHER -> IF w.last THEN "DRAIN" ELSE "STREAMIP", rx.hdr - 2)
        \/ /\ rx.st = "STREAMREST"
           /\ RxCalls({"data"}, [payload |-> <<w>>])
           /\ RxTo(IF w.last THEN "IDLE" ELSE "STREAMREST")
  /\ RxKeeps

\* Seeded fault: the rest of the header words is left behind.
LeaveHeader(last, hdr) == IF last THEN "IDLE" ELSE "DROP"

AfterDrop(last, hdr) == IF ~last THEN "DROP" ELSE IF hdr = 0 THEN "IDLE" ELSE "DRAIN"

IP_DROP ==
  /\ rx.st = "DROP" /\ rxq.data # <<>>
  /\ LET hdr == IF rx.hdr > 2 THEN rx.hdr - 2 ELSE 0
     IN /\ RxCalls(IF rx.hdr > 0 THEN {"data", "header"} ELSE {"data"}, Nothing)
        /\ RxCounts(AfterDrop(Head(rxq.data).last, hdr), hdr)
  /\ RxKeeps

IP_DRAIN ==
  /\ rx.st = "DRAIN" /\ RxCalls({"header"}, Nothing)
  /\ IF rx.hdr > 2 THEN RxCounts("DRAIN", rx.hdr - 2) ELSE RxTo("IDLE")
  /\ RxKeeps

\* A copy of the packet for the ICMP server; RESIDUE overwrites the half word it
\* was to write and sends an empty one.
IP_PORT_UNREACHABLE ==
  /\ \/ rx.st = "UNREACHABLE_FIRST" /\ RxCalls({}, [unreachable |-> <<rx.first>>]) /\ RxTo("UNREACHABLE_IP")
     \/ /\ rx.st = "UNREACHABLE_IP" /\ rxq.header # <<>>
        /\ LET h == Head(rxq.header)
           IN /\ RxCalls({"header"}, [unreachable |-> <<Word(h.p, h.k, 8, FALSE)>>])
              /\ RxTo(IF h.last THEN "UNREACHABLE_UDP" ELSE "UNREACHABLE_IP")
     \/ /\ rx.st = "UNREACHABLE_UDP" /\ rxq.data # <<>>
        /\ LET w == Head(rxq.data)
               ends == w.last /\ w.n <= 4
           IN /\ RxCalls({"data"}, [unreachable |-> <<Word(w.p, w.k, IF ends THEN 4 + w.n ELSE 8, ends)>>])
              /\ RxTo(IF ~w.last THEN "UNREACHABLE_UDP" ELSE IF ends THEN "IDLE" ELSE "UNREACHABLE_RESIDUE")
     \/ /\ rx.st = "UNREACHABLE_RESIDUE"
        /\ RxCalls({}, [unreachable |-> <<Word(rx.p, 0, 0, TRUE)>>]) /\ RxTo("IDLE")
  /\ RxKeeps

inputPathRxEngine == IP_IDLE \/ IP_WAIT \/ IP_STREAM \/ IP_DROP \/ IP_DRAIN \/ IP_PORT_UNREACHABLE

NextRx ==
  \/ \E g \in RxPackets : RxArrive(g)
  \/ \E f \in {"open", "release"}, port \in RxPorts : AskPort(f, port)
  \/ PortTable
  \/ stripIpHeader
  \/ rxEngineUdpChecksumVerification
  \/ inputPathRxEngine

-----------------------------------------------------------------------------
Judged == SubSeq(rxpk, 1, Len(replies))
Accepted(i) == Judged[i].sum /\ Judged[i].bytes > 0 /\ replies[i]
Returned(i) == Judged[i].sum /\ Judged[i].bytes > 0 /\ ~replies[i]

\* Payload words are numbered behind the UDP header.
PayloadOf(i) == [j \in DOMAIN WordsOf(i, rxpk[i].bytes) |-> [WordsOf(i, rxpk[i].bytes)[j] EXCEPT !.k = j]]
Delivered == Concatenated([i \in DOMAIN Judged |-> IF Accepted(i) THEN PayloadOf(i) ELSE <<>>])
Owners == SelectSeq([i \in DOMAIN Judged |-> i], Accepted)
Refused == SelectSeq([i \in DOMAIN Judged |-> i], Returned)
MessageEnds == SelectSeq(rxq.unreachable, LAMBDA w : w.last)

RxSettled ==
  rx.st = "IDLE" /\ strip.st = "IDLE" /\ \A f \in RxInner \ {"header"} : rxq[f] = <<>>

\* The application gets the payload of exactly the datagrams with payload, a good
\* checksum and a port that was open when it was looked up, each whole, in order
\* and with its own source; one message goes back for each datagram to a closed
\* port; and no word, address, checksum or port verdict of a packet is left for
\* the next one (udp.cpp:90-240, 242-414).
DatagramsDelivered ==
  /\ IsPrefix(rxq.payload, Delivered) /\ IsPrefix(rxq.meta, Owners)
  /\ \A i \in DOMAIN MessageEnds : i <= Len(Refused) /\ MessageEnds[i].p = Refused[i]
  /\ RxSettled => /\ rxq.payload = Delivered /\ rxq.meta = Owners /\ Len(MessageEnds) = Len(Refused)
                  /\ rxq.header = <<>> /\ verify = {} /\ Len(Judged) = Len(rxpk)
=============================================================================
