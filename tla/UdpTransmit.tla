---------------------------- MODULE UdpTransmit ----------------------------
(***************************************************************************)
(* The send side of the UDP offload engine: send_message of the DHCP       *)
(* client and txPath of the memcached shim hand datagrams to appMuxTxPath, *)
(* which passes them one at a time to the four functions of txEngine       *)
(* (udp.cpp). The UDP header needs the checksum, which is known only       *)
(* behind the payload, so the payload waits in packetData while length,    *)
(* addresses and checksum travel on FIFOs of their own. Datagram d is a    *)
(* record with its application and its length; the length that memcached   *)
(* announces is the length of its data.                                    *)
(***************************************************************************)
EXTENDS Streams

CONSTANTS
  TxSizes,    \* lengths of the datagrams of memcached
  DhcpLength, DhcpLastWord, DhcpLastBytes, \* what send_message announces and writes: 300, 37, 4
  MaxSends,   \* bound on the datagrams
  TxDepth     \* depth of each bounded FIFO

ASSUME TxAssumption == TxSizes \subseteq Nat \ {0} /\ MaxSends \in Nat

VARIABLES
  sends,   \* the datagrams handed over so far
  txq,     \* the FIFOs
  sm,      \* statics of send_message
  shim,    \* txPath is in SHIM_STREAM
  mux,     \* statics of appMuxTxPath
  ow,      \* statics of outputPathWriteFunction
  sumOf,   \* udpChecksumCalculation: datagrams whose words are in the sum
  or,      \* statics of outputPathReadFunction
  iph,     \* statics of addIpHeader
  order    \* history: the datagrams in the order in which the mux took them

txvars == <<sends, txq, sm, shim, mux, ow, sumOf, or, iph, order>>

Apps == {"dhcp", "app"}
DataOf(a) == IF a = "dhcp" THEN "dataDhcp" ELSE "dataApp"
MetaOf(a) == IF a = "dhcp" THEN "metaDhcp" ELSE "metaApp"
LengthOf(a) == IF a = "dhcp" THEN "lengthDhcp" ELSE "lengthApp"

TxFifos == {"request", "extended", "dataDhcp", "metaDhcp", "lengthDhcp", "dataApp", "metaApp", "lengthApp",
            "data", "meta", "length", "packetData", "packetLength", "udpMetadata", "cs", "checksum",
            "udpData", "addresses", "ipLength", "wire"}
Unset == Word(0, 0, 0, FALSE)

InitTx ==
  /\ sends = <<>> /\ txq = [f \in TxFifos |-> <<>>] /\ order = <<>>
  /\ sm = [count |-> 0, d |-> 0] /\ shim = FALSE
  /\ mux = [busy |-> FALSE, source |-> "dhcp"]
  /\ ow = [st |-> "IDLE", word |-> Unset]
  /\ sumOf = {} /\ or = [busy |-> FALSE, d |-> 0, left |-> 0] /\ iph = [st |-> "IDLE", word |-> Unset]

\* dhcp_fsm asks for a message, or memcached answers a request.
Hand(a, bytes) ==
  /\ Len(sends) < MaxSends
  /\ LET d == Len(sends) + 1
     IN /\ sends' = Append(sends, [app |-> a, bytes |-> bytes])
        /\ txq' = IF a = "dhcp" THEN [txq EXCEPT !.request = Append(@, d)]
                 ELSE [txq EXCEPT !.extended = @ \o WordsOf(d, bytes)]
  /\ UNCHANGED <<sm, shim, mux, ow, sumOf, or, iph, order>>

TxCalls(ins, p) == Possible(txq, TxDepth, ins, p) /\ txq' = Passed(txq, ins, p) /\ UNCHANGED sends
First(a, w, bytes) == [f \in {DataOf(a), MetaOf(a), LengthOf(a)} |->
                       <<CASE f = DataOf(a) -> w [] f = MetaOf(a) -> w.p [] OTHER -> bytes>>]

send_message ==
  /\ \/ /\ sm.count = 0 /\ txq.request # <<>>
        /\ TxCalls({"request"}, First("dhcp", Word(Head(txq.request), 0, 8, FALSE), DhcpLength))
        /\ sm' = [count |-> 1, d |-> Head(txq.request)]
     \/ /\ sm.count > 0
        /\ LET last == sm.count = DhcpLastWord
           IN /\ TxCalls({}, [dataDhcp |-> <<Word(sm.d, sm.count, IF last THEN DhcpLastBytes ELSE 8, last)>>])
              /\ sm' = [sm EXCEPT !.count = IF last THEN 0 ELSE @ + 1]
  /\ UNCHANGED <<shim, mux, ow, sumOf, or, iph, order>>

\* The first word of an answer brings its addresses and its length along.
txPath ==
  /\ txq.extended # <<>>
  /\ LET w == Head(txq.extended)
     IN /\ TxCalls({"extended"}, IF shim THEN [dataApp |-> <<w>>] ELSE First("app", w, sends[w.p].bytes))
        /\ shim' = ~w.last
  /\ UNCHANGED <<sm, mux, ow, sumOf, or, iph, order>>

Waiting(a) == \A f \in {DataOf(a), MetaOf(a), LengthOf(a)} : txq[f] # <<>>

\* Seeded fault: DHCP may come in between the words of a datagram.
AnyTime(a) == mux.source = a \/ a = "dhcp"

MayStream(a) == mux.source = a

\* DHCP goes first; the words of a datagram stay together.
appMuxTxPath ==
  /\ \E a \in Apps :
       LET w == Head(txq[DataOf(a)])
       IN \/ /\ ~mux.busy /\ Waiting(a) /\ (a = "app" => ~Waiting("dhcp"))
             /\ TxCalls({DataOf(a), MetaOf(a), LengthOf(a)},
                        [data |-> <<w>>, meta |-> <<Head(txq[MetaOf(a)])>>, length |-> <<Head(txq[LengthOf(a)])>>])
             /\ mux' = [busy |-> ~w.last, source |-> a] /\ order' = Append(order, w.p)
          \/ /\ mux.busy /\ MayStream(a) /\ txq[DataOf(a)] # <<>>
             /\ TxCalls({DataOf(a)}, [data |-> <<w>>])
             /\ mux' = [mux EXCEPT !.busy = ~w.last] /\ UNCHANGED order
  /\ UNCHANGED <<sm, shim, ow, sumOf, or, iph>>

-----------------------------------------------------------------------------
OwTo(st) == ow' = [ow EXCEPT !.st = st]
OwTakes(st, w) == ow' = [st |-> st, word |-> w]
Cs(d, eop) == <<[d |-> d, eop |-> eop]>>

\* The payload goes to packetData a word late, and to the checksum shifted by
\* half a word, because the header before it ends in the middle of one.
outputPathWriteFunction ==
  /\ \/ /\ ow.st = "IDLE" /\ txq.meta # <<>>
        /\ TxCalls({"meta"}, [udpMetadata |-> <<Head(txq.meta)>>, cs |-> Cs(Head(txq.meta), FALSE)])
        /\ OwTakes("PSEUDOHEADER", Word(Head(txq.meta), 0, 0, FALSE))
     \/ /\ ow.st = "PSEUDOHEADER" /\ txq.length # <<>>
        /\ TxCalls({"length"}, [packetLength |-> <<Head(txq.length) + 8>>, cs |-> Cs(ow.word.p, FALSE)])
        /\ OwTo("MIX")
     \/ /\ ow.st = "MIX" /\ txq.data # <<>>
        /\ LET w == Head(txq.data)
           IN /\ TxCalls({"data"}, Both([cs |-> Cs(w.p, w.last /\ w.n <= 4)], Only(w.last, [packetData |-> <<w>>])))
              /\ OwTakes(IF ~w.last THEN "STREAM" ELSE IF w.n <= 4 THEN "IDLE" ELSE "SWCS", w)
     \/ /\ ow.st = "STREAM" /\ txq.data # <<>>
        /\ LET w == Head(txq.data)
           IN /\ TxCalls({"data"}, [packetData |-> <<ow.word>>, cs |-> Cs(w.p, w.last /\ w.n <= 4)])
              /\ OwTakes(IF ~w.last THEN "STREAM" ELSE IF w.n > 4 THEN "RESIDUE" ELSE "ONLYPACKETRESIDUE", w)
     \/ ow.st = "ONLYPACKETRESIDUE" /\ TxCalls({}, [packetData |-> <<ow.word>>]) /\ OwTo("IDLE")
     \/ ow.st = "SWCS" /\ TxCalls({}, [cs |-> Cs(ow.word.p, TRUE)]) /\ OwTo("IDLE")
     \/ ow.st = "RESIDUE" /\ TxCalls({}, [cs |-> Cs(ow.word.p, TRUE), packetData |-> <<ow.word>>]) /\ OwTo("IDLE")
  /\ UNCHANGED <<sm, shim, mux, sumOf, or, iph, order>>

udpChecksumCalculation ==
  /\ txq.cs # <<>>
  /\ LET w == Head(txq.cs)
     IN /\ TxCalls({"cs"}, Only(w.eop, [checksum |-> <<sumOf \cup {w.d}>>]))
        /\ sumOf' = IF w.eop THEN {} ELSE sumOf \cup {w.d}
  /\ UNCHANGED <<sm, shim, mux, ow, or, iph, order>>

\* The header word names the datagrams of its checksum; the length alone says
\* where the datagram ends.
outputPathReadFunction ==
  /\ \/ /\ ~or.busy /\ \A f \in {"packetLength", "udpMetadata", "checksum"} : txq[f] # <<>>
        /\ LET d == Head(txq.udpMetadata)
               length == Head(txq.packetLength)
           IN /\ TxCalls({"packetLength", "udpMetadata", "checksum"},
                         [ipLength |-> <<length>>, addresses |-> <<d>>,
                          udpData |-> <<[w |-> Word(d, 0, 8, FALSE), sums |-> Head(txq.checksum)]>>])
              /\ or' = [busy |-> TRUE, d |-> d, left |-> length - 8]
     \/ /\ or.busy /\ txq.packetData # <<>>
        /\ LET w == Head(txq.packetData)
               last == or.left <= 8
           IN /\ TxCalls({"packetData"},
                         [udpData |-> <<[w |-> Word(w.p, w.k + 1, IF last THEN or.left ELSE 8, last), sums |-> {}]>>])
              /\ or' = [or EXCEPT !.busy = ~last, !.left = IF last THEN 0 ELSE @ - 8]
  /\ UNCHANGED <<sm, shim, mux, ow, sumOf, iph, order>>

\* 20 bytes of IP header in front: words are put together from two halves.
Out(d, k, n, last, sums) == [wire |-> <<[w |-> Word(d, k, n, last), sums |-> sums]>>]

addIpHeader ==
  /\ txq.udpData # <<>> \/ iph.st = "RESIDUE"
  /\ \/ /\ iph.st = "IDLE" /\ txq.addresses # <<>> /\ txq.ipLength # <<>>
        /\ TxCalls({"ipLength"}, Out(Head(txq.addresses), 0, 8, FALSE, {}))
        /\ iph' = [iph EXCEPT !.st = "IP1"]
     \/ /\ iph.st = "IP1" /\ txq.addresses # <<>>
        /\ TxCalls({"addresses"}, Out(Head(txq.addresses), 1, 8, FALSE, {}))
        /\ iph' = [iph EXCEPT !.st = "IP2"]
     \/ /\ iph.st \in {"IP2", "FORWARD"}
        /\ LET h == Head(txq.udpData)
               w == h.w
           IN /\ TxCalls({"udpData"}, Out(w.p, w.k + 2, IF w.last THEN 4 + Least(4, w.n) ELSE 8, w.last /\ w.n <= 4, h.sums))
              /\ iph' = [st |-> IF iph.st = "IP2" \/ ~w.last THEN "FORWARD" ELSE IF w.n > 4 THEN "RESIDUE" ELSE "IDLE", word |-> w]
     \/ /\ iph.st = "RESIDUE"
        /\ TxCalls({}, Out(iph.word.p, iph.word.k + 3, iph.word.n - 4, TRUE, {}))
        /\ iph' = [iph EXCEPT !.st = "IDLE"]
  /\ UNCHANGED <<sm, shim, mux, ow, sumOf, or, order>>

NextTx ==
  \/ \E bytes \in TxSizes : Hand("app", bytes)
  \/ Hand("dhcp", DhcpLength)
  \/ send_message
  \/ txPath
  \/ appMuxTxPath
  \/ outputPathWriteFunction
  \/ udpChecksumCalculation
  \/ outputPathReadFunction
  \/ addIpHeader

-----------------------------------------------------------------------------
\* The IP packet of datagram d; word 2 holds the first half of the UDP header.
PacketOf(d) ==
  [i \in DOMAIN WordsOf(d, 28 + sends[d].bytes) |->
     [w |-> WordsOf(d, 28 + sends[d].bytes)[i], sums |-> IF i = 3 THEN {d} ELSE {}]]
Sent == Concatenated([i \in DOMAIN order |-> PacketOf(order[i])])

TxSettled == /\ \A f \in TxFifos \ {"wire"} : txq[f] = <<>>
             /\ sm.count = 0 /\ ow.st = "IDLE" /\ ~or.busy /\ iph.st = "IDLE" /\ ~mux.busy

\* On the wire the datagrams follow each other whole, each with its own payload,
\* addresses, length and checksum, in the order in which they were taken from
\* DHCP and memcached (udp.cpp:466-707, udpAppMux.cpp:98-145).
PacketsComposed ==
  /\ IsPrefix(txq.wire, Sent)
  /\ TxSettled => txq.wire = Sent /\ Len(order) = Len(sends) /\ sumOf = {}
=============================================================================
