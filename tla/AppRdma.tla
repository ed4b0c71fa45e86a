------------------------------- MODULE AppRdma ------------------------------
(***************************************************************************)
(* The first version of the remote memory application, app/rdma/fpga: a    *)
(* parser, a reader and a writer that access DRAM through ports of their   *)
(* own, joined by FIFOs of depth two; and its on-chip client               *)
(* app/rdma/fpga_test, which reads with one length after another, waiting  *)
(* for each reply, and then writes. Lengths and addresses count units of   *)
(* 64 bytes; a packet says whether its address is a multiple of it.        *)
(***************************************************************************)
EXTENDS Integers, Sequences, FiniteSets, TLC

CONSTANTS
  AppPackets,     \* what a host may send: [op, va, units, data, aligned]
  MaxAppPackets,  \* bound on the packets a host sends
  TestLengths,    \* test_length of the test IP
  Depth           \* depth of the FIFOs inside the application

VARIABLES
  client,    \* "host", or "test" when the test IP is connected; never changes
  sent,      \* the packets sent so far
  fifo,      \* the queues, by name
  parser, reader, writer,   \* the state machines
  tester,    \* position of the test IP: [i, waits]
  dram       \* the units stored so far, by address

vars == <<client, sent, fifo, parser, reader, writer, tester, dram>>

Fifos == {"from_net", "to_net", "req_read", "req_write", "data_write", "data_read"}
None == [n |-> 0]
Unit(n, k, last) == [n |-> n, k |-> k, last |-> last]
Units(n, p) == [i \in 1 .. p.data + 2 |-> Unit(n, i - 1, i = p.data + 2)]

Ready(q) == fifo[q] # << >>
Room(q) == Len(fifo[q]) < Depth

At(s, req, k) == [state |-> s, req |-> req, k |-> k]
Idle == At("IDLE", None, 0)

Init ==
  /\ client \in {"host", "test"}
  /\ sent = << >> /\ fifo = [q \in Fifos |-> << >>]
  /\ parser = At("ETH_HEADER", None, 0) /\ reader = Idle /\ writer = Idle
  /\ tester = [i |-> 1, waits |-> FALSE] /\ dram = << >>

Send(p) ==
  /\ sent' = Append(sent, p)
  /\ fifo' = [fifo EXCEPT !.from_net = @ \o Units(Len(sent) + 1, p)]

HostSend ==
  /\ client = "host" /\ Len(sent) < MaxAppPackets
  /\ \E p \in AppPackets : Send(p)
  /\ UNCHANGED <<client, parser, reader, writer, tester, dram>>

-----------------------------------------------------------------------------
(* app_rdma_test                                                           *)

TestPacket(op, i) ==
  [op |-> op, va |-> 0, units |-> TestLengths[i], data |-> IF op = "WRITE" THEN TestLengths[i] ELSE 0,
   aligned |-> TRUE]

\* send_read: the request; then units are taken until one is the last of its packet.
SendRead ==
  /\ client = "test" /\ ~tester.waits /\ tester.i \in DOMAIN TestLengths
  /\ Send(TestPacket("READ", tester.i))
  /\ tester' = [tester EXCEPT !.waits = TRUE]
  /\ UNCHANGED <<client, parser, reader, writer, dram>>

EndOfReply(u) == u.last

TestReceive ==
  /\ client = "test" /\ tester.waits /\ Ready("to_net")
  /\ fifo' = [fifo EXCEPT !.to_net = Tail(@)]
  /\ tester' = IF EndOfReply(Head(fifo.to_net)) THEN [i |-> tester.i + 1, waits |-> FALSE] ELSE tester
  /\ UNCHANGED <<client, sent, parser, reader, writer, dram>>

\* send_write has no reply to wait for.
SendWrite ==
  LET i == tester.i - Len(TestLengths) IN
  /\ client = "test" /\ ~tester.waits /\ i \in DOMAIN TestLengths
  /\ Send(TestPacket("WRITE", i))
  /\ tester' = [tester EXCEPT !.i = @ + 1]
  /\ UNCHANGED <<client, parser, reader, writer, dram>>

-----------------------------------------------------------------------------
(* parser                                                                  *)

\* The request held in a unit that is taken for an application header; other units hold
\* no opcode that is known.
Request(u) ==
  LET p == sent[u.n] IN
  [n |-> u.n, op |-> IF u.k = 1 THEN p.op ELSE "OTHER", va |-> p.va, units |-> p.units, aligned |-> p.aligned]

ParserHeader(u) ==
  \/ /\ parser.state = "ETH_HEADER"
     /\ parser' = At("APP_HEADER", None, 0)
     /\ fifo' = [fifo EXCEPT !.from_net = Tail(@)]
  \/ /\ parser.state = "APP_HEADER"
     /\ LET req == Request(u) IN
        IF req.op = "READ" /\ u.last
        THEN /\ Room("req_read")
             /\ parser' = At("ETH_HEADER", None, 0)
             /\ fifo' = [fifo EXCEPT !.from_net = Tail(@), !.req_read = Append(@, req)]
        ELSE /\ parser' = IF req.op = "READ" THEN At("INVALID_READ", None, 0) ELSE At("APP_DATA", req, 0)
             /\ fifo' = [fifo EXCEPT !.from_net = Tail(@)]

\* The rest of a packet. k counts units of a write: its request is pushed with the first
\* one (write_req_pushed). Other opcodes are given up after one unit.
ParserData(u) ==
  \/ /\ parser.state = "INVALID_READ"
     /\ parser' = IF u.last THEN At("ETH_HEADER", None, 0) ELSE parser
     /\ fifo' = [fifo EXCEPT !.from_net = Tail(@)]
  \/ /\ parser.state = "APP_DATA" /\ parser.req.op = "WRITE"
     /\ Room("data_write") /\ (parser.k = 0 => Room("req_write"))
     /\ fifo' = [fifo EXCEPT !.from_net = Tail(@), !.data_write = Append(@, u),
                             !.req_write = IF parser.k = 0 THEN Append(@, parser.req) ELSE @]
     /\ parser' = IF u.last THEN At("ETH_HEADER", None, 0) ELSE [parser EXCEPT !.k = 1]
  \/ /\ parser.state = "APP_DATA" /\ parser.req.op # "WRITE"
     /\ parser' = At("ETH_HEADER", None, 0)
     /\ fifo' = [fifo EXCEPT !.from_net = Tail(@)]

Parser ==
  /\ Ready("from_net")
  /\ LET u == Head(fifo.from_net) IN ParserHeader(u) \/ ParserData(u)
  /\ UNCHANGED <<client, sent, reader, writer, tester, dram>>

-----------------------------------------------------------------------------
Reply(n, op, data, last) == [n |-> n, op |-> op, data |-> data, last |-> last]
NoData == [addr |-> 0, unit |-> None]
ReadUnit(a) == [addr |-> a, unit |-> IF a \in DOMAIN dram THEN dram[a] ELSE None]

BadRead(req) == req.units = 0 \/ ~req.aligned

\* handle_read
HandleRead ==
  /\ \/ /\ reader.state = "IDLE" /\ Ready("req_read")
        /\ reader' = At("HDR_ETH", Head(fifo.req_read), 0)
        /\ fifo' = [fifo EXCEPT !.req_read = Tail(@)]
     \/ /\ reader.state = "HDR_ETH" /\ Room("data_read")
        /\ reader' = [reader EXCEPT !.state = "HDR_APP"]
        /\ fifo' = [fifo EXCEPT !.data_read = Append(@, Reply(reader.req.n, "ETH", NoData, FALSE))]
     \/ /\ reader.state = "HDR_APP" /\ Room("data_read")
        /\ LET bad == BadRead(reader.req) IN
           /\ reader' = IF bad THEN Idle ELSE [reader EXCEPT !.state = "DATAFLOW"]
           /\ fifo' = [fifo EXCEPT !.data_read = Append(@,
                Reply(reader.req.n, IF bad THEN "REPLY_READ_ERROR" ELSE "REPLY_READ", NoData, bad))]
     \/ /\ reader.state = "DATAFLOW" /\ Room("data_read")
        /\ LET last == reader.k + 1 = reader.req.units IN
           /\ reader' = IF last THEN Idle ELSE [reader EXCEPT !.k = @ + 1]
           /\ fifo' = [fifo EXCEPT !.data_read = Append(@,
                Reply(reader.req.n, "DATA", ReadUnit(reader.req.va + reader.k), last))]
  /\ UNCHANGED <<client, sent, parser, writer, tester, dram>>

WithinLength(k, req) == k < req.units

\* handle_write: an unaligned request is dropped, its payload stays in the queue.
HandleWrite ==
  /\ \/ /\ writer.state = "IDLE" /\ Ready("req_write")
        /\ writer' = IF Head(fifo.req_write).aligned THEN At("DATAFLOW", Head(fifo.req_write), 0) ELSE Idle
        /\ fifo' = [fifo EXCEPT !.req_write = Tail(@)]
        /\ UNCHANGED dram
     \/ /\ writer.state = "DATAFLOW" /\ Ready("data_write")
        /\ LET u == Head(fifo.data_write) IN
           /\ dram' = IF WithinLength(writer.k, writer.req)
                      THEN (writer.req.va + writer.k :> u) @@ dram ELSE dram
           /\ writer' = IF u.last THEN Idle ELSE [writer EXCEPT !.k = @ + 1]
        /\ fifo' = [fifo EXCEPT !.data_write = Tail(@)]
  /\ UNCHANGED <<client, sent, parser, reader, tester>>

Merger ==
  /\ Ready("data_read")
  /\ fifo' = [fifo EXCEPT !.data_read = Tail(@), !.to_net = Append(@, Head(fifo.data_read))]
  /\ UNCHANGED <<client, sent, parser, reader, writer, tester, dram>>

-----------------------------------------------------------------------------
Test == SendRead \/ TestReceive \/ SendWrite
Next == HostSend \/ Test \/ Parser \/ HandleRead \/ HandleWrite \/ Merger

\* Every block runs in every clock cycle.
Fairness == WF_vars(Test) /\ WF_vars(Parser) /\ WF_vars(HandleRead) /\ WF_vars(HandleWrite) /\ WF_vars(Merger)

Spec == Init /\ [][Next]_vars
FairSpec == Spec /\ Fairness

-----------------------------------------------------------------------------
Writes == { n \in DOMAIN sent : sent[n].op = "WRITE" }
AlignedWrites == { n \in Writes : sent[n].aligned }
Rank(S, n) == Cardinality({ m \in S : m <= n })

\* What is stored came with a WRITE and went where an aligned WRITE wanted its own payload, within
\* the length that one announced: the k-th command that is carried out stores the k-th payload.
\* Until an unaligned WRITE has been dropped, the two belong together.
WritesStayInBounds ==
  \A a \in DOMAIN dram : \E c \in AlignedWrites :
    LET u == dram[a]
        p == sent[c]
    IN  /\ u.n \in Writes /\ Rank(AlignedWrites, c) = Rank(Writes, u.n)
        /\ a = p.va + u.k - 2 /\ a < p.va + p.units

\* The test IP gets through all of its reads and writes, whatever the FIFOs' depth: no
\* reply is cut short and no part of one is left over for the next read.
TestFinishes == client = "test" ~> (tester.i = 2 * Len(TestLengths) + 1 /\ fifo.to_net = << >>)
=============================================================================
