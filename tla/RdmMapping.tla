----------------------------- MODULE RdmMapping -----------------------------
(***************************************************************************)
(* The remote memory application of app/rdma/rdm_mapping: requests arrive  *)
(* as packets of 64-byte units and pass the stages parser, alloc_address,  *)
(* map and access, each a state machine of its own between FIFOs; two more *)
(* serve the datamover's write and read channels. Lengths and addresses    *)
(* are counted in units. app/rdma/rdm_segment is the same but for its map  *)
(* stage, which consults a table of its own: both are modelled here. A     *)
(* FIFO that only feeds another one (buffering, reply) is one queue with   *)
(* it. The FIFOs hold 256 units or more and never fill on the instances    *)
(* checked.                                                                *)
(***************************************************************************)
EXTENDS Integers, Sequences, TLC

CONSTANTS
  Ips,          \* the IPs considered, of "rdm_mapping" and "rdm_segment"
  Packets,      \* what the host may send: [op, va, units, data]
  MaxPackets,   \* bound on the packets sent
  Frames,       \* physical addresses the allocator hands out
  PageUnits,    \* RDM_VA_PAGE_SIZE
  Obedient      \* the host uses only addresses that the reply to an ALLOC has given it

ASSUME RdmAssumption ==
  /\ \A p \in Packets : p.units \in Nat \ {0} /\ p.data \in Nat
  /\ PageUnits \in Nat \ {0} /\ MaxPackets \in Nat /\ Obedient \in BOOLEAN

VARIABLES
  ip,        \* which of the two IPs is on the board; never changes
  sent,      \* the packets sent so far
  fifo,      \* the queues between the stages, by name
  parser, alloc, mapper, access, wr_pipe,   \* the state machines
  alloc_va,  \* __alloc_va of rdm_alloc_va
  mapping,   \* the mapping IP's table
  frames,    \* frames the allocator has left
  dram,      \* the units stored so far, by address
  lost       \* history: the writes whose address was not translated

vars == <<ip, sent, fifo, parser, alloc, mapper, access, wr_pipe, alloc_va, mapping, frames, dram, lost>>

Fifos == {"from_net", "to_net", "PI_alloc", "PI_map", "PI_access", "D_alloc", "D_map", "alloc_req",
          "alloc_ret", "map_req", "map_ret", "wr_cmd", "wr_data", "rd_cmd", "rd_data", "dm_wr", "dm_rd"}

None == [n |-> 0]
NoData == [addr |-> 0, unit |-> None]
At(s, pi, offset) == [state |-> s, pi |-> pi, offset |-> offset]
In(s) == At(s, None, 0)
Ready(q) == fifo[q] # << >>

\* Unit k of packet n: k = 0 is the Ethernet header, 1 the application's, the rest payload.
Unit(n, k, last) == [n |-> n, k |-> k, last |-> last]
Units(n, p) == [i \in 1 .. p.data + 2 |-> Unit(n, i - 1, i = p.data + 2)]

\* pipeline_info. A unit that is no application header holds no known opcode.
Info(u, p) ==
  [n |-> u.n, op |-> IF u.k = 1 THEN p.op ELSE "OTHER", va |-> p.va, units |-> p.units,
   alloc_ok |-> FALSE, alloc_va |-> 0, alloc_pa |-> 0, map_ok |-> FALSE, pa |-> 0]

Init ==
  /\ ip \in Ips
  /\ sent = << >> /\ fifo = [q \in Fifos |-> << >>]
  /\ parser = In("ETH_HEADER") /\ alloc = In("IDLE") /\ mapper = In("IDLE")
  /\ access = In("IDLE") /\ wr_pipe = In("IDLE")
  /\ alloc_va = PageUnits /\ mapping = << >> /\ frames = Frames /\ dram = << >> /\ lost = {}

\* The addresses that replies have returned to the host.
Returned == { r.data.addr : r \in { fifo.to_net[i] : i \in
                { j \in DOMAIN fifo.to_net : fifo.to_net[j].op = "REPLY_ALLOC" } } }

HostSend ==
  /\ Len(sent) < MaxPackets
  /\ \E p \in Packets :
       /\ Obedient /\ p.op \in {"READ", "WRITE"} => p.va \in Returned
       /\ sent' = Append(sent, p)
       /\ fifo' = [fifo EXCEPT !.from_net = @ \o Units(Len(sent) + 1, p)]
  /\ UNCHANGED <<ip, parser, alloc, mapper, access, wr_pipe, alloc_va, mapping, frames, dram, lost>>

-----------------------------------------------------------------------------
(* parser: nr_rdm_packet is the number of the packet.                      *)

EndsWrite(u, off, pi) == u.last \/ off = pi.units - 1

ParserHeader(u) ==
  \/ /\ parser.state = "ETH_HEADER"
     /\ parser' = In("APP_HEADER")
     /\ fifo' = [fifo EXCEPT !.from_net = Tail(@)]
  \/ LET pi == Info(u, sent[u.n]) IN
     /\ parser.state = "APP_HEADER"
     /\ parser' = IF pi.op = "WRITE" THEN At("STREAM", pi, 0) ELSE In("ETH_HEADER")
     /\ fifo' = [fifo EXCEPT !.from_net = Tail(@), !.PI_alloc = Append(@, pi)]

ParserStream(u) ==
  LET end == EndsWrite(u, parser.offset, parser.pi) IN
  /\ parser.state = "STREAM"
  /\ parser' = IF end THEN In("ETH_HEADER") ELSE [parser EXCEPT !.offset = @ + 1]
  /\ fifo' = [fifo EXCEPT !.from_net = Tail(@), !.D_alloc = Append(@, [u EXCEPT !.last = end])]

Parser ==
  /\ Ready("from_net")
  /\ LET u == Head(fifo.from_net) IN ParserHeader(u) \/ ParserStream(u)
  /\ UNCHANGED <<ip, sent, alloc, mapper, access, wr_pipe, alloc_va, mapping, frames, dram, lost>>

-----------------------------------------------------------------------------
(* alloc_address: whatever the length, a block of order 1 is asked for.    *)

RoundUp(n, m) == m * ((n + m - 1) \div m)

\* Seeded fault: the payload of a write is not held back until its header has passed.
AllocSkipsStream(op) == In("IDLE")

AllocNext(op) == IF op = "WRITE" THEN In("WRITE_STREAM") ELSE In("IDLE")

\* A request with another opcode is dropped.
AllocIdle ==
  LET pi == Head(fifo.PI_alloc) IN
  /\ alloc.state = "IDLE" /\ Ready("PI_alloc")
  /\ \/ /\ pi.op = "ALLOC"
        /\ fifo' = [fifo EXCEPT !.PI_alloc = Tail(@), !.alloc_req = Append(@, "ALLOC")]
        /\ alloc' = At("WAIT_ALLOC", pi, 0)
     \/ /\ pi.op \in {"READ", "WRITE"}
        /\ fifo' = [fifo EXCEPT !.PI_alloc = Tail(@), !.PI_map = Append(@, pi)]
        /\ alloc' = AllocNext(pi.op)
     \/ /\ pi.op \notin {"ALLOC", "READ", "WRITE"}
        /\ fifo' = [fifo EXCEPT !.PI_alloc = Tail(@)]
        /\ UNCHANGED alloc
  /\ UNCHANGED alloc_va

AllocWriteStream ==
  /\ alloc.state = "WRITE_STREAM" /\ Ready("D_alloc")
  /\ fifo' = [fifo EXCEPT !.D_alloc = Tail(@), !.D_map = Append(@, Head(fifo.D_alloc))]
  /\ alloc' = IF Head(fifo.D_alloc).last THEN In("IDLE") ELSE alloc
  /\ UNCHANGED alloc_va

\* rdm_alloc_va: virtual addresses are never reused.
AllocWaitAlloc ==
  LET ret == Head(fifo.alloc_ret)
      pi  == IF ret.ok
             THEN [alloc.pi EXCEPT !.alloc_ok = TRUE, !.alloc_pa = ret.addr, !.alloc_va = alloc_va]
             ELSE alloc.pi
  IN
  /\ alloc.state = "WAIT_ALLOC" /\ Ready("alloc_ret")
  /\ fifo' = [fifo EXCEPT !.alloc_ret = Tail(@), !.PI_map = Append(@, pi)]
  /\ alloc_va' = IF ret.ok THEN alloc_va + RoundUp(pi.units, PageUnits) ELSE alloc_va
  /\ alloc' = In("IDLE")

AllocAddress ==
  /\ AllocIdle \/ AllocWriteStream \/ AllocWaitAlloc
  /\ UNCHANGED <<ip, sent, parser, mapper, access, wr_pipe, mapping, frames, dram, lost>>

\* The allocator of the board, as this application sees it.
Allocator ==
  /\ Ready("alloc_req")
  /\ \/ \E f \in frames :
          /\ frames' = frames \ {f}
          /\ fifo' = [fifo EXCEPT !.alloc_req = Tail(@),
                                  !.alloc_ret = Append(@, [ok |-> TRUE, addr |-> f])]
     \/ /\ frames = {}
        /\ fifo' = [fifo EXCEPT !.alloc_req = Tail(@),
                                !.alloc_ret = Append(@, [ok |-> FALSE, addr |-> 0])]
        /\ UNCHANGED frames
  /\ UNCHANGED <<ip, sent, parser, alloc, mapper, access, wr_pipe, alloc_va, mapping, dram, lost>>

-----------------------------------------------------------------------------
(* map: a SET for an allocation that succeeded, a GET for all others.      *)

MapIdle ==
  LET pi == Head(fifo.PI_map) IN
  /\ ip = "rdm_mapping" /\ mapper.state = "IDLE" /\ Ready("PI_map")
  /\ IF pi.op = "ALLOC" /\ ~pi.alloc_ok
     THEN /\ fifo' = [fifo EXCEPT !.PI_map = Tail(@), !.PI_access = Append(@, pi)]
          /\ UNCHANGED mapper
     ELSE /\ fifo' = [fifo EXCEPT !.PI_map = Tail(@), !.map_req = Append(@,
                        IF pi.op = "ALLOC" THEN [set |-> TRUE, va |-> pi.alloc_va, pa |-> pi.alloc_pa]
                        ELSE [set |-> FALSE, va |-> pi.va, pa |-> 0])]
          /\ mapper' = At("WAIT_MAP", pi, 0)
  /\ UNCHANGED lost

\* The request pi has been translated, or not: commands, the next state, the header.
Translated(pi, rest) ==
  LET cmd == [addr |-> pi.pa, units |-> pi.units] IN
  /\ fifo' = [rest EXCEPT
       !.rd_cmd = IF pi.map_ok /\ pi.op = "READ" THEN Append(@, cmd) ELSE @,
       !.wr_cmd = IF pi.map_ok /\ pi.op = "WRITE" THEN Append(@, cmd) ELSE @,
       !.PI_access = Append(@, pi)]
  /\ mapper' = In(IF pi.op = "WRITE" THEN "STREAM" ELSE "IDLE")
  /\ lost' = IF pi.op = "WRITE" /\ ~pi.map_ok THEN lost \cup {pi.n} ELSE lost

MapWaitMap ==
  LET ret == Head(fifo.map_ret) IN
  /\ ip = "rdm_mapping" /\ mapper.state = "WAIT_MAP" /\ Ready("map_ret")
  /\ Translated(IF ret.ok THEN [mapper.pi EXCEPT !.map_ok = TRUE, !.pa = ret.pa] ELSE mapper.pi,
                [fifo EXCEPT !.map_ret = Tail(@)])

(* map of rdm_segment: every request is looked up by the address of its header. Nothing    *)
(* fills seg_table, so no entry ever matches and seg_index keeps an arbitrary value: it is *)
(* NR_SEGMENT_ENTRIES, for no match, or names an empty entry, whose bases are 0.           *)
SegMapIdle ==
  /\ ip = "rdm_segment" /\ mapper.state = "IDLE" /\ Ready("PI_map")
  /\ fifo' = [fifo EXCEPT !.PI_map = Tail(@)]
  /\ mapper' = At("WAIT_MAP", Head(fifo.PI_map), 0)
  /\ UNCHANGED lost

SegMapWaitMap ==
  /\ ip = "rdm_segment" /\ mapper.state = "WAIT_MAP"
  /\ \/ Translated([mapper.pi EXCEPT !.map_ok = TRUE, !.pa = mapper.pi.va], fifo)
     \/ Translated(mapper.pi, fifo)

\* Seeded fault: the payload is held back by one unit.
StreamKeepsLast(q, u) == IF u.last THEN q ELSE Append(q, u)

StreamOut(q, u) == Append(q, u)

\* The payload is passed on even when the address has not been translated.
MapStream ==
  LET u == Head(fifo.D_map) IN
  /\ mapper.state = "STREAM" /\ Ready("D_map")
  /\ fifo' = [fifo EXCEPT !.D_map = Tail(@), !.wr_data = StreamOut(@, u)]
  /\ mapper' = IF u.last THEN In("IDLE") ELSE mapper
  /\ UNCHANGED lost

Map ==
  /\ MapIdle \/ MapWaitMap \/ SegMapIdle \/ SegMapWaitMap \/ MapStream
  /\ UNCHANGED <<ip, sent, parser, alloc, access, wr_pipe, alloc_va, mapping, frames, dram>>

\* The mapping IP, one request at a time. A SET that fails may leave its pair behind (HashMapping).
MappingIP ==
  LET r == Head(fifo.map_req)
      Answer(ok, pa) == fifo' = [fifo EXCEPT !.map_req = Tail(@),
                                             !.map_ret = Append(@, [ok |-> ok, pa |-> pa])]
  IN
  /\ Ready("map_req")
  /\ \/ r.set /\ Answer(TRUE, 0) /\ mapping' = (r.va :> r.pa) @@ mapping
     \/ r.set /\ Answer(FALSE, 0) /\ mapping' \in {mapping, (r.va :> r.pa) @@ mapping}
     \/ /\ ~r.set /\ UNCHANGED mapping
        /\ IF r.va \in DOMAIN mapping THEN Answer(TRUE, mapping[r.va]) ELSE Answer(FALSE, 0)
  /\ UNCHANGED <<ip, sent, parser, alloc, mapper, access, wr_pipe, alloc_va, frames, dram, lost>>

-----------------------------------------------------------------------------
(* access: the headers of the reply, then what a read has returned.        *)

Reply(n, op, data, last) == [n |-> n, op |-> op, data |-> data, last |-> last]

AccessIdle ==
  LET pi == Head(fifo.PI_access) IN
  /\ access.state = "IDLE" /\ Ready("PI_access")
  /\ fifo' = [fifo EXCEPT !.PI_access = Tail(@),
                          !.to_net = Append(@, Reply(pi.n, "ETH", NoData, FALSE))]
  /\ access' = At("OUT_APP", pi, 0)

\* The answer to an allocation looks at the allocator's status only.
ReplyOpcode(pi) ==
  CASE pi.op = "ALLOC" -> IF pi.alloc_ok THEN "REPLY_ALLOC" ELSE "REPLY_ALLOC_ERROR"
    [] pi.op = "READ"  -> IF pi.map_ok THEN "REPLY_READ" ELSE "REPLY_READ_ERROR"
    [] pi.op = "WRITE" -> "REPLY_WRITE"

AccessOutApp ==
  LET op == ReplyOpcode(access.pi) IN
  /\ access.state = "OUT_APP"
  /\ fifo' = [fifo EXCEPT !.to_net = Append(@, Reply(access.pi.n, op,
                [NoData EXCEPT !.addr = access.pi.alloc_va], op # "REPLY_READ"))]
  /\ access' = IF op = "REPLY_READ" THEN [access EXCEPT !.state = "READ"] ELSE In("IDLE")

\* Seeded fault: a read is over one unit early.
ReadEndsEarly(off, pi) == off + 2 >= pi.units

ReadEnds(off, pi) == off + 1 = pi.units

AccessRead ==
  LET last == ReadEnds(access.offset, access.pi) IN
  /\ access.state = "READ" /\ Ready("rd_data")
  /\ fifo' = [fifo EXCEPT !.rd_data = Tail(@),
                          !.to_net = Append(@, Reply(access.pi.n, "DATA", Head(fifo.rd_data), last))]
  /\ access' = IF last THEN In("IDLE") ELSE [access EXCEPT !.offset = @ + 1]

Access ==
  /\ AccessIdle \/ AccessOutApp \/ AccessRead
  /\ UNCHANGED <<ip, sent, parser, alloc, mapper, wr_pipe, alloc_va, mapping, frames, dram, lost>>

-----------------------------------------------------------------------------
(* The datamover channels; its status words are read and ignored.          *)

\* DRAM_wr_pipe: a command, then as many units as it asks for.
DramWrPipe ==
  /\ \/ /\ wr_pipe.state = "IDLE" /\ Ready("wr_cmd")
        /\ fifo' = [fifo EXCEPT !.wr_cmd = Tail(@)]
        /\ wr_pipe' = At("STRAM", Head(fifo.wr_cmd), 0)
     \/ /\ wr_pipe.state = "STRAM" /\ Ready("wr_data")
        /\ fifo' = [fifo EXCEPT !.wr_data = Tail(@), !.dm_wr = Append(@,
                      [addr |-> wr_pipe.pi.addr + wr_pipe.offset, unit |-> Head(fifo.wr_data)])]
        /\ wr_pipe' = IF wr_pipe.offset + 1 = wr_pipe.pi.units THEN In("IDLE")
                      ELSE [wr_pipe EXCEPT !.offset = @ + 1]
  /\ UNCHANGED <<ip, sent, parser, alloc, mapper, access, alloc_va, mapping, frames, dram, lost>>

DramRdPipe ==
  /\ Ready("rd_cmd")
  /\ fifo' = [fifo EXCEPT !.rd_cmd = Tail(@), !.dm_rd = Append(@, Head(fifo.rd_cmd))]
  /\ UNCHANGED <<ip, sent, parser, alloc, mapper, access, wr_pipe, alloc_va, mapping, frames, dram, lost>>

\* The datamover and the memory: the two channels are independent of each other.
DatamoverWrite ==
  /\ Ready("dm_wr")
  /\ LET w == Head(fifo.dm_wr) IN dram' = (w.addr :> w.unit) @@ dram
  /\ fifo' = [fifo EXCEPT !.dm_wr = Tail(@)]
  /\ UNCHANGED <<ip, sent, parser, alloc, mapper, access, wr_pipe, alloc_va, mapping, frames, lost>>

DatamoverRead ==
  LET c    == Head(fifo.dm_rd)
      unit == IF c.addr \in DOMAIN dram THEN dram[c.addr] ELSE None
  IN
  /\ Ready("dm_rd")
  /\ fifo' = [fifo EXCEPT !.rd_data = Append(@, [addr |-> c.addr, unit |-> unit]),
                          !.dm_rd = IF c.units = 1 THEN Tail(@)
                                    ELSE [@ EXCEPT ![1] = [addr |-> c.addr + 1, units |-> c.units - 1]]]
  /\ UNCHANGED <<ip, sent, parser, alloc, mapper, access, wr_pipe, alloc_va, mapping, frames, dram, lost>>

-----------------------------------------------------------------------------
Environment == Allocator \/ MappingIP \/ DatamoverWrite \/ DatamoverRead
Stages == Parser \/ AllocAddress \/ Map \/ Access \/ DramWrPipe \/ DramRdPipe

Next == HostSend \/ Environment \/ Stages

Spec == Init /\ [][Next]_vars

\* Every stage runs in every clock cycle, and the other IPs answer their requests.
Fairness ==
  /\ WF_vars(Parser) /\ WF_vars(AllocAddress) /\ WF_vars(Map) /\ WF_vars(Access)
  /\ WF_vars(DramWrPipe) /\ WF_vars(DramRdPipe)
  /\ WF_vars(Allocator) /\ WF_vars(MappingIP) /\ WF_vars(DatamoverWrite) /\ WF_vars(DatamoverRead)

FairSpec == Spec /\ Fairness

-----------------------------------------------------------------------------
(* Properties                                                              *)

Served == {"ALLOC", "READ", "WRITE"}

\* Where an address leads, if anywhere.
Home(va) == IF ip = "rdm_segment" THEN {va}
            ELSE { mapping[v] : v \in {va} \cap DOMAIN mapping }

\* What the complete answer to packet n looks like: opcode, address of the data, last.
Shape(op, addr, last) == [op |-> op, addr |-> addr, last |-> last]
ShapeOf(r) == Shape(r.op, r.data.addr, r.last)
Short(op) == <<Shape("ETH", 0, FALSE), Shape(op, 0, TRUE)>>
Answers(p) ==
  CASE p.op = "ALLOC" -> {Short("REPLY_ALLOC_ERROR")} \cup
       { <<Shape("ETH", 0, FALSE), Shape("REPLY_ALLOC", va, TRUE)>> : va \in PageUnits .. alloc_va - 1 }
    [] p.op = "WRITE" -> {Short("REPLY_WRITE")}
    [] p.op = "READ"  -> {Short("REPLY_READ_ERROR")} \cup
       { <<Shape("ETH", 0, FALSE), Shape("REPLY_READ", 0, FALSE)>> \o
         [k \in 1 .. p.units |-> Shape("DATA", pa + k - 1, k = p.units)] : pa \in Home(p.va) }
    [] OTHER          -> {<< >>}

\* The units of the reply to packet n delivered so far.
ReplyTo(n) ==
  LET mine == SelectSeq(fifo.to_net, LAMBDA r : r.n = n) IN [i \in DOMAIN mine |-> ShapeOf(mine[i])]

\* Replies leave in the order of the requests, and whole: what has been sent of the reply to
\* a request is a prefix of one of its answers, and all of it once a later reply has begun.
\* A read returns the units of the frame its address is mapped to, in order.
RepliesWhole ==
  /\ \A i, j \in DOMAIN fifo.to_net : i < j => fifo.to_net[i].n <= fifo.to_net[j].n
  /\ \A n \in DOMAIN sent :
       LET r == ReplyTo(n)
           begun == \E i \in DOMAIN fifo.to_net : fifo.to_net[i].n > n
       IN  \E a \in Answers(sent[n]) :
             /\ Len(r) <= Len(a) /\ r = SubSeq(a, 1, Len(r))
             /\ begun => Len(r) = Len(a)

Misplaced(a) ==
  LET u == dram[a]
      p == sent[u.n]
  IN  ~(p.op = "WRITE" /\ a - (u.k - 2) \in Home(p.va))

\* As long as every write has been translated, what is stored is where the request that
\* brought it wanted it: the payload never gets out of step with the commands, which
\* travel through other queues.
StoredWhereAddressed == lost = {} => \A a \in DOMAIN dram : ~Misplaced(a)

\* The same whether or not every write has been translated.
FailureStaysLocal == \A a \in DOMAIN dram : ~Misplaced(a)

\* Every request the application knows is answered to the end.
Replied(n) == \E i \in DOMAIN fifo.to_net : fifo.to_net[i].n = n /\ fifo.to_net[i].last
EveryRequestReplied == []<>(\A n \in DOMAIN sent : sent[n].op \in Served => Replied(n))
=============================================================================
