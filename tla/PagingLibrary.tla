---------------------------- MODULE PagingLibrary ---------------------------
(***************************************************************************)
(* How the paging library gets its memory: the coordinator asks the        *)
(* segment unit for a segment, tells the buddy allocator its base, and     *)
(* asks the allocator for the mapping table and for the heap's metadata;   *)
(* a multiplexer shares the allocator between the coordinator and the      *)
(* mapping IP, which asks for buckets of its own. The segment unit also    *)
(* checks the reads and writes on the memory bus. All of them run side by  *)
(* side and talk through streams. The allocator is taken at its promise,   *)
(* module BlockAllocator, and may fail even when memory is left.           *)
(***************************************************************************)
EXTENDS Integers, Sequences, FiniteSets

CONSTANTS
  PagingUnits, MaxOrder,        \* size of the memory the allocator manages, its largest order
  TableOrder, HeapOrder, BucketOrder,   \* sizes of the blocks asked for
  SegBase,                 \* address of the segment handed out by the segment unit
  MaxCommands, MaxBuckets, MaxBus       \* bounds on the requests of the environment

\* The segment starts at 1 << 30, the size of the memory that the allocator manages
\* (mem_common.h:54-63, segfix top.cpp): blocks handed out before the base is known lie below it.
ASSUME PagingAssumption ==
  /\ PagingUnits \in Nat \ {0} /\ MaxOrder \in Nat /\ SegBase \in Nat /\ PagingUnits <= SegBase
  /\ {TableOrder, HeapOrder, BucketOrder} \subseteq 0 .. MaxOrder

VARIABLES
  fifo,      \* the streams, by name
  coord,     \* state of coord_top and, within COORD_INIT, of init
  mux,       \* state of buddy_alloc_mux
  base,      \* buddy_managed_base
  lent,      \* blocks the allocator has handed out, relative to its base
  owned,     \* history: blocks as their users received them
  sent       \* how many commands, bucket requests and bus requests were issued

pagingVars == <<fifo, coord, mux, base, lent, owned, sent>>

Fifos == {"ctrl_in", "ctrl_out", "seg_req", "seg_ret", "req1", "ret1", "req2", "ret2", "fwd_req", "fwd_ret",
          "init_buddy", "init_tbl", "init_heap", "rd_in", "rd_out", "wr_in", "wr_out", "pi_parser", "pi_out"}
Ready(q) == fifo[q] # << >>
Put(q, x) == [fifo EXCEPT ![q] = Append(@, x)]
Move(p, q, x) == [fifo EXCEPT ![p] = Tail(@), ![q] = Append(@, x)]

Promise == INSTANCE BlockAllocator WITH NUnits <- PagingUnits, held <- lent, Reserved <- {}, ret <- 0

InitPaging ==
  /\ fifo = [q \in Fifos |-> << >>]
  /\ coord = [state |-> "IDLE", init |-> "ALLOC_SEG"]
  /\ mux = [state |-> "SEND", channel |-> 1]
  /\ base = 0 /\ lent = {} /\ owned = {}
  /\ sent = [commands |-> 0, buckets |-> 0, rd |-> 0, wr |-> 0]

Own(who, order, r) == owned' = owned \cup {[who |-> who, order |-> order, addr |-> r.addr]}

-----------------------------------------------------------------------------
(* coord_top and init. ALLOC and FREE commands are not implemented: they   *)
(* leave the coordinator in a state without a way out, so only INIT is     *)
(* sent.                                                                   *)

Command ==
  /\ sent.commands < MaxCommands
  /\ fifo' = Put("ctrl_in", "INIT")
  /\ sent' = [sent EXCEPT !.commands = @ + 1]
  /\ UNCHANGED <<coord, mux, base, lent, owned>>

CoordIdle ==
  /\ coord.state = "IDLE" /\ Ready("ctrl_in")
  /\ fifo' = [fifo EXCEPT !.ctrl_in = Tail(@)]
  /\ coord' = [coord EXCEPT !.state = Head(fifo.ctrl_in)]
  /\ UNCHANGED owned

InitAllocSeg ==
  /\ coord.state = "INIT" /\ coord.init = "ALLOC_SEG"
  /\ fifo' = Put("seg_req", "SEG_ALLOC")
  /\ coord' = [coord EXCEPT !.init = "ALLOC_SEG_RET"]
  /\ UNCHANGED owned

\* init starts over, and the command is answered.
Finished(rest, res) ==
  /\ coord' = [state |-> "IDLE", init |-> "ALLOC_SEG"]
  /\ fifo' = [rest EXCEPT !.ctrl_out = Append(@, res)]

InitAllocSegRet ==
  LET r    == Head(fifo.seg_ret)
      rest == [fifo EXCEPT !.seg_ret = Tail(@)]
  IN
  /\ coord.state = "INIT" /\ coord.init = "ALLOC_SEG_RET" /\ Ready("seg_ret")
  /\ IF ~r.ok THEN Finished(rest, "FAILED")
     ELSE /\ fifo' = [rest EXCEPT !.init_buddy = Append(@, r.addr), !.req1 = Append(@, TableOrder)]
          /\ coord' = [coord EXCEPT !.init = "ALLOC_TABEL_RET"]
  /\ UNCHANGED owned

InitAllocTabelRet ==
  LET r    == Head(fifo.ret1)
      rest == [fifo EXCEPT !.ret1 = Tail(@)]
  IN
  /\ coord.state = "INIT" /\ coord.init = "ALLOC_TABEL_RET" /\ Ready("ret1")
  /\ IF ~r.ok THEN Finished(rest, "FAILED") /\ UNCHANGED owned
     ELSE /\ fifo' = [rest EXCEPT !.init_tbl = Append(@, r.addr), !.req1 = Append(@, HeapOrder)]
          /\ coord' = [coord EXCEPT !.init = "ALLOC_META_RET"]
          /\ Own("table", TableOrder, r)

InitAllocMetaRet ==
  LET r    == Head(fifo.ret1)
      rest == [fifo EXCEPT !.ret1 = Tail(@)]
  IN
  /\ coord.state = "INIT" /\ coord.init = "ALLOC_META_RET" /\ Ready("ret1")
  /\ IF ~r.ok THEN Finished(rest, "FAILED") /\ UNCHANGED owned
     ELSE Finished([rest EXCEPT !.init_heap = Append(@, r.addr)], "SUCCESS") /\ Own("heap", HeapOrder, r)

Coordinator ==
  /\ CoordIdle \/ InitAllocSeg \/ InitAllocSegRet \/ InitAllocTabelRet \/ InitAllocMetaRet
  /\ UNCHANGED <<mux, base, lent, sent>>

-----------------------------------------------------------------------------
(* buddy_alloc_mux                                                         *)

\* Seeded fault: the channel of the last request is not remembered.
SendForgets(q, c) == mux' = [mux EXCEPT !.state = "RET"]

SendFrom(q, c) == mux' = [state |-> "RET", channel |-> c]

MuxSend ==
  /\ mux.state = "SEND"
  /\ \/ /\ Ready("req1")
        /\ fifo' = Move("req1", "fwd_req", Head(fifo.req1)) /\ SendFrom("req1", 1)
     \/ /\ ~Ready("req1") /\ Ready("req2")
        /\ fifo' = Move("req2", "fwd_req", Head(fifo.req2)) /\ SendFrom("req2", 2)

MuxRet ==
  /\ mux.state = "RET" /\ Ready("fwd_ret")
  /\ fifo' = Move("fwd_ret", IF mux.channel = 1 THEN "ret1" ELSE "ret2", Head(fifo.fwd_ret))
  /\ mux' = [mux EXCEPT !.state = "SEND"]

Mux ==
  /\ MuxSend \/ MuxRet
  /\ UNCHANGED <<coord, base, lent, owned, sent>>

-----------------------------------------------------------------------------
\* Buddy::init only replaces the base.
NewBase == IF Ready("init_buddy") THEN Head(fifo.init_buddy) ELSE base

\* buddy_allocator: a base that has arrived is read first, then a request is served.
BuddyAllocate ==
  /\ Ready("init_buddy") \/ Ready("fwd_req")
  /\ base' = IF Ready("init_buddy") THEN Head(fifo.init_buddy) ELSE base
  /\ LET rest == [fifo EXCEPT !.init_buddy = IF @ = << >> THEN @ ELSE Tail(@)]
         Answer(ok, addr) == fifo' = [rest EXCEPT !.fwd_req = Tail(@),
                                                  !.fwd_ret = Append(@, [ok |-> ok, addr |-> addr])]
     IN  \/ /\ ~Ready("fwd_req") /\ fifo' = rest /\ UNCHANGED lent
         \/ /\ Ready("fwd_req")
            /\ \E a \in 0 .. PagingUnits - 1 :
                 LET b == Promise!Block(a, Head(fifo.fwd_req)) IN
                 Promise!Unused(b) /\ lent' = lent \cup {b} /\ Answer(TRUE, NewBase + a)
         \/ Ready("fwd_req") /\ Answer(FALSE, 0) /\ UNCHANGED lent
  /\ UNCHANGED <<coord, mux, owned, sent>>

\* The mapping IP asks for a bucket and waits for it.
AskBucket ==
  /\ sent.buckets < MaxBuckets
  /\ fifo' = Put("req2", BucketOrder)
  /\ sent' = [sent EXCEPT !.buckets = @ + 1]
  /\ UNCHANGED <<coord, mux, base, lent, owned>>

TakeBucket ==
  /\ Ready("ret2")
  /\ fifo' = [fifo EXCEPT !.ret2 = Tail(@)]
  /\ IF Head(fifo.ret2).ok THEN Own("bucket", BucketOrder, Head(fifo.ret2)) ELSE UNCHANGED owned
  /\ UNCHANGED <<coord, mux, base, lent, sent>>

-----------------------------------------------------------------------------
(* mm_segfix_hls: three stages. The table behind it is not implemented:    *)
(* every allocation gets the same segment, every access is let through.    *)

BusRequest ==
  /\ \E ch \in {"rd", "wr"} :
       /\ sent[ch] < MaxBus
       /\ fifo' = Put(IF ch = "rd" THEN "rd_in" ELSE "wr_in", sent[ch] + 1)
       /\ sent' = [sent EXCEPT ![ch] = @ + 1]
  /\ UNCHANGED <<coord, mux, base, lent, owned>>

Pi(type, addr) == [type |-> type, ok |-> FALSE, addr |-> addr]

\* aggregate_input: control requests first, then reads, then writes.
AggregateInput ==
  \/ /\ Ready("seg_req")
     /\ fifo' = Move("seg_req", "pi_parser", Pi("CONTROL", 0))
  \/ /\ ~Ready("seg_req") /\ Ready("rd_in")
     /\ fifo' = Move("rd_in", "pi_parser", Pi("RD", Head(fifo.rd_in)))
  \/ /\ ~Ready("seg_req") /\ ~Ready("rd_in") /\ Ready("wr_in")
     /\ fifo' = Move("wr_in", "pi_parser", Pi("WR", Head(fifo.wr_in)))

SegParser ==
  /\ Ready("pi_parser")
  /\ LET pi == Head(fifo.pi_parser) IN
     fifo' = Move("pi_parser", "pi_out", [pi EXCEPT !.ok = TRUE, !.addr = IF pi.type = "CONTROL" THEN SegBase ELSE @])

OutChannel(type) == CASE type = "CONTROL" -> "seg_ret" [] type = "RD" -> "rd_out" [] type = "WR" -> "wr_out"

DisaggregateOutput ==
  /\ Ready("pi_out")
  /\ LET pi == Head(fifo.pi_out) IN
     fifo' = Move("pi_out", OutChannel(pi.type), [ok |-> pi.ok, addr |-> pi.addr])

SegmentUnit ==
  /\ AggregateInput \/ SegParser \/ DisaggregateOutput
  /\ UNCHANGED <<coord, mux, base, lent, owned, sent>>

-----------------------------------------------------------------------------
NextPaging ==
  \/ Command \/ AskBucket \/ BusRequest \/ TakeBucket
  \/ Coordinator \/ Mux \/ BuddyAllocate \/ SegmentUnit

SpecPaging == InitPaging /\ [][NextPaging]_pagingVars

\* Every IP runs in every clock cycle.
FairPaging ==
  /\ WF_pagingVars(Coordinator) /\ WF_pagingVars(Mux) /\ WF_pagingVars(BuddyAllocate)
  /\ WF_pagingVars(AggregateInput /\ SegmentUnit) /\ WF_pagingVars(SegParser /\ SegmentUnit)
  /\ WF_pagingVars(DisaggregateOutput /\ SegmentUnit)


-----------------------------------------------------------------------------
Span(o) == o.addr .. o.addr + 2^o.order - 1

\* Nobody gets memory that another one holds, and everybody gets as much as it asked for:
\* the answers of the shared allocator reach the one that asked.
OwnersDisjoint ==
  /\ \A o, p \in owned : o # p => Span(o) \cap Span(p) = {}
  /\ \A o \in owned : \E b \in lent : o.order = b.order /\ o.addr - b.addr \in {0, SegBase}

\* The mapping table and the heap lie in the segment: the allocator knows its base before
\* it serves the coordinator, though base and request take different ways.
PlacedInSegment ==
  \A o \in owned : o.who # "bucket" => Span(o) \subseteq SegBase .. SegBase + PagingUnits - 1

\* Bus accesses are answered on their channel, in order.
BusInOrder ==
  /\ \A i \in DOMAIN fifo.rd_out : fifo.rd_out[i].addr = i
  /\ \A i \in DOMAIN fifo.wr_out : fifo.wr_out[i].addr = i

\* All three: what a user of the library receives is what it asked for, whichever of the
\* streams was faster (coord top.cpp, buddy_alloc_mux, segment_fixed).
PagingSound == OwnersDisjoint /\ PlacedInSegment /\ BusInOrder

\* Every command and every bus access is answered.
CommandsAnswered ==
  []<>(/\ Len(fifo.ctrl_out) = sent.commands
       /\ Len(fifo.rd_out) = sent.rd /\ Len(fifo.wr_out) = sent.wr)
=============================================================================
