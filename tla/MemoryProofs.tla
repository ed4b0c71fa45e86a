---------------------------- MODULE MemoryProofs ----------------------------
(***************************************************************************)
(* Proofs about the memory managers. Fixed chunks: the allocator's bitmap  *)
(* and the unit's table agree, for any number of chunks, applications and  *)
(* requests. The paging library: its users get what they asked for,        *)
(* disjoint memory, placed in the segment, whatever the orders of the      *)
(* blocks and the sizes of the memory, and bus accesses are answered in    *)
(* order.                                                                  *)
(***************************************************************************)
EXTENDS ChunkSegment, PagingLibrary, DivisionLemmas, SequenceTheorems, TLAPS

-----------------------------------------------------------------------------
(* Chunks and segments.                                                    *)

Reqs == [op : {"ALLOC", "FREE"}, idx : Chunks, pid : Pids, rw : BOOLEAN]
Valid(i) == table[i].valid

ChunkTypeOK ==
  /\ bitmap \subseteq Chunks
  /\ table \in [Chunks -> [valid : BOOLEAN, pid : Pids \cup {0}, rw : BOOLEAN]]
  /\ alloc \in Seq(Reqs) /\ ctrl \in Seq(Reqs) /\ ctrl_ret \in Seq(BOOLEAN)
  /\ busy \in Reqs \cup {None}

\* Idle allocator: both streams are empty and the tables are equal.
IdleAgree ==
  busy = None => /\ ctrl = << >> /\ ctrl_ret = << >>
                 /\ \A i \in Chunks : Valid(i) <=> i \in bitmap

\* A request under way is either still on the stream to the unit, which has not acted on
\* it, or answered, and the unit has acted on it.
BusyAgree ==
  busy # None =>
    /\ busy.idx \in bitmap
    /\ \A i \in Chunks \ {busy.idx} : Valid(i) <=> i \in bitmap
    /\ \/ /\ ctrl = <<busy>> /\ ctrl_ret = << >>
          /\ Valid(busy.idx) <=> busy.op = "FREE"
       \/ /\ ctrl = << >> /\ ctrl_ret = <<TRUE>>
          /\ Valid(busy.idx) <=> busy.op = "ALLOC"

\* The inductive invariant.
ChunkInv == ChunkTypeOK /\ IdleAgree /\ BusyAgree

-----------------------------------------------------------------------------
\* A request names an operation, the idle mark does not.
LEMMA NoneIsNoRequest == None \notin Reqs
  BY DEF None, Reqs

\* The chunk malloc takes is a free one.
LEMMA FirstFreeChunk ==
  ASSUME Chunks \subseteq Nat, Chunks \ bitmap # {}
  PROVE  (CHOOSE c \in Chunks \ bitmap : \A d \in Chunks \ bitmap : c <= d) \in Chunks \ bitmap
  <1>1. \E c \in Chunks \ bitmap : \A d \in Chunks \ bitmap : c <= d
    BY LeastElement
  <1> QED
    BY <1>1

\* Taking the only element of a stream.
LEMMA OneInStream ==
  ASSUME NEW S, NEW e \in S
  PROVE  <<e>> # << >> /\ Head(<<e>>) = e /\ Tail(<<e>>) = << >> /\ Append(<< >>, e) = <<e>>
  OBVIOUS

LEMMA ChunkInit == InitChunks => ChunkInv
  <1> SUFFICES ASSUME InitChunks PROVE ChunkInv
    OBVIOUS
  <1>1. ChunkTypeOK
    BY DEF InitChunks, ChunkTypeOK, Entry
  <1>2. IdleAgree
    BY DEF InitChunks, IdleAgree, Valid, Entry
  <1>3. BusyAgree
    BY DEF InitChunks, BusyAgree
  <1> QED
    BY <1>1, <1>2, <1>3 DEF ChunkInv

\* A step of malloc or mfree.
LEMMA HandlerStep ==
  ASSUME Chunks \subseteq Nat, ChunkInv, Handler
  PROVE  ChunkInv'
  <1> DEFINE r == Head(alloc)
  <1>1. /\ busy = None /\ ctrl = << >> /\ ctrl_ret = << >> /\ ctrl_ret' = ctrl_ret /\ table' = table
        /\ \A i \in Chunks : Valid(i) <=> i \in bitmap
    BY DEF Handler, ChunkInv, IdleAgree
  <1>2. r \in Reqs /\ alloc' \in Seq(Reqs)
    BY DEF Handler, ChunkInv, ChunkTypeOK
  <1>3. \A i : Valid(i)' <=> Valid(i)
    BY <1>1 DEF Valid
  <1>4. ASSUME UNCHANGED <<bitmap, ctrl, busy>> PROVE ChunkInv'
    BY <1>1, <1>2, <1>3, <1>4 DEF ChunkInv, ChunkTypeOK, IdleAgree, BusyAgree
  <1>5. CASE r.op = "ALLOC" /\ Chunks \ bitmap # {}
    <2> DEFINE i == CHOOSE c \in Chunks \ bitmap : \A d \in Chunks \ bitmap : c <= d
               b == [r EXCEPT !.idx = i]
    <2>1. i \in Chunks \ bitmap
      BY <1>5, FirstFreeChunk
    <2>2. bitmap' = bitmap \cup {i} /\ busy' = b /\ ctrl' = Append(ctrl, b)
      BY <1>5 DEF Handler, Malloc, Mfree, MarkTaken
    <2> HIDE DEF i
    <2>3. b \in Reqs /\ b.idx = i /\ b.op = "ALLOC"
      BY <1>2, <1>5, <2>1 DEF Reqs
    <2> HIDE DEF b
    <2>4. ctrl' = <<b>>
      BY <1>1, <2>2
    <2>5. ChunkTypeOK'
      BY <1>1, <1>2, <2>1, <2>2, <2>3, <2>4 DEF ChunkInv, ChunkTypeOK
    <2>6. busy' # None
      BY <2>2, <2>3 DEF None
    <2>7. BusyAgree'
      BY <1>1, <1>3, <2>1, <2>2, <2>3, <2>4 DEF BusyAgree
    <2> QED
      BY <2>5, <2>6, <2>7 DEF ChunkInv, IdleAgree
  <1>6. CASE r.op = "FREE" /\ r.idx \in bitmap
    <2>1. bitmap' = bitmap /\ busy' = r /\ ctrl' = Append(ctrl, r)
      BY <1>6 DEF Handler, Malloc, Mfree
    <2>a. ctrl' = <<r>>
      BY <1>1, <2>1
    <2>2. busy' # None
      BY <1>2, <2>1, NoneIsNoRequest
    <2>3. r.idx \in Chunks
      BY <1>2 DEF Reqs
    <2> HIDE DEF r
    <2>4. ChunkTypeOK'
      BY <1>1, <1>2, <2>1, <2>a DEF ChunkInv, ChunkTypeOK
    <2>5. BusyAgree'
      BY <1>1, <1>3, <1>6, <2>1, <2>3, <2>a DEF BusyAgree
    <2> QED
      BY <2>2, <2>4, <2>5 DEF ChunkInv, IdleAgree
  <1>7. CASE (r.op = "ALLOC" /\ Chunks \ bitmap = {}) \/ (r.op = "FREE" /\ r.idx \notin bitmap)
    BY <1>4, <1>7 DEF Handler, Malloc, Mfree, Refuse
  <1> QED
    BY <1>2, <1>5, <1>6, <1>7 DEF Reqs

\* A step of the unit.
LEMMA CtrlStep ==
  ASSUME ChunkInv, CtrlHandler
  PROVE  ChunkInv'
  <1>1. /\ busy # None /\ ctrl = <<busy>> /\ ctrl_ret = << >> /\ busy \in Reqs
        /\ Valid(busy.idx) <=> busy.op = "FREE"
        /\ busy.idx \in bitmap
        /\ \A i \in Chunks \ {busy.idx} : Valid(i) <=> i \in bitmap
    BY DEF ChunkInv, ChunkTypeOK, IdleAgree, BusyAgree, CtrlHandler
  <1>2. busy' = busy /\ bitmap' = bitmap /\ alloc' = alloc
    BY DEF CtrlHandler
  <1>3. busy.idx \in Chunks /\ busy.pid \in Pids /\ busy.rw \in BOOLEAN /\ busy.op \in {"ALLOC", "FREE"}
    BY <1>1 DEF Reqs
  <1>4. /\ ctrl' = << >> /\ ctrl_ret' = <<TRUE>>
        /\ table' = IF busy.op = "ALLOC" THEN insert(busy) ELSE del(busy)
    <2>1. Head(ctrl) = busy /\ Tail(ctrl) = << >>
      BY <1>1
    <2>2. (table[busy.idx].valid <=> busy.op = "FREE") = TRUE
      BY <1>1 DEF Valid
    <2>3. ctrl' = Tail(ctrl) /\ ctrl_ret' = Append(ctrl_ret, TRUE)
      BY <2>1, <2>2 DEF CtrlHandler
    <2>4. table' = IF busy.op = "ALLOC" THEN insert(busy) ELSE del(busy)
      BY <2>1, <2>2 DEF CtrlHandler
    <2> QED
      BY <1>1, <2>1, <2>3, <2>4
  <1>5. PICK e \in [valid : BOOLEAN, pid : Pids \cup {0}, rw : BOOLEAN] :
          /\ table' = [table EXCEPT ![busy.idx] = e]
          /\ e.valid <=> busy.op = "ALLOC"
    <2>1. CASE busy.op = "ALLOC"
      <3> DEFINE n == Entry(TRUE, busy.pid, busy.rw)
      <3>1. n \in [valid : BOOLEAN, pid : Pids \cup {0}, rw : BOOLEAN] /\ n.valid
        BY <1>3 DEF Entry
      <3>2. table' = [table EXCEPT ![busy.idx] = n]
        BY <1>4, <2>1, Zenon DEF insert
      <3> QED
        BY <2>1, <3>1, <3>2
    <2>2. CASE busy.op # "ALLOC"
      <3> DEFINE x == table[busy.idx]
      <3>1. x \in [valid : BOOLEAN, pid : Pids \cup {0}, rw : BOOLEAN]
        BY <1>3 DEF ChunkInv, ChunkTypeOK
      <3>2. table' = [table EXCEPT ![busy.idx] = [x EXCEPT !.valid = FALSE]]
        BY <1>3, <1>4, <2>2, Zenon DEF del
      <3> HIDE DEF x
      <3>3. /\ [x EXCEPT !.valid = FALSE] \in [valid : BOOLEAN, pid : Pids \cup {0}, rw : BOOLEAN]
            /\ ~[x EXCEPT !.valid = FALSE].valid
        BY <3>1
      <3> QED
        BY <2>2, <3>2, <3>3
    <2> QED
      BY <2>1, <2>2
  <1>6. ChunkTypeOK'
    BY <1>1, <1>2, <1>3, <1>4, <1>5 DEF ChunkInv, ChunkTypeOK
  <1>7. \A i \in Chunks : table'[i] = IF i = busy.idx THEN e ELSE table[i]
    BY <1>3, <1>5 DEF ChunkInv, ChunkTypeOK
  <1>8. BusyAgree'
    BY <1>1, <1>2, <1>3, <1>4, <1>5, <1>7 DEF BusyAgree, Valid
  <1> QED
    BY <1>1, <1>2, <1>6, <1>8 DEF ChunkInv, IdleAgree

\* The allocator takes the unit's answer.
LEMMA ReturnStep ==
  ASSUME ChunkInv, HandlerReturn
  PROVE  ChunkInv'
  <1>1. /\ busy # None /\ ctrl = << >> /\ ctrl_ret = <<TRUE>> /\ busy \in Reqs
        /\ Valid(busy.idx) <=> busy.op = "ALLOC"
        /\ busy.idx \in bitmap
        /\ \A i \in Chunks \ {busy.idx} : Valid(i) <=> i \in bitmap
    BY DEF ChunkInv, ChunkTypeOK, IdleAgree, BusyAgree, HandlerReturn
  <1>2. Head(ctrl_ret) /\ Tail(ctrl_ret) = << >> /\ busy.op \in {"ALLOC", "FREE"}
    <2>1. busy.op \in {"ALLOC", "FREE"}
      BY <1>1 DEF Reqs
    <2>2. Head(<<TRUE>>) = TRUE /\ Tail(<<TRUE>>) = << >>
      BY OneInStream
    <2> QED
      BY <1>1, <2>1, <2>2
  <1>3. /\ ctrl' = << >> /\ ctrl_ret' = << >> /\ table' = table /\ busy' = None /\ alloc' = alloc
        /\ bitmap' = IF busy.op = "FREE" THEN bitmap \ {busy.idx} ELSE bitmap
    BY <1>1, <1>2 DEF HandlerReturn
  <1>4. ChunkTypeOK'
    BY <1>3 DEF ChunkInv, ChunkTypeOK
  <1>5. IdleAgree'
    BY <1>1, <1>2, <1>3 DEF IdleAgree, Valid
  <1> QED
    BY <1>3, <1>4, <1>5 DEF ChunkInv, BusyAgree

LEMMA ChunkStep ==
  ASSUME Chunks \subseteq Nat, ChunkInv, [NextChunks]_chunkVars
  PROVE  ChunkInv'
  <1>1. ASSUME UNCHANGED <<bitmap, table, busy, ctrl, ctrl_ret>>, alloc' \in Seq(Reqs)
        PROVE  ChunkInv'
    BY <1>1 DEF ChunkInv, ChunkTypeOK, IdleAgree, BusyAgree, Valid
  <1>2. CASE Request
    <2>1. PICK op \in {"ALLOC", "FREE"}, i \in Chunks, p \in Pids, w \in BOOLEAN :
            alloc' = Append(alloc, [op |-> op, idx |-> i, pid |-> p, rw |-> w])
      BY <1>2 DEF Request
    <2>2. alloc' \in Seq(Reqs)
      BY <2>1 DEF ChunkInv, ChunkTypeOK, Reqs
    <2> QED
      BY <1>1, <1>2, <2>2 DEF Request
  <1>3. CASE Access \/ DataHandler \/ UNCHANGED chunkVars
    BY <1>1, <1>3 DEF Access, DataHandler, chunkVars, ChunkInv, ChunkTypeOK
  <1> QED
    BY <1>2, <1>3, HandlerStep, CtrlStep, ReturnStep DEF NextChunks

\* The allocator and the unit agree on the chunks in use whatever the users ask for, and
\* the unit never refuses the allocator: malloc, mfree and sysmmu_ctrl_hanlder keep two
\* tables in step over a pair of streams.
THEOREM TablesStayEqual == SpecChunks => []ChunkTablesAgree
  <1>1. ChunkInv => ChunkTablesAgree
    <2> SUFFICES ASSUME ChunkInv PROVE ChunkTablesAgree
      OBVIOUS
    <2>1. ctrl_ret \in {<< >>, <<TRUE>>}
      BY DEF ChunkInv, IdleAgree, BusyAgree
    <2>2. \A i \in DOMAIN ctrl_ret : ctrl_ret[i]
      <3>1. CASE ctrl_ret = << >>
        BY <3>1
      <3>2. CASE ctrl_ret = <<TRUE>>
        <4>1. DOMAIN ctrl_ret = {1} /\ ctrl_ret[1] = TRUE
          BY <3>2
        <4> QED
          BY <4>1
      <3> QED
        BY <2>1, <3>1, <3>2
    <2>3. CASE busy = None
      BY <2>2, <2>3 DEF ChunkInv, IdleAgree, ChunkTablesAgree, ChunkTypeOK, Valid
    <2>4. CASE busy # None
      BY <2>2, <2>4 DEF ChunkInv, BusyAgree, ChunkTablesAgree, ChunkTypeOK, Valid
    <2> QED
      BY <2>3, <2>4
  <1>2. ChunkInv /\ [NextChunks]_chunkVars => ChunkInv'
    BY ChunkAssumption, ChunkStep
  <1> QED
    BY <1>1, <1>2, ChunkInit, PTL DEF SpecChunks

-----------------------------------------------------------------------------
(* The paging library.                                                     *)

\* The segment unit hands out the address 1 << 30, the size of what the allocator manages.
Sizes ==
  /\ PagingUnits \in Nat /\ SegBase \in Nat /\ PagingUnits <= SegBase
  /\ TableOrder \in Nat /\ HeapOrder \in Nat /\ BucketOrder \in Nat

Answers == [ok : BOOLEAN, addr : Nat]
PiWords == [type : {"CONTROL", "RD", "WR"}, ok : BOOLEAN, addr : Nat]
PiDone == { w \in PiWords : w.ok /\ (w.type = "CONTROL" => w.addr = SegBase) }
SegGranted == [ok : {TRUE}, addr : {SegBase}]
Owners == [who : {"table", "heap", "bucket"}, order : Nat, addr : Nat]
RetFifos == {"fwd_ret", "ret1", "ret2"}

\* What the streams carry.
Carries(q) ==
  CASE q = "ctrl_in" -> {"INIT"}
    [] q = "ctrl_out" -> {"FAILED", "SUCCESS"}
    [] q = "seg_req" -> {"SEG_ALLOC"}
    [] q = "seg_ret" -> SegGranted
    [] q = "init_buddy" -> {SegBase}
    [] q = "pi_parser" -> PiWords
    [] q = "pi_out" -> PiDone
    [] q \in RetFifos \cup {"rd_out", "wr_out"} -> Answers
    [] q \in {"req1", "req2", "fwd_req", "rd_in", "wr_in", "init_tbl", "init_heap"} -> Nat

FifosOK == fifo = [q \in Fifos |-> fifo[q]] /\ \A q \in Fifos : fifo[q] \in Seq(Carries(q))

TypeOK ==
  /\ FifosOK
  /\ coord \in [state : {"IDLE", "INIT"},
                init : {"ALLOC_SEG", "ALLOC_SEG_RET", "ALLOC_TABEL_RET", "ALLOC_META_RET"}]
  /\ mux \in [state : {"SEND", "RET"}, channel : {1, 2}]
  /\ base \in {0, SegBase} /\ owned \subseteq Owners
  /\ sent \in [commands : Nat, buckets : Nat, rd : Nat, wr : Nat]

-----------------------------------------------------------------------------
(* One request of each channel is under way at most, and the allocator     *)
(* works on the one the multiplexer remembers.                             *)

Waiting == coord.init \in {"ALLOC_TABEL_RET", "ALLOC_META_RET"}
CoordOrder == IF coord.init = "ALLOC_TABEL_RET" THEN TableOrder ELSE HeapOrder
MuxOrder == IF mux.channel = 1 THEN CoordOrder ELSE BucketOrder
AtMux == mux.state = "RET" /\ mux.channel = 1

MuxInv ==
  /\ mux.state = "SEND" => fifo["fwd_req"] = << >> /\ fifo["fwd_ret"] = << >>
  /\ mux.state = "RET" => \/ fifo["fwd_req"] = <<MuxOrder>> /\ fifo["fwd_ret"] = << >>
                          \/ fifo["fwd_req"] = << >> /\ Len(fifo["fwd_ret"]) = 1
  /\ \A i \in DOMAIN fifo["req2"] : fifo["req2"][i] = BucketOrder

CoordInv ==
  /\ Waiting => coord.state = "INIT"
  /\ ~Waiting => fifo["req1"] = << >> /\ fifo["ret1"] = << >> /\ ~AtMux
  /\ Waiting => \/ fifo["req1"] = <<CoordOrder>> /\ fifo["ret1"] = << >> /\ ~AtMux
                \/ fifo["req1"] = << >> /\ fifo["ret1"] = << >> /\ AtMux
                \/ fifo["req1"] = << >> /\ Len(fifo["ret1"]) = 1 /\ ~AtMux

\* The base reaches the allocator no later than the coordinator's first request.
BaseInv == Waiting => base = SegBase \/ fifo["init_buddy"] # << >>

-----------------------------------------------------------------------------
(* Blocks behind the answers: each answer stands for a block that is lent  *)
(* and that no other answer and no user has.                               *)

InReach(a) == a \in (0 .. PagingUnits - 1) \cup (SegBase .. SegBase + PagingUnits - 1)
Rel(a) == IF a < SegBase THEN a ELSE a - SegBase
Blk(r, order) == Promise!Block(Rel(r.addr), order)
Lying(r, order) == InReach(r.addr) /\ Blk(r, order) \in lent

OrderOn(q) == IF q = "ret1" THEN CoordOrder ELSE IF q = "ret2" THEN BucketOrder ELSE MuxOrder

HeldInv == \A b \in lent : Promise!Aligned(b)

OwnedInv ==
  /\ \A o \in owned : Lying(o, o.order) /\ (o.who # "bucket" => o.addr >= SegBase)
  /\ \A o, p \in owned : o # p => Promise!Disjoint(Blk(o, o.order), Blk(p, p.order))

AnswersInv ==
  \A q \in RetFifos : \A i \in DOMAIN fifo[q] : fifo[q][i].ok =>
    /\ Lying(fifo[q][i], OrderOn(q))
    /\ q = "ret1" \/ (q = "fwd_ret" /\ mux.channel = 1) => fifo[q][i].addr >= SegBase
    /\ \A o \in owned : Promise!Disjoint(Blk(fifo[q][i], OrderOn(q)), Blk(o, o.order))

ApartInv ==
  \A p, q \in RetFifos : \A i \in DOMAIN fifo[p], j \in DOMAIN fifo[q] :
    (p # q \/ i # j) /\ fifo[p][i].ok /\ fifo[q][j].ok =>
      Promise!Disjoint(Blk(fifo[p][i], OrderOn(p)), Blk(fifo[q][j], OrderOn(q)))

MemInv == TypeOK /\ MuxInv /\ CoordInv /\ BaseInv /\ HeldInv /\ OwnedInv /\ AnswersInv /\ ApartInv

-----------------------------------------------------------------------------
(* The bus: what is on its way through the unit is in order and nothing is *)
(* missing between the last answer and the oldest request still waiting.   *)

Words(s, type) == { i \in DOMAIN s : s[i].type = type }

\* Words of a type between stages in and out: their addresses are lo + 1 .. hi, in order.
Ordered(s, type) == \A i, j \in Words(s, type) : i < j => s[i].addr < s[j].addr

InFlight(in, out, type, lo, hi) ==
  /\ \A i \in Words(in, type) : in[i].addr \in lo + 1 .. hi
  /\ \A i \in Words(out, type) : out[i].addr \in lo + 1 .. hi
  /\ Ordered(in, type) /\ Ordered(out, type)
  /\ \A i \in Words(out, type), j \in Words(in, type) : out[i].addr < in[j].addr
  /\ \A k \in lo + 1 .. hi : \/ \E i \in Words(in, type) : in[i].addr = k
                             \/ \E i \in Words(out, type) : out[i].addr = k

\* Requests waiting and answers given, out of n in all.
InTurn(waiting, given, n) ==
  /\ Len(given) <= n - Len(waiting)
  /\ \A i \in DOMAIN given : given[i].addr = i
  /\ \A i \in DOMAIN waiting : waiting[i] = n - Len(waiting) + i

Channel(type, waiting, in, out, given, n) ==
  InTurn(waiting, given, n) /\ InFlight(in, out, type, Len(given), n - Len(waiting))

BusInv ==
  /\ Channel("RD", fifo["rd_in"], fifo["pi_parser"], fifo["pi_out"], fifo["rd_out"], sent.rd)
  /\ Channel("WR", fifo["wr_in"], fifo["pi_parser"], fifo["pi_out"], fifo["wr_out"], sent.wr)

\* The inductive invariant.
PagingInv == MemInv /\ BusInv

-----------------------------------------------------------------------------
(* What the steps do to the streams.                                       *)

Kept(Q) == fifo' = [q \in Fifos |-> fifo'[q]] /\ \A q \in Fifos \ Q : fifo'[q] = fifo[q]

LEMMA Carried ==
  /\ Carries("ctrl_in") = {"INIT"} /\ Carries("seg_req") = {"SEG_ALLOC"} /\ Carries("seg_ret") = SegGranted
  /\ Carries("init_buddy") = {SegBase} /\ Carries("pi_parser") = PiWords /\ Carries("pi_out") = PiDone
  /\ Carries("ctrl_out") = {"FAILED", "SUCCESS"}
  /\ \A q \in {"req1", "req2", "fwd_req", "rd_in", "wr_in", "init_tbl", "init_heap"} : Carries(q) = Nat
  /\ \A q \in RetFifos \cup {"rd_out", "wr_out"} : Carries(q) = Answers
  BY DEF Carries, RetFifos

\* The streams by what they carry.
LEMMA FifoTypes ==
  ASSUME FifosOK
  PROVE  /\ fifo = [q \in Fifos |-> fifo[q]]
         /\ fifo["ctrl_in"] \in Seq({"INIT"})
         /\ fifo["seg_req"] \in Seq({"SEG_ALLOC"}) /\ fifo["seg_ret"] \in Seq(SegGranted)
         /\ fifo["init_buddy"] \in Seq({SegBase})
         /\ \A q \in {"req1", "req2", "fwd_req", "rd_in", "wr_in"} : fifo[q] \in Seq(Nat)
         /\ \A q \in RetFifos \cup {"rd_out", "wr_out"} : fifo[q] \in Seq(Answers)
         /\ fifo["pi_parser"] \in Seq(PiWords) /\ fifo["pi_out"] \in Seq(PiDone)
  BY Carried DEF FifosOK, Fifos, RetFifos

LEMMA FifosFrame ==
  ASSUME FifosOK, NEW Q, Kept(Q), \A q \in Q : fifo'[q] \in Seq(Carries(q))
  PROVE  FifosOK'
  BY DEF FifosOK, Kept

LEMMA PutEffect ==
  ASSUME FifosOK, NEW q \in Fifos, NEW x \in Carries(q), fifo' = Put(q, x)
  PROVE  Kept({q}) /\ fifo'[q] = Append(fifo[q], x) /\ FifosOK'
  <1>1. Kept({q}) /\ fifo'[q] = Append(fifo[q], x)
    BY DEF FifosOK, Put, Kept
  <1>2. fifo[q] \in Seq(Carries(q))
    BY DEF FifosOK
  <1>3. fifo'[q] \in Seq(Carries(q))
    BY <1>1, <1>2, AppendProperties
  <1> QED
    BY <1>1, <1>3, FifosFrame

LEMMA MoveEffect ==
  ASSUME FifosOK, NEW p \in Fifos, NEW q \in Fifos, p # q, Ready(p), NEW x \in Carries(q), fifo' = Move(p, q, x)
  PROVE  Kept({p, q}) /\ fifo'[p] = Tail(fifo[p]) /\ fifo'[q] = Append(fifo[q], x) /\ FifosOK'
  <1>1. Kept({p, q}) /\ fifo'[p] = Tail(fifo[p]) /\ fifo'[q] = Append(fifo[q], x)
    BY DEF FifosOK, Move, Kept
  <1>2. fifo[p] \in Seq(Carries(p)) /\ fifo[q] \in Seq(Carries(q)) /\ fifo[p] # << >>
    BY DEF FifosOK, Ready
  <1>3. fifo'[p] \in Seq(Carries(p)) /\ fifo'[q] \in Seq(Carries(q))
    BY <1>1, <1>2, AppendProperties, HeadTailProperties
  <1> QED
    BY <1>1, <1>3, FifosFrame

\* What is at the head of a stream.
LEMMA HeadCarried ==
  ASSUME FifosOK, NEW q \in Fifos, Ready(q)
  PROVE  Head(fifo[q]) \in Carries(q) /\ Tail(fifo[q]) \in Seq(Carries(q)) /\ fifo[q] \in Seq(Carries(q))
  <1>1. fifo[q] \in Seq(Carries(q)) /\ fifo[q] # << >>
    BY DEF FifosOK, Ready
  <1> QED
    BY <1>1, HeadTailProperties

\* Positions in a stream after its head is taken and after something is appended.
LEMMA TailIndex ==
  ASSUME NEW S, NEW s \in Seq(S), s # << >>
  PROVE  /\ Head(s) = s[1] /\ 1 \in DOMAIN s /\ Head(s) \in S /\ Tail(s) \in Seq(S)
         /\ \A i \in DOMAIN Tail(s) : i \in Nat /\ i + 1 \in DOMAIN s /\ i + 1 # 1 /\ Tail(s)[i] = s[i + 1]
         /\ \A i \in DOMAIN s : i # 1 => i - 1 \in DOMAIN Tail(s) /\ Tail(s)[i - 1] = s[i]
  <1>1. /\ Len(s) \in Nat /\ Len(s) # 0 /\ DOMAIN s = 1 .. Len(s) /\ Head(s) = s[1]
        /\ Head(s) \in S /\ Tail(s) \in Seq(S) /\ Len(Tail(s)) = Len(s) - 1
        /\ \A i \in 1 .. Len(Tail(s)) : Tail(s)[i] = s[i + 1]
    BY EmptySeq, LenProperties, HeadTailProperties
  <1>2. DOMAIN Tail(s) = 1 .. Len(s) - 1
    BY <1>1, LenProperties
  <1> QED
    BY <1>1, <1>2

LEMMA Singleton ==
  ASSUME NEW e
  PROVE  Head(<<e>>) = e /\ Tail(<<e>>) = << >>
  OBVIOUS

LEMMA TailOfOne ==
  ASSUME NEW S, NEW s \in Seq(S), Len(s) = 1
  PROVE  Tail(s) = << >>
  <1>1. s # << >>
    OBVIOUS
  <1>2. Tail(s) \in Seq(S) /\ Len(Tail(s)) = 0
    BY <1>1, HeadTailProperties
  <1> QED
    BY <1>2, EmptySeq

LEMMA AppendIndex ==
  ASSUME NEW S, NEW s \in Seq(S), NEW e \in S
  PROVE  /\ Append(s, e) \in Seq(S) /\ DOMAIN Append(s, e) = DOMAIN s \cup {Len(s) + 1}
         /\ Append(s, e)[Len(s) + 1] = e /\ Len(s) + 1 \notin DOMAIN s
         /\ \A i \in DOMAIN s : Append(s, e)[i] = s[i]
  <1>1. DOMAIN s = 1 .. Len(s) /\ Len(s) \in Nat
    BY LenProperties
  <1>2. DOMAIN Append(s, e) = 1 .. Len(s) + 1 /\ Append(s, e) \in Seq(S)
    BY AppendProperties, LenProperties
  <1> QED
    BY <1>1, <1>2, AppendProperties

-----------------------------------------------------------------------------
(* What the steps do to the blocks.                                        *)

\* Streams of answers that do not change, nor the orders they stand for.
LEMMA AnswersKept ==
  ASSUME AnswersInv, ApartInv, OwnedInv, UNCHANGED <<lent, owned>>,
         \A q \in RetFifos : fifo'[q] = fifo[q] /\ (DOMAIN fifo[q] # {} => OrderOn(q)' = OrderOn(q)),
         DOMAIN fifo["fwd_ret"] # {} => mux'.channel = mux.channel
  PROVE  AnswersInv' /\ ApartInv' /\ OwnedInv'
  <1> USE DEF RetFifos
  <1>1. AnswersInv'
    BY DEF AnswersInv, Lying, Blk
  <1>2. ApartInv'
    BY DEF ApartInv, Blk
  <1>3. OwnedInv'
    BY DEF OwnedInv, Lying, Blk
  <1> QED
    BY <1>1, <1>2, <1>3

LEMMA DisjointSymmetric ==
  ASSUME NEW b, NEW c, Promise!Disjoint(b, c)
  PROVE  Promise!Disjoint(c, b)
  BY DEF Promise!Disjoint

\* A user takes the answer at the head of its stream.
LEMMA AnswerTaken ==
  ASSUME FifosOK, AnswersInv, ApartInv, OwnedInv,
         NEW q \in {"ret1", "ret2"}, fifo[q] # << >>, fifo'[q] = Tail(fifo[q]),
         NEW who \in {"table", "heap", "bucket"}, who # "bucket" => q = "ret1",
         \A p \in RetFifos \ {q} : fifo'[p] = fifo[p],
         \A p \in RetFifos : DOMAIN fifo'[p] # {} => OrderOn(p)' = OrderOn(p),
         DOMAIN fifo["fwd_ret"] # {} => mux'.channel = mux.channel,
         lent' = lent,
         owned' = IF Head(fifo[q]).ok
                  THEN owned \cup {[who |-> who, order |-> OrderOn(q), addr |-> Head(fifo[q]).addr]}
                  ELSE owned
  PROVE  AnswersInv' /\ ApartInv' /\ OwnedInv'
  <1> DEFINE h == Head(fifo[q])
             n == [who |-> who, order |-> OrderOn(q), addr |-> h.addr]
  <1>1. /\ h = fifo[q][1] /\ 1 \in DOMAIN fifo[q]
        /\ \A i \in DOMAIN fifo'[q] : i \in Nat /\ i + 1 \in DOMAIN fifo[q] /\ i + 1 # 1 /\ fifo'[q][i] = fifo[q][i + 1]
    <2>1. fifo[q] \in Seq(Answers)
      BY FifoTypes DEF RetFifos
    <2> QED
      BY <2>1, TailIndex
  <1>2. \A p \in RetFifos : \A i \in DOMAIN fifo'[p] : \E j \in DOMAIN fifo[p] :
          fifo'[p][i] = fifo[p][j] /\ (p = q => j = i + 1 /\ j # 1 /\ i \in Nat) /\ (p # q => j = i)
    BY <1>1
  <1>3. n.who = who /\ n.order = OrderOn(q) /\ n.addr = h.addr
    OBVIOUS
  <1>4. Blk(n, n.order) = Blk(h, OrderOn(q)) /\ InReach(n.addr) = InReach(h.addr)
    BY <1>3 DEF Blk
  <1> HIDE DEF n, h
  <1>5. \A r, ord : Blk(r, ord)' = Blk(r, ord) /\ (Lying(r, ord)' <=> Lying(r, ord))
    BY DEF Lying, Blk
  <1>6. \A o \in owned' : o \in owned \/ (o = n /\ h.ok)
    BY DEF n, h
  <1>7. ASSUME NEW p \in RetFifos, NEW j \in DOMAIN fifo[p], fifo[p][j].ok, h.ok, p # q \/ j # 1
        PROVE  /\ Promise!Disjoint(Blk(fifo[p][j], OrderOn(p)), Blk(n, n.order))
    BY <1>1, <1>4, <1>7 DEF ApartInv, RetFifos
  <1>8. h.ok => /\ Lying(n, n.order) /\ (n.who # "bucket" => n.addr >= SegBase)
                /\ \A o \in owned : Promise!Disjoint(Blk(n, n.order), Blk(o, o.order))
    BY <1>1, <1>3, <1>4 DEF AnswersInv, RetFifos, Lying
  <1>9. OwnedInv'
    <2>1. ASSUME NEW o \in owned' PROVE Lying(o, o.order)' /\ (o.who # "bucket" => o.addr >= SegBase)
      BY <1>5, <1>6, <1>8, <2>1 DEF OwnedInv
    <2>2. ASSUME NEW o \in owned', NEW p \in owned', o # p
          PROVE  Promise!Disjoint(Blk(o, o.order), Blk(p, p.order))'
      <3>1. CASE o \in owned /\ p \in owned
        BY <1>5, <2>2, <3>1 DEF OwnedInv, Promise!Disjoint, Promise!Units
      <3>2. CASE o \in owned /\ p = n /\ h.ok
        BY <1>5, <1>8, <3>2, DisjointSymmetric DEF Promise!Disjoint, Promise!Units
      <3>3. CASE p \in owned /\ o = n /\ h.ok
        BY <1>5, <1>8, <3>3 DEF Promise!Disjoint, Promise!Units
      <3> QED
        BY <1>6, <2>2, <3>1, <3>2, <3>3
    <2> QED
      BY <2>1, <2>2 DEF OwnedInv
  <1>10. AnswersInv'
    <2> SUFFICES ASSUME NEW p \in RetFifos, NEW i \in DOMAIN fifo'[p], fifo'[p][i].ok
                 PROVE  /\ Lying(fifo[p][i], OrderOn(p))'
                        /\ p = "ret1" \/ (p = "fwd_ret" /\ mux'.channel = 1) => fifo'[p][i].addr >= SegBase
                        /\ \A o \in owned' : Promise!Disjoint(Blk(fifo[p][i], OrderOn(p)), Blk(o, o.order))'
      BY DEF AnswersInv
    <2>1. PICK j \in DOMAIN fifo[p] : fifo'[p][i] = fifo[p][j] /\ (p = q => j # 1) /\ (p # q => j = i)
      BY <1>2
    <2>2. OrderOn(p)' = OrderOn(p) /\ (p = "fwd_ret" => mux'.channel = mux.channel)
      BY <2>1 DEF RetFifos
    <2>3. /\ Lying(fifo[p][j], OrderOn(p))
          /\ p = "ret1" \/ (p = "fwd_ret" /\ mux.channel = 1) => fifo[p][j].addr >= SegBase
          /\ \A o \in owned : Promise!Disjoint(Blk(fifo[p][j], OrderOn(p)), Blk(o, o.order))
      BY <2>1 DEF AnswersInv
    <2>4. ASSUME NEW o \in owned' PROVE Promise!Disjoint(Blk(fifo'[p][i], OrderOn(p)'), Blk(o, o.order))
      <3>1. CASE o \in owned
        BY <2>1, <2>2, <2>3, <3>1
      <3>2. CASE o = n /\ h.ok
        BY <1>7, <2>1, <2>2, <3>2
      <3> QED
        BY <1>6, <3>1, <3>2
    <2>5. Lying(fifo'[p][i], OrderOn(p)')
      BY <2>1, <2>2, <2>3
    <2> QED
      BY <2>1, <2>2, <2>3, <2>4, <2>5 DEF Lying, Blk
  <1>11. ApartInv'
    <2> SUFFICES ASSUME NEW p \in RetFifos, NEW r \in RetFifos,
                        NEW i \in DOMAIN fifo'[p], NEW k \in DOMAIN fifo'[r],
                        p # r \/ i # k, fifo'[p][i].ok, fifo'[r][k].ok
                 PROVE  Promise!Disjoint(Blk(fifo[p][i], OrderOn(p)), Blk(fifo[r][k], OrderOn(r)))'
      BY DEF ApartInv
    <2>1. PICK j \in DOMAIN fifo[p] :
             fifo'[p][i] = fifo[p][j] /\ (p = q => j = i + 1 /\ i \in Nat) /\ (p # q => j = i)
      BY <1>2
    <2>2. PICK l \in DOMAIN fifo[r] :
             fifo'[r][k] = fifo[r][l] /\ (r = q => l = k + 1 /\ k \in Nat) /\ (r # q => l = k)
      BY <1>2
    <2>3. p # r \/ j # l
      BY <2>1, <2>2
    <2>4. OrderOn(p)' = OrderOn(p) /\ OrderOn(r)' = OrderOn(r)
      OBVIOUS
    <2>5. Promise!Disjoint(Blk(fifo[p][j], OrderOn(p)), Blk(fifo[r][l], OrderOn(r)))
      BY <2>1, <2>2, <2>3 DEF ApartInv
    <2> QED
      BY <2>1, <2>2, <2>4, <2>5 DEF Blk
  <1> QED
    BY <1>9, <1>10, <1>11

\* The multiplexer moves the allocator's answer to the stream of the one that asked.
LEMMA AnswerForwarded ==
  ASSUME FifosOK, AnswersInv, ApartInv, OwnedInv, UNCHANGED <<lent, owned>>,
         Len(fifo["fwd_ret"]) = 1, fifo'["fwd_ret"] = << >>,
         NEW q \in {"ret1", "ret2"}, q = "ret1" <=> mux.channel = 1,
         fifo'[q] = Append(fifo[q], Head(fifo["fwd_ret"])),
         \A p \in {"ret1", "ret2"} \ {q} : fifo'[p] = fifo[p],
         \A p \in {"ret1", "ret2"} : OrderOn(p)' = OrderOn(p),
         OrderOn(q) = OrderOn("fwd_ret")
  PROVE  AnswersInv' /\ ApartInv' /\ OwnedInv'
  <1> DEFINE h == Head(fifo["fwd_ret"])
             end == Len(fifo[q]) + 1
  <1>1. fifo[q] \in Seq(Answers) /\ fifo["fwd_ret"] \in Seq(Answers) /\ fifo["fwd_ret"] # << >>
    BY FifoTypes, SMTT(20) DEF RetFifos
  <1>2. h \in Answers /\ h = fifo["fwd_ret"][1] /\ 1 \in DOMAIN fifo["fwd_ret"]
    BY <1>1, TailIndex
  <1>3. /\ DOMAIN fifo'[q] = DOMAIN fifo[q] \cup {end} /\ fifo'[q][end] = h /\ end \notin DOMAIN fifo[q]
        /\ \A i \in DOMAIN fifo[q] : fifo'[q][i] = fifo[q][i]
    BY <1>1, <1>2, AppendIndex
  <1> HIDE DEF h, end
  <1>4. \A p \in RetFifos : \A i \in DOMAIN fifo'[p] :
          /\ p # "fwd_ret"
          /\ \/ i \in DOMAIN fifo[p] /\ fifo'[p][i] = fifo[p][i] /\ (p = q => i # end)
             \/ p = q /\ i = end /\ fifo'[p][i] = fifo["fwd_ret"][1]
    <2>1. DOMAIN fifo'["fwd_ret"] = {}
      OBVIOUS
    <2> QED
      BY <1>2, <1>3, <2>1 DEF RetFifos
  <1>5. \A r, ord : Blk(r, ord)' = Blk(r, ord) /\ (Lying(r, ord)' <=> Lying(r, ord))
    BY DEF Lying, Blk
  <1>6. OwnedInv'
    BY DEF OwnedInv, Lying, Blk
  <1>7. ASSUME NEW p \in RetFifos, NEW i \in DOMAIN fifo'[p]
        PROVE  \E s \in RetFifos : \E j \in DOMAIN fifo[s] :
                 /\ fifo'[p][i] = fifo[s][j] /\ OrderOn(p)' = OrderOn(s)
                 /\ p = "ret1" => s = "ret1" \/ mux.channel = 1
                 /\ \/ s = p /\ j = i /\ (p = q => i # end)
                    \/ s = "fwd_ret" /\ j = 1 /\ p = q /\ i = end
                 /\ p # "fwd_ret"
    <2>1. CASE i \in DOMAIN fifo[p] /\ fifo'[p][i] = fifo[p][i] /\ (p = q => i # end)
      <3>1. p # "fwd_ret" /\ OrderOn(p)' = OrderOn(p)
        BY <1>4, <1>7 DEF RetFifos
      <3>2. /\ fifo'[p][i] = fifo[p][i] /\ OrderOn(p)' = OrderOn(p)
            /\ p = "ret1" => p = "ret1" \/ mux.channel = 1
            /\ \/ p = p /\ i = i /\ (p = q => i # end)
               \/ p = "fwd_ret" /\ i = 1 /\ p = q /\ i = end
            /\ p # "fwd_ret"
        BY <2>1, <3>1, Zenon
      <3> QED
        BY <1>7, <2>1, <3>2, Zenon
    <2>2. CASE p = q /\ i = end /\ fifo'[p][i] = fifo["fwd_ret"][1]
      <3>1. p # "fwd_ret" /\ OrderOn(p)' = OrderOn("fwd_ret") /\ (p = "ret1" => mux.channel = 1)
        BY <2>2
      <3>2. "fwd_ret" \in RetFifos
        BY DEF RetFifos
      <3> QED
        BY <1>2, <2>2, <3>1, <3>2
    <2> QED
      BY <1>4, <1>7, <2>1, <2>2
  <1>8. AnswersInv'
    <2> SUFFICES ASSUME NEW p \in RetFifos, NEW i \in DOMAIN fifo'[p], fifo'[p][i].ok
                 PROVE  /\ Lying(fifo[p][i], OrderOn(p))'
                        /\ p = "ret1" \/ (p = "fwd_ret" /\ mux'.channel = 1) => fifo'[p][i].addr >= SegBase
                        /\ \A o \in owned' : Promise!Disjoint(Blk(fifo[p][i], OrderOn(p)), Blk(o, o.order))'
      BY DEF AnswersInv
    <2>1. PICK s \in RetFifos : \E j \in DOMAIN fifo[s] :
                 /\ fifo'[p][i] = fifo[s][j] /\ OrderOn(p)' = OrderOn(s)
                 /\ p = "ret1" => s = "ret1" \/ mux.channel = 1
                 /\ p # "fwd_ret" /\ (s = p \/ s = "fwd_ret")
      BY <1>7
    <2>2. PICK j \in DOMAIN fifo[s] :
                 /\ fifo'[p][i] = fifo[s][j] /\ OrderOn(p)' = OrderOn(s)
                 /\ p = "ret1" => s = "ret1" \/ mux.channel = 1
                 /\ p # "fwd_ret" /\ (s = p \/ s = "fwd_ret")
      BY <2>1
    <2>3. /\ Lying(fifo[s][j], OrderOn(s))
          /\ s = "ret1" \/ (s = "fwd_ret" /\ mux.channel = 1) => fifo[s][j].addr >= SegBase
          /\ \A o \in owned : Promise!Disjoint(Blk(fifo[s][j], OrderOn(s)), Blk(o, o.order))
      BY <2>2 DEF AnswersInv
    <2> QED
      BY <2>2, <2>3 DEF Lying, Blk
  <1>9. ApartInv'
    <2> SUFFICES ASSUME NEW p \in RetFifos, NEW r \in RetFifos,
                        NEW i \in DOMAIN fifo'[p], NEW k \in DOMAIN fifo'[r],
                        p # r \/ i # k, fifo'[p][i].ok, fifo'[r][k].ok
                 PROVE  Promise!Disjoint(Blk(fifo[p][i], OrderOn(p)), Blk(fifo[r][k], OrderOn(r)))'
      BY DEF ApartInv
    <2>1a. PICK s \in RetFifos : \E j \in DOMAIN fifo[s] :
                 /\ fifo'[p][i] = fifo[s][j] /\ OrderOn(p)' = OrderOn(s)
                 /\ \/ s = p /\ j = i /\ (p = q => i # end)
                    \/ s = "fwd_ret" /\ j = 1 /\ p = q /\ i = end
                 /\ p # "fwd_ret"
      BY <1>7
    <2>1. PICK j \in DOMAIN fifo[s] :
                 /\ fifo'[p][i] = fifo[s][j] /\ OrderOn(p)' = OrderOn(s)
                 /\ \/ s = p /\ j = i /\ (p = q => i # end)
                    \/ s = "fwd_ret" /\ j = 1 /\ p = q /\ i = end
                 /\ p # "fwd_ret"
      BY <2>1a
    <2>2a. PICK t \in RetFifos : \E l \in DOMAIN fifo[t] :
                 /\ fifo'[r][k] = fifo[t][l] /\ OrderOn(r)' = OrderOn(t)
                 /\ \/ t = r /\ l = k /\ (r = q => k # end)
                    \/ t = "fwd_ret" /\ l = 1 /\ r = q /\ k = end
                 /\ r # "fwd_ret"
      BY <1>7
    <2>2. PICK l \in DOMAIN fifo[t] :
                 /\ fifo'[r][k] = fifo[t][l] /\ OrderOn(r)' = OrderOn(t)
                 /\ \/ t = r /\ l = k /\ (r = q => k # end)
                    \/ t = "fwd_ret" /\ l = 1 /\ r = q /\ k = end
                 /\ r # "fwd_ret"
      BY <2>2a
    <2>3. s # t \/ j # l
      BY <2>1, <2>2
    <2>4. Promise!Disjoint(Blk(fifo[s][j], OrderOn(s)), Blk(fifo[t][l], OrderOn(t)))
      BY <2>1, <2>2, <2>3 DEF ApartInv
    <2> QED
      BY <2>1, <2>2, <2>4 DEF Blk
  <1> QED
    BY <1>6, <1>8, <1>9

\* The allocator hands out a block, which is not lent yet.
LEMMA AnswerGiven ==
  ASSUME Sizes, FifosOK, AnswersInv, ApartInv, OwnedInv, HeldInv, UNCHANGED <<owned, mux, coord>>,
         fifo["fwd_ret"] = << >>, \A q \in {"ret1", "ret2"} : fifo'[q] = fifo[q],
         NEW a \in 0 .. PagingUnits - 1, NEW at \in {0, SegBase},
         Promise!Unused(Promise!Block(a, MuxOrder)), lent' = lent \cup {Promise!Block(a, MuxOrder)},
         fifo'["fwd_ret"] = <<[ok |-> TRUE, addr |-> at + a]>>,
         mux.channel = 1 => at = SegBase
  PROVE  AnswersInv' /\ ApartInv' /\ OwnedInv' /\ HeldInv'
  <1> DEFINE b == Promise!Block(a, MuxOrder)
             n == [ok |-> TRUE, addr |-> at + a]
  <1>1. /\ DOMAIN fifo'["fwd_ret"] = {1} /\ fifo'["fwd_ret"][1] = n
        /\ n.addr = at + a /\ DOMAIN fifo["fwd_ret"] = {}
    OBVIOUS
  <1>2. InReach(n.addr) /\ Rel(n.addr) = a /\ (mux.channel = 1 => n.addr >= SegBase)
    BY <1>1 DEF InReach, Rel, Sizes
  <1>3. Blk(n, MuxOrder) = b
    BY <1>2 DEF Blk
  <1>4. \A c \in lent : Promise!Disjoint(b, c)
    BY DEF Promise!Unused
  <1>5. HeldInv'
    BY DEF HeldInv, Promise!Unused
  <1> HIDE DEF b, n
  <1>6. /\ \A q : OrderOn(q)' = OrderOn(q)
        /\ \A r, ord : Blk(r, ord)' = Blk(r, ord) /\ (Lying(r, ord) => Lying(r, ord)' /\ Promise!Disjoint(b, Blk(r, ord)))
        /\ Lying(n, MuxOrder)'
    <2>1. \A q : OrderOn(q)' = OrderOn(q)
      BY DEF OrderOn, CoordOrder, MuxOrder
    <2>2. \A r, ord : Blk(r, ord)' = Blk(r, ord) /\ (Lying(r, ord) => Lying(r, ord)' /\ Promise!Disjoint(b, Blk(r, ord)))
      BY <1>4 DEF Lying, Blk
    <2>3. Lying(n, MuxOrder)'
      BY <1>2, <1>3 DEF Lying, Blk, b, MuxOrder, CoordOrder
    <2> QED
      BY <2>1, <2>2, <2>3
  <1>7. OwnedInv'
    BY <1>6 DEF OwnedInv, Lying, Blk
  <1>8. \A q \in RetFifos : \A i \in DOMAIN fifo'[q] :
          \/ q # "fwd_ret" /\ i \in DOMAIN fifo[q] /\ fifo'[q][i] = fifo[q][i]
          \/ q = "fwd_ret" /\ i = 1 /\ fifo'[q][i] = n
    BY <1>1 DEF RetFifos
  <1>9. OrderOn("fwd_ret") = MuxOrder
    BY DEF OrderOn
  <1>10. AnswersInv'
    <2> SUFFICES ASSUME NEW p \in RetFifos, NEW i \in DOMAIN fifo'[p], fifo'[p][i].ok
                 PROVE  /\ Lying(fifo[p][i], OrderOn(p))'
                        /\ p = "ret1" \/ (p = "fwd_ret" /\ mux'.channel = 1) => fifo'[p][i].addr >= SegBase
                        /\ \A o \in owned' : Promise!Disjoint(Blk(fifo[p][i], OrderOn(p)), Blk(o, o.order))'
      BY DEF AnswersInv
    <2>1. CASE p # "fwd_ret" /\ i \in DOMAIN fifo[p] /\ fifo'[p][i] = fifo[p][i]
      <3>1. /\ Lying(fifo[p][i], OrderOn(p))
            /\ p = "ret1" => fifo[p][i].addr >= SegBase
            /\ \A o \in owned : Promise!Disjoint(Blk(fifo[p][i], OrderOn(p)), Blk(o, o.order))
        BY <2>1 DEF AnswersInv
      <3> QED
        BY <1>6, <2>1, <3>1 DEF Lying, Blk
    <2>2. CASE p = "fwd_ret" /\ i = 1 /\ fifo'[p][i] = n
      <3>1. Lying(fifo[p][i], OrderOn(p))'
        BY <1>6, <1>9, <2>2 DEF Lying, Blk, OrderOn
      <3>2. \A o \in owned : Promise!Disjoint(b, Blk(o, o.order))
        BY <1>6 DEF OwnedInv
      <3> QED
        BY <1>2, <1>3, <1>6, <1>9, <2>2, <3>1, <3>2 DEF Lying, Blk
    <2> QED
      BY <1>8, <2>1, <2>2
  <1>11. ApartInv'
    <2> SUFFICES ASSUME NEW p \in RetFifos, NEW r \in RetFifos,
                        NEW i \in DOMAIN fifo'[p], NEW k \in DOMAIN fifo'[r],
                        p # r \/ i # k, fifo'[p][i].ok, fifo'[r][k].ok
                 PROVE  Promise!Disjoint(Blk(fifo'[p][i], OrderOn(p)), Blk(fifo'[r][k], OrderOn(r)))
      BY <1>6 DEF ApartInv, Blk
    <2>1. ASSUME NEW q \in RetFifos, NEW j \in DOMAIN fifo'[q], fifo'[q][j].ok, q # "fwd_ret"
          PROVE  Promise!Disjoint(b, Blk(fifo'[q][j], OrderOn(q)))
      BY <1>6, <1>8, <2>1 DEF AnswersInv
    <2>2. CASE p # "fwd_ret" /\ r # "fwd_ret"
      BY <1>8, <2>2 DEF ApartInv
    <2>3. CASE p = "fwd_ret" /\ r # "fwd_ret"
      BY <1>3, <1>8, <1>9, <2>1, <2>3
    <2>4. CASE p # "fwd_ret" /\ r = "fwd_ret"
      BY <1>3, <1>8, <1>9, <2>1, <2>4, DisjointSymmetric
    <2> QED
      BY <1>8, <2>2, <2>3, <2>4
  <1> QED
    BY <1>5, <1>7, <1>10, <1>11

-----------------------------------------------------------------------------
(* The steps, one lemma for each.                                          *)

MemFifos == RetFifos \cup {"req1", "req2", "fwd_req", "init_buddy"}

\* While the coordinator does not wait, nothing stands for one of its requests.
LEMMA OrdersKept ==
  ASSUME MemInv, UNCHANGED mux, coord' = coord \/ ~Waiting
  PROVE  \A q \in RetFifos : DOMAIN fifo[q] # {} => OrderOn(q)' = OrderOn(q)
  <1>1. CASE coord' = coord
    BY <1>1 DEF OrderOn, CoordOrder, MuxOrder
  <1>2. CASE ~Waiting
    <2>1. fifo["ret1"] = << >> /\ ~AtMux
      BY <1>2 DEF MemInv, CoordInv
    <2>2. mux.state = "SEND" => fifo["fwd_ret"] = << >>
      BY DEF MemInv, MuxInv
    <2>3. mux.state \in {"SEND", "RET"} /\ mux.channel \in {1, 2}
      BY DEF MemInv, TypeOK
    <2> QED
      BY <2>1, <2>2, <2>3 DEF OrderOn, MuxOrder, AtMux, RetFifos
  <1> QED
    BY <1>1, <1>2

\* Steps that have nothing to do with the allocator.
LEMMA MemFrame ==
  ASSUME MemInv, TypeOK', UNCHANGED <<mux, base, lent, owned>>,
         \A q \in MemFifos : fifo'[q] = fifo[q],
         coord' = coord \/ (~Waiting /\ ~Waiting')
  PROVE  MemInv'
  <1>1. \A q \in RetFifos : DOMAIN fifo[q] # {} => OrderOn(q)' = OrderOn(q)
    BY OrdersKept
  <1>2. AnswersInv' /\ ApartInv' /\ OwnedInv'
    BY <1>1, AnswersKept DEF MemInv, MemFifos
  <1>3. MuxInv' /\ CoordInv' /\ BaseInv'
    <2>1. CASE coord' = coord
      BY <2>1 DEF MemInv, MemFifos, RetFifos, MuxInv, CoordInv, BaseInv, Waiting, AtMux, MuxOrder, CoordOrder
    <2>2. CASE ~Waiting /\ ~Waiting'
      <3>1. ~AtMux
        BY <2>2 DEF MemInv, CoordInv
      <3>2. mux.state = "RET" => MuxOrder' = MuxOrder
        BY <3>1 DEF AtMux, MuxOrder
      <3>3. MuxInv'
        BY <3>2 DEF MemInv, MemFifos, RetFifos, MuxInv
      <3> QED
        BY <2>2, <3>1, <3>3 DEF MemInv, MemFifos, RetFifos, CoordInv, BaseInv, AtMux
    <2> QED
      BY <2>1, <2>2
  <1>4. HeldInv'
    BY DEF MemInv, HeldInv
  <1> QED
    BY <1>2, <1>3, <1>4 DEF MemInv

LEMMA CommandStep ==
  ASSUME MemInv, Command
  PROVE  MemInv'
  <1>1. Kept({"ctrl_in"}) /\ FifosOK'
    BY PutEffect, Carried DEF MemInv, TypeOK, Command, Fifos
  <1>2. TypeOK'
    BY <1>1 DEF MemInv, TypeOK, Command
  <1> QED
    BY <1>1, <1>2, MemFrame DEF Command, Kept, Fifos, MemFifos, RetFifos

LEMMA BusStep ==
  ASSUME MemInv, BusRequest
  PROVE  MemInv'
  <1>1. PICK ch \in {"rd", "wr"} :
          /\ fifo' = Put(IF ch = "rd" THEN "rd_in" ELSE "wr_in", sent[ch] + 1)
          /\ sent' = [sent EXCEPT ![ch] = @ + 1]
    BY DEF BusRequest
  <1> DEFINE q == IF ch = "rd" THEN "rd_in" ELSE "wr_in"
  <1>2. q \in {"rd_in", "wr_in"} /\ q \in Fifos
    BY DEF Fifos
  <1>3. sent[ch] + 1 \in Nat /\ sent' \in [commands : Nat, buckets : Nat, rd : Nat, wr : Nat]
    BY <1>1 DEF MemInv, TypeOK
  <1>4. fifo' = Put(q, sent[ch] + 1)
    BY <1>1
  <1> HIDE DEF q
  <1>5. Kept({q}) /\ FifosOK'
    BY <1>2, <1>3, <1>4, PutEffect, Carried, ZenonT(40) DEF MemInv, TypeOK
  <1>6. TypeOK'
    BY <1>3, <1>5 DEF MemInv, TypeOK, BusRequest
  <1> QED
    BY <1>2, <1>5, <1>6, MemFrame DEF BusRequest, Kept, Fifos, MemFifos, RetFifos

LEMMA AskStep ==
  ASSUME Sizes, MemInv, AskBucket
  PROVE  MemInv'
  <1>1. Kept({"req2"}) /\ fifo'["req2"] = Append(fifo["req2"], BucketOrder) /\ FifosOK'
    BY PutEffect, Carried DEF MemInv, TypeOK, AskBucket, Fifos, Sizes
  <1>2. fifo["req2"] \in Seq(Nat) /\ BucketOrder \in Nat
    BY FifoTypes DEF MemInv, TypeOK, Sizes
  <1>3. \A i \in DOMAIN fifo'["req2"] : fifo'["req2"][i] = BucketOrder
    BY <1>1, <1>2, AppendIndex DEF MemInv, MuxInv
  <1>5. TypeOK'
    BY <1>1 DEF MemInv, TypeOK, AskBucket
  <1>6. UNCHANGED <<coord, mux, base, lent, owned>>
    BY DEF AskBucket
  <1>7. \A q \in RetFifos : fifo'[q] = fifo[q] /\ OrderOn(q)' = OrderOn(q)
    BY <1>1, <1>6 DEF Kept, Fifos, RetFifos, OrderOn, MuxOrder, CoordOrder
  <1>8. AnswersInv' /\ ApartInv' /\ OwnedInv' /\ HeldInv'
    BY <1>6, <1>7, AnswersKept DEF MemInv, HeldInv
  <1>9. MuxInv' /\ CoordInv' /\ BaseInv'
    BY <1>1, <1>3, <1>6 DEF MemInv, MuxInv, CoordInv, BaseInv, Kept, Fifos, Waiting, AtMux, MuxOrder, CoordOrder
  <1> QED
    BY <1>5, <1>8, <1>9 DEF MemInv

LEMMA SegmentStep ==
  ASSUME Sizes, MemInv, SegmentUnit
  PROVE  MemInv'
  <1>1. UNCHANGED <<coord, mux, base, lent, owned, sent>>
    BY DEF SegmentUnit
  <1>2. ASSUME NEW Q, Kept(Q), Q \cap MemFifos = {}, FifosOK' PROVE MemInv'
    <2>1. TypeOK'
      BY <1>1, <1>2 DEF MemInv, TypeOK
    <2> QED
      BY <1>1, <1>2, <2>1, MemFrame DEF Kept, MemFifos, RetFifos, Fifos
  <1>3. ASSUME NEW p \in {"seg_req", "rd_in", "wr_in", "pi_parser", "pi_out"},
               NEW q \in {"pi_parser", "pi_out", "seg_ret", "rd_out", "wr_out"}, p # q,
               Ready(p), NEW w \in Carries(q), fifo' = Move(p, q, w)
        PROVE  MemInv'
    <2>1. p \in Fifos /\ q \in Fifos
      BY DEF Fifos
    <2>2. Kept({p, q}) /\ FifosOK'
      BY <1>3, <2>1, MoveEffect DEF MemInv, TypeOK
    <2> QED
      BY <1>2, <1>3, <2>2 DEF MemFifos, RetFifos
  <1>4. CASE AggregateInput
    <2>1. ASSUME NEW p \in {"rd_in", "wr_in"}, Ready(p) PROVE Head(fifo[p]) \in Nat
      BY <2>1, HeadCarried, Carried DEF MemInv, TypeOK, Fifos
    <2>2. CASE Ready("seg_req") /\ fifo' = Move("seg_req", "pi_parser", Pi("CONTROL", 0))
      <3>1. Pi("CONTROL", 0) \in PiWords
        BY DEF Pi, PiWords
      <3> QED
        BY <1>3, <2>2, <3>1, Carried
    <2>3. CASE Ready("rd_in") /\ fifo' = Move("rd_in", "pi_parser", Pi("RD", Head(fifo.rd_in)))
      <3>1. Pi("RD", Head(fifo.rd_in)) \in PiWords
        BY <2>1, <2>3 DEF Pi, PiWords
      <3> QED
        BY <1>3, <2>3, <3>1, Carried
    <2>4. CASE Ready("wr_in") /\ fifo' = Move("wr_in", "pi_parser", Pi("WR", Head(fifo.wr_in)))
      <3>1. Pi("WR", Head(fifo.wr_in)) \in PiWords
        BY <2>1, <2>4 DEF Pi, PiWords
      <3> QED
        BY <1>3, <2>4, <3>1, Carried
    <2> QED
      BY <1>4, <2>2, <2>3, <2>4 DEF AggregateInput
  <1>5. CASE SegParser
    <2> DEFINE w == Head(fifo.pi_parser)
               d == [w EXCEPT !.ok = TRUE, !.addr = IF w.type = "CONTROL" THEN SegBase ELSE @]
    <2>1. w \in PiWords /\ Ready("pi_parser")
      BY <1>5, HeadCarried, Carried DEF MemInv, TypeOK, SegParser, Fifos
    <2>2. fifo' = Move("pi_parser", "pi_out", d)
      BY <1>5 DEF SegParser
    <2> HIDE DEF w
    <2>3. d \in PiDone
      BY <2>1 DEF PiDone, PiWords, Sizes
    <2> HIDE DEF d
    <2> QED
      BY <1>3, <2>1, <2>2, <2>3, Carried
  <1>6. CASE DisaggregateOutput
    <2> DEFINE w == Head(fifo.pi_out)
               d == [ok |-> w.ok, addr |-> w.addr]
               q == OutChannel(w.type)
    <2>1. w \in PiDone /\ Ready("pi_out")
      BY <1>6, HeadCarried, Carried DEF MemInv, TypeOK, DisaggregateOutput, Fifos
    <2>2. fifo' = Move("pi_out", q, d)
      BY <1>6 DEF DisaggregateOutput
    <2> HIDE DEF w
    <2>3. q \in {"seg_ret", "rd_out", "wr_out"} /\ d \in Answers /\ (q = "seg_ret" => d \in SegGranted)
      BY <2>1 DEF PiDone, PiWords, Answers, SegGranted, OutChannel
    <2> HIDE DEF d, q
    <2>4. d \in Carries(q)
      BY <2>3, Carried
    <2> QED
      BY <1>3, <2>1, <2>2, <2>3, <2>4
  <1> QED
    BY <1>4, <1>5, <1>6 DEF SegmentUnit

LEMMA TakeStep ==
  ASSUME Sizes, MemInv, TakeBucket
  PROVE  MemInv'
  <1> DEFINE h == Head(fifo["ret2"])
  <1>1. Ready("ret2") /\ UNCHANGED <<coord, mux, base, lent, sent>>
    BY DEF TakeBucket
  <1>2. h \in Answers /\ Tail(fifo["ret2"]) \in Seq(Answers)
    BY <1>1, HeadCarried, Carried DEF MemInv, TypeOK, Fifos, RetFifos
  <1>3. Kept({"ret2"}) /\ fifo'["ret2"] = Tail(fifo["ret2"])
    BY DEF TakeBucket, MemInv, TypeOK, FifosOK, Kept, Fifos
  <1>4. FifosOK'
    BY <1>2, <1>3, FifosFrame, Carried DEF MemInv, TypeOK, RetFifos
  <1>5. owned' = IF h.ok THEN owned \cup {[who |-> "bucket", order |-> BucketOrder, addr |-> h.addr]} ELSE owned
    BY DEF TakeBucket, Own
  <1>6. OrderOn("ret2") = BucketOrder /\ \A q : OrderOn(q)' = OrderOn(q)
    BY <1>1 DEF OrderOn, MuxOrder, CoordOrder
  <1> HIDE DEF h
  <1>7. TypeOK'
    <2>1. [who |-> "bucket", order |-> BucketOrder, addr |-> h.addr] \in Owners
      BY <1>2 DEF Owners, Answers, Sizes
    <2> QED
      BY <1>1, <1>4, <1>5, <2>1 DEF MemInv, TypeOK
  <1>8. AnswersInv' /\ ApartInv' /\ OwnedInv'
    <2>1. \A p \in RetFifos \ {"ret2"} : fifo'[p] = fifo[p]
      BY <1>3 DEF Kept, Fifos, RetFifos
    <2>2. owned' = IF Head(fifo["ret2"]).ok
                   THEN owned \cup {[who |-> "bucket", order |-> OrderOn("ret2"), addr |-> Head(fifo["ret2"]).addr]}
                   ELSE owned
      BY <1>5, <1>6 DEF h
    <2>3. fifo["ret2"] # << >>
      BY <1>1 DEF Ready
    <2> QED
      BY <1>1, <1>3, <1>6, <2>1, <2>2, <2>3, AnswerTaken DEF MemInv, TypeOK
  <1>9. MuxInv' /\ CoordInv' /\ BaseInv' /\ HeldInv'
    BY <1>1, <1>3
    DEF MemInv, MuxInv, CoordInv, BaseInv, HeldInv, Kept, Fifos, Waiting, AtMux, MuxOrder, CoordOrder
  <1> QED
    BY <1>7, <1>8, <1>9 DEF MemInv

\* The coordinator before it waits for the allocator.
LEMMA CoordStartStep ==
  ASSUME Sizes, MemInv, CoordIdle \/ InitAllocSeg \/ InitAllocSegRet, UNCHANGED <<mux, base, lent, sent>>
  PROVE  MemInv'
  <1>1. coord.state \in {"IDLE", "INIT"} /\ UNCHANGED owned
    BY DEF MemInv, TypeOK, CoordIdle, InitAllocSeg, InitAllocSegRet, Finished
  <1>2. CASE CoordIdle
    <2>1. Head(fifo["ctrl_in"]) = "INIT" /\ Tail(fifo["ctrl_in"]) \in Seq({"INIT"})
      BY <1>2, HeadCarried, Carried DEF MemInv, TypeOK, Fifos, CoordIdle
    <2>2. coord' = [coord EXCEPT !.state = "INIT"] /\ coord.state = "IDLE"
      BY <1>2, <2>1 DEF CoordIdle
    <2>3. coord' \in [state : {"IDLE", "INIT"}, init : {"ALLOC_SEG", "ALLOC_SEG_RET", "ALLOC_TABEL_RET", "ALLOC_META_RET"}]
          /\ coord'.init = coord.init
      BY <2>2 DEF MemInv, TypeOK
    <2>4. ~Waiting /\ ~Waiting'
      BY <2>2, <2>3 DEF MemInv, CoordInv, Waiting
    <2>5. Kept({"ctrl_in"}) /\ fifo'["ctrl_in"] = Tail(fifo["ctrl_in"])
      BY <1>2 DEF CoordIdle, MemInv, TypeOK, FifosOK, Kept, Fifos
    <2>6. FifosOK'
      BY <2>1, <2>5, FifosFrame, Carried DEF MemInv, TypeOK
    <2>7. TypeOK'
      BY <1>1, <2>3, <2>6 DEF MemInv, TypeOK
    <2> QED
      BY <1>1, <2>4, <2>5, <2>7, MemFrame DEF Kept, Fifos, MemFifos, RetFifos
  <1>3. CASE InitAllocSeg
    <2>1. coord' = [coord EXCEPT !.init = "ALLOC_SEG_RET"] /\ coord.init = "ALLOC_SEG"
      BY <1>3 DEF InitAllocSeg
    <2>2. /\ coord' \in [state : {"IDLE", "INIT"}, init : {"ALLOC_SEG", "ALLOC_SEG_RET", "ALLOC_TABEL_RET", "ALLOC_META_RET"}]
          /\ coord'.init = "ALLOC_SEG_RET"
      BY <2>1 DEF MemInv, TypeOK
    <2>3. ~Waiting /\ ~Waiting'
      BY <2>1, <2>2 DEF Waiting
    <2>4. Kept({"seg_req"}) /\ FifosOK'
      BY <1>3, PutEffect, Carried DEF InitAllocSeg, MemInv, TypeOK, Fifos
    <2>5. TypeOK'
      BY <1>1, <2>2, <2>4 DEF MemInv, TypeOK
    <2> QED
      BY <1>1, <2>3, <2>4, <2>5, MemFrame DEF Kept, Fifos, MemFifos, RetFifos
  <1>4. CASE InitAllocSegRet
    <2> DEFINE r == Head(fifo["seg_ret"])
    <2>1. r.ok /\ r.addr = SegBase /\ Tail(fifo["seg_ret"]) \in Seq(SegGranted)
      <3>1. r \in SegGranted /\ Tail(fifo["seg_ret"]) \in Seq(SegGranted)
        BY <1>4, HeadCarried, Carried DEF MemInv, TypeOK, Fifos, InitAllocSegRet
      <3> QED
        BY <3>1 DEF SegGranted
    <2>2. /\ fifo' = [[fifo EXCEPT !.seg_ret = Tail(@)] EXCEPT !.init_buddy = Append(@, SegBase), !.req1 = Append(@, TableOrder)]
          /\ coord' = [coord EXCEPT !.init = "ALLOC_TABEL_RET"] /\ coord.state = "INIT" /\ coord.init = "ALLOC_SEG_RET"
      BY <1>4, <2>1 DEF InitAllocSegRet
    <2>3. /\ coord' \in [state : {"IDLE", "INIT"}, init : {"ALLOC_SEG", "ALLOC_SEG_RET", "ALLOC_TABEL_RET", "ALLOC_META_RET"}]
          /\ coord'.init = "ALLOC_TABEL_RET" /\ coord'.state = "INIT"
      BY <2>2 DEF MemInv, TypeOK
    <2>4. /\ Kept({"seg_ret", "init_buddy", "req1"}) /\ fifo'["seg_ret"] = Tail(fifo["seg_ret"])
          /\ fifo'["init_buddy"] = Append(fifo["init_buddy"], SegBase) /\ fifo'["req1"] = Append(fifo["req1"], TableOrder)
      BY <2>2 DEF MemInv, TypeOK, FifosOK, Kept, Fifos
    <2>5. ~Waiting /\ fifo["req1"] = << >> /\ fifo["ret1"] = << >> /\ ~AtMux
      BY <2>2 DEF MemInv, CoordInv, Waiting
    <2>6. fifo["init_buddy"] \in Seq({SegBase})
      BY FifoTypes DEF MemInv, TypeOK
    <2>7. fifo'["init_buddy"] \in Seq({SegBase}) /\ fifo'["init_buddy"] # << >> /\ fifo'["req1"] = <<TableOrder>>
      BY <2>4, <2>5, <2>6, AppendProperties
    <2>8. fifo'["req1"] \in Seq(Nat)
      BY <2>7 DEF Sizes
    <2>9. FifosOK'
      <3>1. Carries("seg_ret") = SegGranted /\ Carries("init_buddy") = {SegBase} /\ Carries("req1") = Nat
        BY Carried
      <3>2. \A q \in {"seg_ret", "init_buddy", "req1"} : fifo'[q] \in Seq(Carries(q))
        BY <2>1, <2>4, <2>7, <2>8, <3>1
      <3>3. FifosOK
        BY DEF MemInv, TypeOK
      <3> QED
        BY <2>4, <3>2, <3>3, FifosFrame
    <2>10. TypeOK'
      BY <1>1, <2>3, <2>9 DEF MemInv, TypeOK
    <2>11. \A q \in RetFifos : fifo'[q] = fifo[q]
      BY <2>4 DEF Kept, Fifos, RetFifos
    <2>12. AnswersInv' /\ ApartInv' /\ OwnedInv' /\ HeldInv'
      BY <1>1, <2>5, <2>11, AnswersKept, OrdersKept DEF MemInv, HeldInv
    <2>13. Waiting' /\ CoordOrder' = TableOrder /\ ~AtMux'
      BY <2>3, <2>5 DEF Waiting, CoordOrder, AtMux
    <2>14. CoordInv' /\ BaseInv'
      BY <2>3, <2>4, <2>5, <2>7, <2>13 DEF CoordInv, BaseInv, Kept, Fifos
    <2>15. mux.state = "RET" => MuxOrder' = MuxOrder
      BY <2>5 DEF AtMux, MuxOrder
    <2>16. MuxInv'
      BY <2>4, <2>15 DEF MemInv, MuxInv, Kept, Fifos
    <2> QED
      BY <2>10, <2>12, <2>14, <2>16 DEF MemInv
  <1> QED
    BY <1>2, <1>3, <1>4

\* The coordinator takes the answer to its request.
LEMMA CoordTake ==
  ASSUME Sizes, MemInv, Waiting, Ready("ret1"), UNCHANGED <<mux, base, lent, sent>>,
         NEW Q, Kept(Q), Q \subseteq {"ret1", "req1", "init_tbl", "init_heap", "ctrl_out"}, "ret1" \in Q,
         fifo'["ret1"] = Tail(fifo["ret1"]), FifosOK',
         coord' \in [state : {"IDLE", "INIT"}, init : {"ALLOC_SEG", "ALLOC_META_RET"}],
         IF coord'.init = "ALLOC_META_RET" THEN coord'.state = "INIT" /\ fifo'["req1"] = Append(fifo["req1"], HeapOrder)
                                           ELSE fifo'["req1"] = fifo["req1"],
         NEW who \in {"table", "heap"},
         owned' = IF Head(fifo["ret1"]).ok
                  THEN owned \cup {[who |-> who, order |-> CoordOrder, addr |-> Head(fifo["ret1"]).addr]}
                  ELSE owned
  PROVE  MemInv'
  <1> DEFINE h == Head(fifo["ret1"])
  <1>1. fifo["ret1"] \in Seq(Answers) /\ fifo["ret1"] # << >> /\ h \in Answers
    BY HeadCarried, Carried DEF MemInv, TypeOK, Fifos, RetFifos, Ready
  <1>2. fifo["req1"] = << >> /\ ~AtMux /\ fifo'["ret1"] = << >>
    <2>1. fifo["req1"] = << >> /\ ~AtMux /\ Len(fifo["ret1"]) = 1
      BY <1>1 DEF MemInv, CoordInv
    <2>2. Tail(fifo["ret1"]) = << >>
      BY <1>1, <2>1, TailOfOne
    <2> QED
      BY <2>1, <2>2
  <1>3. mux.state \in {"SEND", "RET"} /\ mux.channel \in {1, 2}
    BY DEF MemInv, TypeOK
  <1>4. mux.state = "SEND" => fifo["fwd_req"] = << >> /\ fifo["fwd_ret"] = << >>
    BY DEF MemInv, MuxInv
  <1>5. mux.state = "RET" => MuxOrder' = MuxOrder
    BY <1>2, <1>3 DEF AtMux, MuxOrder
  <1>6. \A p \in RetFifos \ {"ret1"} : fifo'[p] = fifo[p]
    BY DEF Kept, Fifos, RetFifos
  <1>7. \A p \in RetFifos : DOMAIN fifo'[p] # {} => OrderOn(p)' = OrderOn(p)
    BY <1>2, <1>3, <1>4, <1>5, <1>6 DEF OrderOn, RetFifos
  <1>8. OrderOn("ret1") = CoordOrder /\ CoordOrder \in Nat
    BY DEF OrderOn, CoordOrder, Sizes
  <1> HIDE DEF h
  <1>9. AnswersInv' /\ ApartInv' /\ OwnedInv'
    BY <1>1, <1>6, <1>7, <1>8, AnswerTaken DEF MemInv, TypeOK
  <1>10. TypeOK'
    <2>1. [who |-> who, order |-> CoordOrder, addr |-> h.addr] \in Owners
      BY <1>1, <1>8 DEF Owners, Answers
    <2>2. owned' \subseteq Owners
      BY <2>1 DEF MemInv, TypeOK, h
    <2> QED
      BY <2>2 DEF MemInv, TypeOK
  <1>11. MuxInv' /\ HeldInv'
    BY <1>5 DEF MemInv, MuxInv, HeldInv, Kept, Fifos
  <1>12. BaseInv'
    BY DEF MemInv, BaseInv, Kept, Fifos
  <1>13. CoordInv'
    <2>1. ~AtMux'
      BY <1>2 DEF AtMux
    <2>2. CASE coord'.init = "ALLOC_META_RET"
      <3>1. Waiting' /\ CoordOrder' = HeapOrder /\ fifo'["req1"] = <<HeapOrder>>
        BY <1>2, <2>2 DEF Waiting, CoordOrder
      <3> QED
        BY <1>2, <2>1, <2>2, <3>1 DEF CoordInv
    <2>3. CASE coord'.init # "ALLOC_META_RET"
      <3>1. ~Waiting' /\ fifo'["req1"] = << >>
        BY <1>2, <2>3 DEF Waiting
      <3> QED
        BY <1>2, <2>1, <3>1 DEF CoordInv
    <2> QED
      BY <2>2, <2>3
  <1> QED
    BY <1>9, <1>10, <1>11, <1>12, <1>13 DEF MemInv

LEMMA CoordRetStep ==
  ASSUME Sizes, MemInv, InitAllocTabelRet \/ InitAllocMetaRet, UNCHANGED <<mux, base, lent, sent>>
  PROVE  MemInv'
  <1> DEFINE h == Head(fifo["ret1"])
  <1>1. Ready("ret1") /\ Waiting
    BY DEF InitAllocTabelRet, InitAllocMetaRet, Waiting
  <1>2. h \in Answers /\ Tail(fifo["ret1"]) \in Seq(Answers)
    BY <1>1, HeadCarried, Carried DEF MemInv, TypeOK, Fifos, RetFifos
  <1>3. h.addr \in Nat /\ h.ok \in BOOLEAN
    BY <1>2 DEF Answers
  <1>4. fifo["req1"] \in Seq(Carries("req1")) /\ fifo["ctrl_out"] \in Seq(Carries("ctrl_out"))
        /\ fifo["init_tbl"] \in Seq(Carries("init_tbl")) /\ fifo["init_heap"] \in Seq(Carries("init_heap"))
    BY DEF MemInv, TypeOK, FifosOK, Fifos
  <1>5. ASSUME ~h.ok, InitAllocTabelRet \/ InitAllocMetaRet PROVE MemInv'
    <2>1. /\ fifo' = [[fifo EXCEPT !.ret1 = Tail(@)] EXCEPT !.ctrl_out = Append(@, "FAILED")]
          /\ coord' = [state |-> "IDLE", init |-> "ALLOC_SEG"] /\ owned' = owned
      BY <1>5 DEF InitAllocTabelRet, InitAllocMetaRet, Finished
    <2>2. /\ Kept({"ret1", "ctrl_out"}) /\ fifo'["ret1"] = Tail(fifo["ret1"])
          /\ fifo'["ctrl_out"] = Append(fifo["ctrl_out"], "FAILED") /\ fifo'["req1"] = fifo["req1"]
      BY <2>1 DEF MemInv, TypeOK, FifosOK, Kept, Fifos
    <2>3. fifo'["ctrl_out"] \in Seq(Carries("ctrl_out"))
      BY <1>4, <2>2, Carried, AppendProperties
    <2>4. FifosOK'
      <3>1. FifosOK /\ Carries("ret1") = Answers
        BY Carried DEF MemInv, TypeOK, RetFifos
      <3>2. \A q \in {"ret1", "ctrl_out"} : fifo'[q] \in Seq(Carries(q))
        BY <1>2, <2>2, <2>3, <3>1
      <3> QED
        BY <2>2, <3>1, <3>2, FifosFrame
    <2>5. coord' \in [state : {"IDLE", "INIT"}, init : {"ALLOC_SEG", "ALLOC_META_RET"}] /\ coord'.init = "ALLOC_SEG"
      BY <2>1
    <2> QED
      BY <1>1, <1>5, <2>1, <2>2, <2>4, <2>5, CoordTake
  <1>6. ASSUME h.ok, InitAllocTabelRet PROVE MemInv'
    <2>1. /\ fifo' = [[fifo EXCEPT !.ret1 = Tail(@)] EXCEPT !.init_tbl = Append(@, h.addr), !.req1 = Append(@, HeapOrder)]
          /\ coord' = [coord EXCEPT !.init = "ALLOC_META_RET"] /\ coord.state = "INIT" /\ coord.init = "ALLOC_TABEL_RET"
          /\ owned' = owned \cup {[who |-> "table", order |-> TableOrder, addr |-> h.addr]}
      BY <1>6 DEF InitAllocTabelRet, Own
    <2> HIDE DEF h
    <2>2. /\ Kept({"ret1", "init_tbl", "req1"}) /\ fifo'["ret1"] = Tail(fifo["ret1"])
          /\ fifo'["init_tbl"] = Append(fifo["init_tbl"], h.addr) /\ fifo'["req1"] = Append(fifo["req1"], HeapOrder)
      BY <2>1 DEF MemInv, TypeOK, FifosOK, Kept, Fifos
    <2>3. fifo'["init_tbl"] \in Seq(Carries("init_tbl")) /\ fifo'["req1"] \in Seq(Carries("req1"))
      <3>1. h.addr \in Carries("init_tbl") /\ HeapOrder \in Carries("req1")
        BY <1>3, Carried DEF Sizes
      <3> QED
        BY <1>4, <2>2, <3>1, AppendProperties
    <2>4. FifosOK'
      <3>1. FifosOK /\ Carries("ret1") = Answers
        BY Carried DEF MemInv, TypeOK, RetFifos
      <3>2. \A q \in {"ret1", "init_tbl", "req1"} : fifo'[q] \in Seq(Carries(q))
        BY <1>2, <2>2, <2>3, <3>1
      <3> QED
        BY <2>2, <3>1, <3>2, FifosFrame
    <2>5. /\ coord' \in [state : {"IDLE", "INIT"}, init : {"ALLOC_SEG", "ALLOC_META_RET"}]
          /\ coord'.init = "ALLOC_META_RET" /\ coord'.state = "INIT"
      BY <2>1 DEF MemInv, TypeOK
    <2>6. CoordOrder = TableOrder
      BY <2>1 DEF CoordOrder
    <2> QED
      BY <1>1, <1>6, <2>1, <2>2, <2>4, <2>5, <2>6, CoordTake DEF h
  <1>7. ASSUME h.ok, InitAllocMetaRet PROVE MemInv'
    <2>1. /\ fifo' = [[[fifo EXCEPT !.ret1 = Tail(@)] EXCEPT !.init_heap = Append(@, h.addr)] EXCEPT !.ctrl_out = Append(@, "SUCCESS")]
          /\ coord' = [state |-> "IDLE", init |-> "ALLOC_SEG"] /\ coord.init = "ALLOC_META_RET"
          /\ owned' = owned \cup {[who |-> "heap", order |-> HeapOrder, addr |-> h.addr]}
      BY <1>7 DEF InitAllocMetaRet, Own, Finished
    <2> HIDE DEF h
    <2>2. /\ Kept({"ret1", "init_heap", "ctrl_out"}) /\ fifo'["ret1"] = Tail(fifo["ret1"]) /\ fifo'["req1"] = fifo["req1"]
          /\ fifo'["init_heap"] = Append(fifo["init_heap"], h.addr) /\ fifo'["ctrl_out"] = Append(fifo["ctrl_out"], "SUCCESS")
      BY <2>1 DEF MemInv, TypeOK, FifosOK, Kept, Fifos
    <2>3. fifo'["init_heap"] \in Seq(Carries("init_heap")) /\ fifo'["ctrl_out"] \in Seq(Carries("ctrl_out"))
      <3>1. h.addr \in Carries("init_heap") /\ "SUCCESS" \in Carries("ctrl_out")
        BY <1>3, Carried
      <3> QED
        BY <1>4, <2>2, <3>1, AppendProperties
    <2>4. FifosOK'
      <3>1. FifosOK /\ Carries("ret1") = Answers
        BY Carried DEF MemInv, TypeOK, RetFifos
      <3>2. \A q \in {"ret1", "init_heap", "ctrl_out"} : fifo'[q] \in Seq(Carries(q))
        BY <1>2, <2>2, <2>3, <3>1
      <3> QED
        BY <2>2, <3>1, <3>2, FifosFrame
    <2>5. coord' \in [state : {"IDLE", "INIT"}, init : {"ALLOC_SEG", "ALLOC_META_RET"}] /\ coord'.init = "ALLOC_SEG"
      BY <2>1
    <2>6. CoordOrder = HeapOrder
      BY <2>1 DEF CoordOrder
    <2> QED
      BY <1>1, <1>7, <2>1, <2>2, <2>4, <2>5, <2>6, CoordTake DEF h
  <1> QED
    BY <1>5, <1>6, <1>7

\* The multiplexer takes a request or hands an answer back.
LEMMA MuxStep ==
  ASSUME Sizes, MemInv, Mux
  PROVE  MemInv'
  <1>1. UNCHANGED <<coord, base, lent, owned, sent>>
    BY DEF Mux
  <1>2. mux.state \in {"SEND", "RET"} /\ mux.channel \in {1, 2}
    BY DEF MemInv, TypeOK
  <1>3. ASSUME mux.state = "SEND", NEW c \in {1, 2}, NEW q \in {"req1", "req2"}, q = "req1" <=> c = 1, Ready(q),
               fifo' = Move(q, "fwd_req", Head(fifo[q])), mux' = [state |-> "RET", channel |-> c]
        PROVE  MemInv'
    <2>1. fifo["fwd_req"] = << >> /\ fifo["fwd_ret"] = << >> /\ ~AtMux
      BY <1>3 DEF MemInv, MuxInv, AtMux
    <2>2. Head(fifo[q]) \in Nat /\ fifo[q] \in Seq(Nat) /\ fifo[q] # << >>
      BY <1>3, HeadCarried, Carried DEF MemInv, TypeOK, Fifos, Ready
    <2>3. /\ Kept({q, "fwd_req"}) /\ fifo'[q] = Tail(fifo[q])
          /\ fifo'["fwd_req"] = Append(fifo["fwd_req"], Head(fifo[q])) /\ FifosOK'
      <3>1. q \in Fifos /\ "fwd_req" \in Fifos /\ q # "fwd_req"
        BY DEF Fifos
      <3>2. Head(fifo[q]) \in Carries("fwd_req")
        BY <2>2, Carried
      <3> QED
        <4>1. FifosOK
          BY DEF MemInv, TypeOK
        <4> QED
          BY <1>3, <3>1, <3>2, <4>1, MoveEffect, Zenon
    <2>4. mux'.state = "RET" /\ mux'.channel = c /\ mux' \in [state : {"SEND", "RET"}, channel : {1, 2}]
      BY <1>3
    <2>5. q = "req1" => Waiting /\ fifo["req1"] = <<CoordOrder>> /\ fifo["ret1"] = << >>
      BY <2>2 DEF MemInv, CoordInv
    <2>6. fifo'["fwd_req"] = <<MuxOrder'>> /\ (q = "req1" => fifo'["req1"] = << >>)
      <3>1. fifo'["fwd_req"] = <<Head(fifo[q])>>
        BY <2>1, <2>3
      <3>2. CASE q = "req1"
        <4>1. Head(fifo["req1"]) = CoordOrder /\ Tail(fifo["req1"]) = << >>
          BY <2>5, <3>2, Singleton
        <4> QED
          BY <1>1, <1>3, <2>3, <2>4, <3>1, <3>2, <4>1 DEF MuxOrder, CoordOrder
      <3>3. CASE q = "req2"
        <4>1. Head(fifo[q]) = BucketOrder /\ c = 2
          BY <1>3, <2>2, <3>3, TailIndex DEF MemInv, MuxInv
        <4> QED
          BY <2>4, <3>1, <3>3, <4>1 DEF MuxOrder
      <3> QED
        BY <3>2, <3>3
    <2>7. TypeOK'
      BY <1>1, <2>3, <2>4 DEF MemInv, TypeOK
    <2>8. \A p \in RetFifos : fifo'[p] = fifo[p]
      BY <1>3, <2>3 DEF Kept, Fifos, RetFifos
    <2>9. \A p \in RetFifos : DOMAIN fifo[p] # {} => OrderOn(p)' = OrderOn(p)
      BY <1>1, <2>1 DEF RetFifos, OrderOn, CoordOrder
    <2>10. AnswersInv' /\ ApartInv' /\ OwnedInv' /\ HeldInv'
      BY <1>1, <2>1, <2>8, <2>9, AnswersKept DEF MemInv, HeldInv
    <2>11. \A i \in DOMAIN fifo'["req2"] : fifo'["req2"][i] = BucketOrder
      <3>1. CASE q = "req2"
        <4>1. \A i \in DOMAIN Tail(fifo["req2"]) : \E j \in DOMAIN fifo["req2"] : Tail(fifo["req2"])[i] = fifo["req2"][j]
          BY <2>2, <3>1, TailIndex
        <4> QED
          BY <2>3, <3>1, <4>1 DEF MemInv, MuxInv
      <3>2. CASE q # "req2"
        BY <2>3, <3>2 DEF MemInv, MuxInv, Kept, Fifos
      <3> QED
        BY <3>1, <3>2
    <2>12. fifo'["fwd_ret"] = << >>
      BY <2>1, <2>8 DEF RetFifos
    <2>13. MuxInv'
      BY <2>4, <2>6, <2>11, <2>12 DEF MuxInv
    <2>14. CoordInv'
      <3>1. CASE q = "req1"
        <4>1. AtMux' /\ Waiting'
          BY <1>1, <1>3, <2>4, <2>5, <3>1 DEF AtMux, Waiting
        <4> QED
          BY <1>1, <2>5, <2>6, <2>8, <3>1, <4>1 DEF CoordInv, MemInv, RetFifos
      <3>2. CASE q = "req2"
        <4>1. ~AtMux' /\ (Waiting' <=> Waiting) /\ CoordOrder' = CoordOrder /\ fifo'["req1"] = fifo["req1"]
          BY <1>1, <1>3, <2>3, <2>4, <3>2 DEF AtMux, Waiting, CoordOrder, Kept, Fifos
        <4> QED
          BY <1>1, <2>1, <2>8, <4>1 DEF CoordInv, MemInv, RetFifos
      <3> QED
        BY <3>1, <3>2
    <2>15. BaseInv'
      BY <1>1, <1>3, <2>3 DEF MemInv, BaseInv, Waiting, Kept, Fifos
    <2> QED
      BY <2>7, <2>10, <2>13, <2>14, <2>15 DEF MemInv
  <1>4. CASE MuxSend
    BY <1>3, <1>4 DEF MuxSend, SendFrom
  <1>5. CASE MuxRet
    <2> DEFINE q == IF mux.channel = 1 THEN "ret1" ELSE "ret2"
               h == Head(fifo["fwd_ret"])
    <2>1. mux.state = "RET" /\ Ready("fwd_ret") /\ fifo' = Move("fwd_ret", q, h) /\ mux' = [mux EXCEPT !.state = "SEND"]
      BY <1>5 DEF MuxRet
    <2>2. fifo["fwd_req"] = << >> /\ Len(fifo["fwd_ret"]) = 1 /\ fifo["fwd_ret"] \in Seq(Answers)
      BY <2>1, FifoTypes DEF MemInv, TypeOK, MuxInv, Ready, RetFifos
    <2>3. q \in {"ret1", "ret2"} /\ (q = "ret1" <=> mux.channel = 1)
      BY <1>2
    <2>4. h \in Answers
      BY <2>1, HeadCarried, Carried DEF MemInv, TypeOK, Fifos, RetFifos
    <2> HIDE DEF q, h
    <2>5. /\ Kept({"fwd_ret", q}) /\ fifo'["fwd_ret"] = Tail(fifo["fwd_ret"])
          /\ fifo'[q] = Append(fifo[q], h) /\ FifosOK'
      <3>1. q \in Fifos /\ "fwd_ret" \in Fifos /\ q # "fwd_ret"
        BY <2>3 DEF Fifos
      <3>2. h \in Carries(q)
        BY <2>3, <2>4, Carried DEF RetFifos
      <3> QED
        <4>1. FifosOK
          BY DEF MemInv, TypeOK
        <4> QED
          BY <2>1, <3>1, <3>2, <4>1, MoveEffect, Zenon
    <2>6. fifo'["fwd_ret"] = << >>
      BY <2>2, <2>5, TailOfOne
    <2>7. mux'.state = "SEND" /\ mux'.channel = mux.channel /\ mux' \in [state : {"SEND", "RET"}, channel : {1, 2}]
      BY <2>1 DEF MemInv, TypeOK
    <2>8. TypeOK'
      BY <1>1, <2>5, <2>7 DEF MemInv, TypeOK
    <2>9. OrderOn(q) = OrderOn("fwd_ret") /\ \A p : OrderOn(p)' = OrderOn(p)
      BY <1>1, <2>3, <2>7 DEF OrderOn, MuxOrder, CoordOrder
    <2>10. \A p \in {"ret1", "ret2"} \ {q} : fifo'[p] = fifo[p]
      BY <2>5 DEF Kept, Fifos
    <2>11. AnswersInv' /\ ApartInv' /\ OwnedInv' /\ HeldInv'
      <3>1. fifo'[q] = Append(fifo[q], Head(fifo["fwd_ret"]))
        BY <2>5 DEF h
      <3> QED
        BY <1>1, <2>2, <2>3, <2>6, <2>9, <2>10, <3>1, AnswerForwarded DEF MemInv, TypeOK, HeldInv
    <2>12. MuxInv'
      BY <2>2, <2>3, <2>5, <2>6, <2>7, SMTT(60) DEF MemInv, MuxInv, Kept, Fifos
    <2>13. (Waiting' <=> Waiting) /\ CoordOrder' = CoordOrder /\ ~AtMux' /\ fifo'["req1"] = fifo["req1"]
      BY <1>1, <2>3, <2>5, <2>7 DEF Waiting, CoordOrder, AtMux, Kept, Fifos
    <2>14. CoordInv'
      <3>1. CASE q = "ret1"
        <4>1. AtMux
          BY <2>1, <2>3, <3>1 DEF AtMux
        <4>2. Waiting /\ fifo["req1"] = << >> /\ fifo["ret1"] = << >>
          BY <4>1 DEF MemInv, CoordInv
        <4>3. Len(fifo'["ret1"]) = 1
          <5>1. fifo'["ret1"] = <<h>>
            BY <2>5, <3>1, <4>2
          <5> QED
            BY <5>1
        <4> QED
          BY <1>1, <2>13, <4>2, <4>3 DEF MemInv, CoordInv
      <3>2. CASE q = "ret2"
        <4>1. ~AtMux /\ fifo'["ret1"] = fifo["ret1"]
          BY <2>3, <2>10, <3>2 DEF AtMux
        <4> QED
          BY <1>1, <2>13, <4>1 DEF MemInv, CoordInv
      <3> QED
        BY <2>3, <3>1, <3>2
    <2>15. BaseInv'
      BY <1>1, <2>3, <2>5 DEF MemInv, BaseInv, Waiting, Kept, Fifos
    <2> QED
      BY <2>8, <2>11, <2>12, <2>14, <2>15 DEF MemInv
  <1> QED
    BY <1>4, <1>5 DEF Mux

\* The allocator reads its base, if one has arrived, and serves a request.
LEMMA BuddyStep ==
  ASSUME Sizes, MemInv, BuddyAllocate
  PROVE  MemInv'
  <1> DEFINE rest == [fifo EXCEPT !.init_buddy = IF @ = << >> THEN @ ELSE Tail(@)]
             ib == IF fifo["init_buddy"] = << >> THEN fifo["init_buddy"] ELSE Tail(fifo["init_buddy"])
  <1>1. UNCHANGED <<coord, mux, owned, sent>>
    BY DEF BuddyAllocate
  <1>2. fifo["init_buddy"] \in Seq({SegBase}) /\ ib \in Seq({SegBase})
    BY FifoTypes, HeadTailProperties DEF MemInv, TypeOK
  <1>3. base' = NewBase /\ NewBase \in {0, SegBase} /\ (Waiting => NewBase = SegBase)
    <2>1. fifo["init_buddy"] # << >> => Head(fifo["init_buddy"]) = SegBase
      BY <1>2, HeadTailProperties
    <2>2. base' = IF fifo["init_buddy"] # << >> THEN Head(fifo["init_buddy"]) ELSE base
      BY DEF BuddyAllocate, Ready
    <2>3. NewBase = IF fifo["init_buddy"] # << >> THEN Head(fifo["init_buddy"]) ELSE base
      BY DEF NewBase, Ready
    <2>4. base \in {0, SegBase} /\ (Waiting => base = SegBase \/ fifo["init_buddy"] # << >>)
      BY DEF MemInv, TypeOK, BaseInv
    <2> QED
      BY <2>1, <2>2, <2>3, <2>4
  <1>4. /\ rest = [q \in Fifos |-> rest[q]] /\ rest["init_buddy"] = ib
        /\ \A q \in Fifos \ {"init_buddy"} : rest[q] = fifo[q]
    BY DEF MemInv, TypeOK, FifosOK, Fifos
  <1>5. Waiting' <=> Waiting
    BY <1>1 DEF Waiting
  <1>6. BaseInv'
    BY <1>3, <1>5 DEF BaseInv
  <1> HIDE DEF ib
  <1>7. ASSUME FifosOK' PROVE TypeOK'
    BY <1>1, <1>3, <1>7 DEF MemInv, TypeOK
  <1>8. (AtMux' <=> AtMux) /\ CoordOrder' = CoordOrder /\ MuxOrder' = MuxOrder /\ \A q : OrderOn(q)' = OrderOn(q)
    BY <1>1 DEF AtMux, CoordOrder, MuxOrder, OrderOn
  <1>9. ASSUME Kept({"init_buddy", "fwd_req", "fwd_ret"}) PROVE CoordInv'
    BY <1>1, <1>5, <1>8, <1>9 DEF MemInv, CoordInv, Kept, Fifos
  <1>10. CASE fifo' = rest /\ UNCHANGED lent
    <2>1. Kept({"init_buddy"}) /\ fifo'["init_buddy"] = ib
      BY <1>4, <1>10 DEF Kept
    <2>2. FifosOK'
      BY <1>2, <2>1, FifosFrame, Carried DEF MemInv, TypeOK
    <2>3. \A q \in RetFifos : fifo'[q] = fifo[q]
      BY <2>1 DEF Kept, Fifos, RetFifos
    <2>4. AnswersInv' /\ ApartInv' /\ OwnedInv' /\ HeldInv'
      BY <1>1, <1>8, <1>10, <2>3, AnswersKept DEF MemInv, HeldInv
    <2>5. MuxInv'
      BY <1>1, <1>8, <2>1 DEF MemInv, MuxInv, Kept, Fifos
    <2>6. CoordInv'
      BY <1>9, <2>1 DEF Kept
    <2> QED
      BY <1>6, <1>7, <2>2, <2>4, <2>5, <2>6 DEF MemInv
  <1>11. ASSUME Ready("fwd_req"), NEW r \in Answers,
                fifo' = [rest EXCEPT !.fwd_req = Tail(@), !.fwd_ret = Append(@, r)]
         PROVE  /\ fifo["fwd_req"] = <<MuxOrder>> /\ fifo["fwd_ret"] = << >> /\ fifo'["fwd_ret"] = <<r>>
                /\ TypeOK' /\ MuxInv' /\ CoordInv' /\ \A q \in {"ret1", "ret2"} : fifo'[q] = fifo[q]
    <2>1. fifo["fwd_req"] # << >>
      BY <1>11 DEF Ready
    <2>2. mux.state \in {"SEND", "RET"}
      BY DEF MemInv, TypeOK
    <2>3. mux.state = "RET" /\ fifo["fwd_req"] = <<MuxOrder>> /\ fifo["fwd_ret"] = << >>
      BY <2>1, <2>2 DEF MemInv, MuxInv
    <2>4. /\ Kept({"init_buddy", "fwd_req", "fwd_ret"}) /\ fifo'["init_buddy"] = ib
          /\ fifo'["fwd_req"] = Tail(fifo["fwd_req"]) /\ fifo'["fwd_ret"] = Append(fifo["fwd_ret"], r)
      <3> HIDE DEF rest
      <3> QED
        BY <1>4, <1>11 DEF Kept, Fifos
    <2>5. fifo'["fwd_req"] = << >>
      BY <2>3, <2>4, Singleton
    <2>6. fifo'["fwd_ret"] = <<r>> /\ <<r>> \in Seq(Answers) /\ Len(<<r>>) = 1
      BY <2>3, <2>4
    <2>7. FifosOK'
      <3>1. << >> \in Seq(Carries("fwd_req"))
        OBVIOUS
      <3>2. FifosOK /\ Carries("fwd_ret") = Answers /\ Carries("init_buddy") = {SegBase}
        BY Carried DEF MemInv, TypeOK, RetFifos
      <3>3. \A q \in {"init_buddy", "fwd_req", "fwd_ret"} : fifo'[q] \in Seq(Carries(q))
        BY <1>2, <2>4, <2>5, <2>6, <3>1, <3>2
      <3> QED
        BY <2>4, <3>2, <3>3, FifosFrame
    <2>8. MuxInv'
      BY <1>1, <2>3, <2>4, <2>5, <2>6 DEF MemInv, MuxInv, Kept, Fifos
    <2>9. \A q \in {"ret1", "ret2"} : fifo'[q] = fifo[q]
      BY <2>4 DEF Kept, Fifos
    <2> QED
      BY <1>7, <1>9, <2>3, <2>4, <2>6, <2>7, <2>8, <2>9
  <1>12. ASSUME Ready("fwd_req"), NEW a \in 0 .. PagingUnits - 1,
                Promise!Unused(Promise!Block(a, Head(fifo.fwd_req))), lent' = lent \cup {Promise!Block(a, Head(fifo.fwd_req))},
                fifo' = [rest EXCEPT !.fwd_req = Tail(@), !.fwd_ret = Append(@, [ok |-> TRUE, addr |-> NewBase + a])]
         PROVE  MemInv'
    <2> DEFINE r == [ok |-> TRUE, addr |-> NewBase + a]
    <2>1. r \in Answers
      BY <1>3 DEF Answers, Sizes
    <2>2. /\ fifo["fwd_req"] = <<MuxOrder>> /\ fifo["fwd_ret"] = << >> /\ fifo'["fwd_ret"] = <<r>>
          /\ TypeOK' /\ MuxInv' /\ CoordInv' /\ \A q \in {"ret1", "ret2"} : fifo'[q] = fifo[q]
      <3> HIDE DEF rest
      <3> QED
        BY <1>11, <1>12, <2>1
    <2>3. Head(fifo["fwd_req"]) = MuxOrder
      BY <2>2, Singleton
    <2>4. Promise!Unused(Promise!Block(a, MuxOrder)) /\ lent' = lent \cup {Promise!Block(a, MuxOrder)}
      BY <1>12, <2>3
    <2>5. mux.channel = 1 => NewBase = SegBase
      <3>1. mux.state \in {"SEND", "RET"}
        BY DEF MemInv, TypeOK
      <3>2. mux.state = "RET"
        BY <1>12, <3>1 DEF MemInv, MuxInv, Ready
      <3>3. mux.channel = 1 => Waiting
        BY <3>2 DEF MemInv, CoordInv, AtMux
      <3> QED
        BY <1>3, <3>3
    <2>6. AnswersInv' /\ ApartInv' /\ OwnedInv' /\ HeldInv'
      BY <1>1, <1>3, <2>2, <2>4, <2>5, AnswerGiven DEF MemInv, TypeOK
    <2> QED
      BY <1>6, <2>2, <2>6 DEF MemInv
  <1>13. ASSUME Ready("fwd_req"), UNCHANGED lent,
                fifo' = [rest EXCEPT !.fwd_req = Tail(@), !.fwd_ret = Append(@, [ok |-> FALSE, addr |-> 0])]
         PROVE  MemInv'
    <2> DEFINE r == [ok |-> FALSE, addr |-> 0]
    <2>1. r \in Answers
      BY DEF Answers
    <2>2. /\ fifo["fwd_ret"] = << >> /\ fifo'["fwd_ret"] = <<r>>
          /\ TypeOK' /\ MuxInv' /\ CoordInv' /\ \A q \in {"ret1", "ret2"} : fifo'[q] = fifo[q]
      <3> HIDE DEF rest
      <3> QED
        BY <1>11, <1>13, <2>1
    <2>3. DOMAIN fifo'["fwd_ret"] = {1} /\ ~fifo'["fwd_ret"][1].ok
      <3>1. DOMAIN fifo'["fwd_ret"] = {1} /\ fifo'["fwd_ret"][1] = r
        BY <2>2
      <3>2. r.ok = FALSE
        OBVIOUS
      <3> QED
        BY <3>1, <3>2
    <2>4. \A q \in RetFifos : \A i \in DOMAIN fifo'[q] : fifo'[q][i].ok => i \in DOMAIN fifo[q] /\ fifo'[q][i] = fifo[q][i]
      BY <2>2, <2>3 DEF RetFifos
    <2>5. AnswersInv'
      BY <1>1, <1>8, <1>13, <2>4 DEF MemInv, AnswersInv, Lying, Blk
    <2>6. ApartInv'
      BY <1>1, <1>8, <2>4 DEF MemInv, ApartInv, Blk
    <2>7. OwnedInv' /\ HeldInv'
      BY <1>1, <1>13 DEF MemInv, OwnedInv, HeldInv, Lying, Blk
    <2> QED
      BY <1>6, <2>2, <2>5, <2>6, <2>7 DEF MemInv
  <1> QED
    BY <1>10, <1>12, <1>13 DEF BuddyAllocate

LEMMA MemInit ==
  ASSUME Sizes, InitPaging
  PROVE  MemInv
  <1>1. \A q \in Fifos : fifo[q] = << >>
    BY DEF InitPaging
  <1>2. fifo = [q \in Fifos |-> fifo[q]]
    BY DEF InitPaging
  <1>3. FifosOK
    BY <1>1, <1>2, EmptySeq DEF FifosOK
  <1>4. TypeOK
    BY <1>3 DEF InitPaging, TypeOK
  <1>5. MuxInv /\ CoordInv /\ BaseInv
    BY <1>1 DEF InitPaging, MuxInv, CoordInv, BaseInv, Waiting, AtMux, Fifos
  <1>6. HeldInv /\ OwnedInv
    BY DEF InitPaging, HeldInv, OwnedInv
  <1>7. AnswersInv /\ ApartInv
    BY <1>1 DEF AnswersInv, ApartInv, Fifos, RetFifos
  <1> QED
    BY <1>4, <1>5, <1>6, <1>7 DEF MemInv

LEMMA MemStep ==
  ASSUME Sizes, MemInv, [NextPaging]_pagingVars
  PROVE  MemInv'
  <1>1. CASE Coordinator
    BY <1>1, CoordStartStep, CoordRetStep DEF Coordinator
  <1>2. CASE UNCHANGED pagingVars
    <2>1. TypeOK'
      BY <1>2 DEF MemInv, TypeOK, FifosOK, pagingVars
    <2> QED
      BY <1>2, <2>1, MemFrame DEF pagingVars
  <1> QED
    BY <1>1, <1>2, CommandStep, AskStep, BusStep, TakeStep, MuxStep, BuddyStep, SegmentStep DEF NextPaging

\* Owners of disjoint blocks have disjoint memory, wherever the base was when they got it.
LEMMA MemSound ==
  ASSUME Sizes, MemInv
  PROVE  OwnersDisjoint /\ PlacedInSegment
  <1>1. \A o \in owned : /\ o.addr \in Nat /\ o.order \in Nat /\ 2^o.order \in Int
                         /\ InReach(o.addr) /\ (o.who # "bucket" => o.addr >= SegBase)
                         /\ [addr |-> Rel(o.addr), order |-> o.order] \in lent
                         /\ Rel(o.addr) .. Rel(o.addr) + 2^o.order - 1 \subseteq 0 .. PagingUnits - 1
    <2> SUFFICES ASSUME NEW o \in owned
                 PROVE  /\ o.addr \in Nat /\ o.order \in Nat /\ 2^o.order \in Int
                        /\ InReach(o.addr) /\ (o.who # "bucket" => o.addr >= SegBase)
                        /\ [addr |-> Rel(o.addr), order |-> o.order] \in lent
                        /\ Rel(o.addr) .. Rel(o.addr) + 2^o.order - 1 \subseteq 0 .. PagingUnits - 1
      OBVIOUS
    <2>1. o.addr \in Nat /\ o.order \in Nat
      BY DEF MemInv, TypeOK, Owners
    <2>2. 2^o.order \in Int
      BY <2>1
    <2>3. InReach(o.addr) /\ (o.who # "bucket" => o.addr >= SegBase) /\ Blk(o, o.order) \in lent
      BY DEF MemInv, OwnedInv, Lying
    <2>4. Promise!Units(Blk(o, o.order)) \subseteq 0 .. PagingUnits - 1
      BY <2>3 DEF MemInv, HeldInv, Promise!Aligned
    <2>5. Blk(o, o.order) = [addr |-> Rel(o.addr), order |-> o.order]
      BY DEF Blk, Promise!Block
    <2>6. Promise!Units(Blk(o, o.order)) = Rel(o.addr) .. Rel(o.addr) + 2^o.order - 1
      BY <2>5 DEF Promise!Units
    <2> QED
      BY <2>1, <2>2, <2>3, <2>4, <2>5, <2>6
  <1>2. ASSUME NEW o \in owned, NEW x \in Span(o)
        PROVE  x \in Int /\ Rel(x) \in Rel(o.addr) .. Rel(o.addr) + 2^o.order - 1 /\ (x >= SegBase <=> o.addr >= SegBase)
    <2>1. /\ o.addr \in Nat /\ 2^o.order \in Int /\ InReach(o.addr)
          /\ Rel(o.addr) .. Rel(o.addr) + 2^o.order - 1 \subseteq 0 .. PagingUnits - 1
      BY <1>1
    <2>2. x \in Int /\ o.addr <= x /\ x <= o.addr + 2^o.order - 1
      BY <2>1 DEF Span
    <2>3. (Rel(o.addr) = o.addr /\ o.addr < PagingUnits) \/ (Rel(o.addr) = o.addr - SegBase /\ o.addr >= SegBase)
      BY <2>1 DEF InReach, Rel, Sizes
    <2>4. x - o.addr + Rel(o.addr) \in Rel(o.addr) .. Rel(o.addr) + 2^o.order - 1
      BY <2>1, <2>2, <2>3 DEF Sizes
    <2>5. x - o.addr + Rel(o.addr) \in 0 .. PagingUnits - 1
      BY <2>1, <2>4
    <2>6. Rel(x) = x - o.addr + Rel(o.addr)
      BY <2>1, <2>2, <2>3, <2>5 DEF Rel, Sizes
    <2>7. x >= SegBase <=> o.addr >= SegBase
      BY <2>1, <2>2, <2>3, <2>5 DEF Sizes
    <2> QED
      BY <2>2, <2>4, <2>6, <2>7
  <1>3. ASSUME NEW o \in owned, NEW p \in owned, o # p
        PROVE  Span(o) \cap Span(p) = {}
    <2> SUFFICES ASSUME NEW x \in Span(o) \cap Span(p) PROVE FALSE
      OBVIOUS
    <2>1. Promise!Units(Blk(o, o.order)) \cap Promise!Units(Blk(p, p.order)) = {}
      BY <1>3 DEF MemInv, OwnedInv, Promise!Disjoint
    <2>2. /\ Promise!Units(Blk(o, o.order)) = Rel(o.addr) .. Rel(o.addr) + 2^o.order - 1
          /\ Promise!Units(Blk(p, p.order)) = Rel(p.addr) .. Rel(p.addr) + 2^p.order - 1
      BY DEF Blk, Promise!Block, Promise!Units
    <2> QED
      BY <1>2, <2>1, <2>2
  <1>4. ASSUME NEW o \in owned PROVE \E b \in lent : o.order = b.order /\ o.addr - b.addr \in {0, SegBase}
    <2> DEFINE b == [addr |-> Rel(o.addr), order |-> o.order]
    <2>1. b \in lent /\ b.addr = Rel(o.addr) /\ b.order = o.order /\ o.addr \in Nat
      BY <1>1
    <2>2. o.addr - Rel(o.addr) \in {0, SegBase}
      BY <2>1 DEF Rel, Sizes
    <2> QED
      BY <2>1, <2>2
  <1>5. ASSUME NEW o \in owned, o.who # "bucket", NEW x \in Span(o) PROVE x \in SegBase .. SegBase + PagingUnits - 1
    <2>1. x \in Int /\ x >= SegBase /\ Rel(x) \in 0 .. PagingUnits - 1
      BY <1>1, <1>2, <1>5
    <2> QED
      BY <2>1 DEF Rel, Sizes
  <1>6. OwnersDisjoint
    BY <1>3, <1>4 DEF OwnersDisjoint
  <1>7. PlacedInSegment
    BY <1>5 DEF PlacedInSegment
  <1> QED
    BY <1>6, <1>7

-----------------------------------------------------------------------------
(* The bus. A lemma for each way a step changes what is in flight.         *)

LEMMA WordsAppend ==
  ASSUME NEW s \in Seq(PiWords), NEW w \in PiWords, NEW type
  PROVE  /\ Words(Append(s, w), type) = IF w.type = type THEN Words(s, type) \cup {Len(s) + 1} ELSE Words(s, type)
         /\ Append(s, w)[Len(s) + 1] = w
         /\ \A i \in Words(s, type) : i \in Nat /\ i < Len(s) + 1 /\ Append(s, w)[i] = s[i] /\ s[i].addr \in Nat
  <1>1. /\ DOMAIN Append(s, w) = DOMAIN s \cup {Len(s) + 1}
        /\ Append(s, w)[Len(s) + 1] = w /\ Len(s) + 1 \notin DOMAIN s
        /\ \A i \in DOMAIN s : Append(s, w)[i] = s[i]
    BY AppendIndex
  <1>2. \A i \in DOMAIN s : i \in Nat /\ i < Len(s) + 1 /\ s[i] \in PiWords
    BY LenProperties, ElementOfSeq
  <1>3. \A i \in DOMAIN s : s[i].addr \in Nat
    BY <1>2 DEF PiWords
  <1> QED
    BY <1>1, <1>2, <1>3 DEF Words

LEMMA WordsTail ==
  ASSUME NEW s \in Seq(PiWords), s # << >>, NEW type
  PROVE  /\ \A i \in Words(Tail(s), type) : i \in Nat /\ i + 1 \in Words(s, type) /\ i + 1 # 1 /\ Tail(s)[i] = s[i + 1]
         /\ \A i \in Words(s, type) : i = 1 \/ (i - 1 \in Words(Tail(s), type) /\ Tail(s)[i - 1] = s[i] /\ i > 1)
         /\ Head(s) = s[1] /\ Head(s) \in PiWords /\ (Head(s).type = type <=> 1 \in Words(s, type))
         /\ \A i \in Words(s, type) : i \in Nat /\ s[i].addr \in Nat
  <1>1. \A i \in DOMAIN s : i \in Nat /\ i >= 1 /\ s[i] \in PiWords
    BY LenProperties, ElementOfSeq
  <1>2. \A i \in DOMAIN s : s[i].addr \in Nat
    BY <1>1 DEF PiWords
  <1> QED
    BY <1>1, <1>2, TailIndex DEF Words

LEMMA OrderedTail ==
  ASSUME NEW s \in Seq(PiWords), s # << >>, NEW type, Ordered(s, type)
  PROVE  Ordered(Tail(s), type)
  <1> DEFINE t == Tail(s)
  <1>1. \A i \in Words(t, type) : i \in Nat /\ i + 1 \in Words(s, type) /\ i + 1 # 1 /\ t[i] = s[i + 1]
    BY WordsTail, ZenonT(40)
  <1> HIDE DEF t
  <1>2. ASSUME NEW i \in Words(t, type), NEW j \in Words(t, type), i < j PROVE t[i].addr < t[j].addr
    <2>1. i + 1 \in Words(s, type) /\ j + 1 \in Words(s, type) /\ i + 1 < j + 1
      BY <1>1, <1>2
    <2>2. s[i + 1].addr < s[j + 1].addr
      BY <2>1 DEF Ordered
    <2> QED
      BY <1>1, <2>2
  <1> QED
    BY <1>2 DEF Ordered, t

LEMMA FlightIn ==
  ASSUME NEW in \in Seq(PiWords), NEW out \in Seq(PiWords), NEW type, NEW lo \in Nat, NEW hi \in Nat, lo <= hi,
         InFlight(in, out, type, lo, hi), NEW w \in PiWords, w.type = type, w.addr = hi + 1
  PROVE  InFlight(Append(in, w), out, type, lo, hi + 1)
  <1> DEFINE t == Append(in, w)
             e == Len(in) + 1
  <1>1. /\ Words(t, type) = Words(in, type) \cup {e} /\ t[e] = w
        /\ \A i \in Words(in, type) : i \in Nat /\ i < e /\ t[i] = in[i] /\ in[i].addr \in Nat
    BY WordsAppend
  <1>2. e \in Nat
    BY LenProperties
  <1> HIDE DEF t, e
  <1>3. \A i \in Words(in, type) : in[i].addr \in lo + 1 .. hi /\ in[i].addr < w.addr
    BY <1>1 DEF InFlight
  <1>4. \A i \in Words(out, type) : out[i].addr \in lo + 1 .. hi /\ out[i].addr < w.addr
    BY DEF InFlight
  <1>5. Ordered(t, type)
    BY <1>1, <1>2, <1>3 DEF InFlight, Ordered
  <1>6. \A k \in lo + 1 .. hi + 1 : k \in lo + 1 .. hi \/ k = w.addr
    OBVIOUS
  <1>7. \A k \in lo + 1 .. hi + 1 : \/ \E i \in Words(t, type) : t[i].addr = k
                                    \/ \E i \in Words(out, type) : out[i].addr = k
    BY <1>1, <1>6 DEF InFlight
  <1>8. \A i \in Words(t, type) : t[i].addr \in lo + 1 .. hi + 1
    BY <1>1, <1>3
  <1>9. \A i \in Words(out, type) : out[i].addr \in lo + 1 .. hi + 1
    BY <1>4
  <1>10. \A i \in Words(out, type), j \in Words(t, type) : out[i].addr < t[j].addr
    BY <1>1, <1>4 DEF InFlight
  <1>11. Ordered(out, type)
    BY DEF InFlight
  <1> QED
    BY <1>5, <1>7, <1>8, <1>9, <1>10, <1>11 DEF InFlight, t

LEMMA FlightOther ==
  ASSUME NEW in \in Seq(PiWords), NEW out \in Seq(PiWords), NEW type, NEW lo, NEW hi,
         InFlight(in, out, type, lo, hi), NEW w \in PiWords, w.type # type
  PROVE  InFlight(Append(in, w), out, type, lo, hi)
  <1> DEFINE t == Append(in, w)
  <1>a. /\ Words(t, type) = IF w.type = type THEN Words(in, type) \cup {Len(in) + 1} ELSE Words(in, type)
        /\ t[Len(in) + 1] = w
        /\ \A i \in Words(in, type) : i \in Nat /\ i < Len(in) + 1 /\ t[i] = in[i] /\ in[i].addr \in Nat
    BY WordsAppend
  <1> HIDE DEF t
  <1>1. Words(t, type) = Words(in, type) /\ \A i \in Words(in, type) : t[i] = in[i]
    BY <1>a
  <1>2. Ordered(t, type)
    BY <1>1 DEF InFlight, Ordered
  <1> QED
    BY <1>1, <1>2 DEF InFlight, t

LEMMA FlightParse ==
  ASSUME NEW in \in Seq(PiWords), in # << >>, NEW out \in Seq(PiWords), NEW type, NEW lo \in Nat, NEW hi \in Nat,
         InFlight(in, out, type, lo, hi), NEW w \in PiWords, w.type = Head(in).type,
         w.type = type => w.addr = Head(in).addr
  PROVE  InFlight(Tail(in), Append(out, w), type, lo, hi)
  <1> DEFINE t == Tail(in)
             u == Append(out, w)
             e == Len(out) + 1
  <1>1. /\ \A i \in Words(t, type) : i \in Nat /\ i + 1 \in Words(in, type) /\ i + 1 # 1 /\ t[i] = in[i + 1]
        /\ \A i \in Words(in, type) : i = 1 \/ (i - 1 \in Words(t, type) /\ t[i - 1] = in[i] /\ i > 1)
        /\ Head(in) = in[1] /\ Head(in) \in PiWords /\ (Head(in).type = type <=> 1 \in Words(in, type))
        /\ \A i \in Words(in, type) : i \in Nat /\ in[i].addr \in Nat
    BY WordsTail
  <1>2. /\ Words(u, type) = IF w.type = type THEN Words(out, type) \cup {e} ELSE Words(out, type)
        /\ u[e] = w
        /\ \A i \in Words(out, type) : i \in Nat /\ i < e /\ u[i] = out[i] /\ out[i].addr \in Nat
    BY WordsAppend
  <1>3. e \in Nat
    BY LenProperties
  <1> HIDE DEF t, u, e
  <1>4. w.type = type => 1 \in Words(in, type) /\ w.addr = in[1].addr
    BY <1>1
  <1>5. \A i \in Words(t, type) : i + 1 > 1 /\ i \in Nat
    BY <1>1
  <1>6. Ordered(t, type)
    BY OrderedTail DEF InFlight, t
  <1>7. Ordered(u, type)
    BY <1>2, <1>3, <1>4 DEF InFlight, Ordered
  <1>8. \A i \in Words(t, type) : t[i].addr \in lo + 1 .. hi
    BY <1>1 DEF InFlight
  <1>9. \A i \in Words(u, type) : u[i].addr \in lo + 1 .. hi
    BY <1>2, <1>4 DEF InFlight
  <1>10. \A i \in Words(u, type), j \in Words(t, type) : u[i].addr < t[j].addr
    <2> SUFFICES ASSUME NEW i \in Words(u, type), NEW j \in Words(t, type) PROVE u[i].addr < t[j].addr
      OBVIOUS
    <2>1. j + 1 \in Words(in, type) /\ t[j] = in[j + 1] /\ 1 < j + 1
      BY <1>1, <1>5
    <2>2. CASE i \in Words(out, type)
      BY <1>2, <2>1, <2>2 DEF InFlight
    <2>3. CASE i = e /\ w.type = type
      BY <1>2, <1>4, <2>1, <2>3 DEF InFlight, Ordered
    <2> QED
      BY <1>2, <2>2, <2>3
  <1>11. ASSUME NEW k \in lo + 1 .. hi
         PROVE  (\E i \in Words(t, type) : t[i].addr = k) \/ (\E i \in Words(u, type) : u[i].addr = k)
    <2>1. CASE \E i \in Words(out, type) : out[i].addr = k
      BY <1>2, <2>1
    <2>2. ASSUME NEW i \in Words(in, type), in[i].addr = k
          PROVE  (\E j \in Words(t, type) : t[j].addr = k) \/ (\E j \in Words(u, type) : u[j].addr = k)
      <3>1. CASE i = 1
        <4>1. w.type = type /\ w.addr = k /\ e \in Words(u, type) /\ u[e] = w
          BY <1>1, <1>2, <1>4, <2>2, <3>1
        <4> QED
          BY <4>1
      <3>2. CASE i # 1
        BY <1>1, <2>2, <3>2
      <3> QED
        BY <3>1, <3>2
    <2> QED
      BY <2>1, <2>2 DEF InFlight
  <1> QED
    BY <1>6, <1>7, <1>8, <1>9, <1>10, <1>11 DEF InFlight, t, u

\* What leaves the unit is next in turn.
LEMMA FlightOut ==
  ASSUME NEW in \in Seq(PiWords), NEW out \in Seq(PiWords), out # << >>, NEW type, NEW lo \in Nat, NEW hi \in Nat,
         InFlight(in, out, type, lo, hi)
  PROVE  /\ Head(out).type = type => Head(out).addr = lo + 1 /\ lo + 1 <= hi /\ InFlight(in, Tail(out), type, lo + 1, hi)
         /\ Head(out).type # type => InFlight(in, Tail(out), type, lo, hi)
  <1> DEFINE t == Tail(out)
             h == Head(out)
  <1>1. /\ \A i \in Words(t, type) : i \in Nat /\ i + 1 \in Words(out, type) /\ i + 1 # 1 /\ t[i] = out[i + 1]
        /\ \A i \in Words(out, type) : i = 1 \/ (i - 1 \in Words(t, type) /\ t[i - 1] = out[i] /\ i > 1)
        /\ h = out[1] /\ (h.type = type <=> 1 \in Words(out, type))
        /\ \A i \in Words(out, type) : i \in Nat /\ out[i].addr \in Nat
    BY WordsTail, ZenonT(40)
  <1> HIDE DEF t, h
  <1>2. Ordered(t, type) /\ Ordered(in, type)
    BY OrderedTail DEF InFlight, t
  <1>3. \A i \in Words(t, type), j \in Words(in, type) : t[i].addr < in[j].addr
    BY <1>1 DEF InFlight
  <1>4. \A i \in Words(t, type) : t[i].addr \in lo + 1 .. hi
    BY <1>1 DEF InFlight
  <1>5. ASSUME h.type = type PROVE h.addr = lo + 1 /\ lo + 1 <= hi /\ InFlight(in, t, type, lo + 1, hi)
    <2>1. h.addr \in lo + 1 .. hi
      BY <1>1, <1>5 DEF InFlight
    <2>2. /\ \A i \in Words(t, type) : h.addr < t[i].addr
          /\ \A i \in Words(in, type) : h.addr < in[i].addr
      <3>1. \A i \in Words(t, type) : 1 < i + 1
        BY <1>1
      <3> QED
        BY <1>1, <1>5, <3>1 DEF InFlight, Ordered
    <2>3. lo + 1 \in lo + 1 .. hi
      BY <2>1
    <2>4. \A i \in Words(in, type) : in[i].addr \in lo + 1 .. hi
      BY DEF InFlight
    <2>5. \A k \in lo + 1 .. hi : \/ \E i \in Words(in, type) : in[i].addr = k
                                  \/ \E i \in Words(t, type) : t[i].addr = k
                                  \/ h.addr = k
      <3> SUFFICES ASSUME NEW k \in lo + 1 .. hi, NEW i \in Words(out, type), out[i].addr = k
                   PROVE  (\E j \in Words(t, type) : t[j].addr = k) \/ h.addr = k
        BY DEF InFlight
      <3>1. CASE i = 1
        BY <1>1, <3>1
      <3>2. CASE i # 1
        <4>1. i - 1 \in Words(t, type) /\ t[i - 1] = out[i]
          BY <1>1, <3>2
        <4> QED
          BY <4>1
      <3> QED
        BY <3>1, <3>2
    <2>6. h.addr = lo + 1
      BY <1>4, <2>1, <2>2, <2>3, <2>4, <2>5
    <2>7. \A i \in Words(t, type) : t[i].addr \in (lo + 1) + 1 .. hi
      BY <1>4, <2>2, <2>6
    <2>8. \A i \in Words(in, type) : in[i].addr \in (lo + 1) + 1 .. hi
      BY <2>2, <2>4, <2>6
    <2>9. \A k \in (lo + 1) + 1 .. hi : \/ \E i \in Words(in, type) : in[i].addr = k
                                        \/ \E i \in Words(t, type) : t[i].addr = k
      BY <2>5, <2>6
    <2>10. InFlight(in, t, type, lo + 1, hi)
      BY <1>2, <1>3, <2>7, <2>8, <2>9 DEF InFlight
    <2> QED
      BY <2>1, <2>6, <2>10
  <1>6. ASSUME h.type # type PROVE InFlight(in, t, type, lo, hi)
    <2>1. \A i \in Words(out, type) : i - 1 \in Words(t, type) /\ t[i - 1] = out[i]
      BY <1>1, <1>6
    <2>2. \A k \in lo + 1 .. hi : \/ \E i \in Words(in, type) : in[i].addr = k
                                  \/ \E i \in Words(t, type) : t[i].addr = k
      <3> SUFFICES ASSUME NEW k \in lo + 1 .. hi, NEW i \in Words(out, type), out[i].addr = k
                   PROVE  \E j \in Words(t, type) : t[j].addr = k
        BY DEF InFlight
      <3>1. i - 1 \in Words(t, type) /\ t[i - 1] = out[i]
        BY <2>1
      <3> QED
        BY <3>1
    <2>3. \A i \in Words(in, type) : in[i].addr \in lo + 1 .. hi
      BY DEF InFlight
    <2> QED
      BY <1>2, <1>3, <1>4, <2>2, <2>3 DEF InFlight
  <1> QED
    BY <1>5, <1>6 DEF t, h

-----------------------------------------------------------------------------
(* The same for a channel, its waiting requests and its answers included.  *)

LEMMA TurnSizes ==
  ASSUME NEW waiting \in Seq(Nat), NEW given \in Seq(Answers), NEW n \in Nat, InTurn(waiting, given, n)
  PROVE  Len(given) \in Nat /\ Len(waiting) \in Nat /\ n - Len(waiting) \in Nat /\ Len(given) <= n - Len(waiting)
  <1>1. Len(given) \in Nat /\ Len(waiting) \in Nat
    BY LenProperties
  <1> QED
    BY <1>1 DEF InTurn

LEMMA ChannelAsked ==
  ASSUME NEW waiting \in Seq(Nat), NEW given \in Seq(Answers), NEW in, NEW out, NEW type, NEW n \in Nat,
         Channel(type, waiting, in, out, given, n)
  PROVE  Channel(type, Append(waiting, n + 1), in, out, given, n + 1)
  <1> DEFINE w == Append(waiting, n + 1)
  <1>1. /\ DOMAIN w = DOMAIN waiting \cup {Len(waiting) + 1} /\ w[Len(waiting) + 1] = n + 1
        /\ \A i \in DOMAIN waiting : w[i] = waiting[i]
    BY AppendIndex
  <1>2. Len(w) = Len(waiting) + 1
    BY AppendProperties
  <1> HIDE DEF w
  <1>3. Len(given) \in Nat /\ Len(waiting) \in Nat /\ Len(given) <= n - Len(waiting) /\ (n + 1) - Len(w) = n - Len(waiting)
    BY <1>2, TurnSizes DEF Channel
  <1>4. ASSUME NEW i \in DOMAIN w PROVE w[i] = (n + 1) - Len(w) + i
    BY <1>1, <1>3 DEF Channel, InTurn
  <1>5. InTurn(w, given, n + 1)
    BY <1>3, <1>4 DEF Channel, InTurn
  <1>6. InFlight(in, out, type, Len(given), (n + 1) - Len(w))
    BY <1>3 DEF Channel
  <1> QED
    BY <1>5, <1>6 DEF Channel, w

LEMMA ChannelEntered ==
  ASSUME NEW waiting \in Seq(Nat), waiting # << >>, NEW given \in Seq(Answers), NEW n \in Nat,
         NEW in \in Seq(PiWords), NEW out \in Seq(PiWords), NEW type,
         Channel(type, waiting, in, out, given, n),
         NEW w \in PiWords, w.type = type, w.addr = Head(waiting)
  PROVE  Channel(type, Tail(waiting), Append(in, w), out, given, n)
  <1> DEFINE t == Tail(waiting)
  <1>1. /\ Head(waiting) = waiting[1] /\ 1 \in DOMAIN waiting
        /\ \A i \in DOMAIN t : i \in Nat /\ i + 1 \in DOMAIN waiting /\ t[i] = waiting[i + 1]
    BY TailIndex
  <1>2. Len(t) = Len(waiting) - 1 /\ Len(t) \in Nat
    BY HeadTailProperties, LenProperties
  <1> HIDE DEF t
  <1>3. /\ Len(given) \in Nat /\ Len(waiting) \in Nat /\ Len(given) <= n - Len(waiting) /\ n - Len(waiting) \in Nat
        /\ n - Len(t) = (n - Len(waiting)) + 1
    BY <1>2, TurnSizes DEF Channel
  <1>4. w.addr = (n - Len(waiting)) + 1
    BY <1>1, <1>3 DEF Channel, InTurn
  <1>5. InFlight(Append(in, w), out, type, Len(given), (n - Len(waiting)) + 1)
    BY <1>3, <1>4, FlightIn DEF Channel
  <1>6. ASSUME NEW i \in DOMAIN t PROVE t[i] = n - Len(t) + i
    <2>1. i \in Nat /\ t[i] = n - Len(waiting) + (i + 1)
      BY <1>1 DEF Channel, InTurn
    <2> QED
      BY <1>2, <1>3, <2>1
  <1>7. InTurn(t, given, n)
    BY <1>3, <1>6 DEF Channel, InTurn
  <1> QED
    BY <1>3, <1>5, <1>7 DEF Channel, t

LEMMA ChannelPassed ==
  ASSUME NEW waiting, NEW given, NEW n, NEW in \in Seq(PiWords), NEW out \in Seq(PiWords), NEW type,
         Channel(type, waiting, in, out, given, n), NEW w \in PiWords, w.type # type
  PROVE  Channel(type, waiting, Append(in, w), out, given, n)
  BY FlightOther DEF Channel

LEMMA ChannelParsed ==
  ASSUME NEW waiting \in Seq(Nat), NEW given \in Seq(Answers), NEW n \in Nat,
         NEW in \in Seq(PiWords), in # << >>, NEW out \in Seq(PiWords), NEW type,
         Channel(type, waiting, in, out, given, n),
         NEW w \in PiWords, w.type = Head(in).type, w.type = type => w.addr = Head(in).addr
  PROVE  Channel(type, waiting, Tail(in), Append(out, w), given, n)
  <1>1. Len(given) \in Nat /\ n - Len(waiting) \in Nat
    BY TurnSizes DEF Channel
  <1> QED
    BY <1>1, FlightParse DEF Channel

LEMMA ChannelAnswered ==
  ASSUME NEW waiting \in Seq(Nat), NEW given \in Seq(Answers), NEW n \in Nat,
         NEW in \in Seq(PiWords), NEW out \in Seq(PiWords), out # << >>, NEW type,
         Channel(type, waiting, in, out, given, n), NEW a \in Answers, a.addr = Head(out).addr
  PROVE  /\ Head(out).type = type => Channel(type, waiting, in, Tail(out), Append(given, a), n)
         /\ Head(out).type # type => Channel(type, waiting, in, Tail(out), given, n)
  <1> DEFINE g == Append(given, a)
             hi == n - Len(waiting)
             lo == Len(given)
             t == Tail(out)
             h == Head(out)
  <1>1. lo \in Nat /\ hi \in Nat /\ Len(waiting) \in Nat /\ lo <= hi
    BY TurnSizes DEF Channel
  <1>2. InFlight(in, out, type, lo, hi)
    BY DEF Channel
  <1>3. /\ DOMAIN g = DOMAIN given \cup {lo + 1} /\ g[lo + 1] = a
        /\ \A i \in DOMAIN given : g[i] = given[i]
    BY AppendIndex
  <1>4. Len(g) = lo + 1
    BY AppendProperties
  <1> HIDE DEF hi, lo
  <1>5. /\ h.type = type => h.addr = lo + 1 /\ lo + 1 <= hi /\ InFlight(in, t, type, lo + 1, hi)
        /\ h.type # type => InFlight(in, t, type, lo, hi)
    BY <1>1, <1>2, FlightOut
  <1> HIDE DEF g, h, t
  <1>6. ASSUME h.type = type PROVE Channel(type, waiting, in, t, g, n)
    <2>1. a.addr = lo + 1 /\ lo + 1 <= hi /\ InFlight(in, t, type, lo + 1, hi)
      BY <1>5, <1>6 DEF h
    <2>2. \A i \in DOMAIN g : g[i].addr = i
      BY <1>3, <2>1 DEF Channel, InTurn
    <2>3. InTurn(waiting, g, n)
      BY <1>4, <2>1, <2>2 DEF Channel, InTurn, hi
    <2> QED
      BY <1>4, <2>1, <2>3 DEF Channel, hi
  <1>7. ASSUME h.type # type PROVE Channel(type, waiting, in, t, given, n)
    BY <1>5, <1>7 DEF Channel, lo, hi
  <1> QED
    BY <1>6, <1>7 DEF h, t, g

-----------------------------------------------------------------------------
(* The steps of the bus.                                                   *)

BusFifos == {"rd_in", "wr_in", "pi_parser", "pi_out", "rd_out", "wr_out"}

LEMMA BusTypes ==
  ASSUME MemInv
  PROVE  /\ fifo["rd_in"] \in Seq(Nat) /\ fifo["wr_in"] \in Seq(Nat)
         /\ fifo["rd_out"] \in Seq(Answers) /\ fifo["wr_out"] \in Seq(Answers)
         /\ fifo["pi_parser"] \in Seq(PiWords) /\ fifo["pi_out"] \in Seq(PiWords)
         /\ sent.rd \in Nat /\ sent.wr \in Nat
  <1>1. fifo["pi_out"] \in Seq(PiDone)
    BY FifoTypes DEF MemInv, TypeOK
  <1>2. PiDone \subseteq PiWords
    BY DEF PiDone
  <1>3. fifo["pi_out"] \in Seq(PiWords)
    BY <1>1, <1>2
  <1> QED
    BY <1>3, FifoTypes DEF MemInv, TypeOK

LEMMA BusFrame ==
  ASSUME BusInv, \A q \in BusFifos : fifo'[q] = fifo[q], sent'.rd = sent.rd, sent'.wr = sent.wr
  PROVE  BusInv'
  BY DEF BusInv, BusFifos

LEMMA BusOther ==
  ASSUME MemInv, BusInv,
         Command \/ AskBucket \/ TakeBucket \/ Coordinator \/ Mux \/ BuddyAllocate \/ UNCHANGED pagingVars
  PROVE  BusInv'
  <1>1. sent'.rd = sent.rd /\ sent'.wr = sent.wr
    BY DEF Command, AskBucket, TakeBucket, Coordinator, Mux, BuddyAllocate, pagingVars, MemInv, TypeOK
  <1>2. fifo = [q \in Fifos |-> fifo[q]]
    BY DEF MemInv, TypeOK, FifosOK
  <1> USE DEF BusFifos, Fifos
  <1>3. CASE Command \/ AskBucket \/ TakeBucket \/ UNCHANGED pagingVars
    BY <1>1, <1>2, <1>3, BusFrame DEF Command, AskBucket, TakeBucket, pagingVars, Put
  <1>4. CASE Coordinator
    <2>1. CASE CoordIdle \/ InitAllocSeg \/ InitAllocSegRet
      BY <1>1, <1>2, <2>1, BusFrame, ZenonT(40) DEF CoordIdle, InitAllocSeg, InitAllocSegRet, Finished, Put
    <2>2. CASE InitAllocTabelRet
      BY <1>1, <1>2, <2>2, BusFrame DEF InitAllocTabelRet, Finished
    <2>3. CASE InitAllocMetaRet
      BY <1>1, <1>2, <2>3, BusFrame DEF InitAllocMetaRet, Finished
    <2> QED
      BY <1>4, <2>1, <2>2, <2>3 DEF Coordinator
  <1>5. CASE Mux
    BY <1>1, <1>2, <1>5, BusFrame DEF Mux, MuxSend, MuxRet, Move
  <1>6. CASE BuddyAllocate
    BY <1>1, <1>2, <1>6, BusFrame, ZenonT(40) DEF BuddyAllocate
  <1> QED
    BY <1>3, <1>4, <1>5, <1>6

LEMMA BusAsked ==
  ASSUME MemInv, BusInv, BusRequest
  PROVE  BusInv'
  <1>1. PICK ch \in {"rd", "wr"} :
          /\ fifo' = Put(IF ch = "rd" THEN "rd_in" ELSE "wr_in", sent[ch] + 1)
          /\ sent' = [sent EXCEPT ![ch] = @ + 1]
    BY DEF BusRequest
  <1>2. fifo = [q \in Fifos |-> fifo[q]] /\ sent \in [commands : Nat, buckets : Nat, rd : Nat, wr : Nat]
    BY DEF MemInv, TypeOK, FifosOK
  <1>3. CASE ch = "rd"
    <2>1. /\ fifo'["rd_in"] = Append(fifo["rd_in"], sent.rd + 1)
          /\ \A q \in BusFifos \ {"rd_in"} : fifo'[q] = fifo[q]
      BY <1>1, <1>2, <1>3 DEF Put, BusFifos, Fifos
    <2>2. sent'.rd = sent.rd + 1 /\ sent'.wr = sent.wr
      BY <1>1, <1>2, <1>3
    <2>3. Channel("RD", fifo'["rd_in"], fifo["pi_parser"], fifo["pi_out"], fifo["rd_out"], sent.rd + 1)
      BY <2>1, BusTypes, ChannelAsked DEF BusInv
    <2> QED
      BY <2>1, <2>2, <2>3 DEF BusInv, BusFifos
  <1>4. CASE ch = "wr"
    <2>1. /\ fifo'["wr_in"] = Append(fifo["wr_in"], sent.wr + 1)
          /\ \A q \in BusFifos \ {"wr_in"} : fifo'[q] = fifo[q]
      BY <1>1, <1>2, <1>4 DEF Put, BusFifos, Fifos
    <2>2. sent'.wr = sent.wr + 1 /\ sent'.rd = sent.rd
      BY <1>1, <1>2, <1>4
    <2>3. Channel("WR", fifo'["wr_in"], fifo["pi_parser"], fifo["pi_out"], fifo["wr_out"], sent.wr + 1)
      BY <2>1, BusTypes, ChannelAsked DEF BusInv
    <2> QED
      BY <2>1, <2>2, <2>3 DEF BusInv, BusFifos
  <1> QED
    BY <1>3, <1>4

LEMMA BusEntered ==
  ASSUME MemInv, BusInv, AggregateInput, sent' = sent
  PROVE  BusInv'
  <1> USE DEF BusFifos, Fifos
  <1>1. fifo = [q \in Fifos |-> fifo[q]]
    BY DEF MemInv, TypeOK, FifosOK
  <1>2. CASE Ready("seg_req") /\ fifo' = Move("seg_req", "pi_parser", Pi("CONTROL", 0))
    <2> DEFINE w == Pi("CONTROL", 0)
    <2>1. fifo'["pi_parser"] = Append(fifo["pi_parser"], w) /\ \A q \in BusFifos \ {"pi_parser"} : fifo'[q] = fifo[q]
      BY <1>1, <1>2 DEF Move
    <2>2. w \in PiWords /\ w.type = "CONTROL"
      BY DEF Pi, PiWords
    <2> HIDE DEF w
    <2>3. Channel("RD", fifo["rd_in"], Append(fifo["pi_parser"], w), fifo["pi_out"], fifo["rd_out"], sent.rd)
      BY <2>2, BusTypes, ChannelPassed DEF BusInv
    <2>4. Channel("WR", fifo["wr_in"], Append(fifo["pi_parser"], w), fifo["pi_out"], fifo["wr_out"], sent.wr)
      BY <2>2, BusTypes, ChannelPassed DEF BusInv
    <2> QED
      BY <2>1, <2>3, <2>4 DEF BusInv
  <1>3. CASE Ready("rd_in") /\ fifo' = Move("rd_in", "pi_parser", Pi("RD", Head(fifo.rd_in)))
    <2> DEFINE h == Head(fifo["rd_in"])
               w == Pi("RD", h)
    <2>1. /\ fifo'["pi_parser"] = Append(fifo["pi_parser"], w) /\ fifo'["rd_in"] = Tail(fifo["rd_in"])
          /\ \A q \in BusFifos \ {"pi_parser", "rd_in"} : fifo'[q] = fifo[q]
      BY <1>1, <1>3 DEF Move
    <2>2. h \in Nat /\ fifo["rd_in"] # << >>
      BY <1>3, BusTypes, HeadTailProperties DEF Ready
    <2> HIDE DEF h
    <2>3. w \in PiWords /\ w.type = "RD" /\ w.addr = h
      BY <2>2 DEF Pi, PiWords
    <2> HIDE DEF w
    <2>4. Channel("RD", Tail(fifo["rd_in"]), Append(fifo["pi_parser"], w), fifo["pi_out"], fifo["rd_out"], sent.rd)
      BY <2>2, <2>3, BusTypes, ChannelEntered DEF BusInv, h
    <2>5. Channel("WR", fifo["wr_in"], Append(fifo["pi_parser"], w), fifo["pi_out"], fifo["wr_out"], sent.wr)
      BY <2>3, BusTypes, ChannelPassed DEF BusInv
    <2> QED
      BY <2>1, <2>4, <2>5 DEF BusInv
  <1>4. CASE Ready("wr_in") /\ fifo' = Move("wr_in", "pi_parser", Pi("WR", Head(fifo.wr_in)))
    <2> DEFINE h == Head(fifo["wr_in"])
               w == Pi("WR", h)
    <2>1. /\ fifo'["pi_parser"] = Append(fifo["pi_parser"], w) /\ fifo'["wr_in"] = Tail(fifo["wr_in"])
          /\ \A q \in BusFifos \ {"pi_parser", "wr_in"} : fifo'[q] = fifo[q]
      BY <1>1, <1>4 DEF Move
    <2>2. h \in Nat /\ fifo["wr_in"] # << >>
      BY <1>4, BusTypes, HeadTailProperties DEF Ready
    <2> HIDE DEF h
    <2>3. w \in PiWords /\ w.type = "WR" /\ w.addr = h
      BY <2>2 DEF Pi, PiWords
    <2> HIDE DEF w
    <2>4. Channel("WR", Tail(fifo["wr_in"]), Append(fifo["pi_parser"], w), fifo["pi_out"], fifo["wr_out"], sent.wr)
      BY <2>2, <2>3, BusTypes, ChannelEntered DEF BusInv, h
    <2>5. Channel("RD", fifo["rd_in"], Append(fifo["pi_parser"], w), fifo["pi_out"], fifo["rd_out"], sent.rd)
      BY <2>3, BusTypes, ChannelPassed DEF BusInv
    <2> QED
      BY <2>1, <2>4, <2>5 DEF BusInv
  <1> QED
    BY <1>2, <1>3, <1>4 DEF AggregateInput

LEMMA BusParsed ==
  ASSUME Sizes, MemInv, BusInv, SegParser, sent' = sent
  PROVE  BusInv'
  <1> DEFINE h == Head(fifo["pi_parser"])
             w == [h EXCEPT !.ok = TRUE, !.addr = IF h.type = "CONTROL" THEN SegBase ELSE @]
  <1>1. fifo = [q \in Fifos |-> fifo[q]]
    BY DEF MemInv, TypeOK, FifosOK
  <1>2. /\ fifo["pi_parser"] # << >> /\ fifo'["pi_parser"] = Tail(fifo["pi_parser"])
        /\ fifo'["pi_out"] = Append(fifo["pi_out"], w)
        /\ \A q \in BusFifos \ {"pi_parser", "pi_out"} : fifo'[q] = fifo[q]
    BY <1>1 DEF SegParser, Move, BusFifos, Fifos, Ready
  <1>3. h \in PiWords
    BY <1>2, BusTypes, HeadTailProperties
  <1> HIDE DEF h
  <1>4. w \in PiWords /\ w.type = h.type /\ (w.type # "CONTROL" => w.addr = h.addr)
    BY <1>3 DEF PiWords, Sizes
  <1> HIDE DEF w
  <1>5. Channel("RD", fifo["rd_in"], Tail(fifo["pi_parser"]), Append(fifo["pi_out"], w), fifo["rd_out"], sent.rd)
    BY <1>2, <1>4, BusTypes, ChannelParsed DEF BusInv, h
  <1>6. Channel("WR", fifo["wr_in"], Tail(fifo["pi_parser"]), Append(fifo["pi_out"], w), fifo["wr_out"], sent.wr)
    BY <1>2, <1>4, BusTypes, ChannelParsed DEF BusInv, h
  <1> QED
    BY <1>2, <1>5, <1>6 DEF BusInv, BusFifos

LEMMA BusAnswered ==
  ASSUME MemInv, BusInv, DisaggregateOutput, sent' = sent
  PROVE  BusInv'
  <1> DEFINE h == Head(fifo["pi_out"])
             a == [ok |-> h.ok, addr |-> h.addr]
             c == OutChannel(h.type)
  <1>1. fifo = [q \in Fifos |-> fifo[q]]
    BY DEF MemInv, TypeOK, FifosOK
  <1>2. fifo["pi_out"] # << >> /\ fifo' = Move("pi_out", c, a)
    BY DEF DisaggregateOutput, Ready
  <1>3. h \in PiWords
    BY <1>2, BusTypes, HeadTailProperties
  <1> HIDE DEF h
  <1>4. a \in Answers /\ a.addr = h.addr
    BY <1>3 DEF PiWords, Answers
  <1>5. c = IF h.type = "RD" THEN "rd_out" ELSE IF h.type = "WR" THEN "wr_out" ELSE "seg_ret"
    BY <1>3 DEF OutChannel, PiWords
  <1> HIDE DEF a, c
  <1>6. /\ fifo'["pi_out"] = Tail(fifo["pi_out"]) /\ fifo'[c] = Append(fifo[c], a)
        /\ \A q \in BusFifos \ {"pi_out", c} : fifo'[q] = fifo[q]
    BY <1>1, <1>2, <1>5 DEF Move, BusFifos, Fifos
  <1>7. /\ h.type = "RD" => Channel("RD", fifo["rd_in"], fifo["pi_parser"], Tail(fifo["pi_out"]), Append(fifo["rd_out"], a), sent.rd)
        /\ h.type # "RD" => Channel("RD", fifo["rd_in"], fifo["pi_parser"], Tail(fifo["pi_out"]), fifo["rd_out"], sent.rd)
    BY <1>2, <1>4, BusTypes, ChannelAnswered DEF BusInv, h
  <1>8. /\ h.type = "WR" => Channel("WR", fifo["wr_in"], fifo["pi_parser"], Tail(fifo["pi_out"]), Append(fifo["wr_out"], a), sent.wr)
        /\ h.type # "WR" => Channel("WR", fifo["wr_in"], fifo["pi_parser"], Tail(fifo["pi_out"]), fifo["wr_out"], sent.wr)
    BY <1>2, <1>4, BusTypes, ChannelAnswered DEF BusInv, h
  <1> QED
    BY <1>5, <1>6, <1>7, <1>8 DEF BusInv, BusFifos

LEMMA BusInit ==
  ASSUME InitPaging
  PROVE  BusInv
  <1>1. \A q \in BusFifos : fifo[q] = << >>
    BY DEF InitPaging, BusFifos, Fifos
  <1>2. sent.rd = 0 /\ sent.wr = 0
    BY DEF InitPaging
  <1>3. \A type : Words(<< >>, type) = {}
    BY DEF Words
  <1>4. ASSUME NEW type PROVE Channel(type, << >>, << >>, << >>, << >>, 0)
    <2>1. InTurn(<< >>, << >>, 0)
      BY DEF InTurn
    <2>2. InFlight(<< >>, << >>, type, 0, 0)
      BY <1>3 DEF InFlight, Ordered
    <2> QED
      BY <2>1, <2>2 DEF Channel
  <1> QED
    BY <1>1, <1>2, <1>4 DEF BusInv, BusFifos

LEMMA BusSteps ==
  ASSUME Sizes, MemInv, BusInv, [NextPaging]_pagingVars
  PROVE  BusInv'
  <1>1. CASE SegmentUnit
    BY <1>1, BusEntered, BusParsed, BusAnswered DEF SegmentUnit
  <1> QED
    BY <1>1, BusOther, BusAsked DEF NextPaging

\* Whatever the sizes of the memory and of the blocks, and however many commands, bucket
\* requests and bus accesses are sent: the users of the paging library get disjoint memory
\* of the size they asked for, the mapping table and the heap lie in the segment, and the
\* bus answers each channel in order (coord top.cpp, buddy_alloc_mux, segment_fixed).
THEOREM PagingIsSound == SpecPaging => []PagingSound
  <1>0. Sizes
    BY PagingAssumption DEF Sizes
  <1>1. InitPaging => PagingInv
    BY <1>0, MemInit, BusInit DEF PagingInv
  <1>2. PagingInv /\ [NextPaging]_pagingVars => PagingInv'
    BY <1>0, MemStep, BusSteps DEF PagingInv
  <1>3. PagingInv => PagingSound
    <2>1. BusInv => BusInOrder
      BY DEF BusInv, Channel, InTurn, BusInOrder
    <2> QED
      BY <1>0, <2>1, MemSound DEF PagingInv, PagingSound
  <1> QED
    BY <1>1, <1>2, <1>3, PTL DEF SpecPaging
=============================================================================
