---------------------------- MODULE HashMapping ----------------------------
(***************************************************************************)
(* The hash-table address mapping IP of mm/paging_hashed: the stages of    *)
(* data_path (hls_mapping/data_path.cpp), the address reservation table    *)
(* (resv_table.cpp), the commands sent to memory (dm.cpp), the BRAM table  *)
(* (hls_bram_ht) and the bucket allocator (dummy_allocator).               *)
(*                                                                         *)
(* The stages are connected by FIFOs and never overtake one another, so a  *)
(* request is known by its position i in the order in which remux took it  *)
(* in, pi[i] is its struct pipeline_info, and a FIFO is the interval of    *)
(* positions between what its producer has written and its consumer has    *)
(* read: PI_1, for example, holds nCmp+1 .. nRead.                         *)
(***************************************************************************)
EXTENDS Integers, Sequences

CONSTANTS
  Keys,         \* keys in use; 0 marks an empty slot and cannot be one
  Vals,         \* values (the request's length field)
  NBram,        \* NR_HT_BUCKET_BRAM
  Ratio,        \* NR_HT_BUCKET_DRAM / NR_HT_BUCKET_BRAM
  NSlots,       \* NR_SLOTS_PER_BUCKET
  NResv,        \* NR_RESV_TBL_ENTRY
  BucketBytes,  \* NR_BYTES_MEM_BUS
  NChain,       \* number of chain addresses, 2^NR_BITS_CHAIN_ADDR
  Base,         \* mapping_table_addr_base, received before the first request
  Pool,         \* addresses the allocator hands out, in this order
  Inputs,       \* requests the users issue
  FifoDepth,    \* room in front of read_bram
  MaxReqs       \* bound on the requests taken in

NDram == NBram * Ratio
PaSpace == NChain * BucketBytes
Slots == 0 .. NSlots - 1
Ids == 1 .. MaxReqs

\* Definitions marked "Seeded fault" are variants with a plausible bug that show
\* which property notices it; nothing uses them.

\* Seeded fault: the DRAM table is indexed by the bits above the BRAM index.
DramIdxHighBits(k) == (k \div NBram) % NDram

\* Both tables are indexed by the low bits of the same hash, which is the key.
BramIdx(k) == k % NBram
DramIdx(k) == k % NDram

\* DRAM_rd_pipe and DRAM_wr_pipe: bucket index to physical address.
DmAddr(idx) == (idx * BucketBytes + Base) % PaSpace

\* Seeded fault: the base of the table is not taken off.
ChainIdxWithBase(addr) == (addr \div BucketBytes) % NChain

\* fill_S2: physical address of a new bucket to its index, NR_BITS_CHAIN_ADDR
\* bits wide; the difference may be negative.
ChainIdx(addr) == ((addr - Base) \div BucketBytes) % NChain

PoolAddrs == { Pool[n] : n \in 1 .. Len(Pool) }
TableAddrs == { DmAddr(i) : i \in 0 .. NDram - 1 }
Addrs == TableAddrs \cup PoolAddrs

ASSUME SizesAssumption ==
  /\ Keys \subseteq Nat \ {0} /\ Vals \subseteq Nat
  /\ NBram \in Nat \ {0} /\ Ratio \in Nat \ {0} /\ NSlots \in Nat \ {0}
  /\ NResv \in Nat \ {0, 1} /\ MaxReqs \in Nat /\ FifoDepth \in Nat \ {0}

ASSUME AddressesAssumption ==
  /\ BucketBytes \in Nat \ {0} /\ NChain \in Nat \ {0} /\ NDram <= NChain
  /\ Base \in 0 .. PaSpace - 1
  /\ Pool \in Seq(0 .. PaSpace - 1)
  \* Buckets come from the allocator once, aligned, and outside the table.
  /\ \A n \in 1 .. Len(Pool) : /\ (Pool[n] - Base) % BucketBytes = 0
                               /\ Pool[n] \notin TableAddrs
  /\ \A m, n \in 1 .. Len(Pool) : Pool[m] = Pool[n] => m = n

-----------------------------------------------------------------------------
(* Data                                                                    *)

\* Requests as remux receives them. buffer_req_write has already overwritten
\* the opcode of everything on the write channel.
Requests ==
  [ch : {"rd"}, op : {"READ", "WRITE", "OTHER"}, key : Keys, val : {0}]
    \cup [ch : {"rd"}, op : {"SET_R", "SET_RW"}, key : Keys, val : Vals]
    \cup [ch : {"wr"}, op : {"WRITE"}, key : Keys, val : {0}]

ASSUME InputsAssumption == Inputs \subseteq Requests

EmptySlot == [key |-> 0, val |-> 0, rw |-> FALSE, used |-> FALSE]
EmptyBucket == [slot |-> [s \in Slots |-> EmptySlot], chained |-> FALSE, next |-> 0]

ZeroPi == [op |-> "GET", rw |-> FALSE, key |-> 0, val |-> 0, ch |-> "rd",
           hb_bram |-> EmptyBucket, hb_dram |-> EmptyBucket, hb_dram_addr |-> 0,
           slot |-> 0, slot_dram |-> 0, state |-> {}, output |-> 0, ok |-> TRUE]

\* remux: the pipeline word of a request (compute_hash adds nothing to the key).
ForgePi(r) ==
  [ZeroPi EXCEPT !.op = CASE r.op \in {"READ", "WRITE"}    -> "GET"
                          [] r.op \in {"SET_R", "SET_RW"}  -> "SET"
                          [] OTHER                         -> "UNKNOWN",
                 !.rw = r.op \in {"WRITE", "SET_RW"},
                 !.key = r.key, !.val = r.val, !.ch = r.ch]

\* __compare: first slot whose key field matches, whether it is used or not;
\* NSlots when there is none.
Compare(hb, k) ==
  IF \E s \in Slots : hb.slot[s].key = k
  THEN CHOOSE s \in Slots : /\ hb.slot[s].key = k
                            /\ \A t \in 0 .. s - 1 : hb.slot[t].key # k
  ELSE NSlots

FirstFree(hb, none) ==
  IF \E s \in Slots : ~hb.slot[s].used
  THEN CHOOSE s \in Slots : /\ ~hb.slot[s].used
                            /\ \A t \in 0 .. s - 1 : hb.slot[t].used
  ELSE none

\* A full BRAM bucket loses its slot 0; a full DRAM bucket has to be chained.
find_empty_slot(hb) == FirstFree(hb, 0)
find_empty_slot_dram(hb) == FirstFree(hb, -1)

\* What a SET stores in a slot of a bucket. Replacing a matched BRAM slot leaves
\* its bitmap bit alone.
Store(hb, s, p, used) ==
  [hb EXCEPT !.slot[s] = [key |-> p.key, val |-> p.val, rw |-> p.rw, used |-> used]]

-----------------------------------------------------------------------------
VARIABLES
  pi,        \* pi[i]: struct pipeline_info of request i
  nRemux,    \* requests written by remux to PI_pipeline_info
  nRead,     \* requests read by read_bram and written to PI_1
  nCmd,      \* BRAM read commands sent by read_bram
  nBram,     \* BRAM read data returned
  nCmp,      \* requests written by compare_bram
  nS1,       \* requests written by fill_S1
  nS2,       \* requests written by fill_S2
  nOut,      \* requests replied to by demux, a POP sent for each
  nPop,      \* POP requests read by the reservation table
  rbState,   \* read_bram: state
  resv,      \* reservation request or its result, in flight
  tbl,       \* addr_resv_table; Free or the reserved index
  head, rear,
  bram,      \* ht_bram
  dram,      \* the hash table in DRAM and the chained buckets
  dramWr,    \* DRAM write commands with their data, not performed yet
  s1State,   \* fill_S1: state
  s1Idx,     \* fill_S1: cmd.address, the bucket being read
  s1Found,   \* fill_S1: slot_dram_found
  s2State,   \* fill_S2: state
  alloc,     \* bucket allocation request or its result, in flight
  nAlloc     \* buckets handed out so far

pipeVars  == <<pi, nRemux, nRead, nCmd, nBram, nCmp, nS1, nS2, nOut>>
resvVars  == <<resv, tbl, head, rear, nPop>>
memVars   == <<bram, dram, dramWr>>
s1Vars    == <<s1State, s1Idx, s1Found>>
s2Vars    == <<s2State, alloc, nAlloc>>
vars == <<pipeVars, rbState, resvVars, memVars, s1Vars, s2Vars>>

Free == -1
NoAddr == -1    \* alloc: nothing in flight
AllocReq == -2
AllocFailed == -3

Idx(i) == BramIdx(pi[i].key)

Init ==
  /\ pi = [i \in Ids |-> ZeroPi]
  /\ nRemux = 0 /\ nRead = 0 /\ nCmd = 0 /\ nBram = 0 /\ nCmp = 0
  /\ nS1 = 0 /\ nS2 = 0 /\ nOut = 0 /\ nPop = 0
  /\ rbState = "IDLE" /\ resv = "NONE"
  /\ tbl = [e \in 0 .. NResv - 1 |-> Free] /\ head = 0 /\ rear = 0
  /\ bram = [b \in 0 .. NBram - 1 |-> EmptyBucket]
  /\ dram = [a \in Addrs |-> EmptyBucket] /\ dramWr = << >>
  /\ s1State = "IDLE" /\ s1Idx = 0 /\ s1Found = FALSE
  /\ s2State = "IDLE" /\ alloc = NoAddr /\ nAlloc = 0

-----------------------------------------------------------------------------
(* remux and compute_hash                                                  *)

Remux(r) ==
  /\ nRemux < MaxReqs /\ nRemux - nRead < FifoDepth
  /\ nRemux' = nRemux + 1
  /\ pi' = [pi EXCEPT ![nRemux + 1] = ForgePi(r)]
  /\ UNCHANGED <<nRead, nCmd, nBram, nCmp, nS1, nS2, nOut,
                 rbState, resvVars, memVars, s1Vars, s2Vars>>

(* read_bram: the request goes to compare_bram at once; its BRAM bucket is *)
(* read only when the reservation of the bucket's index has been granted.  *)

ReadBramIdle ==
  /\ rbState = "IDLE" /\ nRead < nRemux
  /\ nRead' = nRead + 1
  /\ rbState' = "ADDR_CHECK"
  /\ UNCHANGED <<pi, nRemux, nCmd, nBram, nCmp, nS1, nS2, nOut,
                 resvVars, memVars, s1Vars, s2Vars>>

ReadBramAddrCheck ==
  /\ rbState = "ADDR_CHECK"
  /\ resv' = "RESV"
  /\ rbState' = "ADDR_RESP"
  /\ UNCHANGED <<pipeVars, tbl, head, rear, nPop, memVars, s1Vars, s2Vars>>

\* Seeded fault: a refused reservation is not retried.
ReadBramAddrRespOnce ==
  /\ rbState = "ADDR_RESP" /\ resv \in {"RESV_SUCCESS", "ADDR_EXIST", "TABLE_FULL"}
  /\ resv' = "NONE" /\ rbState' = "IDLE"
  /\ nCmd' = IF resv = "RESV_SUCCESS" THEN nCmd + 1 ELSE nCmd
  /\ UNCHANGED <<pi, nRemux, nRead, nBram, nCmp, nS1, nS2, nOut,
                 tbl, head, rear, nPop, memVars, s1Vars, s2Vars>>

ReadBramAddrResp ==
  /\ rbState = "ADDR_RESP" /\ resv \in {"RESV_SUCCESS", "ADDR_EXIST", "TABLE_FULL"}
  /\ resv' = "NONE"
  /\ IF resv = "RESV_SUCCESS"
     THEN rbState' = "IDLE" /\ nCmd' = nCmd + 1
     ELSE rbState' = "ADDR_CHECK" /\ UNCHANGED nCmd
  /\ UNCHANGED <<pi, nRemux, nRead, nBram, nCmp, nS1, nS2, nOut,
                 tbl, head, rear, nPop, memVars, s1Vars, s2Vars>>

(* address_reservation_table: one call serves a POP, then a RESV.          *)

\* Seeded fault: a popped entry keeps its index.
TblNotCleared == tbl
TblAfterPop  == IF nPop < nOut THEN [tbl EXCEPT ![head] = Free] ELSE tbl
HeadAfterPop == IF nPop < nOut THEN (head + 1) % NResv ELSE head

\* Seeded fault: an index is reserved twice.
ResvTwice(t, h, index) ==
  IF (rear + 1) % NResv = h THEN "TABLE_FULL" ELSE "RESV_SUCCESS"

ResvResult(t, h, index) ==
  IF (rear + 1) % NResv = h THEN "TABLE_FULL"
  ELSE IF \E e \in DOMAIN t : t[e] = index THEN "ADDR_EXIST"
  ELSE "RESV_SUCCESS"

\* Seeded fault: a POP is served only when there is no RESV.
ResvBeforePop ==
  LET index  == Idx(nRead)
      result == ResvResult(tbl, head, index)
  IN
  /\ \/ /\ resv = "RESV" /\ resv' = result /\ UNCHANGED <<nPop, head>>
        /\ IF result = "RESV_SUCCESS"
           THEN tbl' = [tbl EXCEPT ![rear] = index] /\ rear' = (rear + 1) % NResv
           ELSE UNCHANGED <<tbl, rear>>
     \/ /\ resv # "RESV" /\ nPop < nOut /\ nPop' = nPop + 1
        /\ head' = HeadAfterPop /\ tbl' = TblAfterPop /\ UNCHANGED <<resv, rear>>
  /\ UNCHANGED <<pipeVars, rbState, memVars, s1Vars, s2Vars>>

AddressReservationTable ==
  LET index  == Idx(nRead)
      result == ResvResult(TblAfterPop, HeadAfterPop, index)
  IN
  /\ nPop < nOut \/ resv = "RESV"
  /\ nPop' = IF nPop < nOut THEN nPop + 1 ELSE nPop
  /\ head' = HeadAfterPop
  /\ resv' = IF resv = "RESV" THEN result ELSE resv
  /\ IF resv = "RESV" /\ result = "RESV_SUCCESS"
     THEN /\ tbl' = [TblAfterPop EXCEPT ![rear] = index]
          /\ rear' = (rear + 1) % NResv
     ELSE tbl' = TblAfterPop /\ UNCHANGED rear
  /\ UNCHANGED <<pipeVars, rbState, memVars, s1Vars, s2Vars>>

(* bram_hashtable, reached through BRAM_rd_pipe and BRAM_wr_pipe. A write  *)
(* is two FIFO hops long, a read of the same bucket can only follow it the *)
(* long way round, through demux and the reservation table: a write is     *)
(* taken to be performed where fill_S2 issues it.                          *)

BramRead ==
  /\ nBram < nCmd
  /\ pi' = [pi EXCEPT ![nBram + 1].hb_bram = bram[Idx(nBram + 1)]]
  /\ nBram' = nBram + 1
  /\ UNCHANGED <<nRemux, nRead, nCmd, nCmp, nS1, nS2, nOut,
                 rbState, resvVars, memVars, s1Vars, s2Vars>>

BramWrite(b, hb) == bram' = [bram EXCEPT ![b] = hb]

(* compare_bram                                                            *)

\* A matching slot answers a request unless it is a GET for write access and
\* the slot is read-only.
Denied(p, hb, s) == p.op = "GET" /\ p.rw /\ ~hb.slot[s].rw

CompareResult(p) ==
  LET hb == p.hb_bram
      s  == Compare(hb, p.key)
  IN  IF s = NSlots
      THEN [p EXCEPT !.state = {"MISS_BRAM"}, !.slot = 0, !.ok = FALSE, !.output = 0]
      ELSE IF Denied(p, hb, s)
      THEN [p EXCEPT !.state = {"HIT_BRAM", "NO_PERM"}, !.slot = 0, !.ok = FALSE, !.output = 0]
      ELSE [p EXCEPT !.state = {"HIT_BRAM"}, !.slot = s, !.ok = TRUE,
                     !.output = hb.slot[s].val]

CompareBram ==
  /\ nCmp < nBram
  /\ pi' = [pi EXCEPT ![nCmp + 1] = CompareResult(pi[nCmp + 1])]
  /\ nCmp' = nCmp + 1
  /\ UNCHANGED <<nRemux, nRead, nCmd, nBram, nS1, nS2, nOut,
                 rbState, resvVars, memVars, s1Vars, s2Vars>>

(* fill_S1: walk of the DRAM chain, holding request nS1+1 unless idle. The *)
(* writes fill_S2 has posted may still be on their way to DRAM: the memory *)
(* is taken not to let a read overtake an older write of the same bucket.  *)

\* Seeded fault: a read may overtake a write of the same bucket.
Overtaking(addr) == TRUE

Settled(addr) == \A n \in 1 .. Len(dramWr) : dramWr[n].addr # addr

FillS1Idle ==
  /\ s1State = "IDLE" /\ nS1 < nCmp
  /\ LET p == pi[nS1 + 1] IN
     IF p.op = "GET" /\ p.state = {"HIT_BRAM"}
     THEN nS1' = nS1 + 1 /\ UNCHANGED s1Vars
     ELSE /\ s1State' = "SEND_CMD" /\ s1Idx' = DramIdx(p.key) /\ s1Found' = FALSE
          /\ UNCHANGED nS1
  /\ UNCHANGED <<pi, nRemux, nRead, nCmd, nBram, nCmp, nS2, nOut,
                 rbState, resvVars, memVars, s2Vars>>

FillS1SendCmd ==
  /\ s1State = "SEND_CMD"
  /\ s1State' = "READ_DATA"
  /\ UNCHANGED <<pipeVars, rbState, resvVars, memVars, s1Idx, s1Found, s2Vars>>

\* The key is in the bucket hb just read.
S1Hit(p, hb, s) ==
  IF Denied(p, hb, s)
  THEN [p EXCEPT !.state = @ \cup {"HIT_DRAM", "NO_PERM"}, !.slot_dram = 0,
                 !.ok = FALSE, !.output = 0]
  ELSE [p EXCEPT !.state = @ \cup {"HIT_DRAM"}, !.slot_dram = s, !.hb_dram = hb,
                 !.hb_dram_addr = s1Idx, !.ok = TRUE, !.output = hb.slot[s].val]

\* It is not: a SET remembers the first bucket with a free slot.
S1Search(p) == p.op = "SET" /\ ~s1Found
S1FoundHere(p, hb) == S1Search(p) /\ find_empty_slot_dram(hb) # -1
\* Seeded fault: the index of the bucket is not saved with the bucket.
S1MissNoAddr(p, hb) ==
  [p EXCEPT !.slot_dram = IF S1Search(p) THEN find_empty_slot_dram(hb) ELSE @,
            !.hb_dram = IF S1FoundHere(p, hb) THEN hb ELSE @]
S1Miss(p, hb) ==
  [p EXCEPT !.slot_dram = IF S1Search(p) THEN find_empty_slot_dram(hb) ELSE @,
            !.hb_dram = IF S1FoundHere(p, hb) THEN hb ELSE @,
            !.hb_dram_addr = IF S1FoundHere(p, hb) THEN s1Idx ELSE @]

\* The chain ends here.
S1End(p, hb, found) ==
  [p EXCEPT !.state = @ \cup {"MISS_DRAM"}, !.ok = FALSE, !.output = 0,
            !.hb_dram = IF found THEN @ ELSE hb,
            !.hb_dram_addr = IF found THEN @ ELSE s1Idx]

FillS1ReadData ==
  LET i     == nS1 + 1
      p     == pi[i]
      hb    == dram[DmAddr(s1Idx)]
      s     == Compare(hb, p.key)
      found == s1Found \/ S1FoundHere(p, hb)
  IN
  /\ s1State = "READ_DATA"
  /\ Settled(DmAddr(s1Idx))
  /\ \/ /\ s # NSlots
        /\ pi' = [pi EXCEPT ![i] = S1Hit(p, hb, s)]
        /\ nS1' = i /\ s1State' = "IDLE" /\ UNCHANGED <<s1Idx, s1Found>>
     \/ /\ s = NSlots /\ ~hb.chained
        /\ pi' = [pi EXCEPT ![i] = S1End(S1Miss(p, hb), hb, found)]
        /\ nS1' = i /\ s1State' = "IDLE" /\ s1Found' = found /\ UNCHANGED s1Idx
     \/ /\ s = NSlots /\ hb.chained
        /\ pi' = [pi EXCEPT ![i] = S1Miss(p, hb)]
        /\ s1State' = "SEND_CMD" /\ s1Idx' = hb.next /\ s1Found' = found
        /\ UNCHANGED nS1
  /\ UNCHANGED <<nRemux, nRead, nCmd, nBram, nCmp, nS2, nOut,
                 rbState, resvVars, memVars, s2Vars>>

(* fill_S2: updates of the tables. It holds request nS2+1 unless idle.     *)

\* The BRAM bucket after a SET: the matched slot, or a free one, or slot 0.
SetBram(p) ==
  IF "HIT_BRAM" \in p.state
  THEN Store(p.hb_bram, p.slot, p, p.hb_bram.slot[p.slot].used)
  ELSE Store(p.hb_bram, find_empty_slot(p.hb_bram), p, TRUE)

\* Seeded fault: only the key is copied.
FillBramKeyOnly(p) ==
  LET s == find_empty_slot(p.hb_bram)
  IN  [p.hb_bram EXCEPT !.slot[s] =
         [@ EXCEPT !.key = p.hb_dram.slot[p.slot_dram].key, !.used = TRUE]]

\* The BRAM bucket after a GET that missed it: key and value are copied from
\* the DRAM slot, the permission bit is not.
FillBram(p) ==
  LET s == find_empty_slot(p.hb_bram)
      d == p.hb_dram.slot[p.slot_dram]
  IN  [p.hb_bram EXCEPT !.slot[s] = [@ EXCEPT !.key = d.key, !.val = d.val, !.used = TRUE]]

FillS2Idle ==
  LET i == nS2 + 1
      p == pi[i]
  IN
  /\ s2State = "IDLE" /\ nS2 < nS1
  /\ \/ /\ p.op = "SET"
        /\ BramWrite(Idx(i), SetBram(p))
        /\ IF p.slot_dram = -1
           THEN s2State' = "RECV_RET" /\ alloc' = AllocReq /\ UNCHANGED pi
           ELSE /\ s2State' = "WRITE_DATA" /\ UNCHANGED alloc
                /\ pi' = [pi EXCEPT ![i].hb_dram = Store(@, p.slot_dram, p, TRUE)]
        /\ UNCHANGED nS2
     \/ /\ p.op = "GET" /\ {"MISS_BRAM", "HIT_DRAM"} \subseteq p.state
        /\ BramWrite(Idx(i), FillBram(p))
        /\ nS2' = i /\ UNCHANGED <<pi, s2State, alloc>>
     \/ /\ p.op # "SET" /\ ~(p.op = "GET" /\ {"MISS_BRAM", "HIT_DRAM"} \subseteq p.state)
        /\ nS2' = i /\ UNCHANGED <<pi, s2State, alloc, bram>>
  /\ UNCHANGED <<nRemux, nRead, nCmd, nBram, nCmp, nS1, nOut,
                 rbState, resvVars, dram, dramWr, s1Vars, nAlloc>>

\* dummy_allocator
Allocator ==
  /\ alloc = AllocReq
  /\ IF nAlloc < Len(Pool)
     THEN alloc' = Pool[nAlloc + 1] /\ nAlloc' = nAlloc + 1
     ELSE alloc' = AllocFailed /\ UNCHANGED nAlloc
  /\ UNCHANGED <<pipeVars, rbState, resvVars, memVars, s1Vars, s2State>>

\* The new bucket is written before the bucket that will point to it.
FillS2RecvRet ==
  LET i == nS2 + 1
      p == pi[i]
  IN
  /\ s2State = "RECV_RET" /\ alloc \notin {AllocReq, NoAddr}
  /\ alloc' = NoAddr
  /\ IF alloc # AllocFailed
     THEN /\ s2State' = "WRITE_DATA"
          /\ pi' = [pi EXCEPT ![i].hb_dram =
                       [@ EXCEPT !.chained = TRUE, !.next = ChainIdx(alloc)]]
          /\ dramWr' = Append(dramWr, [addr |-> DmAddr(ChainIdx(alloc)),
                                       hb |-> Store(EmptyBucket, 0, p, TRUE)])
          /\ UNCHANGED nS2
     ELSE /\ s2State' = "IDLE"
          /\ pi' = [pi EXCEPT ![i].ok = FALSE]
          /\ nS2' = i /\ UNCHANGED dramWr
  /\ UNCHANGED <<nRemux, nRead, nCmd, nBram, nCmp, nS1, nOut,
                 rbState, resvVars, bram, dram, s1Vars, nAlloc>>

FillS2WriteData ==
  LET i == nS2 + 1 IN
  /\ s2State = "WRITE_DATA"
  /\ s2State' = "IDLE"
  /\ dramWr' = Append(dramWr, [addr |-> DmAddr(pi[i].hb_dram_addr), hb |-> pi[i].hb_dram])
  /\ pi' = [pi EXCEPT ![i].ok = TRUE]
  /\ nS2' = i
  /\ UNCHANGED <<nRemux, nRead, nCmd, nBram, nCmp, nS1, nOut,
                 rbState, resvVars, bram, dram, s1Vars, alloc, nAlloc>>

\* The datamover performs the oldest write; its status is ignored.
DramWrite ==
  /\ dramWr # << >>
  /\ dram' = [dram EXCEPT ![Head(dramWr).addr] = Head(dramWr).hb]
  /\ dramWr' = Tail(dramWr)
  /\ UNCHANGED <<pipeVars, rbState, resvVars, bram, s1Vars, s2Vars>>

(* demux: releases the reservation and replies.                            *)

Demux ==
  /\ nOut < nS2
  /\ nOut' = nOut + 1
  /\ pi' = [pi EXCEPT ![nOut + 1] = ZeroPi]
  /\ UNCHANGED <<nRemux, nRead, nCmd, nBram, nCmp, nS1, nS2,
                 rbState, resvVars, memVars, s1Vars, s2Vars>>

\* No input left: every stage finds its FIFOs empty.
Idle ==
  /\ nPop = MaxReqs /\ dramWr = << >>
  /\ UNCHANGED vars

-----------------------------------------------------------------------------
ReadBram == ReadBramIdle \/ ReadBramAddrCheck \/ ReadBramAddrResp
FillS1 == FillS1Idle \/ FillS1SendCmd \/ FillS1ReadData
FillS2 == FillS2Idle \/ FillS2RecvRet \/ FillS2WriteData

Next ==
  \/ \E r \in Inputs : Remux(r)
  \/ ReadBramIdle \/ ReadBramAddrCheck \/ ReadBramAddrResp
  \/ AddressReservationTable
  \/ BramRead
  \/ CompareBram
  \/ FillS1Idle \/ FillS1SendCmd \/ FillS1ReadData
  \/ FillS2Idle \/ Allocator \/ FillS2RecvRet \/ FillS2WriteData
  \/ DramWrite
  \/ Demux
  \/ Idle

Spec == Init /\ [][Next]_vars

\* Every stage is a free-running block (ap_ctrl_none): it is called again and
\* again and proceeds as soon as its FIFOs allow it.
Fairness ==
  /\ WF_vars(ReadBram) /\ WF_vars(AddressReservationTable) /\ WF_vars(CompareBram)
  /\ WF_vars(BramRead) /\ WF_vars(DramWrite)
  /\ WF_vars(FillS1) /\ WF_vars(FillS2) /\ WF_vars(Allocator) /\ WF_vars(Demux)

FairSpec == Spec /\ Fairness

-----------------------------------------------------------------------------
(* Properties                                                              *)

\* The bucket indexes that are the index of a bucket of the table or of the pool.
BucketIdxs == { x \in 0 .. NChain - 1 : DmAddr(x) \in Addrs }
Flags == {"HIT_BRAM", "HIT_DRAM", "MISS_BRAM", "MISS_DRAM", "NO_PERM"}
SlotWords == [key : Keys \cup {0}, val : Vals \cup {0}, rw : BOOLEAN, used : BOOLEAN]
Buckets == [slot : [Slots -> SlotWords], chained : BOOLEAN, next : BucketIdxs]
RawWords ==
  [op : {"GET", "SET", "UNKNOWN"}, rw : BOOLEAN, key : Keys \cup {0}, val : Vals \cup {0},
   ch : {"rd", "wr"}, hb_bram : Buckets, hb_dram : Buckets, hb_dram_addr : BucketIdxs,
   slot : Slots, slot_dram : Slots \cup {-1}, state : SUBSET Flags,
   output : Vals \cup {0}, ok : BOOLEAN]
\* Only a SET can be left without a slot in DRAM.
PipelineWords == { p \in RawWords : p.slot_dram = -1 => p.op = "SET" }

FifosTyped ==
  /\ nRemux \in 0 .. MaxReqs /\ nRead \in 0 .. nRemux
  /\ nCmd \in 0 .. nRead /\ nBram \in 0 .. nCmd /\ nCmp \in 0 .. nBram
  /\ nS1 \in 0 .. nCmp /\ nS2 \in 0 .. nS1 /\ nOut \in 0 .. nS2 /\ nPop \in 0 .. nOut

ReservationTyped ==
  /\ rbState \in {"IDLE", "ADDR_CHECK", "ADDR_RESP"}
  /\ resv \in {"NONE", "RESV", "RESV_SUCCESS", "ADDR_EXIST", "TABLE_FULL"}
  /\ tbl \in [0 .. NResv - 1 -> (0 .. NBram - 1) \cup {Free}]
  /\ head \in 0 .. NResv - 1 /\ rear \in 0 .. NResv - 1

MemoryTyped ==
  /\ bram \in [0 .. NBram - 1 -> Buckets]
  /\ dram \in [Addrs -> Buckets]
  /\ dramWr \in Seq([addr : Addrs, hb : Buckets])

FillTyped ==
  /\ s1State \in {"IDLE", "SEND_CMD", "READ_DATA"}
  /\ s1Idx \in BucketIdxs /\ s1Found \in BOOLEAN
  /\ s2State \in {"IDLE", "RECV_RET", "WRITE_DATA"}
  /\ alloc \in PoolAddrs \cup {NoAddr, AllocReq, AllocFailed}
  /\ nAlloc \in 0 .. Len(Pool)

\* No stage overtakes another, and the variables hold what their declarations
\* in the code allow; in particular every DRAM bucket points to a bucket.
TypeOK ==
  /\ pi \in [Ids -> PipelineWords]
  /\ FifosTyped /\ ReservationTyped /\ MemoryTyped /\ FillTyped

\* A stage that is not idle holds a request, and waits for an answer exactly
\* when one is due: read_bram never meets the result of another reservation,
\* fill_S2 never meets a bucket allocated for another request.
StagesAgree ==
  /\ nRead = IF rbState = "IDLE" THEN nCmd ELSE nCmd + 1
  /\ resv # "NONE" <=> rbState = "ADDR_RESP"
  /\ s1State # "IDLE" => nS1 < nCmp
  /\ s2State # "IDLE" => nS2 < nS1
  /\ alloc # NoAddr <=> s2State = "RECV_RET"

\* Requests 1 .. NReserved have been granted their reservation.
NReserved == IF resv = "RESV_SUCCESS" THEN nCmd + 1 ELSE nCmd

\* Position of request i in the reservation table.
Pos(i) == (i - 1) % NResv

\* The entries of addr_resv_table between head and rear are, in order, the
\* reservations of the requests between read_bram and the POP that demux sends,
\* and every other entry is free (resv_table.cpp keeps no count: head and rear
\* alone must tell full from empty).
TableTracksPipeline ==
  /\ head = nPop % NResv /\ rear = NReserved % NResv
  /\ NReserved - nPop < NResv
  /\ \A i \in nOut + 1 .. NReserved : tbl[Pos(i)] = Idx(i)
  /\ \A e \in 0 .. NResv - 1 :
        tbl[e] # Free <=> \E i \in nPop + 1 .. NReserved : e = Pos(i)

\* No index is reserved twice.
TableDistinct ==
  \A e, f \in 0 .. NResv - 1 : tbl[e] # Free /\ tbl[e] = tbl[f] => e = f

\* Between the grant of its reservation and its reply, no request shares its
\* BRAM bucket with another one: the bucket copied into pi.hb_bram is still the
\* bucket in BRAM when fill_S2 writes it back.
BucketExclusive ==
  \A i, j \in nOut + 1 .. NReserved : i # j => Idx(i) # Idx(j)

\* Nor does it share its DRAM chain, although only the BRAM index is reserved:
\* pi.hb_dram, read by fill_S1, is not changed under a request on its way to fill_S2.
ChainExclusive ==
  \A i, j \in nOut + 1 .. NReserved : i # j => DramIdx(pi[i].key) # DramIdx(pi[j].key)

\* A bucket never has two writes under way, although fill_S2 waits for no write
\* status, demux releases the reservation while the write is still posted, and the
\* next request may write the same bucket or a bucket of the same chain: in which
\* order the datamover performs the posted writes does not matter
\* (data_path.cpp:426-466, dm.cpp:100-121).
PostedOnce ==
  \A m, n \in DOMAIN dramWr : dramWr[m].addr = dramWr[n].addr => m = n

\* Every request taken in is answered.
EveryRequestAnswered == \A i \in Ids : nRemux >= i ~> nOut >= i
=============================================================================
