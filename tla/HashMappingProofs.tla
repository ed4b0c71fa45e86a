------------------------- MODULE HashMappingProofs -------------------------
(***************************************************************************)
(* Proofs about HashMapping for every size of the tables, every reservation*)
(* table, every pool of buckets and every number of requests.              *)
(***************************************************************************)
EXTENDS HashMapping, DivisionLemmas

(* Addresses                                                               *)

\* Every bucket index is sent to the memory as an address in range.
LEMMA DmAddrRange ==
  ASSUME NEW x \in Int
  PROVE  PaSpace \in Nat \ {0} /\ DmAddr(x) \in 0 .. PaSpace - 1
  <1>1. PaSpace \in Nat \ {0}
    BY AddressesAssumption DEF PaSpace
  <1>2. (x * BucketBytes) + Base \in Int
    BY AddressesAssumption
  <1> QED
    BY <1>1, <1>2, ModRange DEF DmAddr

\* fill_S2 turns the address of a new bucket into an index, DRAM_rd_pipe and
\* DRAM_wr_pipe turn it back: they agree wherever the bucket lies, below the
\* base of the table as well.
THEOREM ChainAddressRoundTrip ==
  ASSUME NEW a \in 0 .. PaSpace - 1, (a - Base) % BucketBytes = 0
  PROVE  ChainIdx(a) \in 0 .. NChain - 1 /\ DmAddr(ChainIdx(a)) = a
  <1> DEFINE q == (a - Base) \div BucketBytes
             c == q % NChain
             t == q \div NChain
  <1>1. /\ PaSpace = NChain * BucketBytes /\ PaSpace \in Nat \ {0}
        /\ BucketBytes \in Nat \ {0} /\ NChain \in Nat \ {0}
        /\ a \in Int /\ Base \in Int /\ a - Base \in Int
    BY AddressesAssumption, DmAddrRange DEF PaSpace
  <1>2. q \in Int /\ a - Base = BucketBytes * q
    BY <1>1, DivMod
  <1> HIDE DEF q
  <1>3. c \in 0 .. NChain - 1 /\ t \in Int /\ q = (NChain * t) + c
    BY <1>1, <1>2, ModRange, DivMod
  <1> HIDE DEF c, t
  <1>4. (c * BucketBytes) + Base = a + (PaSpace * (-t)) /\ -t \in Int
    <2>1. BucketBytes * q = (BucketBytes * (NChain * t)) + (BucketBytes * c)
      BY <1>1, <1>3
    <2>2. BucketBytes * (NChain * t) = PaSpace * t
      BY <1>1, <1>3
    <2>3. BucketBytes * c = c * BucketBytes /\ PaSpace * (-t) = -(PaSpace * t)
      BY <1>1, <1>3
    <2>4. /\ BucketBytes * c \in Int /\ PaSpace * t \in Int /\ -t \in Int
      BY <1>1, <1>3
    <2> QED
      BY <1>1, <1>2, <2>1, <2>2, <2>3, <2>4
  <1>5. ((c * BucketBytes) + Base) % PaSpace = a % PaSpace
    <2>1. (a + (PaSpace * (-t))) % PaSpace = a % PaSpace
      BY <1>1, <1>4, ModShift
    <2> QED
      BY <1>4, <2>1
  <1>6. a % PaSpace = a
    <2>1. a = (PaSpace * 0) + a
      BY <1>1
    <2> QED
      BY <1>1, <2>1, ModUnique
  <1>7. ChainIdx(a) = c
    BY DEF ChainIdx, c, q
  <1> QED
    BY <1>3, <1>5, <1>6, <1>7 DEF DmAddr

-----------------------------------------------------------------------------
(* Data                                                                    *)

\* Every index of the table is the index of a bucket.
LEMMA TableIdx ==
  /\ NDram \in Nat \ {0}
  /\ 0 .. NDram - 1 \subseteq BucketIdxs
  /\ 0 \in BucketIdxs
  <1>1. NDram \in Nat \ {0}
    BY SizesAssumption DEF NDram
  <1>2. 0 .. NDram - 1 \subseteq 0 .. NChain - 1
    BY <1>1, AddressesAssumption
  <1>3. \A x \in 0 .. NDram - 1 : DmAddr(x) \in Addrs
    BY DEF Addrs, TableAddrs
  <1>4. 0 .. NDram - 1 \subseteq BucketIdxs
    BY <1>2, <1>3 DEF BucketIdxs
  <1> QED
    BY <1>1, <1>4

\* Hashing a key gives an index of each table.
LEMMA KeyIdx ==
  ASSUME NEW k \in Keys \cup {0}
  PROVE  BramIdx(k) \in 0 .. NBram - 1 /\ DramIdx(k) \in BucketIdxs
  <1>1. k \in Int /\ NBram \in Nat \ {0}
    BY SizesAssumption
  <1>2. BramIdx(k) \in 0 .. NBram - 1
    BY <1>1, ModRange DEF BramIdx
  <1>3. DramIdx(k) \in 0 .. NDram - 1
    BY <1>1, TableIdx, ModRange DEF DramIdx
  <1> QED
    BY <1>2, <1>3, TableIdx

\* A bucket index leads to a bucket.
LEMMA BucketAddr ==
  ASSUME NEW x \in BucketIdxs
  PROVE  DmAddr(x) \in Addrs
  BY DEF BucketIdxs

\* The elements of a sequence.
LEMMA SeqElements ==
  ASSUME NEW S, NEW q \in Seq(S), NEW n \in 1 .. Len(q)
  PROVE  q[n] \in S
  OBVIOUS

\* The addresses of the allocator are addresses of buckets of the memory.
LEMMA PoolElements ==
  ASSUME NEW n \in 1 .. Len(Pool)
  PROVE  Pool[n] \in 0 .. PaSpace - 1 /\ (Pool[n] - Base) % BucketBytes = 0
  <1>1. Pool \in Seq(0 .. PaSpace - 1)
    BY AddressesAssumption
  <1>2. Pool[n] \in 0 .. PaSpace - 1
    BY <1>1, SeqElements
  <1>3. (Pool[n] - Base) % BucketBytes = 0
    BY AddressesAssumption, Zenon
  <1> QED
    BY <1>2, <1>3

\* So does the index of a bucket of the allocator.
LEMMA PoolIdx ==
  ASSUME NEW a \in PoolAddrs
  PROVE  ChainIdx(a) \in BucketIdxs /\ DmAddr(ChainIdx(a)) \in Addrs
  <1>1. PICK n \in 1 .. Len(Pool) : a = Pool[n]
    BY DEF PoolAddrs
  <1>2. a \in 0 .. PaSpace - 1 /\ (a - Base) % BucketBytes = 0
    BY <1>1, PoolElements
  <1>3. ChainIdx(a) \in 0 .. NChain - 1 /\ DmAddr(ChainIdx(a)) = a
    BY <1>2, ChainAddressRoundTrip
  <1>4. a \in Addrs
    BY DEF Addrs
  <1> QED
    BY <1>3, <1>4 DEF BucketIdxs

\* Addresses are none of the marks that alloc carries besides them.
LEMMA PoolMarks ==
  PoolAddrs \cap {NoAddr, AllocReq, AllocFailed} = {}
  <1>1. \A n \in 1 .. Len(Pool) : Pool[n] \in 0 .. PaSpace - 1
    BY PoolElements
  <1>2. PaSpace \in Nat
    BY AddressesAssumption DEF PaSpace
  <1> QED
    BY <1>1, <1>2 DEF PoolAddrs, NoAddr, AllocReq, AllocFailed

\* Empty buckets and pipeline words.
LEMMA EmptyTyped ==
  EmptyBucket \in Buckets /\ ZeroPi \in PipelineWords
  <1>1. EmptySlot \in SlotWords
    BY DEF EmptySlot, SlotWords
  <1>2. EmptyBucket \in Buckets
    BY <1>1, TableIdx DEF EmptyBucket, Buckets
  <1>3. 0 \in Slots
    BY SizesAssumption DEF Slots
  <1>4. ZeroPi \in PipelineWords
    BY <1>2, <1>3, TableIdx DEF ZeroPi, PipelineWords, RawWords
  <1> QED
    BY <1>2, <1>4

\* remux makes a pipeline word of every request.
LEMMA ForgeTyped ==
  ASSUME NEW r \in Inputs
  PROVE  ForgePi(r) \in PipelineWords
  <1>1. /\ r.key \in Keys \cup {0} /\ r.val \in Vals \cup {0}
        /\ r.ch \in {"rd", "wr"}
    BY InputsAssumption DEF Requests
  <1> DEFINE o == CASE r.op \in {"READ", "WRITE"}    -> "GET"
                    [] r.op \in {"SET_R", "SET_RW"}  -> "SET"
                    [] OTHER                         -> "UNKNOWN"
             w == r.op \in {"WRITE", "SET_RW"}
  <1>2. o \in {"GET", "SET", "UNKNOWN"} /\ w \in BOOLEAN
    OBVIOUS
  <1>3. ForgePi(r) = [ZeroPi EXCEPT !.op = o, !.rw = w, !.key = r.key, !.val = r.val,
                                    !.ch = r.ch]
    BY DEF ForgePi
  <1> HIDE DEF o, w
  <1>4. ForgePi(r) \in RawWords
    BY <1>1, <1>2, <1>3, EmptyTyped DEF PipelineWords, RawWords
  <1>5. ForgePi(r).slot_dram = 0
    BY <1>3 DEF ZeroPi
  <1> QED
    BY <1>4, <1>5 DEF PipelineWords

\* __compare returns a slot or NSlots.
LEMMA CompareTyped ==
  ASSUME NEW hb, NEW k
  PROVE  Compare(hb, k) \in Slots \cup {NSlots}
  <1> DEFINE S == { s \in Slots : hb.slot[s].key = k }
  <1>1. CASE S = {}
    BY <1>1 DEF Compare
  <1>2. CASE S # {}
    <2>1. S \subseteq Nat
      BY SizesAssumption DEF Slots
    <2>2. PICK s \in S : \A t \in S : s <= t
      BY <1>2, <2>1, LeastElement
    <2>3. \A t \in 0 .. s - 1 : hb.slot[t].key # k
      BY <2>1, <2>2, SizesAssumption DEF Slots
    <2>4. (CHOOSE x \in Slots : /\ hb.slot[x].key = k
                                /\ \A t \in 0 .. x - 1 : hb.slot[t].key # k) \in Slots
      BY <2>2, <2>3
    <2> QED
      BY <1>2, <2>4 DEF Compare
  <1> QED
    BY <1>1, <1>2

\* find_empty_slot and find_empty_slot_dram return a slot or their mark.
LEMMA FirstFreeTyped ==
  ASSUME NEW hb, NEW none
  PROVE  FirstFree(hb, none) \in Slots \cup {none}
  <1> DEFINE S == { s \in Slots : ~hb.slot[s].used }
  <1>1. CASE S = {}
    BY <1>1 DEF FirstFree
  <1>2. CASE S # {}
    <2>1. S \subseteq Nat
      BY SizesAssumption DEF Slots
    <2>2. PICK s \in S : \A t \in S : s <= t
      BY <1>2, <2>1, LeastElement
    <2>3. \A t \in 0 .. s - 1 : hb.slot[t].used
      BY <2>1, <2>2, SizesAssumption DEF Slots
    <2>4. (CHOOSE x \in Slots : /\ ~hb.slot[x].used
                                /\ \A t \in 0 .. x - 1 : hb.slot[t].used) \in Slots
      BY <2>2, <2>3
    <2> QED
      BY <1>2, <2>4 DEF FirstFree
  <1> QED
    BY <1>1, <1>2

\* Storing a key and its value gives a bucket again.
LEMMA StoreTyped ==
  ASSUME NEW hb \in Buckets, NEW s \in Slots, NEW p \in PipelineWords, NEW used \in BOOLEAN
  PROVE  Store(hb, s, p, used) \in Buckets
  <1>1. [key |-> p.key, val |-> p.val, rw |-> p.rw, used |-> used] \in SlotWords
    BY DEF PipelineWords, RawWords, SlotWords
  <1> QED
    BY <1>1 DEF Store, Buckets

\* compare_bram
LEMMA CompareResultTyped ==
  ASSUME NEW p \in PipelineWords
  PROVE  CompareResult(p) \in PipelineWords
  <1> DEFINE s == Compare(p.hb_bram, p.key)
  <1>1. s \in Slots \cup {NSlots} /\ 0 \in Slots
    BY CompareTyped, SizesAssumption DEF Slots
  <1>2. p.hb_bram \in Buckets
    BY DEF PipelineWords, RawWords
  <1>3. /\ {"MISS_BRAM"} \in SUBSET Flags /\ {"HIT_BRAM"} \in SUBSET Flags
        /\ {"HIT_BRAM", "NO_PERM"} \in SUBSET Flags
    BY DEF Flags
  <1> HIDE DEF s
  <1>4. CASE s = NSlots
    <2>1. [p EXCEPT !.state = {"MISS_BRAM"}, !.slot = 0, !.ok = FALSE, !.output = 0]
             \in PipelineWords
      BY <1>1, <1>3 DEF PipelineWords, RawWords
    <2> QED
      BY <1>4, <2>1 DEF CompareResult, s
  <1>5. CASE s # NSlots /\ Denied(p, p.hb_bram, s)
    <2>1. [p EXCEPT !.state = {"HIT_BRAM", "NO_PERM"}, !.slot = 0, !.ok = FALSE, !.output = 0]
             \in PipelineWords
      BY <1>1, <1>3 DEF PipelineWords, RawWords
    <2> QED
      BY <1>5, <2>1 DEF CompareResult, s
  <1>6. CASE s # NSlots /\ ~Denied(p, p.hb_bram, s)
    <2>1. p.hb_bram.slot[s].val \in Vals \cup {0}
      BY <1>1, <1>2, <1>6 DEF Buckets, SlotWords
    <2>2. [p EXCEPT !.state = {"HIT_BRAM"}, !.slot = s, !.ok = TRUE,
                    !.output = p.hb_bram.slot[s].val] \in PipelineWords
      BY <1>1, <1>3, <1>6, <2>1 DEF PipelineWords, RawWords
    <2> QED
      BY <1>6, <2>2 DEF CompareResult, s
  <1> QED
    BY <1>4, <1>5, <1>6

\* fill_S1 when the bucket it read holds the key.
LEMMA S1HitTyped ==
  ASSUME NEW p \in PipelineWords, NEW hb \in Buckets, NEW s \in Slots, s1Idx \in BucketIdxs
  PROVE  S1Hit(p, hb, s) \in PipelineWords
  <1>1. 0 \in Slots /\ -1 \notin Slots
    BY SizesAssumption DEF Slots
  <1>2. hb.slot[s].val \in Vals \cup {0}
    BY DEF Buckets, SlotWords
  <1>3. CASE Denied(p, hb, s)
    BY <1>1, <1>3 DEF S1Hit, PipelineWords, RawWords, Flags
  <1>4. CASE ~Denied(p, hb, s)
    BY <1>1, <1>2, <1>4 DEF S1Hit, PipelineWords, RawWords, Flags
  <1> QED
    BY <1>3, <1>4

\* fill_S1 when it does not.
LEMMA S1MissTyped ==
  ASSUME NEW p \in PipelineWords, NEW hb \in Buckets, s1Idx \in BucketIdxs
  PROVE  S1Miss(p, hb) \in PipelineWords /\ S1Miss(p, hb).op = p.op
  <1> DEFINE f == find_empty_slot_dram(hb)
  <1>1. f \in Slots \cup {-1}
    BY FirstFreeTyped DEF find_empty_slot_dram
  <1> HIDE DEF f
  <1>2. CASE S1Search(p)
    <2>1. p.op = "SET"
      BY <1>2 DEF S1Search
    <2> QED
      BY <1>1, <1>2, <2>1 DEF S1Miss, S1FoundHere, PipelineWords, RawWords, f
  <1>3. CASE ~S1Search(p)
    BY <1>3 DEF S1Miss, S1FoundHere, PipelineWords, RawWords
  <1> QED
    BY <1>2, <1>3

\* fill_S1 at the end of the chain.
LEMMA S1EndTyped ==
  ASSUME NEW p \in PipelineWords, NEW hb \in Buckets, NEW found, s1Idx \in BucketIdxs
  PROVE  S1End(p, hb, found) \in PipelineWords
  BY DEF S1End, PipelineWords, RawWords, Flags

\* The BRAM buckets that fill_S2 writes.
LEMMA SetBramTyped ==
  ASSUME NEW p \in PipelineWords
  PROVE  SetBram(p) \in Buckets
  <1>1. p.hb_bram \in Buckets /\ p.slot \in Slots
    BY DEF PipelineWords, RawWords
  <1>2. p.hb_bram.slot[p.slot].used \in BOOLEAN
    BY <1>1 DEF Buckets, SlotWords
  <1>3. find_empty_slot(p.hb_bram) \in Slots
    BY FirstFreeTyped, SizesAssumption DEF find_empty_slot, Slots
  <1> QED
    BY <1>1, <1>2, <1>3, StoreTyped DEF SetBram

\* A slot filled from DRAM makes a bucket again.
LEMMA FillBramTyped ==
  ASSUME NEW p \in PipelineWords, p.op = "GET"
  PROVE  FillBram(p) \in Buckets
  <1> DEFINE s == find_empty_slot(p.hb_bram)
             d == p.hb_dram.slot[p.slot_dram]
  <1>1. p.hb_bram \in Buckets /\ p.hb_dram \in Buckets /\ p.slot_dram \in Slots
    BY DEF PipelineWords, RawWords
  <1>2. d \in SlotWords
    BY <1>1 DEF Buckets
  <1>3. s \in Slots
    BY FirstFreeTyped, SizesAssumption DEF find_empty_slot, Slots
  <1>4. FillBram(p) = [p.hb_bram EXCEPT !.slot[s] =
                         [@ EXCEPT !.key = d.key, !.val = d.val, !.used = TRUE]]
    BY DEF FillBram
  <1> HIDE DEF s, d
  <1>5. [p.hb_bram.slot[s] EXCEPT !.key = d.key, !.val = d.val, !.used = TRUE] \in SlotWords
    BY <1>1, <1>2, <1>3 DEF Buckets, SlotWords
  <1> QED
    BY <1>1, <1>3, <1>4, <1>5 DEF Buckets

-----------------------------------------------------------------------------
(* Types and stages                                                        *)

\* The state after reset has the types and the idle stages of the invariants.
LEMMA TypeInit == Init => TypeOK /\ StagesAgree
  <1> SUFFICES ASSUME Init PROVE TypeOK /\ StagesAgree
    OBVIOUS
  <1>1. pi \in [Ids -> PipelineWords] /\ MemoryTyped
    BY EmptyTyped DEF Init, MemoryTyped
  <1>2. FifosTyped /\ ReservationTyped
    BY SizesAssumption DEF Init, FifosTyped, ReservationTyped
  <1>3. Len(Pool) \in Nat
    BY AddressesAssumption
  <1>4. FillTyped
    <2>1. s1Idx \in BucketIdxs /\ nAlloc \in 0 .. Len(Pool)
      BY <1>3, TableIdx DEF Init
    <2>2. /\ s1State \in {"IDLE", "SEND_CMD", "READ_DATA"} /\ s1Found \in BOOLEAN
          /\ s2State \in {"IDLE", "RECV_RET", "WRITE_DATA"}
          /\ alloc \in PoolAddrs \cup {NoAddr, AllocReq, AllocFailed}
      BY Zenon DEF Init
    <2> QED
      BY <2>1, <2>2 DEF FillTyped
  <1>5. StagesAgree
    BY DEF Init, StagesAgree
  <1> QED
    BY <1>1, <1>2, <1>4, <1>5 DEF TypeOK

\* Every step of every stage keeps the types and the answers in step.
LEMMA TypeStep == TypeOK /\ StagesAgree /\ [Next]_vars => TypeOK' /\ StagesAgree'
  <1> SUFFICES ASSUME TypeOK, StagesAgree, [Next]_vars PROVE TypeOK' /\ StagesAgree'
    OBVIOUS
  <1>0. /\ pi \in [Ids -> PipelineWords] /\ FifosTyped /\ ReservationTyped
        /\ MemoryTyped /\ FillTyped /\ MaxReqs \in Nat
    BY SizesAssumption DEF TypeOK
  <1>1. ASSUME NEW r \in Inputs, Remux(r) PROVE TypeOK' /\ StagesAgree'
    <2>1. pi' \in [Ids -> PipelineWords]
      BY <1>0, <1>1, ForgeTyped DEF Remux
    <2>2. FifosTyped' /\ StagesAgree'
      BY <1>0, <1>1 DEF Remux, FifosTyped, StagesAgree, resvVars, s1Vars, s2Vars
    <2>3. ReservationTyped' /\ MemoryTyped' /\ FillTyped'
      BY <1>0, <1>1
      DEF Remux, resvVars, memVars, s1Vars, s2Vars, ReservationTyped, MemoryTyped, FillTyped
    <2> QED
      BY <2>1, <2>2, <2>3 DEF TypeOK
  <1>2. CASE ReadBramIdle
    <2>1. pi' \in [Ids -> PipelineWords]
      BY <1>0, <1>2 DEF ReadBramIdle
    <2>2. FifosTyped' /\ StagesAgree'
      BY <1>0, <1>2
      DEF ReadBramIdle, FifosTyped, StagesAgree, resvVars, s1Vars, s2Vars
    <2>3. ReservationTyped' /\ MemoryTyped' /\ FillTyped'
      BY <1>0, <1>2
      DEF ReadBramIdle, resvVars, memVars, s1Vars, s2Vars, ReservationTyped, MemoryTyped, FillTyped
    <2> QED
      BY <2>1, <2>2, <2>3 DEF TypeOK
  <1>3. CASE ReadBramAddrCheck
    <2>1. pi' \in [Ids -> PipelineWords]
      BY <1>0, <1>3 DEF ReadBramAddrCheck, pipeVars
    <2>2. FifosTyped' /\ StagesAgree'
      BY <1>0, <1>3
      DEF ReadBramAddrCheck, FifosTyped, StagesAgree, pipeVars, s1Vars, s2Vars
    <2>3. ReservationTyped' /\ MemoryTyped' /\ FillTyped'
      BY <1>0, <1>3
      DEF ReadBramAddrCheck, memVars, s1Vars, s2Vars, ReservationTyped, MemoryTyped, FillTyped
    <2> QED
      BY <2>1, <2>2, <2>3 DEF TypeOK
  <1>4. CASE ReadBramAddrResp
    <2>1. pi' \in [Ids -> PipelineWords]
      BY <1>0, <1>4 DEF ReadBramAddrResp
    <2>2. FifosTyped' /\ StagesAgree'
      BY <1>0, <1>4
      DEF ReadBramAddrResp, FifosTyped, StagesAgree, s1Vars, s2Vars
    <2>3. ReservationTyped' /\ MemoryTyped' /\ FillTyped'
      BY <1>0, <1>4
      DEF ReadBramAddrResp, memVars, s1Vars, s2Vars, ReservationTyped, MemoryTyped, FillTyped
    <2> QED
      BY <2>1, <2>2, <2>3 DEF TypeOK
  <1>5. CASE AddressReservationTable
    <2>1. pi' \in [Ids -> PipelineWords] /\ MemoryTyped' /\ FillTyped'
      BY <1>0, <1>5
      DEF AddressReservationTable, pipeVars, memVars, s1Vars, s2Vars, MemoryTyped, FillTyped
    <2>2. FifosTyped'
      BY <1>0, <1>5 DEF AddressReservationTable, FifosTyped, pipeVars
    <2>3. resv' \in {"NONE", "RESV", "RESV_SUCCESS", "ADDR_EXIST", "TABLE_FULL"}
          /\ (resv' # "NONE" <=> resv # "NONE")
      BY <1>0, <1>5 DEF AddressReservationTable, ReservationTyped, ResvResult
    <2>4. StagesAgree'
      BY <1>0, <1>5, <2>3
      DEF AddressReservationTable, StagesAgree, pipeVars, s1Vars, s2Vars
    <2>5. /\ TblAfterPop \in [0 .. NResv - 1 -> (0 .. NBram - 1) \cup {Free}]
          /\ HeadAfterPop \in 0 .. NResv - 1 /\ (rear + 1) % NResv \in 0 .. NResv - 1
      <3>1. NResv \in Nat \ {0} /\ head \in Int /\ head + 1 \in Int /\ rear + 1 \in Int
        BY <1>0, SizesAssumption DEF ReservationTyped
      <3>2. (head + 1) % NResv \in 0 .. NResv - 1 /\ (rear + 1) % NResv \in 0 .. NResv - 1
        BY <3>1, ModRange
      <3>3. HeadAfterPop \in 0 .. NResv - 1
        BY <1>0, <3>2 DEF ReservationTyped, HeadAfterPop
      <3>4. TblAfterPop \in [0 .. NResv - 1 -> (0 .. NBram - 1) \cup {Free}]
        BY <1>0 DEF ReservationTyped, TblAfterPop
      <3> QED
        BY <3>2, <3>3, <3>4
    <2>6. resv = "RESV" => Idx(nRead) \in 0 .. NBram - 1
      <3>1. resv = "RESV" => nRead \in Ids
        BY <1>0 DEF StagesAgree, FifosTyped, ReservationTyped, Ids
      <3>2. \A i \in Ids : pi[i].key \in Keys \cup {0}
        BY <1>0 DEF PipelineWords, RawWords
      <3> QED
        BY <3>1, <3>2, KeyIdx DEF Idx
    <2>7. ReservationTyped'
      BY <1>0, <1>5, <2>3, <2>5, <2>6
      DEF AddressReservationTable, ReservationTyped
    <2> QED
      BY <2>1, <2>2, <2>4, <2>7 DEF TypeOK
  <1>6. CASE BramRead
    <2> DEFINE i == nBram + 1
    <2>1. i \in Ids /\ pi[i] \in PipelineWords
      BY <1>0, <1>6 DEF BramRead, FifosTyped, Ids
    <2>2. bram[Idx(i)] \in Buckets
      <3>1. pi[i].key \in Keys \cup {0}
        BY <2>1 DEF PipelineWords, RawWords
      <3> QED
        BY <1>0, <3>1, KeyIdx DEF Idx, MemoryTyped
    <2>3. [pi[i] EXCEPT !.hb_bram = bram[Idx(i)]] \in PipelineWords
      BY <2>1, <2>2 DEF PipelineWords, RawWords
    <2>4. pi' \in [Ids -> PipelineWords]
      BY <1>0, <1>6, <2>1, <2>3 DEF BramRead
    <2>5. FifosTyped' /\ StagesAgree'
      BY <1>0, <1>6 DEF BramRead, FifosTyped, StagesAgree, resvVars, s1Vars, s2Vars
    <2>6. ReservationTyped' /\ MemoryTyped' /\ FillTyped'
      BY <1>0, <1>6
      DEF BramRead, resvVars, memVars, s1Vars, s2Vars, ReservationTyped, MemoryTyped, FillTyped
    <2> QED
      BY <2>4, <2>5, <2>6 DEF TypeOK
  <1>7. CASE CompareBram
    <2>1. nCmp + 1 \in Ids
      BY <1>0, <1>7 DEF CompareBram, FifosTyped, Ids
    <2>2. pi' \in [Ids -> PipelineWords]
      BY <1>0, <1>7, <2>1, CompareResultTyped DEF CompareBram
    <2>3. FifosTyped' /\ StagesAgree'
      BY <1>0, <1>7 DEF CompareBram, FifosTyped, StagesAgree, resvVars, s1Vars, s2Vars
    <2>4. ReservationTyped' /\ MemoryTyped' /\ FillTyped'
      BY <1>0, <1>7
      DEF CompareBram, resvVars, memVars, s1Vars, s2Vars, ReservationTyped, MemoryTyped, FillTyped
    <2> QED
      BY <2>2, <2>3, <2>4 DEF TypeOK
  <1>8. CASE FillS1Idle
    <2>1. pi' \in [Ids -> PipelineWords] /\ ReservationTyped' /\ MemoryTyped'
      BY <1>0, <1>8 DEF FillS1Idle, resvVars, memVars, ReservationTyped, MemoryTyped
    <2>2. DramIdx(pi[nS1 + 1].key) \in BucketIdxs
      <3>1. nS1 + 1 \in Ids
        BY <1>0, <1>8 DEF FillS1Idle, FifosTyped, Ids
      <3>2. pi[nS1 + 1].key \in Keys \cup {0}
        BY <1>0, <3>1 DEF PipelineWords, RawWords
      <3> QED
        BY <3>2, KeyIdx
    <2>3. FillTyped'
      BY <1>0, <1>8, <2>2 DEF FillS1Idle, s1Vars, s2Vars, FillTyped
    <2>4. FifosTyped' /\ StagesAgree'
      BY <1>0, <1>8 DEF FillS1Idle, s1Vars, s2Vars, resvVars, FifosTyped, StagesAgree
    <2> QED
      BY <2>1, <2>3, <2>4 DEF TypeOK
  <1>9. CASE FillS1SendCmd
    <2>1. pi' \in [Ids -> PipelineWords] /\ ReservationTyped' /\ MemoryTyped'
      BY <1>0, <1>9 DEF FillS1SendCmd, pipeVars, resvVars, memVars, ReservationTyped, MemoryTyped
    <2>2. FillTyped' /\ FifosTyped' /\ StagesAgree'
      BY <1>0, <1>9
      DEF FillS1SendCmd, s2Vars, resvVars, pipeVars, FillTyped, FifosTyped, StagesAgree
    <2> QED
      BY <2>1, <2>2 DEF TypeOK
  <1>10. CASE FillS1ReadData
    <2> DEFINE i     == nS1 + 1
               p     == pi[i]
               hb    == dram[DmAddr(s1Idx)]
               s     == Compare(hb, p.key)
               found == s1Found \/ S1FoundHere(p, hb)
    <2>1. i \in Ids /\ i <= nCmp /\ p \in PipelineWords
      BY <1>0, <1>10 DEF FillS1ReadData, StagesAgree, FifosTyped, Ids
    <2>2. hb \in Buckets /\ s1Idx \in BucketIdxs /\ hb.next \in BucketIdxs
      BY <1>0, BucketAddr DEF MemoryTyped, FillTyped, Buckets
    <2>3. s \in Slots \cup {NSlots} /\ found \in BOOLEAN
      BY <1>0, CompareTyped DEF S1FoundHere, S1Search, FillTyped
    <2>4. /\ s # NSlots => S1Hit(p, hb, s) \in PipelineWords
          /\ S1Miss(p, hb) \in PipelineWords
          /\ S1End(S1Miss(p, hb), hb, found) \in PipelineWords
      BY <2>1, <2>2, <2>3, S1HitTyped, S1MissTyped, S1EndTyped
    <2>5. /\ ReservationTyped' /\ MemoryTyped'
          /\ UNCHANGED <<nRemux, nRead, nCmd, nBram, nCmp, nS2, nOut, nPop,
                         rbState, resv, s2State, alloc, nAlloc>>
      BY <1>0, <1>10
      DEF FillS1ReadData, resvVars, memVars, s2Vars, ReservationTyped, MemoryTyped
    <2>6. \/ /\ s # NSlots
             /\ pi' = [pi EXCEPT ![i] = S1Hit(p, hb, s)]
             /\ nS1' = i /\ s1State' = "IDLE" /\ UNCHANGED <<s1Idx, s1Found>>
          \/ /\ s = NSlots /\ ~hb.chained
             /\ pi' = [pi EXCEPT ![i] = S1End(S1Miss(p, hb), hb, found)]
             /\ nS1' = i /\ s1State' = "IDLE" /\ s1Found' = found /\ UNCHANGED s1Idx
          \/ /\ s = NSlots /\ hb.chained
             /\ pi' = [pi EXCEPT ![i] = S1Miss(p, hb)]
             /\ s1State' = "SEND_CMD" /\ s1Idx' = hb.next /\ s1Found' = found
             /\ UNCHANGED nS1
      BY <1>10 DEF FillS1ReadData
    <2> HIDE DEF p, hb, s, found
    <2>7. pi' \in [Ids -> PipelineWords]
      BY <1>0, <2>1, <2>4, <2>6
    <2>8. FillTyped' /\ FifosTyped' /\ StagesAgree'
      BY <1>0, <2>1, <2>2, <2>3, <2>5, <2>6 DEF FillTyped, FifosTyped, StagesAgree
    <2> QED
      BY <2>5, <2>7, <2>8 DEF TypeOK
  <1>11. CASE FillS2Idle
    <2> DEFINE i == nS2 + 1
               p == pi[i]
    <2>1. i \in Ids /\ i <= nS1 /\ p \in PipelineWords
      BY <1>0, <1>11 DEF FillS2Idle, FifosTyped, Ids
    <2>2. Idx(i) \in 0 .. NBram - 1
      <3>1. pi[i].key \in Keys \cup {0}
        BY <2>1 DEF PipelineWords, RawWords
      <3> QED
        BY <3>1, KeyIdx DEF Idx
    <2>3. SetBram(p) \in Buckets /\ (p.op = "GET" => FillBram(p) \in Buckets)
      BY <2>1, SetBramTyped, FillBramTyped
    <2>4. \/ bram' = [bram EXCEPT ![Idx(i)] = SetBram(p)]
          \/ p.op = "GET" /\ bram' = [bram EXCEPT ![Idx(i)] = FillBram(p)]
          \/ bram' = bram
      BY <1>11 DEF FillS2Idle, BramWrite
    <2>5. bram' \in [0 .. NBram - 1 -> Buckets]
      BY <1>0, <2>2, <2>3, <2>4 DEF MemoryTyped
    <2>6. MemoryTyped' /\ ReservationTyped'
      BY <1>0, <1>11, <2>5 DEF FillS2Idle, MemoryTyped, ReservationTyped, resvVars
    <2>7. p.slot_dram # -1 =>
            [p EXCEPT !.hb_dram = Store(p.hb_dram, p.slot_dram, p, TRUE)] \in PipelineWords
      <3> SUFFICES ASSUME p.slot_dram # -1
                   PROVE  [p EXCEPT !.hb_dram = Store(p.hb_dram, p.slot_dram, p, TRUE)]
                             \in PipelineWords
        OBVIOUS
      <3>1. p.hb_dram \in Buckets /\ p.slot_dram \in Slots
        BY <2>1 DEF PipelineWords, RawWords
      <3>2. Store(p.hb_dram, p.slot_dram, p, TRUE) \in Buckets
        BY <2>1, <3>1, StoreTyped
      <3> QED
        BY <2>1, <3>2 DEF PipelineWords, RawWords
    <2>8. \/ pi' = pi
          \/ /\ p.slot_dram # -1
             /\ pi' = [pi EXCEPT ![i] = [p EXCEPT !.hb_dram =
                                           Store(p.hb_dram, p.slot_dram, p, TRUE)]]
      BY <1>11 DEF FillS2Idle
    <2>9. pi' \in [Ids -> PipelineWords]
      BY <1>0, <2>1, <2>7, <2>8
    <2>10. FillTyped' /\ FifosTyped' /\ StagesAgree'
      BY <1>0, <1>11, <2>1, SMTT(60)
      DEF FillS2Idle, s1Vars, resvVars, FillTyped, FifosTyped, StagesAgree, NoAddr, AllocReq
    <2> QED
      BY <2>6, <2>9, <2>10 DEF TypeOK
  <1>12. CASE Allocator
    <2>1. pi' \in [Ids -> PipelineWords] /\ FifosTyped' /\ ReservationTyped' /\ MemoryTyped'
      BY <1>0, <1>12
      DEF Allocator, pipeVars, resvVars, memVars, FifosTyped, ReservationTyped, MemoryTyped
    <2>2. Len(Pool) \in Nat
      BY AddressesAssumption
    <2>3. nAlloc < Len(Pool) => Pool[nAlloc + 1] \in PoolAddrs
      BY <1>0, <2>2 DEF FillTyped, PoolAddrs
    <2>4. /\ alloc' \in PoolAddrs \cup {AllocFailed} /\ nAlloc' \in 0 .. Len(Pool)
      BY <1>0, <1>12, <2>2, <2>3 DEF Allocator, FillTyped
    <2>5. FillTyped' /\ StagesAgree'
      BY <1>0, <1>12, <2>4, PoolMarks
      DEF Allocator, pipeVars, resvVars, s1Vars, FillTyped, StagesAgree,
          NoAddr, AllocReq, AllocFailed
    <2> QED
      BY <2>1, <2>5 DEF TypeOK
  <1>13. CASE FillS2RecvRet
    <2> DEFINE i == nS2 + 1
               p == pi[i]
               w == [addr |-> DmAddr(ChainIdx(alloc)), hb |-> Store(EmptyBucket, 0, p, TRUE)]
    <2>1. i \in Ids /\ i <= nS1 /\ p \in PipelineWords
      BY <1>0, <1>13 DEF FillS2RecvRet, StagesAgree, FifosTyped, Ids
    <2>2. ReservationTyped' /\ FillTyped' /\ FifosTyped' /\ StagesAgree'
      <3>1. ReservationTyped'
        BY <1>0, <1>13 DEF FillS2RecvRet, resvVars, ReservationTyped
      <3>2. FillTyped'
        BY <1>0, <1>13 DEF FillS2RecvRet, s1Vars, FillTyped
      <3>3. FifosTyped'
        BY <1>0, <1>13, <2>1 DEF FillS2RecvRet, resvVars, FifosTyped
      <3>4. StagesAgree'
        BY <1>0, <1>13, <2>1 DEF FillS2RecvRet, s1Vars, resvVars, StagesAgree, FifosTyped
      <3> QED
        BY <3>1, <3>2, <3>3, <3>4
    <2>3. CASE alloc = AllocFailed
      <3>1. [p EXCEPT !.ok = FALSE] \in PipelineWords
        BY <2>1 DEF PipelineWords, RawWords
      <3>2. pi' = [pi EXCEPT ![i] = [p EXCEPT !.ok = FALSE]]
        BY <1>13, <2>3 DEF FillS2RecvRet
      <3>3. pi' \in [Ids -> PipelineWords]
        BY <1>0, <2>1, <3>1, <3>2
      <3>4. MemoryTyped'
        BY <1>0, <1>13, <2>3 DEF FillS2RecvRet, MemoryTyped
      <3> QED
        BY <2>2, <3>3, <3>4 DEF TypeOK
    <2>4. CASE alloc # AllocFailed
      <3>1. alloc \in PoolAddrs
        BY <1>0, <1>13, <2>4 DEF FillS2RecvRet, FillTyped
      <3>2. ChainIdx(alloc) \in BucketIdxs /\ DmAddr(ChainIdx(alloc)) \in Addrs
        BY <3>1, PoolIdx
      <3>3. Store(EmptyBucket, 0, p, TRUE) \in Buckets
        <4>1. 0 \in Slots
          BY SizesAssumption DEF Slots
        <4> QED
          BY <2>1, <4>1, EmptyTyped, StoreTyped
      <3>4. w \in [addr : Addrs, hb : Buckets]
        BY <3>2, <3>3
      <3>5. dramWr' = Append(dramWr, w) /\ bram' = bram /\ dram' = dram
        BY <1>13, <2>4 DEF FillS2RecvRet
      <3> HIDE DEF w
      <3>6. MemoryTyped'
        BY <1>0, <3>4, <3>5 DEF MemoryTyped
      <3>7. [p.hb_dram EXCEPT !.chained = TRUE, !.next = ChainIdx(alloc)] \in Buckets
        BY <2>1, <3>2 DEF PipelineWords, RawWords, Buckets
      <3>8. [p EXCEPT !.hb_dram = [p.hb_dram EXCEPT !.chained = TRUE, !.next = ChainIdx(alloc)]]
               \in PipelineWords
        BY <2>1, <3>7 DEF PipelineWords, RawWords
      <3>9. pi' = [pi EXCEPT ![i] = [p EXCEPT !.hb_dram =
                     [p.hb_dram EXCEPT !.chained = TRUE, !.next = ChainIdx(alloc)]]]
        BY <1>13, <2>4 DEF FillS2RecvRet
      <3>10. pi' \in [Ids -> PipelineWords]
        BY <1>0, <2>1, <3>8, <3>9
      <3> QED
        BY <2>2, <3>6, <3>10 DEF TypeOK
    <2> QED
      BY <2>3, <2>4
  <1>14. CASE FillS2WriteData
    <2> DEFINE i == nS2 + 1
               p == pi[i]
               w == [addr |-> DmAddr(p.hb_dram_addr), hb |-> p.hb_dram]
    <2>1. i \in Ids /\ i <= nS1 /\ p \in PipelineWords
      BY <1>0, <1>14 DEF FillS2WriteData, StagesAgree, FifosTyped, Ids
    <2>2. ReservationTyped' /\ FillTyped' /\ FifosTyped' /\ StagesAgree'
      BY <1>0, <1>14, <2>1, SMTT(60)
      DEF FillS2WriteData, s1Vars, resvVars, ReservationTyped, FillTyped, FifosTyped, StagesAgree
    <2>3. [p EXCEPT !.ok = TRUE] \in PipelineWords
      BY <2>1 DEF PipelineWords, RawWords
    <2>4. pi' \in [Ids -> PipelineWords]
      BY <1>0, <1>14, <2>1, <2>3 DEF FillS2WriteData
    <2>5. w \in [addr : Addrs, hb : Buckets]
      <3>1. p.hb_dram_addr \in BucketIdxs /\ p.hb_dram \in Buckets
        BY <2>1 DEF PipelineWords, RawWords
      <3> QED
        BY <3>1, BucketAddr
    <2>6. dramWr' = Append(dramWr, w) /\ bram' = bram /\ dram' = dram
      BY <1>14 DEF FillS2WriteData
    <2> HIDE DEF w
    <2>7. MemoryTyped'
      BY <1>0, <2>5, <2>6 DEF MemoryTyped
    <2> QED
      BY <2>2, <2>4, <2>7 DEF TypeOK
  <1>15. CASE DramWrite
    <2>1. pi' \in [Ids -> PipelineWords] /\ FifosTyped' /\ ReservationTyped' /\ FillTyped'
      BY <1>0, <1>15
      DEF DramWrite, pipeVars, resvVars, s1Vars, s2Vars, FifosTyped, ReservationTyped, FillTyped
    <2>2. MemoryTyped'
      <3> DEFINE W == [addr : Addrs, hb : Buckets]
      <3>1. dramWr \in Seq(W) /\ dramWr # << >>
        BY <1>0, <1>15 DEF DramWrite, MemoryTyped
      <3> HIDE DEF W
      <3>2. Head(dramWr) \in W /\ Tail(dramWr) \in Seq(W)
        BY <3>1
      <3>3. Head(dramWr).addr \in Addrs /\ Head(dramWr).hb \in Buckets
        BY <3>2 DEF W
      <3> QED
        BY <1>0, <1>15, <3>2, <3>3 DEF DramWrite, MemoryTyped, W
    <2>3. StagesAgree'
      BY <1>15 DEF DramWrite, pipeVars, resvVars, s1Vars, s2Vars, StagesAgree
    <2> QED
      BY <2>1, <2>2, <2>3 DEF TypeOK
  <1>16. CASE Demux
    <2>1. pi' \in [Ids -> PipelineWords]
      BY <1>0, <1>16, EmptyTyped DEF Demux
    <2>2. FifosTyped' /\ StagesAgree'
      BY <1>0, <1>16 DEF Demux, FifosTyped, StagesAgree, resvVars, s1Vars, s2Vars
    <2>3. ReservationTyped' /\ MemoryTyped' /\ FillTyped'
      BY <1>0, <1>16
      DEF Demux, resvVars, memVars, s1Vars, s2Vars, ReservationTyped, MemoryTyped, FillTyped
    <2> QED
      BY <2>1, <2>2, <2>3 DEF TypeOK
  <1>17. CASE UNCHANGED vars
    BY <1>17
    DEF vars, pipeVars, resvVars, memVars, s1Vars, s2Vars, TypeOK, StagesAgree,
        FifosTyped, ReservationTyped, MemoryTyped, FillTyped
  <1>18. CASE Idle
    BY <1>17, <1>18 DEF Idle
  <1> QED
    BY <1>1, <1>2, <1>3, <1>4, <1>5, <1>6, <1>7, <1>8, <1>9, <1>10, <1>11, <1>12,
       <1>13, <1>14, <1>15, <1>16, <1>17, <1>18 DEF Next

\* Types are respected for every size of the tables and any number of requests:
\* the stages never overtake one another and no bucket ever points outside the
\* table and the buckets of the allocator, wherever the allocator places them.
THEOREM TypeCorrect == Spec => []TypeOK
  <1>1. Init => TypeOK /\ StagesAgree
    BY TypeInit
  <1>2. TypeOK /\ StagesAgree /\ [Next]_vars => (TypeOK /\ StagesAgree)'
    BY TypeStep
  <1> QED
    BY <1>1, <1>2, PTL DEF Spec

\* No stage ever takes an answer that was meant for another request.
THEOREM AnswersMatch == Spec => []StagesAgree
  <1>1. Init => TypeOK /\ StagesAgree
    BY TypeInit
  <1>2. TypeOK /\ StagesAgree /\ [Next]_vars => (TypeOK /\ StagesAgree)'
    BY TypeStep
  <1> QED
    BY <1>1, <1>2, PTL DEF Spec

-----------------------------------------------------------------------------
(* The reservation table                                                   *)

\* The number of reservations and the requests they belong to.
LEMMA ReservedRange ==
  ASSUME TypeOK, StagesAgree
  PROVE  /\ NResv \in Nat \ {0, 1}
         /\ NReserved \in Nat /\ nCmd <= NReserved /\ NReserved <= nRead
         /\ nRead <= NReserved + 1 /\ nRead <= nRemux
         /\ nPop \in Nat /\ nOut \in Nat /\ nPop <= nOut /\ nOut <= NReserved
         /\ nOut + 1 .. NReserved \subseteq Ids
  <1>1. NResv \in Nat \ {0, 1} /\ MaxReqs \in Nat
    BY SizesAssumption
  <1>2. resv = "RESV_SUCCESS" => nRead = nCmd + 1
    BY DEF StagesAgree
  <1>3. nRead = nCmd \/ nRead = nCmd + 1
    BY DEF StagesAgree
  <1>4. NReserved = nCmd \/ (NReserved = nCmd + 1 /\ nRead = nCmd + 1)
    BY <1>2 DEF NReserved
  <1> QED
    BY <1>1, <1>3, <1>4 DEF TypeOK, FifosTyped, Ids

\* The bucket of a request.
LEMMA IdxTyped ==
  ASSUME TypeOK, NEW i \in Ids
  PROVE  pi[i].key \in Keys \cup {0} /\ Idx(i) \in 0 .. NBram - 1 /\ Idx(i) # Free
  <1>1. pi[i].key \in Keys \cup {0}
    BY DEF TypeOK, PipelineWords, RawWords
  <1>2. Idx(i) \in 0 .. NBram - 1
    BY <1>1, KeyIdx DEF Idx
  <1>3. Idx(i) # Free
    BY <1>2, SizesAssumption DEF Free
  <1> QED
    BY <1>1, <1>2, <1>3

\* Fewer than NResv requests in a row have positions of their own.
LEMMA PosInjective ==
  ASSUME NEW lo \in Nat, NEW hi \in Nat, hi - lo <= NResv,
         NEW i \in lo + 1 .. hi, NEW j \in lo + 1 .. hi, Pos(i) = Pos(j)
  PROVE  i = j
  <1>1. NResv \in Nat \ {0} /\ i - 1 \in Int /\ j - 1 \in Int
    BY SizesAssumption
  <1>2. CASE i <= j
    <2>1. i - 1 <= j - 1 /\ (j - 1) - (i - 1) < NResv /\ (i - 1) % NResv = (j - 1) % NResv
      BY <1>1, <1>2 DEF Pos
    <2>2. i - 1 = j - 1
      BY <1>1, <2>1, ModInjective
    <2> QED
      BY <2>2
  <1>3. CASE j <= i
    <2>1. j - 1 <= i - 1 /\ (i - 1) - (j - 1) < NResv /\ (j - 1) % NResv = (i - 1) % NResv
      BY <1>1, <1>3 DEF Pos
    <2>2. j - 1 = i - 1
      BY <1>1, <2>1, ModInjective
    <2> QED
      BY <2>2
  <1> QED
    BY <1>2, <1>3

\* A position is an entry of addr_resv_table.
LEMMA PosRange ==
  ASSUME NEW i \in Nat
  PROVE  Pos(i) \in 0 .. NResv - 1 /\ Pos(i + 1) = i % NResv
  <1>1. NResv \in Nat \ {0} /\ i - 1 \in Int /\ (i + 1) - 1 = i
    BY SizesAssumption
  <1> QED
    BY <1>1, ModRange DEF Pos

\* A step that takes no reservation and releases none.
LEMMA ReservationFrame ==
  ASSUME TypeOK, StagesAgree, TableTracksPipeline, TableDistinct,
         UNCHANGED <<nPop, tbl, head, rear>>,
         NReserved' = NReserved, nOut' \in Nat, nOut <= nOut',
         \A i \in nOut' + 1 .. NReserved : pi'[i].key = pi[i].key
  PROVE  TableTracksPipeline' /\ TableDistinct'
  <1>1. nOut \in Nat /\ NReserved \in Nat
    BY ReservedRange
  <1>2. \A i \in nOut' + 1 .. NReserved : i \in nOut + 1 .. NReserved /\ Idx(i)' = Idx(i)
    <2> DEFINE m == nOut'
               N == NReserved
    <2>0. m \in Nat /\ nOut <= m /\ nOut \in Nat /\ N \in Nat
      BY <1>1
    <2> HIDE DEF m, N
    <2>1. \A i \in m + 1 .. N : i \in nOut + 1 .. N
      BY <2>0
    <2>2. \A i \in nOut' + 1 .. NReserved : Idx(i)' = Idx(i)
      BY DEF Idx, BramIdx
    <2> QED
      BY <2>1, <2>2 DEF m, N
  <1>3. \A i \in nOut' + 1 .. NReserved' : tbl'[Pos(i)] = Idx(i)'
    BY <1>2 DEF TableTracksPipeline
  <1>4. \A i : Pos(i)' = Pos(i)
    BY DEF Pos
  <1> QED
    BY <1>3, <1>4 DEF TableTracksPipeline, TableDistinct

\* The pop of address_reservation_table.
LEMMA PopStep ==
  ASSUME TypeOK, StagesAgree, TableTracksPipeline, TableDistinct,
         NEW P, P = IF nPop < nOut THEN nPop + 1 ELSE nPop
  PROVE  /\ P \in Nat /\ P <= nOut /\ HeadAfterPop = P % NResv
         /\ P <= NReserved => NReserved - P < NResv
         /\ \A i \in nOut + 1 .. NReserved : TblAfterPop[Pos(i)] = Idx(i)
         /\ \A e \in 0 .. NResv - 1 :
              TblAfterPop[e] # Free <=> \E i \in P + 1 .. NReserved : e = Pos(i)
         /\ \A e, f \in 0 .. NResv - 1 :
              TblAfterPop[e] # Free /\ TblAfterPop[e] = TblAfterPop[f] => e = f
  <1>0. /\ NResv \in Nat \ {0} /\ NReserved \in Nat /\ nPop \in Nat /\ nOut \in Nat
        /\ nPop <= nOut /\ nOut <= NReserved /\ NReserved - nPop < NResv
        /\ tbl \in [0 .. NResv - 1 -> (0 .. NBram - 1) \cup {Free}]
    <2>1. tbl \in [0 .. NResv - 1 -> (0 .. NBram - 1) \cup {Free}]
      BY DEF TypeOK, ReservationTyped
    <2>2. NReserved - nPop < NResv
      BY DEF TableTracksPipeline
    <2> QED
      BY <2>1, <2>2, ReservedRange
  <1>1. CASE ~(nPop < nOut)
    <2>1. P = nPop /\ TblAfterPop = tbl /\ HeadAfterPop = head
      BY <1>1 DEF TblAfterPop, HeadAfterPop
    <2> QED
      BY <1>0, <2>1 DEF TableTracksPipeline, TableDistinct
  <1>2. CASE nPop < nOut
    <2>1. P = nPop + 1 /\ HeadAfterPop = (head + 1) % NResv
          /\ TblAfterPop = [tbl EXCEPT ![head] = Free]
      BY <1>2 DEF TblAfterPop, HeadAfterPop
    <2>2. head = Pos(nPop + 1) /\ head \in 0 .. NResv - 1
      BY <1>0, PosRange DEF TableTracksPipeline, TypeOK, ReservationTyped
    <2>3. HeadAfterPop = P % NResv
      <3>1. nPop \in Int
        BY <1>0
      <3>2. ((nPop % NResv) + 1) % NResv = (nPop + 1) % NResv
        BY <1>0, <3>1, ModSucc
      <3>3. head = nPop % NResv
        BY DEF TableTracksPipeline
      <3> QED
        BY <2>1, <3>2, <3>3
    <2>4. \A i \in nPop + 2 .. NReserved : Pos(i) # head /\ Pos(i) \in 0 .. NResv - 1
      <3> SUFFICES ASSUME NEW i \in nPop + 2 .. NReserved
                   PROVE  Pos(i) # head /\ Pos(i) \in 0 .. NResv - 1
        OBVIOUS
      <3>1. /\ i \in nPop + 1 .. NReserved /\ nPop + 1 \in nPop + 1 .. NReserved
            /\ i # nPop + 1 /\ i \in Nat /\ NReserved - nPop <= NResv
        BY <1>0
      <3>2. Pos(i) # Pos(nPop + 1)
        BY <1>0, <3>1, PosInjective
      <3> QED
        BY <2>2, <3>1, <3>2, PosRange
    <2>5. \A i \in nOut + 1 .. NReserved : TblAfterPop[Pos(i)] = Idx(i)
      <3>1. \A i \in nOut + 1 .. NReserved : i \in nPop + 2 .. NReserved
        BY <1>0, <1>2
      <3>2. \A i \in nOut + 1 .. NReserved : tbl[Pos(i)] = Idx(i)
        BY DEF TableTracksPipeline
      <3> QED
        BY <1>0, <2>1, <2>4, <3>1, <3>2
    <2>6. ASSUME NEW e \in 0 .. NResv - 1
          PROVE  TblAfterPop[e] # Free <=> \E i \in P + 1 .. NReserved : e = Pos(i)
      <3>1. CASE e = head
        <4>1. TblAfterPop[e] = Free
          BY <1>0, <2>1, <2>2, <3>1
        <4>2. ~ \E i \in P + 1 .. NReserved : e = Pos(i)
          BY <1>0, <2>1, <2>4, <3>1
        <4> QED
          BY <4>1, <4>2
      <3>2. CASE e # head
        <4>1. TblAfterPop[e] = tbl[e]
          BY <1>0, <2>1, <2>2, <3>2
        <4>2. tbl[e] # Free <=> \E i \in nPop + 1 .. NReserved : e = Pos(i)
          BY DEF TableTracksPipeline
        <4>3. ASSUME NEW i \in nPop + 1 .. NReserved, e = Pos(i)
              PROVE  i \in P + 1 .. NReserved
          <5>1. i # nPop + 1
            BY <2>2, <3>2, <4>3
          <5> QED
            BY <1>0, <2>1, <5>1
        <4>4. P + 1 .. NReserved \subseteq nPop + 1 .. NReserved
          BY <1>0, <2>1
        <4> QED
          BY <4>1, <4>2, <4>3, <4>4
      <3> QED
        BY <3>1, <3>2
    <2>7. \A e, f \in 0 .. NResv - 1 :
            TblAfterPop[e] # Free /\ TblAfterPop[e] = TblAfterPop[f] => e = f
      BY <1>0, <2>1, <2>2 DEF TableDistinct
    <2>8. P \in Nat /\ P <= nOut /\ NReserved - P < NResv
      BY <1>0, <1>2, <2>1
    <2> QED
      BY <2>3, <2>5, <2>6, <2>7, <2>8
  <1> QED
    BY <1>1, <1>2

\* Pop and reservation together.
LEMMA ReservationStep ==
  ASSUME TypeOK, StagesAgree, TableTracksPipeline, TableDistinct, AddressReservationTable
  PROVE  TableTracksPipeline' /\ TableDistinct'
  <1> DEFINE T == TblAfterPop
             H == HeadAfterPop
             P == IF nPop < nOut THEN nPop + 1 ELSE nPop
             N == NReserved
             index == Idx(nRead)
             Granted == resv = "RESV" /\ ResvResult(T, H, index) = "RESV_SUCCESS"
  <1>0. /\ NResv \in Nat \ {0, 1} /\ NResv \in Nat \ {0} /\ N \in Nat /\ nOut \in Nat
        /\ nOut <= N /\ nCmd \in Nat /\ nOut + 1 .. N \subseteq Ids
        /\ T \in [0 .. NResv - 1 -> (0 .. NBram - 1) \cup {Free}]
    BY ReservedRange DEF TypeOK, FifosTyped, ReservationTyped, TblAfterPop
  <1>1. /\ P \in Nat /\ P <= nOut /\ H = P % NResv
        /\ N - P < NResv
        /\ \A i \in nOut + 1 .. N : T[Pos(i)] = Idx(i)
        /\ \A e \in 0 .. NResv - 1 : T[e] # Free <=> \E i \in P + 1 .. N : e = Pos(i)
        /\ \A e, f \in 0 .. NResv - 1 : T[e] # Free /\ T[e] = T[f] => e = f
    <2>1. /\ P \in Nat /\ P <= nOut /\ H = P % NResv /\ (P <= N => N - P < NResv)
          /\ \A i \in nOut + 1 .. N : T[Pos(i)] = Idx(i)
          /\ \A e \in 0 .. NResv - 1 : T[e] # Free <=> \E i \in P + 1 .. N : e = Pos(i)
          /\ \A e, f \in 0 .. NResv - 1 : T[e] # Free /\ T[e] = T[f] => e = f
      BY PopStep
    <2>2. P <= N
      BY <1>0, <2>1
    <2> QED
      BY <2>1, <2>2
  <1>2. /\ nPop' = P /\ head' = H /\ UNCHANGED <<nOut, nCmd, pi>>
        /\ \A i : Idx(i)' = Idx(i) /\ Pos(i)' = Pos(i)
    BY DEF AddressReservationTable, pipeVars, Idx, Pos
  <1>3. resv \in {"NONE", "RESV", "RESV_SUCCESS", "ADDR_EXIST", "TABLE_FULL"}
    BY DEF TypeOK, ReservationTyped
  <1>4. CASE ~Granted
    <2>1. tbl' = T /\ rear' = rear /\ (resv' = "RESV_SUCCESS" <=> resv = "RESV_SUCCESS")
      BY <1>3, <1>4 DEF AddressReservationTable, ResvResult
    <2>2. NReserved' = N
      BY <1>2, <2>1 DEF NReserved
    <2>3. rear' = N % NResv
      BY <2>1 DEF TableTracksPipeline
    <2> HIDE DEF T, H, P, N
    <2>4. TableTracksPipeline'
      BY <1>0, <1>1, <1>2, <2>1, <2>2, <2>3 DEF TableTracksPipeline
    <2>5. TableDistinct'
      BY <1>1, <2>1 DEF TableDistinct
    <2> QED
      BY <2>4, <2>5
  <1>5. CASE Granted
    <2>1. /\ tbl' = [T EXCEPT ![rear] = index] /\ rear' = (rear + 1) % NResv
          /\ resv' = "RESV_SUCCESS" /\ resv = "RESV"
      BY <1>5 DEF AddressReservationTable
    <2>2. N = nCmd /\ NReserved' = N + 1 /\ nRead = N + 1
      BY <1>2, <2>1 DEF NReserved, StagesAgree
    <2>3. (rear + 1) % NResv # H /\ \A e \in 0 .. NResv - 1 : T[e] # index
      BY <1>0, <1>5 DEF ResvResult
    <2>4. nRead \in Ids /\ index # Free
      <3>1. nRead \in Ids
        BY <1>0, <2>2, SizesAssumption DEF TypeOK, FifosTyped, Ids
      <3> QED
        BY <3>1, IdxTyped
    <2>5. rear = N % NResv /\ rear = Pos(N + 1) /\ rear \in 0 .. NResv - 1
      BY <1>0, PosRange DEF TableTracksPipeline, TypeOK, ReservationTyped
    <2>6. rear' = (N + 1) % NResv
      <3>1. N \in Int
        BY <1>0
      <3> HIDE DEF N
      <3>2. ((N % NResv) + 1) % NResv = (N + 1) % NResv
        BY <1>0, <3>1, ModSucc
      <3> QED
        BY <2>1, <2>5, <3>2
    <2> HIDE DEF T, H, P, N, index
    <2>7. (N + 1) - P < NResv
      <3>1. CASE N + 1 = P + NResv
        <4>1. (P + (NResv * 1)) % NResv = P % NResv
          <5>1. P \in Int /\ 1 \in Int /\ NResv \in Nat \ {0}
            BY <1>0, <1>1
          <5> QED
            BY <5>1, ModShift
        <4>2. N + 1 = P + (NResv * 1)
          BY <1>0, <1>1, <3>1
        <4> QED
          BY <1>1, <2>1, <2>3, <2>6, <4>1, <4>2
      <3> QED
        BY <1>0, <1>1, <3>1
    <2>8. \A i \in P + 1 .. N : Pos(i) # rear /\ Pos(i) \in 0 .. NResv - 1
      <3> SUFFICES ASSUME NEW i \in P + 1 .. N PROVE Pos(i) # rear /\ Pos(i) \in 0 .. NResv - 1
        OBVIOUS
      <3>1. /\ i \in P + 1 .. N + 1 /\ N + 1 \in P + 1 .. N + 1 /\ i # N + 1
            /\ (N + 1) - P <= NResv /\ i \in Nat /\ N + 1 \in Nat
        BY <1>0, <1>1, <2>7
      <3>2. Pos(i) # Pos(N + 1)
        BY <1>1, <3>1, PosInjective
      <3> QED
        BY <2>5, <3>1, <3>2, PosRange
    <2>9. \A i \in nOut + 1 .. N + 1 : tbl'[Pos(i)] = Idx(i)
      <3> SUFFICES ASSUME NEW i \in nOut + 1 .. N + 1 PROVE tbl'[Pos(i)] = Idx(i)
        OBVIOUS
      <3>1. CASE i = N + 1
        BY <1>0, <2>1, <2>2, <2>5, <3>1 DEF index
      <3>2. CASE i # N + 1
        <4>1. i \in nOut + 1 .. N /\ i \in P + 1 .. N
          BY <1>0, <1>1, <3>2
        <4> QED
          BY <1>0, <1>1, <2>1, <2>8, <4>1
      <3> QED
        BY <3>1, <3>2
    <2>10. ASSUME NEW e \in 0 .. NResv - 1
           PROVE  tbl'[e] # Free <=> \E i \in P + 1 .. N + 1 : e = Pos(i)
      <3>1. CASE e = rear
        <4>1. tbl'[e] # Free
          BY <1>0, <2>1, <2>4, <3>1
        <4>2. N + 1 \in P + 1 .. N + 1 /\ e = Pos(N + 1)
          BY <1>0, <1>1, <2>5, <3>1
        <4> QED
          BY <4>1, <4>2
      <3>2. CASE e # rear
        <4>1. tbl'[e] = T[e]
          BY <1>0, <2>1, <3>2
        <4>2. ASSUME NEW i \in P + 1 .. N + 1, e = Pos(i)
              PROVE  i \in P + 1 .. N
          <5>1. i # N + 1
            BY <2>5, <3>2, <4>2
          <5> QED
            BY <1>0, <1>1, <5>1
        <4>3. P + 1 .. N \subseteq P + 1 .. N + 1
          BY <1>0, <1>1
        <4> QED
          BY <1>1, <4>1, <4>2, <4>3
      <3> QED
        BY <3>1, <3>2
    <2>11. TableTracksPipeline'
      <3>1. head' = nPop' % NResv /\ rear' = NReserved' % NResv /\ NReserved' - nPop' < NResv
        BY <1>1, <1>2, <2>2, <2>6, <2>7
      <3>2. \A i \in nOut' + 1 .. NReserved' : tbl'[Pos(i)'] = Idx(i)'
        BY <1>2, <2>2, <2>9
      <3>3. \A e \in 0 .. NResv - 1 :
              tbl'[e] # Free <=> \E i \in nPop' + 1 .. NReserved' : e = Pos(i)'
        BY <1>2, <2>2, <2>10
      <3> QED
        BY <3>1, <3>2, <3>3 DEF TableTracksPipeline
    <2>12. TableDistinct'
      <3> SUFFICES ASSUME NEW e \in 0 .. NResv - 1, NEW f \in 0 .. NResv - 1,
                          tbl'[e] # Free, tbl'[e] = tbl'[f]
                   PROVE  e = f
        BY DEF TableDistinct
      <3>1. \A g \in 0 .. NResv - 1 : tbl'[g] = IF g = rear THEN index ELSE T[g]
        BY <1>0, <2>1
      <3> QED
        BY <1>1, <2>3, <3>1
    <2> QED
      BY <2>11, <2>12
  <1> QED
    BY <1>4, <1>5

\* After reset no entry of addr_resv_table is in use and none is needed.
LEMMA ReservationInit == Init => TableTracksPipeline /\ TableDistinct
  <1> SUFFICES ASSUME Init PROVE TableTracksPipeline /\ TableDistinct
    OBVIOUS
  <1>1. NReserved = 0 /\ nPop = 0 /\ nOut = 0 /\ head = 0 /\ rear = 0 /\ NResv \in Nat \ {0}
    BY SizesAssumption DEF Init, NReserved
  <1>2. 0 % NResv = 0
    <2>1. 0 = (NResv * 0) + 0 /\ 0 \in 0 .. NResv - 1 /\ 0 \in Int
      BY <1>1
    <2> QED
      BY <1>1, <2>1, ModUnique
  <1>3. \A e \in 0 .. NResv - 1 : tbl[e] = Free
    BY DEF Init
  <1> QED
    BY <1>1, <1>2, <1>3 DEF TableTracksPipeline, TableDistinct

\* Every step keeps addr_resv_table in step with the requests under way.
LEMMA ReservationInvStep ==
  ASSUME TypeOK, StagesAgree, TableTracksPipeline, TableDistinct, [Next]_vars
  PROVE  TableTracksPipeline' /\ TableDistinct'
  <1> DEFINE Kept == \A i \in Ids : pi'[i].key = pi[i].key
             Same == UNCHANGED <<nPop, nOut, tbl, head, rear>> /\ NReserved' = NReserved
  <1>0. pi \in [Ids -> PipelineWords] /\ nOut + 1 .. NReserved \subseteq Ids /\ nOut \in Nat
    BY ReservedRange DEF TypeOK
  <1>a. ASSUME Kept, Same PROVE TableTracksPipeline' /\ TableDistinct'
    <2>1. \A i \in nOut' + 1 .. NReserved : pi'[i].key = pi[i].key
      BY <1>0, <1>a
    <2>2. nOut' \in Nat /\ nOut <= nOut'
      BY <1>0, <1>a
    <2>3. UNCHANGED <<nPop, tbl, head, rear>> /\ NReserved' = NReserved
      BY <1>a
    <2> QED
      BY <2>1, <2>2, <2>3, ReservationFrame
  <1>b. ASSUME NEW p \in PipelineWords
        PROVE  /\ \A hb : [p EXCEPT !.hb_dram = hb].key = p.key
               /\ [p EXCEPT !.ok = FALSE].key = p.key
    BY DEF PipelineWords, RawWords
  <1>c. ASSUME NEW k, NEW q, pi' = [pi EXCEPT ![k] = q], k \in Ids => q.key = pi[k].key
        PROVE  Kept
    BY <1>0, <1>c
  <1>1. ASSUME NEW r \in Inputs, Remux(r) PROVE TableTracksPipeline' /\ TableDistinct'
    <2>1. NReserved \in Nat /\ NReserved <= nRemux /\ nRemux \in Nat
      BY ReservedRange DEF TypeOK, FifosTyped
    <2>2. Same
      BY <1>1 DEF Remux, resvVars, NReserved
    <2>3. \A i \in nOut + 1 .. NReserved : pi'[i] = pi[i]
      BY <1>0, <1>1, <2>1 DEF Remux
    <2>4. \A i \in nOut' + 1 .. NReserved : pi'[i].key = pi[i].key
      BY <2>2, <2>3
    <2>5. nOut' \in Nat /\ nOut <= nOut'
      BY <1>0, <2>2
    <2> QED
      BY <2>2, <2>4, <2>5, ReservationFrame
  <1>2. CASE ReadBramIdle
    BY <1>2, <1>a DEF ReadBramIdle, resvVars, NReserved
  <1>3. CASE ReadBramAddrCheck
    <2>1. resv = "NONE"
      BY <1>3 DEF ReadBramAddrCheck, StagesAgree
    <2> QED
      BY <1>3, <1>a, <2>1 DEF ReadBramAddrCheck, pipeVars, NReserved
  <1>4. CASE ReadBramAddrResp
    BY <1>4, <1>a DEF ReadBramAddrResp, NReserved
  <1>5. CASE AddressReservationTable
    BY <1>5, ReservationStep
  <1>6. CASE BramRead
    <2>1. Kept
      BY <1>0, <1>6 DEF BramRead, PipelineWords, RawWords
    <2>2. Same
      BY <1>6 DEF BramRead, resvVars, NReserved
    <2> QED
      BY <1>a, <2>1, <2>2
  <1>7. CASE CompareBram
    <2>1. \A p \in PipelineWords : CompareResult(p).key = p.key
      BY DEF CompareResult, PipelineWords, RawWords
    <2>2. Kept
      BY <1>0, <1>7, <2>1 DEF CompareBram
    <2>3. Same
      BY <1>7 DEF CompareBram, resvVars, NReserved
    <2> QED
      BY <1>a, <2>2, <2>3
  <1>8. CASE FillS1Idle
    BY <1>8, <1>a DEF FillS1Idle, resvVars, NReserved
  <1>9. CASE FillS1SendCmd
    BY <1>9, <1>a DEF FillS1SendCmd, pipeVars, resvVars, NReserved
  <1>10. CASE FillS1ReadData
    <2>1. \A p \in PipelineWords : \A hb, s : S1Hit(p, hb, s).key = p.key
      BY DEF S1Hit, PipelineWords, RawWords
    <2>2. \A p \in PipelineWords : \A hb : S1Miss(p, hb).key = p.key
      BY DEF S1Miss, PipelineWords, RawWords
    <2>3. \A p \in PipelineWords : \A hb, found : S1End(S1Miss(p, hb), hb, found).key = p.key
      BY DEF S1End, S1Miss, PipelineWords, RawWords
    <2>4. \E q : /\ pi' = [pi EXCEPT ![nS1 + 1] = q]
                 /\ nS1 + 1 \in Ids => q.key = pi[nS1 + 1].key
      <3> DEFINE p == pi[nS1 + 1]
                 hb == dram[DmAddr(s1Idx)]
      <3>1. \/ \E s : pi' = [pi EXCEPT ![nS1 + 1] = S1Hit(p, hb, s)]
            \/ \E found : pi' = [pi EXCEPT ![nS1 + 1] = S1End(S1Miss(p, hb), hb, found)]
            \/ pi' = [pi EXCEPT ![nS1 + 1] = S1Miss(p, hb)]
        BY <1>10 DEF FillS1ReadData
      <3>2. nS1 + 1 \in Ids => p \in PipelineWords
        BY <1>0
      <3> HIDE DEF p, hb
      <3> QED
        BY <2>1, <2>2, <2>3, <3>1, <3>2 DEF p
    <2>5. Kept
      BY <1>0, <2>4
    <2>6. Same
      BY <1>10 DEF FillS1ReadData, resvVars, NReserved
    <2> QED
      BY <1>a, <2>5, <2>6
  <1>11. CASE FillS2Idle
    <2>1. pi' = pi \/ \E hb : pi' = [pi EXCEPT ![nS2 + 1] = [@ EXCEPT !.hb_dram = hb]]
      BY <1>11 DEF FillS2Idle
    <2>2. Kept
      <3>1. CASE pi' = pi
        BY <3>1
      <3>2. ASSUME NEW hb, pi' = [pi EXCEPT ![nS2 + 1] = [@ EXCEPT !.hb_dram = hb]]
            PROVE  Kept
        <4>1. nS2 + 1 \in Ids => [pi[nS2 + 1] EXCEPT !.hb_dram = hb].key = pi[nS2 + 1].key
          BY <1>0, <1>b
        <4> QED
          BY <1>c, <3>2, <4>1
      <3> QED
        BY <2>1, <3>1, <3>2
    <2>3. Same
      BY <1>11 DEF FillS2Idle, resvVars, NReserved
    <2> QED
      BY <1>a, <2>2, <2>3
  <1>12. CASE Allocator
    BY <1>12, <1>a DEF Allocator, pipeVars, resvVars, NReserved
  <1>13. CASE FillS2RecvRet
    <2>1. \/ \E hb : pi' = [pi EXCEPT ![nS2 + 1] = [@ EXCEPT !.hb_dram = hb]]
          \/ pi' = [pi EXCEPT ![nS2 + 1] = [@ EXCEPT !.ok = FALSE]]
      BY <1>13 DEF FillS2RecvRet
    <2>2. Kept
      <3>1. CASE pi' = [pi EXCEPT ![nS2 + 1] = [@ EXCEPT !.ok = FALSE]]
        <4>1. nS2 + 1 \in Ids => [pi[nS2 + 1] EXCEPT !.ok = FALSE].key = pi[nS2 + 1].key
          BY <1>0, <1>b
        <4> QED
          BY <1>c, <3>1, <4>1
      <3>2. ASSUME NEW hb, pi' = [pi EXCEPT ![nS2 + 1] = [@ EXCEPT !.hb_dram = hb]]
            PROVE  Kept
        <4>1. nS2 + 1 \in Ids => [pi[nS2 + 1] EXCEPT !.hb_dram = hb].key = pi[nS2 + 1].key
          BY <1>0, <1>b
        <4> QED
          BY <1>c, <3>2, <4>1
      <3> QED
        BY <2>1, <3>1, <3>2
    <2>3. Same
      BY <1>13 DEF FillS2RecvRet, resvVars, NReserved
    <2> QED
      BY <1>a, <2>2, <2>3
  <1>14. CASE FillS2WriteData
    <2>1. Kept
      BY <1>0, <1>14 DEF FillS2WriteData, PipelineWords, RawWords
    <2>2. Same
      BY <1>14 DEF FillS2WriteData, resvVars, NReserved
    <2> QED
      BY <1>a, <2>1, <2>2
  <1>15. CASE DramWrite
    BY <1>15, <1>a DEF DramWrite, pipeVars, resvVars, NReserved
  <1>16. CASE Demux
    <2>1. nOut' = nOut + 1 /\ UNCHANGED <<nPop, tbl, head, rear>> /\ NReserved' = NReserved
      BY <1>16 DEF Demux, resvVars, NReserved
    <2>2. \A i \in nOut' + 1 .. NReserved : pi'[i].key = pi[i].key
      <3>1. \A i \in nOut + 2 .. NReserved : i \in Ids /\ i # nOut + 1
        BY <1>0, ReservedRange
      <3>2. nOut' + 1 = nOut + 2
        BY <1>0, <2>1
      <3> QED
        BY <1>0, <1>16, <3>1, <3>2 DEF Demux
    <2>3. nOut' \in Nat /\ nOut <= nOut'
      BY <1>0, <2>1
    <2> QED
      BY <2>1, <2>2, <2>3, ReservationFrame
  <1>17. CASE UNCHANGED vars
    BY <1>17, <1>a DEF vars, pipeVars, resvVars, NReserved
  <1>18. CASE Idle
    BY <1>17, <1>18 DEF Idle
  <1> QED
    BY <1>1, <1>2, <1>3, <1>4, <1>5, <1>6, <1>7, <1>8, <1>9, <1>10, <1>11, <1>12,
       <1>13, <1>14, <1>15, <1>16, <1>17, <1>18 DEF Next

\* addr_resv_table always holds exactly the reservations of the requests under
\* way, in order: head and rear never run past each other, although the table
\* keeps no count and a POP and a RESV may be served by the same call.
THEOREM ReservationCorrect == Spec => [](TableTracksPipeline /\ TableDistinct)
  <1> DEFINE Inv == TypeOK /\ StagesAgree /\ TableTracksPipeline /\ TableDistinct
  <1>1. Init => Inv
    BY TypeInit, ReservationInit
  <1>2. Inv /\ [Next]_vars => Inv'
    BY TypeStep, ReservationInvStep
  <1> QED
    BY <1>1, <1>2, PTL DEF Spec

\* Entries that are distinct reserve distinct buckets for distinct requests.
LEMMA ExclusiveBuckets ==
  ASSUME TypeOK, StagesAgree, TableTracksPipeline, TableDistinct
  PROVE  BucketExclusive
  <1> SUFFICES ASSUME NEW i \in nOut + 1 .. NReserved, NEW j \in nOut + 1 .. NReserved,
                      Idx(i) = Idx(j)
               PROVE  i = j
    BY DEF BucketExclusive
  <1>1. /\ nPop \in Nat /\ nOut \in Nat /\ nPop <= nOut /\ NReserved \in Nat /\ NResv \in Nat
        /\ NReserved - nPop < NResv
    BY ReservedRange DEF TableTracksPipeline
  <1>2. i \in nPop + 1 .. NReserved /\ j \in nPop + 1 .. NReserved /\ i \in Nat /\ j \in Nat
        /\ NReserved - nPop <= NResv
    BY <1>1
  <1>3. Pos(i) \in 0 .. NResv - 1 /\ Pos(j) \in 0 .. NResv - 1
    BY <1>2, PosRange
  <1>4. tbl[Pos(i)] = Idx(i) /\ tbl[Pos(j)] = Idx(j) /\ tbl[Pos(i)] # Free
    BY <1>2, <1>3 DEF TableTracksPipeline
  <1>5. Pos(i) = Pos(j)
    BY <1>3, <1>4 DEF TableDistinct
  <1> QED
    BY <1>1, <1>2, <1>5, PosInjective

\* The copy of a BRAM bucket that a request carries through the pipeline is
\* never stale: no two requests under way use the same bucket.
THEOREM BucketsExclusive == Spec => []BucketExclusive
  <1>1. Spec => [](TypeOK /\ StagesAgree /\ TableTracksPipeline /\ TableDistinct)
    BY TypeCorrect, AnswersMatch, ReservationCorrect, PTL
  <1>2. TypeOK /\ StagesAgree /\ TableTracksPipeline /\ TableDistinct => BucketExclusive
    BY ExclusiveBuckets
  <1> QED
    BY <1>1, <1>2, PTL

\* Reserving the BRAM index reserves the whole DRAM chain as well, because the
\* size of one table is a multiple of the size of the other.
THEOREM ChainsExclusive == Spec => []ChainExclusive
  <1>1. ASSUME TypeOK, StagesAgree, BucketExclusive
        PROVE  ChainExclusive
    <2> SUFFICES ASSUME NEW i \in nOut + 1 .. NReserved, NEW j \in nOut + 1 .. NReserved,
                        i # j, DramIdx(pi[i].key) = DramIdx(pi[j].key)
                 PROVE  FALSE
      BY DEF ChainExclusive
    <2>1. i \in Ids /\ j \in Ids
      BY <1>1, ReservedRange
    <2>2. /\ pi[i].key \in Int /\ pi[j].key \in Int
          /\ NBram \in Nat \ {0} /\ Ratio \in Nat \ {0}
      <3>1. pi[i].key \in Keys \cup {0} /\ pi[j].key \in Keys \cup {0}
        BY <1>1, <2>1, IdxTyped
      <3>2. \A k \in Keys \cup {0} : k \in Int
        BY SizesAssumption
      <3>3. NBram \in Nat \ {0} /\ Ratio \in Nat \ {0}
        BY SizesAssumption
      <3> QED
        BY <3>1, <3>2, <3>3
    <2>3. /\ (pi[i].key % (NBram * Ratio)) % NBram = pi[i].key % NBram
          /\ (pi[j].key % (NBram * Ratio)) % NBram = pi[j].key % NBram
      BY <2>2, ModOfMultiple
    <2>4. pi[i].key % (NBram * Ratio) = pi[j].key % (NBram * Ratio)
      BY DEF DramIdx, NDram
    <2>5. Idx(i) = Idx(j)
      BY <2>3, <2>4 DEF Idx, BramIdx
    <2> QED
      BY <1>1, <2>5 DEF BucketExclusive
  <1>2. Spec => [](TypeOK /\ StagesAgree /\ BucketExclusive)
    BY TypeCorrect, AnswersMatch, BucketsExclusive, PTL
  <1> QED
    BY <1>1, <1>2, PTL
=============================================================================
