--------------------------- MODULE MemcachedTable ---------------------------
(***************************************************************************)
(* The hash table of the memcached pipeline (app/memcached/hls/sources/    *)
(* hashTable): ht_inputLogic, hash, concurrencyControl, memRead,           *)
(* ht_compare, memWrite or memWriteWithBuddy, and ht_outputLogic, each a   *)
(* state machine between FIFOs. A stage that only passes on what it gets   *)
(* (memRead, the memory's answer, ht_outputLogic) is one step with its     *)
(* neighbour. Up to memRead a FIFO entry is a whole request; behind it     *)
(* keys and memory data are words, because memWrite consumes them word by  *)
(* word. The hash value is the bucket. The FIFOs hold 10 entries or more   *)
(* and never fill on the instances checked.                                *)
(***************************************************************************)
EXTENDS Integers, Sequences

CONSTANTS
  KeyLen,         \* the length in bytes of every key, a function on 1 .. Len(KeyLen)
  Hash,           \* the bucket of every key
  Buckets,        \* the buckets are 0 .. Buckets - 1
  Stride,         \* memory words from one bucket to the next: 2^3
  Bins,           \* noOfBins
  FilterEntries,  \* concFilterEntries
  Requests,       \* what the parser may deliver: [op, key, vlen]
  MaxRequests,    \* bound on the requests delivered
  Addrs,          \* value addresses in the host's hands at the start
  Builds          \* the builds considered: [filters : BOOLEAN, alloc : {"dram", "buddy"}]

ASSUME TableAssumption ==
  /\ Buckets \in Nat \ {0} /\ Stride \in Nat \ {0} /\ Bins \in Nat \ {0} /\ FilterEntries \in Nat \ {0}
  /\ DOMAIN KeyLen \subseteq Nat /\ DOMAIN Hash = DOMAIN KeyLen
  /\ \A k \in DOMAIN KeyLen : KeyLen[k] \in Nat \ {0} /\ Hash[k] \in 0 .. Buckets - 1
  /\ Requests \subseteq [op : {"GET", "SET", "DELETE", "FLUSH"}, key : DOMAIN KeyLen, vlen : Nat]
  /\ Addrs \subseteq Nat
  /\ Builds \subseteq [filters : BOOLEAN, alloc : {"dram", "buddy"}]

VARIABLES
  build,    \* which build is on the board; never changes
  sent,     \* the requests delivered so far
  fifo,     \* the queues between the stages, by name
  ks,       \* state of hashKeyResizer
  cc,       \* concurrencyControl: state and the request it holds
  filter,   \* hashFilter: the entries in flight, oldest first
  mw,       \* memWrite: state, request, status of the bins, location, address
  mem,      \* the hash table's memory: address -> bin -> content
  host,     \* value addresses the host may still assign
  next,     \* dummy_allocator's counter
  out       \* what ht_outputLogic has emitted

vars == <<build, sent, fifo, ks, cc, filter, mw, mem, host, next, out>>

Fifos == {"in2md", "in2cc", "hash2cc", "memRd2comp", "comp2memWr", "comp2memWrKey", "comp2memWrMemData", "dec2cc",
          "addressAssign"}

\* A bin's 128 bits of a memory word: <<key length, value length, value address>> in the
\* first word of a bucket, <<key, number of the word, 0>> in the others.
Zero == <<0, 0, 0>>
NoRequest == [op |-> "NONE", key |-> 0, vlen |-> 0]
Words(r) == (KeyLen[r.key] + 15) \div 16
Base(r) == Stride * Hash[r.key]
TableWords == Stride * Buckets
MemWords == 0 .. TableWords + Stride
Ready(q) == fifo[q] # << >>
Idle(s) == [state |-> s, req |-> NoRequest]

Init ==
  /\ build \in Builds
  /\ sent = << >> /\ fifo = [q \in Fifos |-> << >>]
  /\ ks = "KS_IDLE" /\ cc = Idle("CC_IDLE") /\ filter = << >>
  /\ mw = [state |-> "MW_IDLE", init |-> FALSE, req |-> NoRequest, free |-> {}, match |-> {}, loc |-> 0, addr |-> 0]
  /\ mem = [a \in MemWords |-> [b \in 1 .. Bins |-> Zero]]
  /\ host = Addrs /\ next = 0 /\ out = << >>

-----------------------------------------------------------------------------
(* hash: hashKeyResizer cuts the 16-byte words of a key into words of 12   *)
(* bytes for bobj. Four of those use up three words of the input; state    *)
(* KS_STEP0 then reads the next one, and leaves for another state only     *)
(* when more than 12 bytes were left.                                      *)

KeyResizer[L \in 0 .. 128] ==
  IF L <= 48 THEN "KS_IDLE"
  ELSE IF L - 48 <= 12 THEN "KS_STEP0" ELSE KeyResizer[L - 48]

\* bobj.
HashOf(r) == IF r.op = "FLUSH" THEN 0 ELSE Hash[r.key]

\* ht_inputLogic and hash: key, value and metadata are kept for the output; a FLUSH counts as a
\* key of one byte. In KS_STEP0 the words of a key are taken for the rest of the one before: no
\* length and so no hash value is passed on for it.
InputLogic(r) ==
  /\ ks' = IF ks # "KS_IDLE" \/ r.op = "FLUSH" THEN ks ELSE KeyResizer[KeyLen[r.key]]
  /\ fifo' = [fifo EXCEPT !.in2md = Append(@, r), !.in2cc = Append(@, r),
                !.hash2cc = IF ks = "KS_IDLE" THEN Append(@, HashOf(r)) ELSE @]

Deliver ==
  /\ Len(sent) < MaxRequests
  /\ \E r \in Requests : sent' = Append(sent, r) /\ InputLogic(r)
  /\ UNCHANGED <<build, cc, filter, mw, mem, host, next, out>>

-----------------------------------------------------------------------------
(* concurrencyControl and concurrencyFilter. globals.cpp has the filter    *)
(* twice, the first version switched off with #if 0: build.filters says    *)
(* which one was compiled.                                                 *)

FilterFull == build.filters /\ Len(filter) = FilterEntries

\* Seeded fault: a DELETE in flight does not hold back what follows.
CompareIgnoresDelete(r) ==
  /\ build.filters
  /\ \E i \in DOMAIN filter : \/ filter[i].hash = HashOf(r) /\ filter[i].op = "SET"
                              \/ filter[i].op = "FLUSH"

Compare(r) ==
  /\ build.filters
  /\ \E i \in DOMAIN filter : \/ filter[i].hash = HashOf(r) /\ filter[i].op \in {"SET", "DELETE"}
                              \/ filter[i].op = "FLUSH"

FilterPush(r) == IF build.filters THEN Append(filter, [hash |-> HashOf(r), op |-> r.op]) ELSE filter

FilterPop == IF build.filters THEN Tail(filter) ELSE filter

\* memRead asks for the bucket of all but a FLUSH.
Push(r) ==
  /\ filter' = FilterPush(r)
  /\ cc' = Idle("CC_IDLE")

\* A pop is seen before new work.
ConcurrencyControl ==
  LET r == Head(fifo.in2cc) IN
  /\ \/ /\ Ready("dec2cc")
        /\ filter' = FilterPop
        /\ fifo' = [fifo EXCEPT !.dec2cc = Tail(@)]
        /\ UNCHANGED cc
     \/ /\ cc.state = "CC_IDLE" /\ ~ Ready("dec2cc") /\ Ready("in2cc") /\ Ready("hash2cc")
        /\ \/ /\ Compare(r) \/ FilterFull
              /\ cc' = [state |-> "CC_WAIT", req |-> r]
              /\ fifo' = [fifo EXCEPT !.in2cc = Tail(@), !.hash2cc = Tail(@)]
              /\ UNCHANGED filter
           \/ /\ ~ Compare(r) /\ ~ FilterFull
              /\ Push(r)
              /\ fifo' = [fifo EXCEPT !.in2cc = Tail(@), !.hash2cc = Tail(@), !.memRd2comp = Append(@, r)]
     \/ /\ cc.state = "CC_WAIT" /\ ~ Ready("dec2cc") /\ ~ FilterFull /\ ~ Compare(cc.req)
        /\ Push(cc.req)
        /\ fifo' = [fifo EXCEPT !.memRd2comp = Append(@, cc.req)]
  /\ UNCHANGED <<build, sent, ks, mw, mem, host, next, out>>

-----------------------------------------------------------------------------
(* memRead, the memory and ht_compare. The memory answers some time after  *)
(* memRead's command; a write is visible to the reads it serves later.     *)

MemRead(r) == [i \in 1 .. Words(r) + 1 |-> mem[Base(r) + i - 1]]

KeyWords(r) == [w \in 1 .. Words(r) |-> [content |-> <<r.key, w, 0>>, eop |-> w = Words(r)]]

\* An empty bin has key length 0; a bin matches when its length and all words agree.
FreeBins(data) == { b \in 1 .. Bins : data[1][b][1] = 0 }
MatchBins(r, data) ==
  { b \in 1 .. Bins : /\ data[1][b][1] = KeyLen[r.key]
                      /\ \A w \in 1 .. Words(r) : data[w + 1][b] = <<r.key, w, 0>> }

HtCompare ==
  LET r == Head(fifo.memRd2comp)
      data == MemRead(r) IN
  /\ Ready("memRd2comp")
  /\ fifo' =
       IF r.op = "FLUSH"
       THEN [fifo EXCEPT !.memRd2comp = Tail(@),
               !.comp2memWr = Append(@, [req |-> r, free |-> {}, match |-> {}]),
               !.comp2memWrKey = Append(@, [content |-> Zero, eop |-> TRUE])]
       ELSE [fifo EXCEPT !.memRd2comp = Tail(@),
               !.comp2memWr = Append(@, [req |-> r, free |-> FreeBins(data), match |-> MatchBins(r, data)]),
               !.comp2memWrKey = @ \o KeyWords(r), !.comp2memWrMemData = @ \o data]
  /\ UNCHANGED <<build, sent, ks, cc, filter, mw, mem, host, next, out>>

-----------------------------------------------------------------------------
(* memWrite and memWriteWithBuddy.                                         *)

Lowest(S) == CHOOSE x \in S : \A y \in S : x <= y
Highest(S) == CHOOSE x \in S : \A y \in S : x >= y
Result(op, ok, addr, vlen) == [op |-> op, ok |-> ok, addr |-> addr, vlen |-> vlen]

\* ht_outputLogic: a result goes out with the oldest metadata; for all but a SET the value
\* length is the result's.
OutputLogic(res) ==
  LET r == Head(fifo.in2md) IN
  out' = Append(out, [req |-> r, res |-> IF res.op = "SET" THEN [res EXCEPT !.vlen = r.vlen] ELSE res])

\* The table is cleared once at the start (not by memWriteWithBuddy) and by every FLUSH, a word
\* a step, up to the last word but one.
MwIdle ==
  LET s == Head(fifo.comp2memWr) IN
  /\ mw.state = "MW_IDLE"
  /\ IF mw.init
     THEN /\ Ready("comp2memWr")
          /\ mw' = [mw EXCEPT !.req = s.req, !.free = s.free, !.match = s.match, !.addr = 0,
                              !.state = IF s.req.op = "FLUSH" /\ build.alloc = "dram" THEN "MW_FLUSH_WAIT" ELSE "MW_EVAL"]
          /\ fifo' = [fifo EXCEPT !.comp2memWr = Tail(@)]
     ELSE mw' = [mw EXCEPT !.init = TRUE, !.state = "MW_INIT_MEM"] /\ UNCHANGED fifo
  /\ UNCHANGED <<mem, host, next, out>>

Cleared(s) ==
  LET last == mw.addr + 1 = TableWords - 1 IN
  /\ mem' = [mem EXCEPT ![mw.addr] = [b \in 1 .. Bins |-> Zero]]
  /\ mw' = [mw EXCEPT !.addr = @ + 1, !.state = IF last THEN s ELSE @]

MwInitMem ==
  /\ mw.state = "MW_INIT_MEM"
  /\ IF build.alloc = "buddy"
     THEN mw' = [mw EXCEPT !.state = "MW_IDLE"] /\ UNCHANGED mem
     ELSE Cleared("MW_IDLE")
  /\ UNCHANGED <<fifo, host, next, out>>

\* GET.
EvalGet(word) ==
  LET b == Lowest(mw.match) IN
  /\ mw.req.op = "GET"
  /\ fifo' = [fifo EXCEPT !.comp2memWrMemData = Tail(@), !.dec2cc = Append(@, 1), !.in2md = Tail(@)]
  /\ OutputLogic(IF mw.match = {} THEN Result("GET", FALSE, 0, 0) ELSE Result("GET", TRUE, word[b][3], word[b][2]))
  /\ mw' = [mw EXCEPT !.state = "MW_CONSUME"]
  /\ UNCHANGED <<mem, host, next>>

\* SET: the bins that memWrite takes for a new entry, and the one it replaces.
SetFound == IF build.alloc = "dram" THEN mw.free ELSE mw.free \cup mw.match
SetRefused == (SetFound \cup mw.match = {}) \/ (build.alloc = "dram" /\ ~ Ready("addressAssign"))

\* Seeded fault: the entry's old address is not reused.
NeverReuses(word, b) == IF build.alloc = "dram" THEN Head(fifo.addressAssign) ELSE next

SetAddress(word, b) ==
  IF mw.match # {} THEN word[b][3] ELSE IF build.alloc = "dram" THEN Head(fifo.addressAssign) ELSE next

SetLocation == IF mw.match # {} THEN Lowest(mw.match) ELSE Lowest(SetFound)

EvalSet(word) ==
  /\ mw.req.op = "SET"
  /\ \/ /\ SetRefused
        /\ fifo' = [fifo EXCEPT !.comp2memWrMemData = Tail(@), !.dec2cc = Append(@, 1), !.in2md = Tail(@)]
        /\ OutputLogic(Result("SET", FALSE, 0, 0))
        /\ mw' = [mw EXCEPT !.state = "MW_CONSUME"]
        /\ UNCHANGED <<mem, next>>
     \/ LET b == SetLocation
            a == SetAddress(word, b) IN
        /\ ~ SetRefused /\ SetFound # {}
        /\ mem' = [mem EXCEPT ![Base(mw.req)] = [word EXCEPT ![b] = <<KeyLen[mw.req.key], mw.req.vlen, a>>]]
        /\ OutputLogic(Result("SET", TRUE, a, 0))
        /\ fifo' = [fifo EXCEPT !.comp2memWrMemData = Tail(@), !.in2md = Tail(@),
                      !.addressAssign = IF mw.match = {} /\ build.alloc = "dram" THEN Tail(@) ELSE @]
        /\ next' = IF mw.match = {} /\ build.alloc = "buddy" THEN next + 1 ELSE next
        /\ mw' = [mw EXCEPT !.state = "MW_SET_REST", !.loc = b, !.addr = Base(mw.req) + 1]
  /\ UNCHANGED host

\* DELETE: the value's address goes back to the host or to the allocator.
EvalDelete(word) ==
  LET b == Highest(mw.match) IN
  /\ mw.req.op = "DELETE"
  /\ IF mw.match = {} THEN UNCHANGED <<mem, host>>
     ELSE /\ mem' = [mem EXCEPT ![Base(mw.req)] = [word EXCEPT ![b] = <<0, 0, @[3]>>]]
          /\ host' = IF build.alloc = "dram" THEN host \cup {word[b][3]} ELSE host
  /\ fifo' = [fifo EXCEPT !.comp2memWrMemData = Tail(@), !.dec2cc = Append(@, 1), !.in2md = Tail(@)]
  /\ OutputLogic(Result("DELETE", mw.match # {}, 0, 0))
  /\ mw' = [mw EXCEPT !.state = "MW_CONSUME"]
  /\ UNCHANGED next

\* No branch of MW_EVAL is for this request: the word is taken and nothing done with it.
Unforeseen ==
  \/ mw.req.op = "FLUSH"
  \/ mw.req.op = "SET" /\ ~ SetRefused /\ SetFound = {}

MwEval ==
  LET word == Head(fifo.comp2memWrMemData) IN
  /\ mw.state = "MW_EVAL" /\ Ready("comp2memWrMemData")
  /\ \/ EvalGet(word) \/ EvalSet(word) \/ EvalDelete(word)
     \/ /\ Unforeseen
        /\ fifo' = [fifo EXCEPT !.comp2memWrMemData = Tail(@)]
        /\ UNCHANGED <<mw, mem, host, next, out>>

\* The words of the key, each written back with the other bins as they were read.
MwRest ==
  LET word == Head(fifo.comp2memWrMemData)
      k == Head(fifo.comp2memWrKey) IN
  /\ mw.state \in {"MW_SET_REST", "MW_CONSUME"} /\ Ready("comp2memWrKey") /\ Ready("comp2memWrMemData")
  /\ mem' = IF mw.state = "MW_CONSUME" THEN mem ELSE [mem EXCEPT ![mw.addr] = [word EXCEPT ![mw.loc] = k.content]]
  /\ mw' = [mw EXCEPT !.addr = @ + 1, !.state = IF k.eop THEN "MW_IDLE" ELSE @]
  /\ fifo' = [fifo EXCEPT !.comp2memWrKey = Tail(@), !.comp2memWrMemData = Tail(@),
                !.dec2cc = IF k.eop /\ mw.state = "MW_SET_REST" THEN Append(@, 1) ELSE @]
  /\ UNCHANGED <<host, next, out>>

\* The host acknowledges the flush request.
MwFlush ==
  \/ /\ mw.state = "MW_FLUSH_WAIT"
     /\ mw' = [mw EXCEPT !.state = "MW_FLUSH"]
     /\ UNCHANGED <<fifo, mem, host, next, out>>
  \/ /\ mw.state = "MW_FLUSH"
     /\ Cleared("MW_FLUSH_CONSUME_KEY")
     /\ IF mw'.state = "MW_FLUSH" THEN UNCHANGED <<fifo, out>>
        ELSE /\ fifo' = [fifo EXCEPT !.dec2cc = Append(@, 1), !.in2md = Tail(@)]
             /\ OutputLogic(Result("FLUSH", TRUE, 0, 0))
     /\ UNCHANGED <<host, next>>
  \/ /\ mw.state = "MW_FLUSH_CONSUME_KEY" /\ Ready("comp2memWrKey")
     /\ mw' = [mw EXCEPT !.state = "MW_IDLE"]
     /\ fifo' = [fifo EXCEPT !.comp2memWrKey = Tail(@)]
     /\ UNCHANGED <<mem, host, next, out>>

MemWrite ==
  /\ MwIdle \/ MwInitMem \/ MwEval \/ MwRest \/ MwFlush
  /\ UNCHANGED <<build, sent, ks, cc, filter>>

\* The host hands out addresses, some time before they are needed or too late.
HostAssign ==
  /\ build.alloc = "dram"
  /\ host # {}
  /\ host' = host \ {Lowest(host)}
  /\ fifo' = [fifo EXCEPT !.addressAssign = Append(@, Lowest(host))]
  /\ UNCHANGED <<build, sent, ks, cc, filter, mw, mem, next, out>>

Next == Deliver \/ ConcurrencyControl \/ HtCompare \/ MemWrite \/ HostAssign

\* Every stage runs in every clock cycle.
Fairness == WF_vars(ConcurrencyControl) /\ WF_vars(HtCompare) /\ WF_vars(MemWrite)

Spec == Init /\ [][Next]_vars /\ Fairness

-----------------------------------------------------------------------------
(* Properties.                                                             *)

\* The entries in the table: the heads of the buckets that are not free.
Entries == { e \in (0 .. Buckets - 1) \X (1 .. Bins) : mem[Stride * e[1]][e[2]][1] # 0 }
AddressOf(e) == mem[Stride * e[1]][e[2]][3]

\* The last request before answer i that changed key k: 0 if there is none.
Changes(j, k) ==
  /\ out[j].res.ok
  /\ out[j].req.op = "FLUSH" \/ (out[j].req.op \in {"SET", "DELETE"} /\ out[j].req.key = k)
LastChange(i, k) ==
  LET S == { j \in 1 .. i - 1 : Changes(j, k) } IN IF S = {} THEN 0 ELSE Highest(S)

\* With the concurrency filter compiled in, the answers are those of the requests executed one
\* after the other: a GET finds the address and length of the last SET, a DELETE succeeds when
\* the key is there, although reads of a bucket overlap with writes to it.
AnswersSequential ==
  build.filters =>
    \A i \in DOMAIN out :
      LET r == out[i].req
          s == out[i].res
          j == LastChange(i, r.key)
          present == j # 0 /\ out[j].req.op = "SET"
      IN /\ s.op = r.op
         /\ r.op \in {"GET", "DELETE"} => s.ok = present
         /\ r.op = "GET" /\ s.ok => s.addr = out[j].res.addr /\ s.vlen = out[j].req.vlen

\* Address a may still be given to a new entry: by the host, or by dummy_allocator.
Assignable(a) ==
  IF build.alloc = "dram" THEN a \in host \cup { fifo.addressAssign[i] : i \in DOMAIN fifo.addressAssign }
  ELSE a >= next

\* With the concurrency filter, no two entries share a value address, and none uses an address
\* that may still be assigned: memWrite takes an address for every new entry and gives it
\* back on DELETE, although it writes back whole buckets read earlier.
AddressesUnshared ==
  build.filters =>
    /\ \A d, e \in Entries : d # e => AddressOf(d) # AddressOf(e)
    /\ \A e \in Entries : ~ Assignable(AddressOf(e))

\* memWrite has met a request that no branch of MW_EVAL is for, or the resizer has kept a key
\* open.
Stuck == ks # "KS_IDLE" \/ (mw.state = "MW_EVAL" /\ Unforeseen)

\* Every request is answered: again and again there are as many answers as requests. The only
\* ways to stop are those of Stuck.
RequestsAnswered == []<>(Len(out) = Len(sent) \/ Stuck)
=============================================================================
