--------------------------- MODULE MemcachedStore ---------------------------
(***************************************************************************)
(* The value store of the memcached pipeline (app/memcached/hls/sources/   *)
(* valueStore/valueStore.cpp, with accessFilter of globals.cpp): it writes *)
(* the value of a SET to the address that the hash table chose and reads   *)
(* it back for a GET. accessControl may hold a request back; demux spreads *)
(* it over the FIFOs of setPath, getPath and remux, which run on their     *)
(* own. A request is streamed to demux in one step, setPath writes a       *)
(* memory line in one step, and remux puts out an answer in one step; the  *)
(* read path, where the memory's pace matters, is modelled word by word.   *)
(* Lengths are in 8-byte words. The FIFOs hold 128 entries and never fill. *)
(***************************************************************************)
EXTENDS Integers, Sequences

CONSTANTS
  Addresses,      \* value addresses
  LineWords,      \* words in a memory line: memIntWidth / 64
  MaxWords,       \* longest value; the shortest one has two words
  FilterSize,     \* accFilterEntries
  MaxOps,         \* bound on the requests delivered
  StoreBuilds     \* [filters : BOOLEAN, gaps : BOOLEAN]

ASSUME StoreAssumption ==
  LineWords \in Nat \ {0, 1} /\ MaxWords \in Nat \ {0, 1} /\ FilterSize \in Nat \ {0}

VARIABLES
  sbuild,    \* are the filters compiled in; may the memory pause between two lines of a value
  ops,       \* the requests delivered so far
  inData,    \* numbers of the requests that wait in front of accessControl
  acc,       \* accessControl: state, request, streamToPop
  seqQ,      \* filterSeq
  accFilter, \* accessFilter: the entries, oldest first
  pops,      \* filterPopSet and filterPopGet: the completions not yet seen
  paths,     \* the FIFOs behind demux, by name
  lines,     \* lines of the current SET written
  rec,       \* receive: state, line, words still due, getCounter
  dram,      \* address -> line -> words
  answers    \* what remux has put out

svars == <<sbuild, ops, inData, acc, seqQ, accFilter, pops, paths, lines, rec, dram, answers>>

Paths == {"setMetadata", "setValueIn", "memRdCmd", "valueLengthQ", "memRdData", "getPath2remux", "metadataBuffer"}

\* Lines of a value, the count in the memory commands.
NumOfWords(w) == (w + LineWords - 1) \div LineWords
NoWord == <<0, 0>>
NoOne == 2                      \* streamToPop: nothing to pop
Slots == 0 .. NumOfWords(MaxWords) - 1
StreamOf(n) == IF ops[n].op = "SET" THEN 1 ELSE 0

InitStore ==
  /\ sbuild \in StoreBuilds
  /\ ops = << >> /\ inData = << >>
  /\ acc = [state |-> "ACC_IDLE", req |-> 0, pop |-> NoOne]
  /\ seqQ = << >> /\ accFilter = << >> /\ pops = [s \in {0, 1} |-> 0]
  /\ paths = [p \in Paths |-> << >>] /\ lines = 0
  /\ rec = [state |-> "GET_IDLE", line |-> << >>, left |-> 0, counter |-> 0]
  /\ dram = [a \in Addresses |-> [l \in Slots |-> [w \in 1 .. LineWords |-> NoWord]]]
  /\ answers = << >>

\* The hash table's answers: a GET comes with the address and length of the last SET of its
\* key; "PASS" is a DELETE, a FLUSH or a request that failed.
SetsOf(a) == { n \in DOMAIN ops : ops[n].op = "SET" /\ ops[n].addr = a }
Last(S) == CHOOSE n \in S : \A m \in S : m <= n

DeliverOp ==
  /\ Len(ops) < MaxOps
  /\ \E a \in Addresses :
       \/ \E w \in 2 .. MaxWords : ops' = Append(ops, [op |-> "SET", addr |-> a, words |-> w])
       \/ /\ SetsOf(a) # {}
          /\ ops' = Append(ops, [op |-> "GET", addr |-> a, words |-> ops[Last(SetsOf(a))].words])
       \/ ops' = Append(ops, [op |-> "PASS", addr |-> a, words |-> 0])
  /\ inData' = Append(inData, Len(ops'))
  /\ UNCHANGED <<sbuild, acc, seqQ, accFilter, pops, paths, lines, rec, dram, answers>>

-----------------------------------------------------------------------------
(* accessControl and demux.                                                *)

\* Seeded fault: a SET after a GET is held back instead.
WriteAfterRead(n) ==
  /\ sbuild.filters
  /\ \E i \in DOMAIN accFilter : ops[n].addr = ops[accFilter[i]].addr /\ ops[n].op = "SET" /\ ops[accFilter[i]].op = "GET"

\* Only a GET after a SET of the same address is held back.
AccCompare(n) ==
  /\ sbuild.filters
  /\ \E i \in DOMAIN accFilter : ops[n].addr = ops[accFilter[i]].addr /\ ops[n].op = "GET" /\ ops[accFilter[i]].op = "SET"

AccFull == sbuild.filters /\ Len(accFilter) = FilterSize
AccPush(n) == accFilter' = IF sbuild.filters THEN Append(accFilter, n) ELSE accFilter

\* The words of a value; the last one carries EOP.
ValueWords(n) == [i \in 1 .. ops[n].words |-> [data |-> <<n, i>>, eop |-> i = ops[n].words]]

\* demux and dispatch.
Demux(n) ==
  paths' =
    CASE ops[n].op = "SET" -> [paths EXCEPT !.metadataBuffer = Append(@, n), !.setMetadata = Append(@, n),
                                            !.setValueIn = @ \o ValueWords(n)]
      [] ops[n].op = "GET" -> [paths EXCEPT !.metadataBuffer = Append(@, n),
                                            !.memRdCmd = @ \o [i \in 1 .. NumOfWords(ops[n].words) |->
                                                                 [addr |-> ops[n].addr, line |-> i - 1]],
                                            !.valueLengthQ = Append(@, ops[n].words)]
      [] OTHER -> [paths EXCEPT !.metadataBuffer = Append(@, n)]

CanPop == acc.pop # NoOne /\ pops[acc.pop] > 0

\* ACC_IDLE: completions first, then a new request. ACC_POP follows in the next cycle.
AccIdle ==
  /\ acc.state = "ACC_IDLE"
  /\ \/ /\ CanPop
        /\ acc' = [acc EXCEPT !.state = "ACC_POP"]
        /\ UNCHANGED <<inData, seqQ, paths>>
     \/ /\ ~ CanPop /\ inData # << >>
        /\ inData' = Tail(inData)
        /\ LET n == Head(inData) IN
           IF ops[n].op = "PASS"
           THEN Demux(n) /\ UNCHANGED <<acc, seqQ>>
           ELSE /\ seqQ' = Append(seqQ, StreamOf(n))
                /\ acc' = [acc EXCEPT !.state = "ACC_EVAL", !.req = n]
                /\ UNCHANGED paths
  /\ UNCHANGED <<accFilter, pops>>

\* ACC_EVAL and ACC_QRD.
AccEval ==
  /\ acc.state = "ACC_EVAL"
  /\ IF ~ AccCompare(acc.req) /\ ~ AccFull
     THEN acc' = [acc EXCEPT !.state = "ACC_PUSH"] /\ UNCHANGED seqQ
     ELSE IF acc.pop = NoOne
          THEN acc' = [acc EXCEPT !.state = "ACC_WAIT", !.pop = Head(seqQ)] /\ seqQ' = Tail(seqQ)
          ELSE acc' = [acc EXCEPT !.state = "ACC_WAIT"] /\ UNCHANGED seqQ
  /\ UNCHANGED <<inData, accFilter, pops, paths>>

\* ACC_PUSH and ACC_STREAM.
AccStream ==
  /\ acc.state = "ACC_PUSH"
  /\ IF acc.pop = NoOne /\ seqQ # << >>
     THEN acc' = [acc EXCEPT !.state = "ACC_IDLE", !.pop = Head(seqQ)] /\ seqQ' = Tail(seqQ)
     ELSE acc' = [acc EXCEPT !.state = "ACC_IDLE"] /\ UNCHANGED seqQ
  /\ AccPush(acc.req)
  /\ Demux(acc.req)
  /\ UNCHANGED <<inData, pops>>

\* Seeded fault: no completion is taken while a request waits.
WaitsOnly ==
  /\ acc.state = "ACC_WAIT"
  /\ ~ AccCompare(acc.req) /\ ~ AccFull /\ acc' = [acc EXCEPT !.state = "ACC_PUSH"]
  /\ UNCHANGED <<inData, seqQ, accFilter, pops, paths>>

AccWait ==
  /\ acc.state = "ACC_WAIT"
  /\ \/ CanPop /\ acc' = [acc EXCEPT !.state = "ACC_POP_WAIT"]
     \/ ~ CanPop /\ ~ AccCompare(acc.req) /\ ~ AccFull /\ acc' = [acc EXCEPT !.state = "ACC_PUSH"]
  /\ UNCHANGED <<inData, seqQ, accFilter, pops, paths>>

\* ACC_POP and ACC_POP_WAIT.
AccPop ==
  /\ acc.state \in {"ACC_POP", "ACC_POP_WAIT"}
  /\ pops' = [pops EXCEPT ![acc.pop] = IF @ > 0 THEN @ - 1 ELSE 0]
  /\ accFilter' = IF sbuild.filters THEN Tail(accFilter) ELSE accFilter
  /\ LET s == IF acc.state = "ACC_POP" THEN "ACC_IDLE" ELSE "ACC_WAIT" IN
     IF seqQ # << >>
     THEN acc' = [acc EXCEPT !.state = s, !.pop = Head(seqQ)] /\ seqQ' = Tail(seqQ)
     ELSE acc' = [acc EXCEPT !.state = s, !.pop = NoOne] /\ UNCHANGED seqQ
  /\ UNCHANGED <<inData, paths>>

AccessControl ==
  /\ AccIdle \/ AccEval \/ AccStream \/ AccWait \/ AccPop
  /\ UNCHANGED <<sbuild, ops, lines, rec, dram, answers>>

-----------------------------------------------------------------------------
(* setPath: the words of a value are gathered into lines; the last line    *)
(* completes the SET.                                                      *)

Least(a, b) == IF a < b THEN a ELSE b
WordsOfLine ==
  LET q == paths.setValueIn
      ends == { i \in 1 .. Least(LineWords, Len(q)) : q[i].eop }
  IN IF ends = {} THEN LineWords ELSE CHOOSE i \in ends : \A j \in ends : i <= j

\* The buffer is cleared before a value, not between its lines: it still holds the line written last.
setValueBuffer(a) == IF lines = 0 THEN [w \in 1 .. LineWords |-> NoWord] ELSE dram[a][lines - 1]

SetPath ==
  LET n == Head(paths.setMetadata)
      k == WordsOfLine
      final == paths.setValueIn[k].eop
  IN
  /\ paths.setMetadata # << >>
  /\ dram' = [dram EXCEPT ![ops[n].addr][lines] =
                [w \in 1 .. LineWords |-> IF w <= k THEN paths.setValueIn[w].data ELSE setValueBuffer(ops[n].addr)[w]]]
  /\ paths' = [paths EXCEPT !.setValueIn = SubSeq(@, k + 1, Len(@)),
                            !.setMetadata = IF final THEN Tail(@) ELSE @]
  /\ lines' = IF final THEN 0 ELSE lines + 1
  /\ pops' = IF final THEN [pops EXCEPT ![1] = @ + 1] ELSE pops
  /\ UNCHANGED <<sbuild, ops, inData, acc, seqQ, accFilter, rec, answers>>

-----------------------------------------------------------------------------
(* getPath: the memory answers a read command with its lines, and receive  *)
(* cuts them into words.                                                   *)

\* A memory that pauses delivers line by line, any other one a whole value at once.
DramRead ==
  LET q == paths.memRdCmd
      k == IF sbuild.gaps THEN 1
           ELSE CHOOSE i \in 1 .. Len(q) : /\ i = Len(q) \/ q[i + 1].line = 0
                                           /\ \A j \in 2 .. i : q[j].line # 0
  IN
  /\ q # << >>
  /\ paths' = [paths EXCEPT !.memRdCmd = SubSeq(@, k + 1, Len(@)),
                            !.memRdData = @ \o [i \in 1 .. k |-> dram[q[i].addr][q[i].line]]]
  /\ UNCHANGED <<sbuild, ops, inData, acc, seqQ, accFilter, pops, lines, rec, dram, answers>>

GetIdle ==
  LET line == Head(paths.memRdData) IN
  /\ rec.state = "GET_IDLE" /\ paths.valueLengthQ # << >> /\ paths.memRdData # << >>
  /\ rec' = [state |-> "GET_ACC", line |-> line, left |-> Head(paths.valueLengthQ) - 1, counter |-> rec.counter + 1]
  /\ paths' = [paths EXCEPT !.valueLengthQ = Tail(@), !.memRdData = Tail(@), !.getPath2remux = Append(@, line[1])]
  /\ UNCHANGED pops

\* The next word is written before the check that the next line is there, and written again in
\* every cycle that it is not.
GetAcc ==
  LET left == rec.left - 1
      word == rec.line[rec.counter + 1]
      lastOfLine == rec.counter = LineWords - 1
  IN
  /\ rec.state = "GET_ACC"
  /\ \/ /\ left = 0
        /\ rec' = [state |-> "GET_IDLE", line |-> << >>, left |-> 0, counter |-> 0]
        /\ pops' = [pops EXCEPT ![0] = @ + 1]
        /\ paths' = [paths EXCEPT !.getPath2remux = Append(@, word)]
     \/ /\ left > 0 /\ lastOfLine /\ paths.memRdData # << >>
        /\ rec' = [rec EXCEPT !.left = left, !.line = Head(paths.memRdData), !.counter = 0]
        /\ paths' = [paths EXCEPT !.getPath2remux = Append(@, word), !.memRdData = Tail(@)]
        /\ UNCHANGED pops
     \/ /\ left > 0 /\ (lastOfLine => paths.memRdData = << >>)
        /\ rec' = [rec EXCEPT !.left = left, !.counter = IF lastOfLine THEN @ ELSE @ + 1]
        /\ paths' = [paths EXCEPT !.getPath2remux = Append(@, word)]
        /\ UNCHANGED pops

Receive ==
  /\ GetIdle \/ GetAcc
  /\ UNCHANGED <<sbuild, ops, inData, acc, seqQ, accFilter, lines, dram, answers>>

-----------------------------------------------------------------------------
(* remux: answers in the order of the requests, a GET with its value.      *)

Remux ==
  LET n == Head(paths.metadataBuffer)
      k == IF ops[n].op = "GET" THEN ops[n].words ELSE 0
  IN
  /\ paths.metadataBuffer # << >> /\ Len(paths.getPath2remux) >= k
  /\ answers' = Append(answers, [req |-> n, value |-> SubSeq(paths.getPath2remux, 1, k)])
  /\ paths' = [paths EXCEPT !.metadataBuffer = Tail(@), !.getPath2remux = SubSeq(@, k + 1, Len(@))]
  /\ UNCHANGED <<sbuild, ops, inData, acc, seqQ, accFilter, pops, lines, rec, dram>>

NextStore == DeliverOp \/ AccessControl \/ SetPath \/ DramRead \/ Receive \/ Remux

\* Every stage runs in every clock cycle, and the memory answers.
FairStore == WF_svars(AccessControl) /\ WF_svars(SetPath) /\ WF_svars(DramRead) /\ WF_svars(Receive) /\ WF_svars(Remux)

SpecStore == InitStore /\ [][NextStore]_svars /\ FairStore

-----------------------------------------------------------------------------
(* Properties.                                                             *)

\* Word i of the answer to GET n is word i of a SET of its address that is not older than the
\* last one before n; or, since a write is not held back by a read, what pads the last line of a
\* shorter value that was stored meanwhile: nothing, or that value's words of the line before.
FreshWord(n, i, word) ==
  LET before == Last({ m \in SetsOf(ops[n].addr) : m < n }) IN
  \/ word[1] >= before /\ word[1] \in SetsOf(ops[n].addr) /\ word[2] = i
  \/ \E m \in SetsOf(ops[n].addr) :
       m > n /\ ops[m].words < i /\ word = IF i <= LineWords THEN NoWord ELSE <<m, i - LineWords>>

\* With the access filter and a memory that does not pause inside a value, a GET never returns
\* a value from before the last SET of its address, although the read path overtakes the write
\* path (valueStore.cpp). The filter of globals.cpp is compiled out ("#if 0"); without it the
\* property does not hold: a GET right behind a SET returns the old value.
GetsFresh ==
  sbuild.filters /\ ~ sbuild.gaps =>
    \A k \in DOMAIN answers :
      LET n == answers[k].req IN
      ops[n].op = "GET" => \A i \in 1 .. ops[n].words : FreshWord(n, i, answers[k].value[i])

\* Every request is answered: no stage waits for ever for another one.
StoreAnswers == []<>(Len(answers) = Len(ops))
=============================================================================
