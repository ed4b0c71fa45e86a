--------------------------- MODULE MemcachedStoreProofs -----------------------
(***************************************************************************)
(* Proofs about memcached's value store: for any addresses, lengths of     *)
(* values, memory lines and filter, a GET never returns a value from       *)
(* before the last SET of its address. The hard part is that demux spreads *)
(* a request over seven FIFOs, and that only numbers of completions come   *)
(* back to the filter: the invariant must say whose words each FIFO holds  *)
(* (WordsInTurn, ReadsOf), that the completions are counted right          *)
(* (CountsAgree), and that no GET is on the read path behind a SET of its  *)
(* address that is still to be written (SetsInTurn).                       *)
(***************************************************************************)
EXTENDS MemcachedStore, DivisionLemmas, FiniteSetTheorems, SequenceTheorems, TLAPS

-----------------------------------------------------------------------------
(* The inductive invariant. It follows the requests through the FIFOs:     *)
(* they stay in their order; the filter holds what is under way; the words *)
(* of a SET reach the memory as whole lines; and what a GET reads was      *)
(* written by the SET before it or by a later one.                         *)

Serving == sbuild.filters /\ ~ sbuild.gaps

StoreOps == [op : {"SET", "GET", "PASS"}, addr : Addresses, words : Nat]
Pairs == Nat \X Nat
MemLines == [1 .. LineWords -> Pairs]
ValueItems == [data : Pairs, eop : BOOLEAN]
ReadCmds == [addr : Addresses, line : Nat]

Members(s) == { s[i] : i \in 1 .. Len(s) }
Rising(s) == \A i, j \in 1 .. Len(s) : i < j => s[i] < s[j]

\* Q is the frames fr in a row without the first k entries; off[i] is where frame i ends.
RunsAt(Q, k, fr, off) ==
  /\ off \in [0 .. Len(fr) -> Int] /\ off[0] = 0 - k /\ off[Len(fr)] = Len(Q)
  /\ \A i \in 1 .. Len(fr) : off[i] = off[i - 1] + Len(fr[i]) /\ off[i] <= Len(Q)
  /\ \A i \in 1 .. Len(fr) : \A w \in 1 .. Len(fr[i]) : off[i - 1] + w >= 1 => Q[off[i - 1] + w] = fr[i][w]
Runs(Q, k, fr) == \E off : RunsAt(Q, k, fr, off)

\* b is the last SET of the address of n before n.
PriorSet(n, b) ==
  /\ b \in SetsOf(ops[n].addr) /\ b < n
  /\ \A m \in SetsOf(ops[n].addr) : m < n => m <= b

\* The requests: values have two words or more, and a GET asks for the value of the last SET.
OpsSound ==
  /\ ops \in Seq(StoreOps)
  /\ \A n \in 1 .. Len(ops) : ops[n].op # "PASS" => ops[n].words \in 2 .. MaxWords
  /\ \A n \in 1 .. Len(ops) : ops[n].op = "GET" => \E b \in 1 .. Len(ops) : PriorSet(n, b) /\ ops[b].words = ops[n].words

\* The entries of the FIFOs, P.
FifosTyped(P) ==
  /\ P = [p \in Paths |-> P[p]]
  /\ P["setMetadata"] \in Seq(Nat) /\ P["setValueIn"] \in Seq(ValueItems)
  /\ P["memRdCmd"] \in Seq(ReadCmds) /\ P["valueLengthQ"] \in Seq(Nat) /\ P["memRdData"] \in Seq(MemLines)
  /\ P["getPath2remux"] \in Seq(Pairs) /\ P["metadataBuffer"] \in Seq(Nat)

\* The requests are answered, in the FIFOs behind demux, with accessControl and in front of it,
\* in this order.
AccStates == {"ACC_IDLE", "ACC_EVAL", "ACC_PUSH", "ACC_WAIT", "ACC_POP", "ACC_POP_WAIT"}
Holding == acc.state \notin {"ACC_IDLE", "ACC_POP"}
HeldCount == IF Holding THEN 1 ELSE 0
Done == Len(answers)
Demuxed == Len(answers) + Len(paths["metadataBuffer"])
InTurn ==
  /\ answers \in Seq([req : Nat, value : Seq(Pairs)])
  /\ \A k \in 1 .. Done : answers[k].req = k
  /\ \A i \in 1 .. Len(paths["metadataBuffer"]) : paths["metadataBuffer"][i] = Done + i
  /\ acc \in [state : AccStates, req : Nat, pop : {0, 1, 2}]
  /\ Holding => acc.req = Demuxed + 1 /\ ops[acc.req].op # "PASS"
  /\ inData \in Seq(Nat) /\ \A i \in 1 .. Len(inData) : inData[i] = Demuxed + HeldCount + i
  /\ Demuxed + HeldCount + Len(inData) = Len(ops)

\* The filter holds demuxed requests in their order, and the streams to pop are theirs, with
\* that of the request that accessControl holds at the end.
EnteredOf(o) == { n \in Members(accFilter) : ops[n].op = o }
PopsOf(p, q) == IF p = NoOne THEN q ELSE <<p>> \o q
Streaming(h, p) == Len(p) = Len(h) /\ \A i \in 1 .. Len(h) : p[i] = StreamOf(h[i])
HeldSeq == IF Holding THEN Append(accFilter, acc.req) ELSE accFilter
FilterOrder ==
  /\ accFilter \in Seq(Nat) /\ seqQ \in Seq({0, 1}) /\ pops \in [{0, 1} -> Nat]
  /\ \A i \in 1 .. Len(accFilter) : accFilter[i] \in 1 .. Demuxed /\ ops[accFilter[i]].op # "PASS"
  /\ Rising(accFilter)
  /\ Streaming(HeldSeq, PopsOf(acc.pop, seqQ))
  /\ acc.state \in {"ACC_POP", "ACC_POP_WAIT"} => CanPop
  /\ acc.state = "ACC_PUSH" => ~ AccCompare(acc.req)

\* The completions that accessControl has not seen are those of requests in the filter.
Reading == IF rec.state = "GET_ACC" THEN 1 ELSE 0
CountsAgree ==
  /\ Cardinality(EnteredOf("SET")) = pops[1] + Len(paths["setMetadata"])
  /\ Cardinality(EnteredOf("GET")) = pops[0] + Len(paths["valueLengthQ"]) + Reading

\* The SETs to be written, sm, are the last ones of the d that were demuxed; all are in the
\* filter, F; and no GET that is not answered waits for one of them.
SetsInTurn(F, sm, a, d) ==
  /\ \A i \in 1 .. Len(sm) : sm[i] \in F /\ ops[sm[i]].op = "SET"
  /\ Rising(sm)
  /\ sm # << >> => \A m \in 1 .. d : ops[m].op = "SET" /\ m >= sm[1] => m \in Members(sm)
  /\ \A n \in a + 1 .. d : ops[n].op = "GET" => \A m \in SetsOf(ops[n].addr) : m < n => m \notin Members(sm)

\* The rest of the first value, of which ln lines are written, and the other ones are queued.
WordsInTurn(sm, q, ln) ==
  /\ ln \in Nat
  /\ sm = << >> => ln = 0
  /\ sm # << >> => ln * LineWords < ops[sm[1]].words
  /\ \E fr \in Seq(Seq(ValueItems)) :
       /\ Len(fr) = Len(sm) /\ \A i \in 1 .. Len(fr) : fr[i] = ValueWords(sm[i])
       /\ Runs(q, ln * LineWords, fr)

\* A line as SET m writes it.
LineOf(m, l) ==
  [w \in 1 .. LineWords |-> IF l * LineWords + w <= ops[m].words THEN <<m, l * LineWords + w>>
                            ELSE IF l = 0 THEN NoWord ELSE <<m, (l - 1) * LineWords + w>>]

\* The lines of a value that was written, M, hold it or a later one.
MemoryHolds(M, sm, ln, d) ==
  /\ M \in [Addresses -> [Slots -> MemLines]]
  /\ \A b \in 1 .. d : ops[b].op = "SET" /\ b \notin Members(sm) =>
       \A l \in 0 .. NumOfWords(ops[b].words) - 1 :
         \E m \in SetsOf(ops[b].addr) : m >= b /\ M[ops[b].addr][l] = LineOf(m, l)
  /\ sm # << >> => \A l \in 0 .. ln - 1 : M[ops[sm[1]].addr][l] = LineOf(sm[1], l)

\* Lines and words of a value as GET n may return them.
FreshLines(n, bl) ==
  /\ bl \in Seq(MemLines) /\ Len(bl) = NumOfWords(ops[n].words)
  /\ \A l \in 1 .. Len(bl) : \A w \in 1 .. LineWords :
       (l - 1) * LineWords + w <= ops[n].words => FreshWord(n, (l - 1) * LineWords + w, bl[l][w])
FreshPart(n, v) == v \in Seq(Pairs) /\ \A i \in 1 .. Len(v) : FreshWord(n, i, v[i])
CmdsOf(n) == [i \in 1 .. NumOfWords(ops[n].words) |-> [addr |-> ops[n].addr, line |-> i - 1]]

\* gs are the GETs between demux and remux: a requests are answered, e demuxed.
GetsBetween(gs, a, e) ==
  /\ gs \in Seq(Nat)
  /\ \A j \in 1 .. Len(gs) : gs[j] \in a + 1 .. e /\ ops[gs[j]].op = "GET"
  /\ Rising(gs)
  /\ \A m \in a + 1 .. e : ops[m].op = "GET" => m \in Members(gs)

\* The memory has yet to answer the GETs behind the first d.
Commanded(gs, d, q) ==
  \E fr \in Seq(Seq(ReadCmds)) :
    /\ Len(fr) = Len(gs) - d /\ \A i \in 1 .. Len(fr) : fr[i] = CmdsOf(gs[d + i])
    /\ Runs(q, 0, fr)

\* receive has begun the first c, and is at work on the last of them (b = 1) or not (b = 0); s
\* lines of that one are taken.
Lengths(gs, c, q) == Len(q) = Len(gs) - c /\ \A i \in 1 .. Len(gs) - c : q[i] = ops[gs[c + i]].words
ReadOut(gs, c, d, b, s, q, line) ==
  \E fr \in Seq(Seq(MemLines)) :
    /\ Len(fr) = d - c + b /\ \A i \in 1 .. Len(fr) : FreshLines(gs[c - b + i], fr[i])
    /\ Runs(q, s, fr)
    /\ b = 1 => s >= 1 /\ s <= Len(fr[1]) /\ line = fr[1][s]
    /\ b = 0 => s = 0

\* The words of the values that are complete, then those of the value that receive works on.
PutOut(gs, c, b, s, q, counter, left) ==
  \E fr \in Seq(Seq(Pairs)), A \in Seq(Pairs), part \in Seq(Pairs) :
    /\ Len(fr) = c - b /\ \A i \in 1 .. Len(fr) : FreshPart(gs[i], fr[i]) /\ Len(fr[i]) = ops[gs[i]].words
    /\ Runs(A, 0, fr) /\ q = A \o part
    /\ b = 0 => part = << >>
    /\ b = 1 => /\ FreshPart(gs[c], part) /\ Len(part) = (s - 1) * LineWords + counter
                /\ left \in Nat \ {0} /\ Len(part) + left = ops[gs[c]].words

\* The read path with a requests answered and e demuxed.
ReadsOf(a, e, b, P, line, counter, left) ==
  \E gs \in Seq(Nat), c \in Nat, d \in Nat, s \in Nat :
    /\ GetsBetween(gs, a, e)
    /\ b <= c /\ c <= d /\ d <= Len(gs)
    /\ Commanded(gs, d, P["memRdCmd"]) /\ Lengths(gs, c, P["valueLengthQ"])
    /\ ReadOut(gs, c, d, b, s, P["memRdData"], line)
    /\ PutOut(gs, c, b, s, P["getPath2remux"], counter, left)

RecTyped ==
  /\ rec.state \in {"GET_IDLE", "GET_ACC"} /\ rec.counter \in 0 .. LineWords - 1
  /\ rec = [state |-> rec.state, line |-> rec.line, left |-> rec.left, counter |-> rec.counter]
  /\ rec.state = "GET_IDLE" => rec.counter = 0

AnsweredFresh ==
  \A k \in 1 .. Len(answers) : ops[k].op = "GET" => FreshPart(k, answers[k].value) /\ Len(answers[k].value) = ops[k].words

\* The values in the FIFOs P and in the memory M, with a requests answered and d demuxed.
ValuesOf(F, P, a, d, ln, M, b, line, counter, left) ==
  /\ FifosTyped(P)
  /\ SetsInTurn(F, P["setMetadata"], a, d) /\ WordsInTurn(P["setMetadata"], P["setValueIn"], ln)
  /\ MemoryHolds(M, P["setMetadata"], ln, d)
  /\ ReadsOf(a, d, b, P, line, counter, left)
DataFlows == ValuesOf(Members(accFilter), paths, Done, Demuxed, lines, dram, Reading, rec.line, rec.counter, rec.left)

FlowsFresh ==
  /\ OpsSound /\ DataFlows /\ InTurn /\ FilterOrder /\ CountsAgree /\ RecTyped /\ AnsweredFresh

StoreInv == Serving => FlowsFresh

\* An index of a longer sequence is the last one or an index of the shorter.
LEMMA LastOrBefore ==
  ASSUME NEW m \in Int, NEW i \in 1 .. m + 1
  PROVE  i \in 1 .. m \/ i = m + 1
  OBVIOUS

\* A value has words.
LEMMA NotEmpty ==
  ASSUME NEW m \in Nat, NEW w \in 2 .. m
  PROVE  w \in Nat \ {0} /\ w >= 2
  OBVIOUS

\* Buckets do not meet.
LEMMA BucketsApart ==
  ASSUME NEW g \in Nat, NEW h \in Nat, g < h, NEW s \in Nat
  PROVE  s * g \in Nat /\ s * h \in Nat /\ s * g + s <= s * h
  <1>1. PICK d \in Nat : h = g + 1 + d
    <2>1. h - g - 1 \in Nat /\ h = g + 1 + (h - g - 1)
      OBVIOUS
    <2> QED  BY <2>1
  <1>2. s * h = s * g + s + s * d
    BY <1>1
  <1>3. s * d \in Nat /\ s * g \in Nat /\ s * h \in Nat
    OBVIOUS
  <1> QED  BY <1>2, <1>3

\* What is left behind the first entry.
LEMMA RestIs ==
  ASSUME NEW S, NEW s \in Seq(S), s # << >>
  PROVE  /\ Head(s) = s[1] /\ Head(s) \in S /\ s[1] \in S
         /\ Tail(s) \in Seq(S) /\ Len(s) \in Nat /\ Len(s) >= 1 /\ Len(Tail(s)) = Len(s) - 1
         /\ \A i \in 1 .. Len(s) - 1 : Tail(s)[i] = s[i + 1]
  BY HeadTailProperties, ElementOfSeq

LEMMA LongerIs ==
  ASSUME NEW S, NEW s \in Seq(S), NEW x \in S
  PROVE  /\ Append(s, x) \in Seq(S) /\ Len(s) \in Nat /\ Len(Append(s, x)) = Len(s) + 1
         /\ \A i \in 1 .. Len(s) : Append(s, x)[i] = s[i]
         /\ Append(s, x)[Len(s) + 1] = x
  BY AppendProperties

LEMMA JoinIs ==
  ASSUME NEW S, NEW s \in Seq(S), NEW t \in Seq(S)
  PROVE  /\ s \o t \in Seq(S) /\ Len(s) \in Nat /\ Len(t) \in Nat /\ Len(s \o t) = Len(s) + Len(t)
         /\ \A i \in 1 .. Len(s) : (s \o t)[i] = s[i]
         /\ \A i \in 1 .. Len(t) : (s \o t)[Len(s) + i] = t[i]
  BY ConcatProperties

\* A queue up to entry k, and from there on.
FirstPart(q, k) == SubSeq(q, 1, k)
LastPart(q, k) == SubSeq(q, k + 1, Len(q))

-----------------------------------------------------------------------------
(* Frames in a row.                                                        *)

\* A frame joins at the end.
LEMMA RunsGrow ==
  ASSUME NEW S, NEW Q \in Seq(S), NEW k \in Nat, NEW fr \in Seq(Seq(S)), Runs(Q, k, fr), NEW f \in Seq(S)
  PROVE  Runs(Q \o f, k, Append(fr, f))
  <1>1. PICK off : RunsAt(Q, k, fr, off)
    BY DEF Runs
  <1> DEFINE n == Len(fr)
             R == Q \o f
             g == Append(fr, f)
             off2 == [i \in 0 .. n + 1 |-> IF i <= n THEN off[i] ELSE off[n] + Len(f)]
  <1>2. /\ R \in Seq(S) /\ Len(Q) \in Nat /\ Len(f) \in Nat /\ Len(R) = Len(Q) + Len(f)
        /\ \A i \in 1 .. Len(Q) : R[i] = Q[i]
        /\ \A i \in 1 .. Len(f) : R[Len(Q) + i] = f[i]
    BY JoinIs
  <1>3. n \in Nat /\ Len(g) = n + 1 /\ (\A i \in 1 .. n : g[i] = fr[i]) /\ g[n + 1] = f
    BY LongerIs
  <1>4. /\ off \in [0 .. n -> Int] /\ off[0] = 0 - k /\ off[n] = Len(Q)
        /\ \A i \in 1 .. n : off[i] = off[i - 1] + Len(fr[i]) /\ off[i] <= Len(Q)
        /\ \A i \in 1 .. n : \A w \in 1 .. Len(fr[i]) : off[i - 1] + w >= 1 => Q[off[i - 1] + w] = fr[i][w]
    BY <1>1 DEF RunsAt
  <1>5. \A i \in 1 .. n : Len(fr[i]) \in Nat
    BY ElementOfSeq
  <1>6. off2 \in [0 .. n + 1 -> Int] /\ (\A i \in 0 .. n : off2[i] = off[i]) /\ off2[n + 1] = Len(R)
    BY <1>2, <1>3, <1>4
  <1> HIDE DEF n, R, g, off2
  <1>7. \A i \in 1 .. n + 1 : off2[i] = off2[i - 1] + Len(g[i]) /\ off2[i] <= Len(R)
    <2> SUFFICES ASSUME NEW i \in 1 .. n + 1
                 PROVE  off2[i] = off2[i - 1] + Len(g[i]) /\ off2[i] <= Len(R)
      OBVIOUS
    <2>1. CASE i = n + 1
      <3>1. i - 1 = n /\ n \in 0 .. n
        BY <2>1, <1>3
      <3>2. off2[i] = Len(R) /\ off2[i - 1] = Len(Q) /\ g[i] = f
        BY <2>1, <3>1, <1>3, <1>4, <1>6
      <3> QED  BY <3>2, <1>2
    <2>2. CASE i # n + 1
      <3>1. i \in 1 .. n /\ i \in 0 .. n /\ i - 1 \in 0 .. n
        BY <2>2, <1>3
      <3>2. off[i] = off[i - 1] + Len(fr[i]) /\ off[i] <= Len(Q) /\ off[i] \in Int
        BY <3>1, <1>4
      <3>3. off2[i] = off[i] /\ off2[i - 1] = off[i - 1] /\ g[i] = fr[i]
        BY <3>1, <1>3, <1>6
      <3>4. Len(R) = Len(Q) + Len(f) /\ Len(Q) \in Nat /\ Len(f) \in Nat
        BY <1>2
      <3>5. PICK z \in Int : z = off[i]
        BY <3>2
      <3>6. z <= Len(R)
        BY <3>2, <3>4, <3>5
      <3> QED  BY <3>2, <3>3, <3>5, <3>6
    <2> QED  BY <2>1, <2>2
  <1>8. ASSUME NEW i \in 1 .. n + 1, NEW w \in 1 .. Len(g[i]), off2[i - 1] + w >= 1
        PROVE  R[off2[i - 1] + w] = g[i][w]
    <2>1. CASE i = n + 1
      <3>0. n \in Nat
        BY <1>3
      <3>1. i - 1 = n /\ n \in 0 .. n
        BY <2>1, <3>0
      <3>2. off2[i - 1] = Len(Q) /\ g[i] = f
        BY <2>1, <3>1, <1>3, <1>4, <1>6
      <3> QED  BY <3>2, <1>2
    <2>2. CASE i # n + 1
      <3>1. i \in 1 .. n /\ i \in 0 .. n /\ i - 1 \in 0 .. n
        BY <2>2, <1>3
      <3>2. off[i] = off[i - 1] + Len(fr[i]) /\ off[i] <= Len(Q) /\ off[i - 1] \in Int /\ Len(fr[i]) \in Nat
        BY <3>1, <1>4, <1>5
      <3>3. g[i] = fr[i] /\ off2[i - 1] = off[i - 1] /\ w \in 1 .. Len(fr[i])
        BY <3>1, <1>3, <1>6
      <3>4. off[i - 1] + w \in 1 .. Len(Q)
        <4>1. PICK a \in Int, l \in Nat : a = off[i - 1] /\ l = Len(fr[i])
          BY <3>2
        <4>2. a + l <= Len(Q) /\ a + w >= 1 /\ w \in 1 .. l
          BY <4>1, <3>2, <3>3, <1>8
        <4>3. a + w \in 1 .. Len(Q)
          BY <4>2, <1>2
        <4> QED  BY <4>1, <4>3
      <3> QED  BY <3>1, <3>3, <3>4, <1>2, <1>4, <1>8
    <2> QED  BY <2>1, <2>2
  <1>9. off2[0] = 0 - k
    BY <1>3, <1>4, <1>6
  <1>10. RunsAt(R, k, g, off2)
    BY <1>3, <1>6, <1>7, <1>8, <1>9 DEF RunsAt
  <1> QED  BY <1>10 DEF Runs, R, g

\* Its first entries, and what is left behind t of them.
LEMMA RunsTake ==
  ASSUME NEW S, NEW Q \in Seq(S), NEW k \in Nat, NEW fr \in Seq(Seq(S)), Runs(Q, k, fr), fr # << >>,
         NEW t \in Nat, k + t <= Len(fr[1])
  PROVE  /\ Len(fr[1]) \in Nat /\ Len(fr[1]) - k <= Len(Q)
         /\ \A i \in 1 .. Len(fr[1]) - k : Q[i] = fr[1][k + i]
         /\ Len(fr) = 1 => Len(Q) = Len(fr[1]) - k
         /\ SubSeq(Q, t + 1, Len(Q)) \in Seq(S) /\ Len(SubSeq(Q, t + 1, Len(Q))) = Len(Q) - t
         /\ Runs(SubSeq(Q, t + 1, Len(Q)), k + t, fr)
  <1>1. PICK off : RunsAt(Q, k, fr, off)
    BY DEF Runs
  <1> DEFINE n == Len(fr)
             q == Len(Q)
             R == SubSeq(Q, t + 1, q)
             off2 == [i \in 0 .. n |-> off[i] - t]
  <1>2. n \in Nat /\ n >= 1 /\ q \in Nat /\ Len(fr[1]) \in Nat /\ \A i \in 1 .. n : Len(fr[i]) \in Nat
    BY RestIs, ElementOfSeq
  <1>4. /\ off \in [0 .. n -> Int] /\ off[0] = 0 - k /\ off[n] = q
        /\ \A i \in 1 .. n : off[i] = off[i - 1] + Len(fr[i]) /\ off[i] <= q
        /\ \A i \in 1 .. n : \A w \in 1 .. Len(fr[i]) : off[i - 1] + w >= 1 => Q[off[i - 1] + w] = fr[i][w]
    BY <1>1 DEF RunsAt
  <1>5. off2 \in [0 .. n -> Int] /\ \A i \in 0 .. n : off2[i] = off[i] - t /\ off[i] \in Int
    <2>1. ASSUME NEW i \in 0 .. n
          PROVE  off[i] \in Int /\ off[i] - t \in Int
      <3>1. off[i] \in Int
        BY <1>4
      <3> QED  BY <3>1
    <2> QED  BY <2>1
  <1>6. off[1] = Len(fr[1]) - k /\ off[1] <= q /\ off[0] \in Int
    <2>1. 1 \in 1 .. n /\ 0 \in 0 .. n /\ 1 - 1 = 0
      BY <1>2
    <2> QED  BY <2>1, <1>2, <1>4
  <1>7. ASSUME NEW i \in 1 .. Len(fr[1]) - k
        PROVE  Q[i] = fr[1][k + i]
    <2>1. 1 \in 1 .. n /\ 1 - 1 = 0 /\ k + i \in 1 .. Len(fr[1]) /\ off[0] + (k + i) = i
      BY <1>2, <1>4, <1>6
    <2>2. off[1 - 1] + (k + i) >= 1 => Q[off[1 - 1] + (k + i)] = fr[1][k + i]
      BY <2>1, <1>4
    <2>3. off[0] + (k + i) >= 1 => Q[off[0] + (k + i)] = fr[1][k + i]
      BY <2>2
    <2> QED  BY <2>1, <2>3
  <1>8. n = 1 => q = Len(fr[1]) - k
    BY <1>4, <1>6
  <1>9. R \in Seq(S) /\ Len(R) = q - t /\ \A i \in 1 .. q - t : R[i] = Q[t + i]
    <2>1. \A i \in t + 1 .. q : Q[i] \in S
      BY <1>2, ElementOfSeq
    <2>2. t <= q
      BY <1>2, <1>6
    <2>3. R \in Seq(S) /\ Len(R) = (IF t + 1 <= q THEN q - (t + 1) + 1 ELSE 0) /\ \A i \in 1 .. q - (t + 1) + 1 : R[i] = Q[(t + 1) + i - 1]
      BY <2>1, <1>2, SubSeqProperties
    <2> HIDE DEF R, q
    <2>4. Len(R) = q - t /\ \A i \in 1 .. q - t : R[i] = Q[t + i]
      <3>1. q - (t + 1) + 1 = q - t /\ \A i \in 1 .. q - t : (t + 1) + i - 1 = t + i
        BY <1>2
      <3> QED  BY <3>1, <2>2, <2>3, <1>2
    <2> QED  BY <2>3, <2>4
  <1> HIDE DEF n, R, q, off2
  <1>10. \A i \in 1 .. n : off2[i] = off2[i - 1] + Len(fr[i]) /\ off2[i] <= q - t
    <2> SUFFICES ASSUME NEW i \in 1 .. n
                 PROVE  off2[i] = off2[i - 1] + Len(fr[i]) /\ off2[i] <= q - t
      OBVIOUS
    <2>1. i \in 0 .. n /\ i - 1 \in 0 .. n
      BY <1>2
    <2>2. off[i] = off[i - 1] + Len(fr[i]) /\ off[i] <= q /\ Len(fr[i]) \in Nat
      BY <1>2, <1>4
    <2>3. off2[i] = off[i] - t /\ off2[i - 1] = off[i - 1] - t /\ off[i] \in Int /\ off[i - 1] \in Int
      BY <2>1, <1>5
    <2>4. PICK a \in Int, z \in Int, l \in Nat : a = off[i - 1] /\ z = off[i] /\ l = Len(fr[i])
      BY <2>2, <2>3
    <2>5. z = a + l /\ z <= q /\ off2[i] = z - t /\ off2[i - 1] = a - t
      BY <2>2, <2>3, <2>4
    <2>6. z - t = (a - t) + l /\ z - t <= q - t
      BY <2>5, <1>2
    <2> QED  BY <2>4, <2>5, <2>6
  <1>11. ASSUME NEW i \in 1 .. n, NEW w \in 1 .. Len(fr[i]), off2[i - 1] + w >= 1
         PROVE  R[off2[i - 1] + w] = fr[i][w]
    <2>1. i \in 0 .. n /\ i - 1 \in 0 .. n
      BY <1>2
    <2>2. off[i] = off[i - 1] + Len(fr[i]) /\ off[i] <= q /\ Len(fr[i]) \in Nat
      BY <1>2, <1>4
    <2>3. off2[i - 1] = off[i - 1] - t /\ off[i - 1] \in Int
      BY <2>1, <1>5
    <2>4. off2[i - 1] + w \in 1 .. q - t /\ t + (off2[i - 1] + w) = off[i - 1] + w /\ off[i - 1] + w >= 1
      <3>1. PICK a \in Int, l \in Nat : a = off[i - 1] /\ l = Len(fr[i])
        BY <2>2, <2>3
      <3>2. a + l <= q /\ off2[i - 1] = a - t /\ (a - t) + w >= 1 /\ w \in 1 .. l
        BY <2>2, <2>3, <3>1, <1>11
      <3>3. (a - t) + w \in 1 .. q - t /\ t + ((a - t) + w) = a + w /\ a + w >= 1
        BY <3>2, <1>2
      <3> QED  BY <3>1, <3>2, <3>3
    <2>5. R[off2[i - 1] + w] = Q[t + (off2[i - 1] + w)]
      BY <2>4, <1>9
    <2>6. Q[off[i - 1] + w] = fr[i][w]
      BY <2>4, <1>4
    <2> QED  BY <2>4, <2>5, <2>6
  <1>12. off2[0] = 0 - (k + t) /\ off2[n] = q - t
    BY <1>2, <1>4, <1>5
  <1>13. RunsAt(R, k + t, fr, off2)
    BY <1>5, <1>9, <1>10, <1>11, <1>12 DEF RunsAt, n
  <1> QED  BY <1>2, <1>6, <1>7, <1>8, <1>9, <1>13 DEF Runs, R, q, n

LEMMA RunsFirst ==
  ASSUME NEW S, NEW Q \in Seq(S), NEW fr \in Seq(Seq(S)), Runs(Q, 0, fr), fr # << >>, NEW t \in Nat, t <= Len(fr[1])
  PROVE  /\ Len(fr[1]) \in Nat /\ Len(fr[1]) <= Len(Q)
         /\ \A i \in 1 .. Len(fr[1]) : Q[i] = fr[1][i]
         /\ Len(fr) = 1 => Len(Q) = Len(fr[1])
         /\ SubSeq(Q, t + 1, Len(Q)) \in Seq(S) /\ Len(SubSeq(Q, t + 1, Len(Q))) = Len(Q) - t
         /\ Runs(SubSeq(Q, t + 1, Len(Q)), t, fr)
  <1> DEFINE l == Len(fr[1])
             R == SubSeq(Q, t + 1, Len(Q))
  <1>0. l \in Nat /\ Len(Q) \in Nat
    BY RestIs
  <1>1. PICK k \in Nat : k = 0
    OBVIOUS
  <1>2. Runs(Q, k, fr) /\ k + t <= l /\ k + t = t /\ l - k = l /\ \A i \in Nat : k + i = i
    BY <1>0, <1>1
  <1>3. /\ l - k <= Len(Q) /\ (\A i \in 1 .. l - k : Q[i] = fr[1][k + i]) /\ (Len(fr) = 1 => Len(Q) = l - k)
        /\ R \in Seq(S) /\ Len(R) = Len(Q) - t /\ Runs(R, k + t, fr)
    BY <1>2, RunsTake
  <1> HIDE DEF l, R
  <1>4. \A i \in 1 .. l : Q[i] = fr[1][i]
    BY <1>0, <1>2, <1>3
  <1>5. l <= Len(Q) /\ (Len(fr) = 1 => Len(Q) = l) /\ Runs(R, t, fr)
    BY <1>2, <1>3
  <1> QED  BY <1>0, <1>3, <1>4, <1>5 DEF l, R

\* The first frame is used up.
LEMMA RunsNext ==
  ASSUME NEW S, NEW Q \in Seq(S), NEW fr \in Seq(Seq(S)), fr # << >>, Runs(Q, Len(fr[1]), fr)
  PROVE  Runs(Q, 0, Tail(fr))
  <1> DEFINE n == Len(fr)
             g == Tail(fr)
             k == Len(fr[1])
  <1>1. PICK off : RunsAt(Q, k, fr, off)
    BY DEF Runs
  <1> DEFINE off2 == [i \in 0 .. n - 1 |-> off[i + 1]]
  <1>2. n \in Nat /\ n >= 1 /\ Len(Q) \in Nat /\ k \in Nat /\ Len(g) = n - 1 /\ \A i \in 1 .. n - 1 : g[i] = fr[i + 1]
    BY RestIs
  <1>4. /\ off \in [0 .. n -> Int] /\ off[0] = 0 - k /\ off[n] = Len(Q)
        /\ \A i \in 1 .. n : off[i] = off[i - 1] + Len(fr[i]) /\ off[i] <= Len(Q)
        /\ \A i \in 1 .. n : \A w \in 1 .. Len(fr[i]) : off[i - 1] + w >= 1 => Q[off[i - 1] + w] = fr[i][w]
    BY <1>1 DEF RunsAt
  <1>5. off2 \in [0 .. n - 1 -> Int] /\ \A i \in 0 .. n - 1 : off2[i] = off[i + 1]
    BY <1>2, <1>4
  <1>6. off2[0] = 0
    <2>1. 1 \in 1 .. n /\ 0 \in 0 .. n - 1 /\ 0 + 1 = 1 /\ 1 - 1 = 0
      BY <1>2
    <2>2. off2[0] = off[1] /\ off[1] = off[0] + k
      BY <2>1, <1>4, <1>5
    <2> QED  BY <2>2, <1>2, <1>4
  <1> HIDE DEF n, g, k, off2
  <1>7. off2[n - 1] = Len(Q)
    <2>1. n - 1 \in 0 .. n - 1 /\ (n - 1) + 1 = n
      BY <1>2
    <2> QED  BY <2>1, <1>4, <1>5
  <1>8. ASSUME NEW i \in 1 .. n - 1
        PROVE  /\ off2[i] = off2[i - 1] + Len(g[i]) /\ off2[i] <= Len(Q)
               /\ \A w \in 1 .. Len(g[i]) : off2[i - 1] + w >= 1 => Q[off2[i - 1] + w] = g[i][w]
    <2>1. i \in 0 .. n - 1 /\ i - 1 \in 0 .. n - 1 /\ i + 1 \in 1 .. n /\ (i - 1) + 1 = i /\ (i + 1) - 1 = i
      BY <1>2
    <2>2. off2[i] = off[i + 1] /\ off2[i - 1] = off[i] /\ g[i] = fr[i + 1]
      BY <2>1, <1>2, <1>5
    <2>3. off[i + 1] = off[(i + 1) - 1] + Len(fr[i + 1]) /\ off[i + 1] <= Len(Q)
      BY <2>1, <1>4
    <2>4. \A w \in 1 .. Len(fr[i + 1]) : off[(i + 1) - 1] + w >= 1 => Q[off[(i + 1) - 1] + w] = fr[i + 1][w]
      BY <2>1, <1>4
    <2> QED  BY <2>1, <2>2, <2>3, <2>4
  <1>9. off2[0] = 0 - 0
    BY <1>6
  <1>10. RunsAt(Q, 0, g, off2)
    BY <1>2, <1>5, <1>7, <1>8, <1>9 DEF RunsAt
  <1> QED  BY <1>10 DEF Runs, g

\* No frames: nothing.
LEMMA RunsNone ==
  ASSUME NEW S, NEW Q \in Seq(S), NEW k \in Nat, NEW fr, Len(fr) = 0, Runs(Q, k, fr)
  PROVE  k = 0 /\ Q = << >>
  <1>1. PICK off : RunsAt(Q, k, fr, off)
    BY DEF Runs
  <1>2. off[0] = 0 - k /\ off[0] = Len(Q) /\ Len(Q) \in Nat
    BY <1>1 DEF RunsAt
  <1>3. k = 0 /\ Len(Q) = 0
    BY <1>2
  <1> QED  BY <1>3

LEMMA RunsStart ==
  Runs(<< >>, 0, << >>)
  <1> DEFINE off == [i \in 0 .. 0 |-> 0]
  <1>1. off[0] = 0 /\ off \in [0 .. 0 -> Int]
    OBVIOUS
  <1>2. RunsAt(<< >>, 0, << >>, off)
    BY <1>1 DEF RunsAt
  <1> QED  BY <1>2 DEF Runs

-----------------------------------------------------------------------------
(* The requests.                                                           *)

LEMMA OpIs ==
  ASSUME OpsSound, NEW n \in 1 .. Len(ops)
  PROVE  /\ ops[n].op \in {"SET", "GET", "PASS"} /\ ops[n].addr \in Addresses /\ ops[n].words \in Nat
         /\ ops[n].op # "PASS" => ops[n].words \in 2 .. MaxWords
         /\ MaxWords \in Nat /\ Len(ops) \in Nat /\ n \in Nat
  <1>1. ops[n] \in StoreOps
    BY ElementOfSeq DEF OpsSound
  <1> QED  BY <1>1, StoreAssumption DEF OpsSound, StoreOps

LEMMA SetsAre ==
  ASSUME OpsSound, NEW a, NEW n
  PROVE  n \in SetsOf(a) <=> n \in 1 .. Len(ops) /\ ops[n].op = "SET" /\ ops[n].addr = a
  <1>1. DOMAIN ops = 1 .. Len(ops)
    BY DEF OpsSound
  <1> QED  BY <1>1 DEF SetsOf

LEMMA LastIs ==
  ASSUME NEW S \in SUBSET Nat, NEW m \in S, \A y \in S : y <= m
  PROVE  Last(S) = m
  <1>1. Last(S) \in S /\ \A y \in S : y <= Last(S)
    BY DEF Last
  <1>2. m <= Last(S) /\ Last(S) <= m /\ m \in Nat /\ Last(S) \in Nat
    BY <1>1
  <1> QED  BY <1>2

\* The padding in the place of word i, when SET m is shorter.
PadWord(m, i) == IF i <= LineWords THEN NoWord ELSE <<m, i - LineWords>>

\* What FreshWord says when the SET before the GET is b.
Fresh(n, b, i, word) ==
  \/ word[1] >= b /\ word[1] \in SetsOf(ops[n].addr) /\ word[2] = i
  \/ \E m \in SetsOf(ops[n].addr) : m > n /\ ops[m].words < i /\ word = PadWord(m, i)

LEMMA FreshIs ==
  ASSUME OpsSound, NEW n \in 1 .. Len(ops), NEW b, PriorSet(n, b), NEW i, NEW word
  PROVE  FreshWord(n, i, word) <=> Fresh(n, b, i, word)
  <1> DEFINE S == { m \in SetsOf(ops[n].addr) : m < n }
  <1>1. S \in SUBSET Nat
    BY SetsAre
  <1>2. b \in S /\ \A y \in S : y <= b
    BY DEF PriorSet
  <1>3. Last(S) = b
    BY <1>1, <1>2, LastIs
  <1> QED  BY <1>3 DEF FreshWord, Fresh, PadWord

\* The requests so far stay as they are.
OpsGrow ==
  /\ Len(ops') \in Nat /\ Len(ops) \in Nat /\ Len(ops) <= Len(ops')
  /\ \A n \in 1 .. Len(ops) : ops'[n] = ops[n]

LEMMA SetsStay ==
  ASSUME OpsSound, OpsSound', OpsGrow, NEW a, NEW n \in 1 .. Len(ops)
  PROVE  n \in SetsOf(a)' <=> n \in SetsOf(a)
  <1>1. n \in 1 .. Len(ops') /\ ops'[n] = ops[n]
    BY DEF OpsGrow
  <1>2. n \in SetsOf(a)' <=> n \in 1 .. Len(ops') /\ ops'[n].op = "SET" /\ ops'[n].addr = a
    <2>1. DOMAIN ops' = 1 .. Len(ops')
      BY DEF OpsSound
    <2> QED  BY <2>1 DEF SetsOf
  <1> QED  BY <1>1, <1>2, SetsAre

LEMMA PriorStays ==
  ASSUME OpsSound, OpsSound', OpsGrow, NEW n \in 1 .. Len(ops), NEW b \in 1 .. Len(ops), PriorSet(n, b)
  PROVE  PriorSet(n, b)'
  <1>1. ops'[n] = ops[n] /\ Len(ops) \in Nat
    BY DEF OpsGrow
  <1>a. PICK a : a = ops[n].addr
    OBVIOUS
  <1>b. a = ops'[n].addr
    BY <1>1, <1>a
  <1>2. b \in SetsOf(a)' /\ b < n
    <2>1. b \in SetsOf(a) /\ b < n
      BY <1>a DEF PriorSet
    <2> QED  BY <2>1, SetsStay
  <1>3. ASSUME NEW m \in SetsOf(a)', m < n
        PROVE  m <= b
    <2>1. m \in 1 .. Len(ops')
      BY DEF SetsOf, OpsSound
    <2>2. m \in 1 .. Len(ops)
      BY <2>1, <1>1, <1>3
    <2>3. m \in SetsOf(a)
      BY <2>2, SetsStay
    <2> QED  BY <2>3, <1>3, <1>a DEF PriorSet
  <1>4. b \in SetsOf(ops[n].addr)' /\ b < n /\ \A m \in SetsOf(ops[n].addr)' : m < n => m <= b
    BY <1>b, <1>2, <1>3 DEF SetsOf
  <1> QED  BY <1>4 DEF PriorSet

LEMMA FreshStays ==
  ASSUME OpsSound, OpsSound', OpsGrow, NEW n \in 1 .. Len(ops), ops[n].op = "GET", NEW i, NEW word, FreshWord(n, i, word)
  PROVE  FreshWord(n, i, word)'
  <1>1. PICK b \in 1 .. Len(ops) : PriorSet(n, b)
    BY DEF OpsSound
  <1>2. PriorSet(n, b)' /\ ops'[n] = ops[n] /\ n \in 1 .. Len(ops')
    BY <1>1, PriorStays DEF OpsGrow
  <1>3. Fresh(n, b, i, word)
    BY <1>1, FreshIs
  <1>a. PICK a : a = ops[n].addr
    OBVIOUS
  <1>b. a = ops'[n].addr
    BY <1>2, <1>a
  <1>4. FreshWord(n, i, word)' <=> Fresh(n, b, i, word)'
    <2> DEFINE S == { m \in SetsOf(a)' : m < n }
    <2>1. S \in SUBSET Nat
      BY DEF SetsOf, OpsSound
    <2>2. b \in S /\ \A y \in S : y <= b
      BY <1>2, <1>b DEF PriorSet, SetsOf
    <2>3. Last(S) = b
      BY <2>1, <2>2, LastIs
    <2>4. S = { m \in SetsOf(ops[n].addr) : m < n }'
      BY <1>b DEF SetsOf
    <2>5. Last({ m \in SetsOf(ops[n].addr) : m < n })' = b
      BY <2>3, <2>4 DEF Last
    <2> QED  BY <2>5 DEF FreshWord, Fresh, PadWord
  <1>5. \A m : m \in SetsOf(a) => m \in SetsOf(a)' /\ ops'[m] = ops[m]
    <2> SUFFICES ASSUME NEW m \in SetsOf(a)
                 PROVE  m \in SetsOf(a)' /\ ops'[m] = ops[m]
      OBVIOUS
    <2>1. m \in 1 .. Len(ops)
      BY SetsAre
    <2> QED  BY <2>1, SetsStay DEF OpsGrow
  <1>6. \/ word[1] >= b /\ word[1] \in SetsOf(a)' /\ word[2] = i
        \/ \E m \in SetsOf(a)' : m > n /\ ops'[m].words < i /\ word = PadWord(m, i)
    BY <1>3, <1>a, <1>5 DEF Fresh
  <1>7. Fresh(n, b, i, word)'
    BY <1>6, <1>b DEF Fresh, SetsOf, PadWord
  <1> QED  BY <1>4, <1>7

\* A set of naturals with a bound has a largest element.
LEMMA LargestElement ==
  ASSUME NEW S \in SUBSET Nat, S # {}, NEW n \in Nat, \A y \in S : y <= n
  PROVE  \E m \in S : \A y \in S : y <= m
  <1> DEFINE D == { n - y : y \in S }
  <1>0. \A y \in S : n - y \in Nat
    OBVIOUS
  <1>1. D \in SUBSET Nat /\ D # {}
    <2>1. PICK y \in S : TRUE
      OBVIOUS
    <2>2. n - y \in D
      BY <2>1
    <2> QED  BY <1>0, <2>2
  <1>2. PICK d \in D : \A e \in D : d <= e
    BY <1>1, LeastElement
  <1>3. PICK m \in S : d = n - m
    BY <1>2
  <1>4. ASSUME NEW y \in S
        PROVE  y <= m
    <2>1. n - y \in D
      OBVIOUS
    <2>2. n - m <= n - y /\ y \in Nat /\ m \in Nat
      BY <1>2, <1>3, <2>1
    <2> QED  BY <2>2
  <1> QED  BY <1>4

\* DeliverOp adds a request of the kind the hash table passes on.
LEMMA DeliverOps ==
  ASSUME OpsSound, DeliverOp
  PROVE  OpsSound' /\ OpsGrow /\ Len(ops') = Len(ops) + 1
  <1> DEFINE L == Len(ops)
  <1>1. ops \in Seq(StoreOps) /\ L \in Nat
    BY DEF OpsSound
  <1>2. PICK a \in Addresses :
          \/ \E w \in 2 .. MaxWords : ops' = Append(ops, [op |-> "SET", addr |-> a, words |-> w])
          \/ SetsOf(a) # {} /\ ops' = Append(ops, [op |-> "GET", addr |-> a, words |-> ops[Last(SetsOf(a))].words])
          \/ ops' = Append(ops, [op |-> "PASS", addr |-> a, words |-> 0])
    BY DEF DeliverOp
  <1> HIDE DEF L
  <1>3. ASSUME NEW r \in StoreOps, ops' = Append(ops, r), r.op # "PASS" => r.words \in 2 .. MaxWords,
               r.op = "GET" => \E b \in 1 .. L : /\ b \in SetsOf(r.addr) /\ \A m \in SetsOf(r.addr) : m <= b
                                                 /\ ops[b].words = r.words
        PROVE  OpsSound' /\ OpsGrow /\ Len(ops') = Len(ops) + 1
    <2>1. ops' \in Seq(StoreOps) /\ Len(ops') = L + 1 /\ (\A i \in 1 .. L : ops'[i] = ops[i]) /\ ops'[L + 1] = r
      BY <1>1, <1>3, LongerIs DEF L
    <2>2. OpsGrow
      BY <2>1, <1>1 DEF OpsGrow, L
    <2>3. ASSUME NEW n \in 1 .. L + 1
          PROVE  ops'[n].op # "PASS" => ops'[n].words \in 2 .. MaxWords
      <3>1. n = L + 1 \/ n \in 1 .. L
        BY <1>1
      <3> QED  BY <3>1, <2>1, <1>3 DEF OpsSound, L
    <2>4. DOMAIN ops' = 1 .. L + 1 /\ DOMAIN ops = 1 .. L
      BY <2>1, <1>1 DEF L
    <2>5. ASSUME NEW n \in 1 .. L + 1, ops'[n].op = "GET"
          PROVE  \E b \in 1 .. L + 1 : PriorSet(n, b)' /\ ops'[b].words = ops'[n].words
      <3>1. PICK e : e = ops'[n].addr
        OBVIOUS
      <3>2. ASSUME NEW m \in SetsOf(e)', m < n
            PROVE  m \in 1 .. L /\ m \in SetsOf(e)
        <4>1. m \in 1 .. L + 1
          BY <2>4 DEF SetsOf
        <4>2. m \in 1 .. L
          BY <4>1, <3>2, <1>1
        <4> QED  BY <4>2, <2>1, <2>4 DEF SetsOf
      <3>3. ASSUME NEW b \in 1 .. L, b \in SetsOf(e), b < n, \A m \in SetsOf(e) : m < n => m <= b, ops[b].words = ops'[n].words
            PROVE  PriorSet(n, b)' /\ ops'[b].words = ops'[n].words /\ b \in 1 .. L + 1
        <4>1. b \in 1 .. L + 1 /\ ops'[b] = ops[b]
          BY <3>3, <2>1, <1>1
        <4>2. b \in SetsOf(e)'
          BY <4>1, <3>3, <2>4 DEF SetsOf
        <4>3. b \in SetsOf(ops[n].addr)' /\ b < n /\ \A m \in SetsOf(ops[n].addr)' : m < n => m <= b
          BY <4>2, <3>1, <3>2, <3>3 DEF SetsOf
        <4> QED  BY <4>1, <4>3, <3>3 DEF PriorSet
      <3>4. CASE n \in 1 .. L
        <4>1. ops'[n] = ops[n]
          BY <3>4, <2>1
        <4>2. PICK b \in 1 .. L : PriorSet(n, b) /\ ops[b].words = ops[n].words
          BY <4>1, <3>4, <2>5 DEF OpsSound, L
        <4> QED  BY <4>1, <4>2, <3>1, <3>3 DEF PriorSet
      <3>5. CASE n = L + 1
        <4>1. PICK b \in 1 .. L : b \in SetsOf(r.addr) /\ (\A m \in SetsOf(r.addr) : m <= b) /\ ops[b].words = r.words
          BY <3>5, <2>1, <2>5, <1>3
        <4>2. e = r.addr /\ b < n /\ ops'[n] = r
          BY <3>1, <3>5, <2>1, <1>1
        <4>3. PriorSet(n, b)' /\ ops'[b].words = ops'[n].words /\ b \in 1 .. L + 1
          BY <4>1, <4>2, <3>3
        <4> QED  BY <4>3
      <3>6. n = L + 1 \/ n \in 1 .. L
        BY <1>1
      <3> QED  BY <3>4, <3>5, <3>6
    <2>6. OpsSound'
      BY <2>1, <2>3, <2>5 DEF OpsSound
    <2> QED  BY <2>1, <2>2, <2>6 DEF L
  <1>4. CASE \E w \in 2 .. MaxWords : ops' = Append(ops, [op |-> "SET", addr |-> a, words |-> w])
    <2>1. PICK w \in 2 .. MaxWords : ops' = Append(ops, [op |-> "SET", addr |-> a, words |-> w])
      BY <1>4
    <2> DEFINE r == [op |-> "SET", addr |-> a, words |-> w]
    <2>2. r \in StoreOps /\ r.op # "GET" /\ r.words \in 2 .. MaxWords
      BY StoreAssumption DEF StoreOps
    <2> QED  BY <2>1, <2>2, <1>3
  <1>5. CASE SetsOf(a) # {} /\ ops' = Append(ops, [op |-> "GET", addr |-> a, words |-> ops[Last(SetsOf(a))].words])
    <2>1. SetsOf(a) \in SUBSET Nat /\ \A y \in SetsOf(a) : y <= L
      BY SetsAre DEF L
    <2>2. PICK b \in SetsOf(a) : \A y \in SetsOf(a) : y <= b
      BY <2>1, <1>1, <1>5, LargestElement
    <2>3. Last(SetsOf(a)) = b
      BY <2>1, <2>2, LastIs
    <2>4. b \in 1 .. L /\ ops[b].op = "SET" /\ ops[b].words \in 2 .. MaxWords /\ ops[b].words \in Nat
      BY <2>2, SetsAre, OpIs DEF L
    <2> DEFINE r == [op |-> "GET", addr |-> a, words |-> ops[b].words]
    <2>5. r \in StoreOps /\ r.words \in 2 .. MaxWords /\ r.addr = a /\ r.words = ops[b].words
      BY <2>4 DEF StoreOps
    <2>6. ops' = Append(ops, r)
      BY <2>3, <1>5
    <2>7. \E z \in 1 .. L : z \in SetsOf(r.addr) /\ (\A m \in SetsOf(r.addr) : m <= z) /\ ops[z].words = r.words
      BY <2>2, <2>4, <2>5
    <2> HIDE DEF r
    <2> QED  BY <2>5, <2>6, <2>7, <1>3
  <1>6. CASE ops' = Append(ops, [op |-> "PASS", addr |-> a, words |-> 0])
    <2> DEFINE r == [op |-> "PASS", addr |-> a, words |-> 0]
    <2>2. r \in StoreOps /\ r.op # "GET" /\ r.op = "PASS"
      BY DEF StoreOps
    <2> QED  BY <2>2, <1>3, <1>6
  <1> QED  BY <1>2, <1>4, <1>5, <1>6

-----------------------------------------------------------------------------
(* The members of a queue.                                                 *)

LEMMA MembersLonger ==
  ASSUME NEW S, NEW s \in Seq(S), NEW x \in S
  PROVE  Members(Append(s, x)) = Members(s) \cup {x}
  <1> DEFINE t == Append(s, x)
             n == Len(s)
  <1>1. n \in Nat /\ Len(t) = n + 1 /\ (\A i \in 1 .. n : t[i] = s[i]) /\ t[n + 1] = x
    BY LongerIs
  <1> HIDE DEF t, n
  <1>2. 1 .. n + 1 = (1 .. n) \cup {n + 1}
    BY <1>1
  <1>3. { t[i] : i \in 1 .. n + 1 } = { s[i] : i \in 1 .. n } \cup {x}
    BY <1>1, <1>2
  <1> QED  BY <1>1, <1>3 DEF Members, t, n

LEMMA MembersRest ==
  ASSUME NEW s \in Seq(Nat), s # << >>, Rising(s)
  PROVE  /\ Members(Tail(s)) = Members(s) \ {s[1]} /\ Rising(Tail(s)) /\ s[1] \in Members(s)
         /\ \A x \in Members(s) : s[1] <= x /\ x \in Nat
  <1> DEFINE t == Tail(s)
             n == Len(s)
  <1>1. n \in Nat /\ n >= 1 /\ Len(t) = n - 1 /\ (\A i \in 1 .. n - 1 : t[i] = s[i + 1]) /\ \A i \in 1 .. n : s[i] \in Nat
    BY RestIs, ElementOfSeq
  <1>2. \A i, j \in 1 .. n : i < j => s[i] < s[j]
    BY DEF Rising
  <1> HIDE DEF t, n
  <1>3. ASSUME NEW x
        PROVE  x \in { t[i] : i \in 1 .. n - 1 } <=> x \in { s[i] : i \in 1 .. n } /\ x # s[1]
    <2>1. ASSUME NEW i \in 1 .. n - 1, x = t[i]
          PROVE  x \in { s[j] : j \in 1 .. n } /\ x # s[1]
      <3>1. i + 1 \in 1 .. n /\ 1 \in 1 .. n /\ 1 < i + 1
        BY <1>1
      <3>2. s[1] < s[i + 1] /\ s[1] \in Nat /\ s[i + 1] \in Nat /\ x = s[i + 1]
        BY <3>1, <2>1, <1>1, <1>2
      <3> QED  BY <3>1, <3>2
    <2>2. ASSUME NEW j \in 1 .. n, x = s[j], x # s[1]
          PROVE  x \in { t[i] : i \in 1 .. n - 1 }
      <3>1. j - 1 \in 1 .. n - 1 /\ (j - 1) + 1 = j
        BY <2>2, <1>1
      <3>2. t[j - 1] = x
        BY <3>1, <2>2, <1>1
      <3> QED  BY <3>1, <3>2
    <2> QED  BY <2>1, <2>2
  <1>4. ASSUME NEW i \in 1 .. n - 1, NEW j \in 1 .. n - 1, i < j
        PROVE  t[i] < t[j]
    <2>1. i + 1 \in 1 .. n /\ j + 1 \in 1 .. n /\ i + 1 < j + 1
      BY <1>1, <1>4
    <2> QED  BY <2>1, <1>1, <1>2
  <1>5. ASSUME NEW j \in 1 .. n
        PROVE  s[1] <= s[j] /\ s[j] \in Nat
    <2>1. 1 \in 1 .. n /\ (j = 1 \/ 1 < j)
      BY <1>1
    <2>2. s[1] \in Nat /\ s[j] \in Nat
      BY <2>1, <1>1
    <2>3. CASE j = 1
      BY <2>2, <2>3
    <2>4. CASE 1 < j
      <3>1. s[1] < s[j]
        BY <2>1, <2>4, <1>2
      <3> QED  BY <2>2, <3>1
    <2> QED  BY <2>1, <2>3, <2>4
  <1>6. 1 \in 1 .. n
    BY <1>1
  <1> QED  BY <1>1, <1>3, <1>4, <1>5, <1>6 DEF Members, Rising, t, n

LEMMA RisingLonger ==
  ASSUME NEW s \in Seq(Nat), Rising(s), NEW x \in Nat, \A y \in Members(s) : y < x
  PROVE  Rising(Append(s, x))
  <1> DEFINE t == Append(s, x)
             n == Len(s)
  <1>1. n \in Nat /\ Len(t) = n + 1 /\ (\A i \in 1 .. n : t[i] = s[i]) /\ t[n + 1] = x
    BY LongerIs
  <1>2. (\A i, j \in 1 .. n : i < j => s[i] < s[j]) /\ \A i \in 1 .. n : s[i] < x
    BY DEF Rising, Members
  <1> HIDE DEF t, n
  <1>3. ASSUME NEW i \in 1 .. n + 1, NEW j \in 1 .. n + 1, i < j
        PROVE  t[i] < t[j]
    <2>1. i \in 1 .. n /\ (j \in 1 .. n \/ j = n + 1)
      BY <1>1, <1>3
    <2> QED  BY <2>1, <1>1, <1>2, <1>3
  <1> QED  BY <1>1, <1>3 DEF Rising, t

\* A queue is as long as it has members.
LEMMA MembersCount ==
  ASSUME NEW s \in Seq(Nat)
  PROVE  IsFiniteSet(Members(s)) /\ Cardinality(Members(s)) <= Len(s)
  <1> DEFINE n == Len(s)
             f == [i \in 1 .. n |-> s[i]]
             M == Members(s)
  <1>0. n \in Nat
    OBVIOUS
  <1>2. f \in Surjection(1 .. n, M)
    BY DEF Surjection, Members
  <1> HIDE DEF n, f, M
  <1>1. n \in Nat /\ IsFiniteSet(1 .. n) /\ Cardinality(1 .. n) = n
    <2>1. IsFiniteSet(1 .. n) /\ Cardinality(1 .. n) = IF 1 > n THEN 0 ELSE n - 1 + 1
      BY <1>0, FS_Interval
    <2>2. (IF 1 > n THEN 0 ELSE n - 1 + 1) = n
      BY <1>0
    <2> QED  BY <1>0, <2>1, <2>2
  <1>3. IsFiniteSet(M) /\ Cardinality(M) <= Cardinality(1 .. n)
    BY <1>1, <1>2, FS_Surjection
  <1> QED  BY <1>1, <1>3 DEF n, M

-----------------------------------------------------------------------------
(* Lines and words.                                                        *)

\* Line l belongs to a value when the value has a word in it.
LEMMA LinesOf ==
  ASSUME NEW w \in Nat \ {0}
  PROVE  /\ NumOfWords(w) \in Nat /\ NumOfWords(w) >= 1
         /\ \A l \in Nat : l < NumOfWords(w) <=> l * LineWords < w
  <1> DEFINE L == LineWords
             q == (w + L - 1) \div L
             r == (w + L - 1) % L
  <1>1. L \in Nat /\ L >= 2
    BY StoreAssumption
  <1>2. q \in Int /\ r \in 0 .. L - 1 /\ w + L - 1 = (L * q) + r
    <2>1. w + L - 1 \in Int /\ L \in Nat \ {0}
      BY <1>1
    <2> QED  BY <2>1, ModRange, DivMod
  <1>3. NumOfWords(w) = q
    BY DEF NumOfWords
  <1> HIDE DEF L, q, r
  <1>4. q \in Nat /\ q >= 1
    <2>1. q < 1 => L * q <= 0
      <3> SUFFICES ASSUME q < 1
                   PROVE  L * q <= 0
        OBVIOUS
      <3>1. PICK e \in Nat : q = 0 - e
        <4>1. 0 - q \in Nat /\ q = 0 - (0 - q)
          BY <1>2
        <4> QED  BY <4>1
      <3>2. L * q = 0 - (L * e) /\ L * e \in Nat
        BY <3>1, <1>1
      <3> QED  BY <3>2
    <2>2. L * q \in Int
      BY <1>1, <1>2
    <2>3. ~(L * q <= 0)
      BY <2>2, <1>1, <1>2
    <2> QED  BY <2>1, <2>3, <1>2
  <1>5. ASSUME NEW l \in Nat
        PROVE  l < q <=> l * L < w
    <2>1. l * L = L * l /\ L * l \in Nat /\ L * q \in Nat
      BY <1>1, <1>4
    <2>2. l < q => L * l + L <= L * q
      BY <1>1, <1>4, BucketsApart
    <2>3. q < l => L * q + L <= L * l
      BY <1>1, <1>4, BucketsApart
    <2>4. l = q => L * q = L * l
      OBVIOUS
    <2>5. l < q \/ q < l \/ l = q
      BY <1>4
    <2>6. l < q => l * L < w
      BY <2>1, <2>2, <1>1, <1>2
    <2>7. ~(l < q) => ~(l * L < w)
      BY <2>1, <2>3, <2>4, <2>5, <1>1, <1>2
    <2> QED  BY <2>6, <2>7
  <1> QED  BY <1>3, <1>4, <1>5 DEF L

\* A longer value has as many lines or more.
LEMMA LinesGrow ==
  ASSUME NEW w \in Nat \ {0}, NEW v \in Nat \ {0}, w <= v
  PROVE  NumOfWords(w) <= NumOfWords(v)
  <1> DEFINE a == NumOfWords(w)
             b == NumOfWords(v)
  <1>1. a \in Nat /\ a >= 1 /\ b \in Nat /\ (\A l \in Nat : l < a <=> l * LineWords < w) /\ (\A l \in Nat : l < b <=> l * LineWords < v)
    BY LinesOf
  <1> HIDE DEF a, b
  <1>2. a - 1 \in Nat /\ a - 1 < a
    BY <1>1
  <1>3. (a - 1) * LineWords < w /\ (a - 1) * LineWords \in Int
    BY <1>1, <1>2, StoreAssumption
  <1>4. (a - 1) * LineWords < v
    BY <1>3
  <1>5. a - 1 < b
    BY <1>1, <1>2, <1>4
  <1>6. a <= b
    BY <1>1, <1>5
  <1> QED  BY <1>6 DEF a, b

LEMMA NextLine ==
  ASSUME NEW l \in Nat
  PROVE  (l + 1) * LineWords = l * LineWords + LineWords /\ l + 1 \in Nat /\ l * LineWords \in Nat
  <1>1. PICK x \in Nat : x = LineWords
    BY StoreAssumption
  <1>2. (l + 1) * x = l * x + x /\ l * x \in Nat
    OBVIOUS
  <1> QED  BY <1>1, <1>2

LEMMA LineReaches ==
  ASSUME NEW l \in Nat, NEW x \in Nat, l * LineWords + LineWords >= x
  PROVE  ~((l + 1) * LineWords < x)
  <1>1. PICK y \in Nat : y = l * LineWords
    BY NextLine
  <1>2. PICK z : z = (l + 1) * LineWords
    OBVIOUS
  <1>3. PICK w \in Nat : w = LineWords
    BY StoreAssumption
  <1>4. z = y + w /\ y + w >= x
    BY <1>1, <1>2, <1>3, NextLine
  <1>5. ~(z < x)
    BY <1>4
  <1> QED  BY <1>2, <1>5

-----------------------------------------------------------------------------
(* The SETs to be written.                                                 *)

\* demux passes on a SET, a GET that was not held back, or a request without a value.
LEMMA SetsGrowSet ==
  ASSUME OpsSound, NEW F, NEW sm \in Seq(Nat), NEW a \in Nat, NEW d \in Nat, SetsInTurn(F, sm, a, d),
         F \subseteq 1 .. d, d + 1 \in 1 .. Len(ops), ops[d + 1].op = "SET"
  PROVE  SetsInTurn(F \cup {d + 1}, Append(sm, d + 1), a, d + 1)
  <1> DEFINE n == d + 1
             t == Append(sm, n)
             k == Len(sm)
  <1>1. n \in Nat /\ k \in Nat /\ Len(t) = k + 1 /\ (\A i \in 1 .. k : t[i] = sm[i]) /\ t[k + 1] = n
    BY LongerIs
  <1>2. Members(t) = Members(sm) \cup {n}
    BY <1>1, MembersLonger
  <1>3. /\ \A i \in 1 .. k : sm[i] \in F /\ ops[sm[i]].op = "SET"
        /\ Rising(sm)
        /\ sm # << >> => \A m \in 1 .. d : ops[m].op = "SET" /\ m >= sm[1] => m \in Members(sm)
        /\ \A z \in a + 1 .. d : ops[z].op = "GET" => \A m \in SetsOf(ops[z].addr) : m < z => m \notin Members(sm)
    BY DEF SetsInTurn
  <1>4. \A y \in Members(sm) : y < n
    <2>1. \A y \in Members(sm) : y \in F
      BY <1>3 DEF Members, k
    <2>2. \A y \in F : y \in 1 .. d
      OBVIOUS
    <2>3. \A y \in 1 .. d : y < n
      OBVIOUS
    <2> QED  BY <2>1, <2>2, <2>3
  <1>5. Rising(t)
    BY <1>1, <1>3, <1>4, RisingLonger
  <1> HIDE DEF n, t, k
  <1>6. \A i \in 1 .. k + 1 : t[i] \in F \cup {n} /\ ops[t[i]].op = "SET"
    <2> SUFFICES ASSUME NEW i \in 1 .. k + 1
                 PROVE  t[i] \in F \cup {n} /\ ops[t[i]].op = "SET"
      OBVIOUS
    <2>1. i \in 1 .. k \/ i = k + 1
      BY <1>1
    <2> QED  BY <2>1, <1>1, <1>3 DEF n
  <1>7. ASSUME NEW m \in 1 .. n, ops[m].op = "SET", m >= t[1]
        PROVE  m \in Members(t)
    <2>1. m = n \/ m \in 1 .. d
      BY DEF n
    <2>2. CASE m = n
      BY <2>2, <1>2
    <2>3. CASE m \in 1 .. d
      <3>1. sm # << >>
        <4> SUFFICES ASSUME sm = << >>
                     PROVE  FALSE
          OBVIOUS
        <4>1. k = 0
          BY DEF k
        <4>2. t[1] = n
          BY <4>1, <1>1
        <4> QED  BY <4>2, <2>3, <1>7 DEF n
      <3>2. k >= 1
        BY <3>1, RestIs DEF k
      <3>3. t[1] = sm[1]
        BY <3>2, <1>1
      <3> QED  BY <3>1, <3>3, <2>3, <1>2, <1>3, <1>7
    <2> QED  BY <2>1, <2>2, <2>3
  <1>8. ASSUME NEW z \in a + 1 .. n, ops[z].op = "GET", NEW m \in SetsOf(ops[z].addr), m < z
        PROVE  m \notin Members(t)
    <2>1. z # n /\ z \in a + 1 .. d
      BY <1>8 DEF n
    <2>2. m # n
      BY <2>1, <1>8, SetsAre DEF n
    <2> QED  BY <2>1, <2>2, <1>2, <1>3, <1>8
  <1>9. SetsInTurn(F \cup {n}, t, a, n)
    BY <1>1, <1>5, <1>6, <1>7, <1>8 DEF SetsInTurn
  <1> QED  BY <1>9 DEF n, t

LEMMA SetsGrowGet ==
  ASSUME OpsSound, NEW F, NEW sm \in Seq(Nat), NEW a \in Nat, NEW d \in Nat, SetsInTurn(F, sm, a, d),
         NEW G, F \subseteq G, d + 1 \in 1 .. Len(ops), ops[d + 1].op # "SET",
         ops[d + 1].op = "GET" => \A m \in F : ops[m].op = "SET" => ops[m].addr # ops[d + 1].addr
  PROVE  SetsInTurn(G, sm, a, d + 1)
  <1> DEFINE n == d + 1
  <1>3. /\ \A i \in 1 .. Len(sm) : sm[i] \in F /\ ops[sm[i]].op = "SET"
        /\ Rising(sm)
        /\ sm # << >> => \A m \in 1 .. d : ops[m].op = "SET" /\ m >= sm[1] => m \in Members(sm)
        /\ \A z \in a + 1 .. d : ops[z].op = "GET" => \A m \in SetsOf(ops[z].addr) : m < z => m \notin Members(sm)
    BY DEF SetsInTurn
  <1> HIDE DEF n
  <1>7. ASSUME sm # << >>, NEW m \in 1 .. n, ops[m].op = "SET", m >= sm[1]
        PROVE  m \in Members(sm)
    <2>1. m = n \/ m \in 1 .. d
      BY DEF n
    <2>2. m # n
      BY <1>7 DEF n
    <2> QED  BY <2>1, <2>2, <1>3, <1>7
  <1>8. ASSUME NEW z \in a + 1 .. n, ops[z].op = "GET", NEW m \in SetsOf(ops[z].addr), m < z
        PROVE  m \notin Members(sm)
    <2>1. CASE z = n
      <3>1. ops[m].op = "SET" /\ ops[m].addr = ops[n].addr
        BY <2>1, <1>8, SetsAre
      <3>2. m \notin F
        BY <3>1, <2>1, <1>8 DEF n
      <3> QED  BY <3>2, <1>3 DEF Members
    <2>2. CASE z # n
      <3>1. z \in a + 1 .. d
        BY <2>2 DEF n
      <3> QED  BY <3>1, <1>3, <1>8
    <2> QED  BY <2>1, <2>2
  <1>9. SetsInTurn(G, sm, a, n)
    BY <1>3, <1>7, <1>8 DEF SetsInTurn
  <1> QED  BY <1>9 DEF n

\* accessControl takes an entry that was written, or is no SET, from the filter.
LEMMA SetsPop ==
  ASSUME NEW F, NEW sm, NEW a, NEW d, SetsInTurn(F, sm, a, d), NEW h, h \notin Members(sm)
  PROVE  SetsInTurn(F \ {h}, sm, a, d)
  BY DEF SetsInTurn, Members

\* A SET is written.
LEMMA SetsWritten ==
  ASSUME NEW F, NEW sm \in Seq(Nat), sm # << >>, NEW a, NEW d, SetsInTurn(F, sm, a, d)
  PROVE  SetsInTurn(F, Tail(sm), a, d)
  <1> DEFINE t == Tail(sm)
             k == Len(sm)
  <1>1. k \in Nat /\ k >= 1 /\ t \in Seq(Nat) /\ Len(t) = k - 1 /\ (\A i \in 1 .. k - 1 : t[i] = sm[i + 1])
    BY RestIs
  <1>3. /\ \A i \in 1 .. k : sm[i] \in F /\ ops[sm[i]].op = "SET"
        /\ Rising(sm)
        /\ sm # << >> => \A m \in 1 .. d : ops[m].op = "SET" /\ m >= sm[1] => m \in Members(sm)
        /\ \A z \in a + 1 .. d : ops[z].op = "GET" => \A m \in SetsOf(ops[z].addr) : m < z => m \notin Members(sm)
    BY DEF SetsInTurn
  <1>4. Members(t) = Members(sm) \ {sm[1]} /\ Rising(t) /\ \A x \in Members(sm) : sm[1] <= x /\ x \in Nat
    BY <1>3, MembersRest
  <1> HIDE DEF t, k
  <1>5. \A i \in 1 .. k - 1 : t[i] \in F /\ ops[t[i]].op = "SET"
    <2> SUFFICES ASSUME NEW i \in 1 .. k - 1
                 PROVE  t[i] \in F /\ ops[t[i]].op = "SET"
      OBVIOUS
    <2>1. i + 1 \in 1 .. k
      BY <1>1
    <2> QED  BY <2>1, <1>1, <1>3
  <1>6. ASSUME t # << >>, NEW m \in 1 .. d, ops[m].op = "SET", m >= t[1]
        PROVE  m \in Members(t)
    <2>1. Len(t) >= 1 /\ t[1] \in Nat
      BY <1>1, <1>6, RestIs
    <2>2. t[1] \in Members(t)
      BY <2>1, <1>1 DEF Members
    <2>3. t[1] \in Members(sm) /\ t[1] # sm[1] /\ sm[1] <= t[1] /\ sm[1] \in Nat
      <3>1. sm[1] \in Nat
        BY RestIs
      <3> QED  BY <2>2, <3>1, <1>4
    <2>4. m >= sm[1] /\ m # sm[1]
      BY <2>1, <2>3, <1>6
    <2> QED  BY <2>4, <1>3, <1>4, <1>6
  <1> QED  BY <1>1, <1>3, <1>4, <1>5, <1>6 DEF SetsInTurn, t

\* One more request is answered.
LEMMA SetsAnswered ==
  ASSUME NEW F, NEW sm, NEW a \in Nat, NEW d \in Nat, SetsInTurn(F, sm, a, d)
  PROVE  SetsInTurn(F, sm, a + 1, d)
  <1>1. \A z \in (a + 1) + 1 .. d : z \in a + 1 .. d
    OBVIOUS
  <1> QED  BY <1>1 DEF SetsInTurn

-----------------------------------------------------------------------------
(* The words to be written.                                                *)

LEMMA ValueIs ==
  ASSUME OpsSound, NEW n \in 1 .. Len(ops), ops[n].op # "PASS"
  PROVE  /\ ValueWords(n) \in Seq(ValueItems) /\ Len(ValueWords(n)) = ops[n].words /\ ops[n].words \in Nat /\ ops[n].words >= 2
         /\ \A i \in 1 .. ops[n].words : ValueWords(n)[i].data = <<n, i>> /\ (ValueWords(n)[i].eop <=> i = ops[n].words)
  <1> DEFINE w == ops[n].words
  <1>1. w \in Nat /\ w >= 2 /\ n \in Nat
    BY OpIs
  <1>2. \A i \in 1 .. w : [data |-> <<n, i>>, eop |-> i = w] \in ValueItems
    BY <1>1 DEF ValueItems, Pairs
  <1> HIDE DEF w
  <1>3. [i \in 1 .. w |-> [data |-> <<n, i>>, eop |-> i = w]] \in Seq(ValueItems)
    BY <1>1, <1>2
  <1>4. Len([i \in 1 .. w |-> [data |-> <<n, i>>, eop |-> i = w]]) = w
    BY <1>1
  <1> QED  BY <1>1, <1>3, <1>4 DEF ValueWords, w

LEMMA WordsGrow ==
  ASSUME OpsSound, NEW sm \in Seq(Nat), NEW q \in Seq(ValueItems), NEW ln, WordsInTurn(sm, q, ln),
         NEW n \in 1 .. Len(ops), ops[n].op = "SET"
  PROVE  WordsInTurn(Append(sm, n), q \o ValueWords(n), ln)
  <1> DEFINE t == Append(sm, n)
             k == Len(sm)
             v == ValueWords(n)
  <1>1. n \in Nat /\ v \in Seq(ValueItems) /\ ops[n].words \in Nat /\ ops[n].words >= 2
    BY ValueIs, OpIs
  <1>2. k \in Nat /\ Len(t) = k + 1 /\ (\A i \in 1 .. k : t[i] = sm[i]) /\ t[k + 1] = n /\ t # << >>
    BY <1>1, LongerIs, AppendProperties
  <1>3. PICK fr \in Seq(Seq(ValueItems)) :
          /\ Len(fr) = k /\ \A i \in 1 .. Len(fr) : fr[i] = ValueWords(sm[i])
          /\ Runs(q, ln * LineWords, fr)
    BY DEF WordsInTurn
  <1>4. /\ ln \in Nat /\ (sm = << >> => ln = 0)
        /\ (sm # << >> => ln * LineWords < ops[sm[1]].words) /\ ln * LineWords \in Nat
    BY StoreAssumption DEF WordsInTurn
  <1> HIDE DEF t, k, v
  <1>5. Runs(q \o v, ln * LineWords, Append(fr, v))
    BY <1>1, <1>3, <1>4, RunsGrow
  <1>6. Append(fr, v) \in Seq(Seq(ValueItems)) /\ Len(Append(fr, v)) = k + 1 /\ (\A i \in 1 .. k : Append(fr, v)[i] = fr[i]) /\ Append(fr, v)[k + 1] = v
    BY <1>1, <1>3, LongerIs
  <1>7. \A i \in 1 .. k + 1 : Append(fr, v)[i] = ValueWords(t[i])
    <2> SUFFICES ASSUME NEW i \in 1 .. k + 1
                 PROVE  Append(fr, v)[i] = ValueWords(t[i])
      OBVIOUS
    <2>1. i \in 1 .. k \/ i = k + 1
      BY <1>2
    <2>2. CASE i = k + 1
      <3>1. t[i] = n
        BY <2>2, <1>2
      <3> QED  BY <2>2, <3>1, <1>6 DEF v
    <2>3. CASE i \in 1 .. k
      <3>1. t[i] = sm[i] /\ fr[i] = ValueWords(sm[i])
        BY <2>3, <1>2, <1>3
      <3> QED  BY <2>3, <3>1, <1>6
    <2> QED  BY <2>1, <2>2, <2>3
  <1>8. ln * LineWords < ops[t[1]].words
    <2>1. CASE sm = << >>
      <3>1. k = 0 /\ ln = 0
        BY <2>1, <1>4 DEF k
      <3>2. t[1] = n
        BY <3>1, <1>2
      <3>3. 0 * LineWords = 0
        BY StoreAssumption
      <3> QED  BY <3>1, <3>2, <3>3, <1>1
    <2>2. CASE sm # << >>
      <3>1. 1 \in 1 .. k
        BY <2>2, RestIs DEF k
      <3>2. t[1] = sm[1]
        BY <3>1, <1>2
      <3> QED  BY <2>2, <3>2, <1>4
    <2> QED  BY <2>1, <2>2
  <1>9. WordsInTurn(t, q \o v, ln)
    BY <1>2, <1>4, <1>5, <1>6, <1>7, <1>8 DEF WordsInTurn
  <1> QED  BY <1>9 DEF t, v

\* What the first frame puts at the front.
LEMMA RunsFront ==
  ASSUME NEW S, NEW Q \in Seq(S), NEW k \in Nat, NEW fr \in Seq(Seq(S)), Runs(Q, k, fr), fr # << >>, k <= Len(fr[1])
  PROVE  Len(fr[1]) - k <= Len(Q) /\ \A i \in 1 .. Len(fr[1]) - k : Q[i] = fr[1][k + i]
  <1>1. 0 \in Nat /\ k + 0 <= Len(fr[1])
    OBVIOUS
  <1> QED  BY <1>1, RunsTake

\* The words of a line: all of one value, LineWords of them or up to its last one.
LEMMA LineTaken ==
  ASSUME OpsSound, FifosTyped(paths), NEW sm \in Seq(Nat), NEW ln, WordsInTurn(sm, paths["setValueIn"], ln), sm # << >>,
         sm[1] \in 1 .. Len(ops), ops[sm[1]].op = "SET"
  PROVE  LET k == WordsOfLine
             q == paths["setValueIn"]
             h == sm[1]
             w == ops[h].words
             p == ln * LineWords
         IN /\ k \in Nat /\ k >= 1 /\ k <= LineWords /\ p \in Nat /\ p + k <= w
            /\ q[k].eop <=> p + k = w
            /\ p + k = w \/ k = LineWords
            /\ \A i \in 1 .. k : q[i].data = <<h, p + i>>
            /\ p + LineWords >= w => p + k = w
  <1> DEFINE q == paths["setValueIn"]
             h == sm[1]
             w == ops[h].words
             p == ln * LineWords
             v == ValueWords(h)
             ends == { i \in 1 .. Least(LineWords, Len(q)) : q[i].eop }
  <1>1. /\ LineWords \in Nat /\ LineWords >= 2 /\ p \in Nat /\ p < w /\ ln \in Nat
    <2>1. ln \in Nat /\ p < w
      BY DEF WordsInTurn
    <2>2. LineWords \in Nat /\ LineWords >= 2
      BY StoreAssumption
    <2>3. p \in Nat
      BY <2>1, <2>2
    <2> QED  BY <2>1, <2>2, <2>3
  <1>2. PICK fr \in Seq(Seq(ValueItems)) :
          /\ Len(fr) = Len(sm) /\ \A i \in 1 .. Len(fr) : fr[i] = ValueWords(sm[i])
          /\ Runs(q, p, fr)
    BY DEF WordsInTurn
  <1>3. fr # << >> /\ fr[1] = v
    <2>1. Len(sm) \in Nat /\ Len(sm) >= 1
      BY RestIs
    <2> QED  BY <2>1, <1>2
  <1>4. /\ v \in Seq(ValueItems) /\ Len(v) = w /\ w \in Nat /\ w >= 2
        /\ \A i \in 1 .. w : v[i].data = <<h, i>> /\ (v[i].eop <=> i = w)
    BY ValueIs
  <1>5. q \in Seq(ValueItems) /\ Len(q) \in Nat
    BY DEF FifosTyped
  <1>w. WordsOfLine = IF ends = {} THEN LineWords ELSE CHOOSE i \in ends : \A j \in ends : i <= j
    BY DEF WordsOfLine
  <1> HIDE DEF q, h, p, v, w, ends
  <1>6. w - p <= Len(q) /\ \A i \in 1 .. w - p : q[i] = v[p + i]
    <2>1. p <= Len(fr[1])
      BY <1>1, <1>3, <1>4
    <2>a. p \in Nat /\ Runs(q, p, fr) /\ fr # << >> /\ q \in Seq(ValueItems)
      BY <1>1, <1>2, <1>3, <1>5
    <2>2. Len(fr[1]) - p <= Len(q) /\ \A i \in 1 .. Len(fr[1]) - p : q[i] = fr[1][p + i]
      BY <2>1, <2>a, RunsFront, Zenon
    <2> QED  BY <2>2, <1>3, <1>4
  <1>7. ASSUME NEW i \in 1 .. w - p
        PROVE  q[i].data = <<h, p + i>> /\ (q[i].eop <=> p + i = w)
    <2>1. p + i \in 1 .. w
      BY <1>1, <1>4
    <2>2. v[p + i].data = <<h, p + i>> /\ (v[p + i].eop <=> p + i = w)
      BY <2>1, <1>4
    <2> QED  BY <2>2, <1>6
  <1>8. Least(LineWords, Len(q)) = IF LineWords < Len(q) THEN LineWords ELSE Len(q)
    BY DEF Least
  <1> DEFINE k == WordsOfLine
  <1>9. CASE w - p <= LineWords
    <2> DEFINE r == w - p
    <2>1. r \in Nat /\ r >= 1 /\ r \in 1 .. Least(LineWords, Len(q)) /\ p + r = w
      BY <1>1, <1>4, <1>5, <1>6, <1>8, <1>9
    <2>2. q[r].eop
      BY <2>1, <1>7
    <2>3. r \in ends
      BY <2>1, <2>2 DEF ends
    <2>4. ASSUME NEW j \in ends
          PROVE  r <= j
      <3>1. j \in Nat /\ j >= 1 /\ q[j].eop
        BY <1>8, <1>1, <1>5 DEF ends
      <3> SUFFICES ASSUME j < r
                   PROVE  FALSE
        BY <3>1, <2>1
      <3>2. j \in 1 .. w - p
        BY <3>1, <2>1
      <3>3. p + j = w
        BY <3>1, <3>2, <1>7
      <3> QED  BY <3>1, <3>3, <2>1, <1>1, <1>4
    <2>5. ends # {} /\ (CHOOSE i \in ends : \A j \in ends : i <= j) = r
      <3>1. \A i \in ends : i \in Nat
        BY <1>8, <1>1, <1>5 DEF ends
      <3> HIDE DEF r
      <3>2. PICK c : c = (CHOOSE i \in ends : \A j \in ends : i <= j)
        OBVIOUS
      <3>3. c \in ends /\ \A j \in ends : c <= j
        BY <2>3, <2>4, <3>2
      <3>4. c <= r /\ r <= c /\ c \in Nat
        BY <2>3, <2>4, <3>1, <3>3
      <3> QED  BY <2>1, <2>3, <3>2, <3>4
    <2>6. k = r
      BY <2>5, <1>w
    <2> HIDE DEF k
    <2>a. \A i \in 1 .. r : q[i].data = <<h, p + i>>
      BY <1>7
    <2>b. r <= LineWords
      BY <1>9
    <2> HIDE DEF r
    <2>c. k \in Nat /\ k >= 1 /\ k <= LineWords /\ p + k = w /\ q[k].eop
      BY ONLY <2>1, <2>2, <2>6, <2>b
    <2>d. p + k <= w
      BY ONLY <2>c, <1>4
    <2>7. /\ k \in Nat /\ k >= 1 /\ k <= LineWords /\ p + k <= w /\ p + k = w /\ q[k].eop
          /\ \A i \in 1 .. k : q[i].data = <<h, p + i>>
      BY ONLY <2>a, <2>c, <2>d, <2>6
    <2> QED  BY <2>7, <1>1 DEF k, q, h, w, p
  <1>10. CASE ~(w - p <= LineWords)
    <2>1. LineWords < w - p /\ Least(LineWords, Len(q)) = LineWords
      BY <1>1, <1>4, <1>5, <1>6, <1>8, <1>10
    <2>2. ASSUME NEW j \in ends
          PROVE  FALSE
      <3>1. j \in Nat /\ j >= 1 /\ q[j].eop /\ j <= LineWords
        BY <2>1, <1>1 DEF ends
      <3>2. j \in 1 .. w - p
        BY <3>1, <2>1, <1>1, <1>4
      <3>3. p + j = w
        BY <3>1, <3>2, <1>7
      <3> QED  BY <3>1, <3>3, <2>1, <1>1, <1>4
    <2>3. k = LineWords
      BY <2>2, <1>w
    <2> HIDE DEF k
    <2>4. k \in 1 .. w - p /\ p + k < w
      BY <2>1, <2>3, <1>1, <1>4
    <2>5. ~ q[k].eop
      BY <2>4, <1>7, <1>1, <1>4
    <2>6. \A i \in 1 .. k : q[i].data = <<h, p + i>>
      <3>1. \A i \in 1 .. k : i \in 1 .. w - p
        BY <2>4, <1>1, <1>4
      <3> QED  BY <3>1, <1>7
    <2>7. ~(p + LineWords >= w)
      BY <2>3, <2>4, <1>1, <1>4
    <2>8. k \in Nat /\ k >= 1 /\ k <= LineWords /\ p + k <= w /\ p + k # w
      BY <2>3, <2>4, <1>1, <1>4
    <2> QED  BY <2>3, <2>5, <2>6, <2>7, <2>8, <1>1 DEF k, q, h, w, p
  <1> QED  BY <1>9, <1>10

\* What is left behind a line.
LEMMA LineLeaves ==
  ASSUME OpsSound, NEW sm \in Seq(Nat), NEW q \in Seq(ValueItems), NEW ln, WordsInTurn(sm, q, ln), sm # << >>,
         \A i \in 1 .. Len(sm) : sm[i] \in 1 .. Len(ops) /\ ops[sm[i]].op = "SET",
         NEW k \in Nat, ln * LineWords + k <= ops[sm[1]].words
  PROVE  /\ SubSeq(q, k + 1, Len(q)) \in Seq(ValueItems)
         /\ ln * LineWords + k = ops[sm[1]].words => WordsInTurn(Tail(sm), SubSeq(q, k + 1, Len(q)), 0)
         /\ ln * LineWords + k < ops[sm[1]].words /\ k = LineWords => WordsInTurn(sm, SubSeq(q, k + 1, Len(q)), ln + 1)
  <1> DEFINE h == sm[1]
             w == ops[h].words
             p == ln * LineWords
             v == ValueWords(h)
             R == SubSeq(q, k + 1, Len(q))
             n == Len(sm)
  <1>1. /\ LineWords \in Nat /\ LineWords >= 2 /\ p \in Nat /\ p < w /\ ln \in Nat
    <2>1. ln \in Nat /\ p < w
      BY DEF WordsInTurn
    <2>2. LineWords \in Nat /\ LineWords >= 2
      BY StoreAssumption
    <2>3. p \in Nat
      BY <2>1, <2>2
    <2> QED  BY <2>1, <2>2, <2>3
  <1>2. PICK fr \in Seq(Seq(ValueItems)) :
          /\ Len(fr) = n /\ \A i \in 1 .. Len(fr) : fr[i] = ValueWords(sm[i])
          /\ Runs(q, p, fr)
    BY DEF WordsInTurn
  <1>3. n \in Nat /\ n >= 1 /\ h \in 1 .. Len(ops) /\ ops[h].op = "SET"
    <2>1. n \in Nat /\ n >= 1
      BY RestIs
    <2> QED  BY <2>1
  <1>4. Len(v) = w /\ w \in Nat /\ w >= 2
    BY <1>3, ValueIs
  <1> HIDE DEF h, w, p, v, R, n
  <1>5. fr # << >> /\ fr[1] = v
    <2>1. 1 \in 1 .. n /\ Len(fr) # 0
      BY <1>2, <1>3
    <2> QED  BY <2>1, <1>2 DEF v, h
  <1>6. R \in Seq(ValueItems) /\ Runs(R, p + k, fr)
    <2>1. p + k <= Len(fr[1])
      BY <1>4, <1>5 DEF p, w, h
    <2> QED  BY <2>1, <1>1, <1>2, <1>5, RunsTake DEF R
  <1>7. ASSUME p + k = w
        PROVE  WordsInTurn(Tail(sm), R, 0)
    <2> DEFINE t == Tail(sm)
               g == Tail(fr)
    <2>1. Runs(R, 0, g)
      BY <1>4, <1>5, <1>6, <1>7, RunsNext
    <2>2. g \in Seq(Seq(ValueItems)) /\ Len(g) = n - 1 /\ (\A i \in 1 .. n - 1 : g[i] = fr[i + 1])
      BY <1>2, <1>5, RestIs
    <2>3. Len(t) = n - 1 /\ t \in Seq(Nat) /\ (\A i \in 1 .. n - 1 : t[i] = sm[i + 1])
      BY RestIs DEF n
    <2> HIDE DEF t, g
    <2>4. \A i \in 1 .. n - 1 : g[i] = ValueWords(t[i])
      <3> SUFFICES ASSUME NEW i \in 1 .. n - 1
                   PROVE  g[i] = ValueWords(t[i])
        OBVIOUS
      <3>1. i + 1 \in 1 .. n
        BY <1>3
      <3>2. fr[i + 1] = ValueWords(sm[i + 1]) /\ t[i] = sm[i + 1]
        BY <3>1, <2>3, <1>2
      <3> QED  BY <3>2, <2>2
    <2>5. t # << >> => 0 < ops[t[1]].words
      <3> SUFFICES ASSUME t # << >>
                   PROVE  0 < ops[t[1]].words
        OBVIOUS
      <3>1. Len(t) >= 1
        BY <2>3, RestIs
      <3>2. 1 \in 1 .. n - 1 /\ 2 \in 1 .. n /\ t[1] = sm[1 + 1]
        BY <3>1, <2>3, <1>3
      <3>3. t[1] \in 1 .. Len(ops) /\ ops[t[1]].op = "SET"
        BY <3>2 DEF n
      <3>4. ops[t[1]].words \in Nat /\ ops[t[1]].words >= 2
        BY <3>3, ValueIs
      <3> QED  BY <3>4
    <2>6. 0 * LineWords = 0
      BY <1>1
    <2>7. WordsInTurn(t, R, 0)
      BY <2>1, <2>2, <2>3, <2>4, <2>5, <2>6 DEF WordsInTurn
    <2> QED  BY <2>7 DEF t
  <1>8. ASSUME p + k < w, k = LineWords
        PROVE  WordsInTurn(sm, R, ln + 1)
    <2>1. (ln + 1) * LineWords = p + k /\ ln + 1 \in Nat
      BY <1>1, <1>8 DEF p
    <2> QED  BY <2>1, <1>2, <1>6, <1>8 DEF WordsInTurn, w, h, n
  <1> QED  BY <1>6, <1>7, <1>8 DEF R, p, w, h

-----------------------------------------------------------------------------
(* The memory.                                                             *)

LEMMA LineTyped ==
  ASSUME NEW m \in Nat, NEW l \in Nat
  PROVE  LineOf(m, l) \in MemLines
  <1>1. LineWords \in Nat /\ l * LineWords \in Nat
    BY StoreAssumption
  <1>2. \A w \in 1 .. LineWords : l * LineWords + w \in Nat
    BY <1>1
  <1>3. ASSUME NEW w \in 1 .. LineWords
        PROVE  (IF l * LineWords + w <= ops[m].words THEN <<m, l * LineWords + w>>
                ELSE IF l = 0 THEN NoWord ELSE <<m, (l - 1) * LineWords + w>>) \in Pairs
    <2>1. <<m, l * LineWords + w>> \in Pairs /\ NoWord \in Pairs
      BY <1>2 DEF Pairs, NoWord
    <2>2. l # 0 => <<m, (l - 1) * LineWords + w>> \in Pairs
      <3> SUFFICES ASSUME l # 0
                   PROVE  <<m, (l - 1) * LineWords + w>> \in Pairs
        OBVIOUS
      <3>1. l - 1 \in Nat
        OBVIOUS
      <3>2. (l - 1) * LineWords \in Nat
        BY <3>1, NextLine
      <3>3. (l - 1) * LineWords + w \in Nat
        BY <3>2
      <3> QED  BY <3>3 DEF Pairs
    <2> QED  BY <2>1, <2>2
  <1> QED  BY <1>3 DEF LineOf, MemLines

\* One more request is demuxed.
LEMMA MemoryGrowSet ==
  ASSUME NEW M, NEW sm \in Seq(Nat), NEW ln, NEW d \in Nat, MemoryHolds(M, sm, ln, d), sm = << >> => ln = 0
  PROVE  MemoryHolds(M, Append(sm, d + 1), ln, d + 1)
  <1> DEFINE n == d + 1
             t == Append(sm, n)
             k == Len(sm)
  <1>1. n \in Nat /\ k \in Nat /\ Len(t) = k + 1 /\ (\A i \in 1 .. k : t[i] = sm[i]) /\ t[k + 1] = n
    BY LongerIs
  <1>2. Members(t) = Members(sm) \cup {n}
    BY <1>1, MembersLonger
  <1>3. /\ M \in [Addresses -> [Slots -> MemLines]]
        /\ \A b \in 1 .. d : ops[b].op = "SET" /\ b \notin Members(sm) =>
             \A l \in 0 .. NumOfWords(ops[b].words) - 1 :
               \E m \in SetsOf(ops[b].addr) : m >= b /\ M[ops[b].addr][l] = LineOf(m, l)
        /\ sm # << >> => \A l \in 0 .. ln - 1 : M[ops[sm[1]].addr][l] = LineOf(sm[1], l)
    BY DEF MemoryHolds
  <1> HIDE DEF t, k
  <1>4. \A b \in 1 .. n : b \notin Members(t) => b \in 1 .. d /\ b \notin Members(sm)
    BY <1>2
  <1>5. \A l \in 0 .. ln - 1 : M[ops[t[1]].addr][l] = LineOf(t[1], l)
    <2>1. CASE sm = << >>
      BY <2>1
    <2>2. CASE sm # << >>
      <3>1. 1 \in 1 .. k
        BY <2>2, RestIs DEF k
      <3>2. t[1] = sm[1]
        BY <3>1, <1>1
      <3> QED  BY <2>2, <3>2, <1>3
    <2> QED  BY <2>1, <2>2
  <1>6. MemoryHolds(M, t, ln, n)
    BY <1>3, <1>4, <1>5 DEF MemoryHolds
  <1> QED  BY <1>6 DEF t

LEMMA MemoryGrow ==
  ASSUME NEW M, NEW sm, NEW ln, NEW d \in Nat, MemoryHolds(M, sm, ln, d), ops[d + 1].op # "SET"
  PROVE  MemoryHolds(M, sm, ln, d + 1)
  <1>1. \A b \in 1 .. d + 1 : ops[b].op = "SET" => b \in 1 .. d
    OBVIOUS
  <1> QED  BY <1>1 DEF MemoryHolds

\* The words that setPath gathers are a line of the value.
LineOfWords(q, k, pad) == [w \in 1 .. LineWords |-> IF w <= k THEN q[w].data ELSE pad[w]]
WordsAre(q, k, h, ln) == \A i \in 1 .. k : q[i].data = <<h, ln * LineWords + i>>

\* The buffer before line ln, in the memory M: empty, or the line before, which is full.
BufferOf(M, a, ln) == IF ln = 0 THEN [w \in 1 .. LineWords |-> NoWord] ELSE M[a][ln - 1]
FullBefore(h, ln, pad) == \A w \in 1 .. LineWords : pad[w] = IF ln = 0 THEN NoWord ELSE <<h, (ln - 1) * LineWords + w>>

LEMMA ValueBufferIs ==
  ASSUME NEW h \in Nat, NEW ln \in Nat, ops[h].words \in Nat, ln * LineWords < ops[h].words, NEW M, NEW a,
         \A l \in 0 .. ln - 1 : M[a][l] = LineOf(h, l)
  PROVE  FullBefore(h, ln, BufferOf(M, a, ln))
  <1> DEFINE x == ops[h].words
  <1>1. LineWords \in Nat /\ x \in Nat
    BY StoreAssumption
  <1>2. CASE ln = 0
    BY <1>2 DEF FullBefore, BufferOf
  <1>3. CASE ln # 0
    <2>1. PICK l \in 0 .. ln - 1 : l = ln - 1 /\ l \in Nat /\ ln = l + 1
      BY <1>3
    <2>2. (l + 1) * LineWords = l * LineWords + LineWords /\ l * LineWords \in Nat
      BY <2>1, NextLine
    <2>3. PICK p \in Nat : p = l * LineWords
      BY <2>2
    <2>4. p + LineWords < x
      BY <2>1, <2>2, <2>3
    <2>5. \A w \in 1 .. LineWords : p + w <= x
      BY <2>3, <2>4, <1>1
    <2>6. M[a][l] = LineOf(h, l)
      BY <2>1
    <2>7. \A w \in 1 .. LineWords : LineOf(h, l)[w] = <<h, p + w>>
      BY <2>3, <2>5 DEF LineOf
    <2>8. BufferOf(M, a, ln) = LineOf(h, l)
      BY <1>3, <2>1, <2>6 DEF BufferOf
    <2> QED  BY <1>3, <2>1, <2>3, <2>7, <2>8 DEF FullBefore
  <1> QED  BY <1>2, <1>3

LEMMA LineIs ==
  ASSUME NEW h \in Nat, NEW ln \in Nat, NEW k \in Nat, NEW q, NEW pad, ops[h].words \in Nat, FullBefore(h, ln, pad),
         ln * LineWords + k <= ops[h].words, ln * LineWords + k = ops[h].words \/ k = LineWords, WordsAre(q, k, h, ln)
  PROVE  LineOfWords(q, k, pad) = LineOf(h, ln)
  <1> DEFINE p == ln * LineWords
             x == ops[h].words
             y(w) == IF ln = 0 THEN NoWord ELSE <<h, (ln - 1) * LineWords + w>>
  <1>1. LineWords \in Nat /\ p \in Nat /\ x \in Nat
    BY StoreAssumption
  <1>2. p + k <= x /\ (p + k = x \/ k = LineWords) /\ \A i \in 1 .. k : q[i].data = <<h, p + i>>
    BY DEF WordsAre
  <1>a. \A w \in 1 .. LineWords : pad[w] = y(w)
    BY DEF FullBefore
  <1> HIDE DEF p, x, y
  <1>3. ASSUME NEW w \in 1 .. LineWords
        PROVE  (IF w <= k THEN q[w].data ELSE pad[w]) = IF p + w <= x THEN <<h, p + w>> ELSE y(w)
    <2>1. w <= k <=> p + w <= x
      BY <1>1, <1>2
    <2>2. w <= k => q[w].data = <<h, p + w>>
      BY <1>1, <1>2
    <2> QED  BY <2>1, <2>2, <1>a
  <1> QED  BY <1>3 DEF LineOf, LineOfWords, p, x, y

\* setPath writes a line of the first SET, and with the last line the SET is written.
LEMMA MemoryWritten ==
  ASSUME OpsSound, NEW M, NEW sm \in Seq(Nat), sm # << >>, NEW ln \in Nat, NEW d \in Nat, MemoryHolds(M, sm, ln, d),
         NEW F, NEW a, SetsInTurn(F, sm, a, d), sm[1] \in 1 .. Len(ops), ops[sm[1]].op = "SET", d <= Len(ops),
         ln * LineWords < ops[sm[1]].words,
         NEW M2, M2 = [M EXCEPT ![ops[sm[1]].addr][ln] = LineOf(sm[1], ln)]
  PROVE  /\ MemoryHolds(M2, sm, ln + 1, d)
         /\ ln * LineWords + LineWords >= ops[sm[1]].words => MemoryHolds(M2, Tail(sm), 0, d)
  <1> DEFINE h == sm[1]
             e == ops[h].addr
             x == ops[h].words
  <1>1. h \in Nat /\ h \in 1 .. Len(ops) /\ e \in Addresses /\ x \in Nat /\ x >= 2 /\ x <= MaxWords /\ MaxWords \in Nat
        /\ Len(ops) \in Nat /\ LineWords \in Nat
    BY OpIs, StoreAssumption
  <1>2. /\ M \in [Addresses -> [Slots -> MemLines]]
        /\ \A b \in 1 .. d : ops[b].op = "SET" /\ b \notin Members(sm) =>
             \A l \in 0 .. NumOfWords(ops[b].words) - 1 :
               \E m \in SetsOf(ops[b].addr) : m >= b /\ M[ops[b].addr][l] = LineOf(m, l)
        /\ \A l \in 0 .. ln - 1 : M[e][l] = LineOf(h, l)
    BY DEF MemoryHolds
  <1>3. \A m \in 1 .. d : ops[m].op = "SET" /\ m >= h => m \in Members(sm)
    BY DEF SetsInTurn
  <1>4. Rising(sm)
    BY DEF SetsInTurn
  <1>5. Members(Tail(sm)) = Members(sm) \ {h}
    BY <1>4, MembersRest
  <1>6. h \in SetsOf(e)
    BY <1>1, SetsAre
  <1> HIDE DEF h, e, x
  <1>x. x \in Nat \ {0} /\ MaxWords \in Nat \ {0}
    BY <1>1
  <1>7. NumOfWords(x) \in Nat /\ \A l \in Nat : l < NumOfWords(x) <=> l * LineWords < x
    BY <1>x, LinesOf
  <1>8. ln < NumOfWords(MaxWords) /\ NumOfWords(MaxWords) \in Nat
    <2>1. ln < NumOfWords(x) /\ NumOfWords(x) \in Nat
      BY <1>7 DEF x, h
    <2>2. NumOfWords(x) <= NumOfWords(MaxWords) /\ NumOfWords(MaxWords) \in Nat
      BY <1>1, <1>x, LinesGrow, LinesOf
    <2> QED  BY <2>1, <2>2
  <1>9. ln \in Slots
    BY <1>8 DEF Slots
  <1>10. M2 \in [Addresses -> [Slots -> MemLines]]
    <2>1. LineOf(h, ln) \in MemLines
      BY <1>1, LineTyped
    <2> QED  BY <2>1, <1>1, <1>2, <1>9 DEF h, e
  <1>11. M2[e][ln] = LineOf(h, ln)
    BY <1>1, <1>2, <1>9 DEF h, e
  <1>12. ASSUME NEW g \in Addresses, NEW l \in Slots, g # e \/ l # ln
         PROVE  M2[g][l] = M[g][l]
    BY <1>1, <1>2, <1>9, <1>12 DEF h, e
  <1>13. ASSUME NEW b \in 1 .. d, ops[b].op = "SET", b \notin Members(sm), NEW l \in 0 .. NumOfWords(ops[b].words) - 1
         PROVE  \E m \in SetsOf(ops[b].addr) : m >= b /\ M2[ops[b].addr][l] = LineOf(m, l)
    <2>1. b < h
      BY <1>1, <1>3, <1>13
    <2>2. b \in 1 .. Len(ops) /\ ops[b].addr \in Addresses /\ ops[b].words \in Nat /\ ops[b].words >= 2 /\ ops[b].words <= MaxWords
      <3>1. b \in 1 .. Len(ops)
        BY <1>1
      <3> QED  BY <3>1, <1>13, OpIs
    <2>3. l \in Slots
      <3>1. NumOfWords(ops[b].words) <= NumOfWords(MaxWords) /\ NumOfWords(ops[b].words) \in Nat
        <4>1. ops[b].words \in Nat \ {0}
          BY <2>2
        <4> QED  BY <4>1, <2>2, <1>x, LinesGrow, LinesOf
      <3> QED  BY <3>1, <1>8 DEF Slots
    <2>4. CASE ops[b].addr = e /\ l = ln
      <3>1. h >= b
        BY <2>1, <1>1
      <3> QED  BY <3>1, <2>4, <1>6, <1>11
    <2>5. CASE ~(ops[b].addr = e /\ l = ln)
      <3>1. M2[ops[b].addr][l] = M[ops[b].addr][l]
        BY <2>2, <2>3, <2>5, <1>12
      <3> QED  BY <3>1, <1>2, <1>13
    <2> QED  BY <2>4, <2>5
  <1>14. ASSUME NEW l \in 0 .. ln
         PROVE  M2[e][l] = LineOf(h, l)
    <2>1. CASE l = ln
      BY <2>1, <1>11
    <2>2. CASE l # ln
      <3>1. l \in 0 .. ln - 1 /\ l \in Slots
        BY <2>2, <1>8 DEF Slots
      <3> QED  BY <3>1, <2>2, <1>1, <1>2, <1>12
    <2> QED  BY <2>1, <2>2
  <1>15. MemoryHolds(M2, sm, ln + 1, d)
    <2>1. \A l \in 0 .. (ln + 1) - 1 : M2[e][l] = LineOf(h, l)
      BY <1>14
    <2> QED  BY <2>1, <1>10, <1>13 DEF MemoryHolds, e, h
  <1>16. ASSUME ln * LineWords + LineWords >= x
         PROVE  MemoryHolds(M2, Tail(sm), 0, d)
    <2>1. ASSUME NEW l \in 0 .. NumOfWords(x) - 1
          PROVE  M2[e][l] = LineOf(h, l)
      <3>1. l \in Nat /\ l < NumOfWords(x)
        BY <1>7
      <3>2. ~(ln + 1 < NumOfWords(x))
        <4>1. (ln + 1) * LineWords = ln * LineWords + LineWords /\ ln + 1 \in Nat /\ ln * LineWords \in Nat
          BY NextLine
        <4>2. x \in Nat
          BY <1>x
        <4>3. ~((ln + 1) * LineWords < x)
          BY <4>2, <1>16, LineReaches
        <4> QED  BY <4>1, <4>3, <1>7
      <3>3. l \in 0 .. ln
        BY <3>1, <3>2, <1>7
      <3> QED  BY <3>3, <1>14
    <2>2. ASSUME NEW b \in 1 .. d, ops[b].op = "SET", b \notin Members(Tail(sm)), NEW l \in 0 .. NumOfWords(ops[b].words) - 1
          PROVE  \E m \in SetsOf(ops[b].addr) : m >= b /\ M2[ops[b].addr][l] = LineOf(m, l)
      <3>1. CASE b = h
        <4>1. l \in 0 .. NumOfWords(x) - 1 /\ ops[b].addr = e
          BY <3>1, <2>2 DEF x, e
        <4>2. M2[e][l] = LineOf(h, l) /\ h >= b
          <5>1. M2[e][l] = LineOf(h, l)
            BY <4>1, <2>1
          <5>2. h >= h
            BY <1>1
          <5> QED  BY <5>1, <5>2, <3>1
        <4> QED  BY <4>1, <4>2, <1>6
      <3>2. CASE b # h
        BY <3>2, <2>2, <1>5, <1>13
      <3> QED  BY <3>1, <3>2
    <2> QED  BY <2>2, <1>10 DEF MemoryHolds
  <1> QED  BY <1>15, <1>16 DEF x, h

-----------------------------------------------------------------------------
(* The GETs between demux and remux.                                       *)

LEMMA GetsGrowGet ==
  ASSUME NEW gs, NEW a \in Nat, NEW e \in Nat, a <= e, GetsBetween(gs, a, e), ops[e + 1].op = "GET"
  PROVE  GetsBetween(Append(gs, e + 1), a, e + 1)
  <1> DEFINE n == e + 1
             t == Append(gs, n)
             k == Len(gs)
  <1>1. /\ gs \in Seq(Nat)
        /\ \A j \in 1 .. k : gs[j] \in a + 1 .. e /\ ops[gs[j]].op = "GET"
        /\ Rising(gs)
        /\ \A m \in a + 1 .. e : ops[m].op = "GET" => m \in Members(gs)
    BY DEF GetsBetween
  <1>2. n \in Nat /\ t \in Seq(Nat) /\ k \in Nat /\ Len(t) = k + 1 /\ (\A i \in 1 .. k : t[i] = gs[i]) /\ t[k + 1] = n
    BY <1>1, LongerIs
  <1>3. Members(t) = Members(gs) \cup {n}
    BY <1>1, <1>2, MembersLonger
  <1>4. \A y \in Members(gs) : y < n
    <2>1. \A y \in Members(gs) : y \in a + 1 .. e
      BY <1>1 DEF Members, k
    <2>2. \A y \in a + 1 .. e : y < n
      OBVIOUS
    <2> QED  BY <2>1, <2>2
  <1>5. Rising(t)
    BY <1>1, <1>2, <1>4, RisingLonger
  <1> HIDE DEF t, k
  <1>6. ASSUME NEW j \in 1 .. k + 1
        PROVE  t[j] \in a + 1 .. n /\ ops[t[j]].op = "GET"
    <2>1. j \in 1 .. k \/ j = k + 1
      BY <1>2
    <2>2. CASE j = k + 1
      BY <2>2, <1>2
    <2>3. CASE j \in 1 .. k
      <3>1. gs[j] \in a + 1 .. e /\ ops[gs[j]].op = "GET" /\ t[j] = gs[j]
        BY <2>3, <1>1, <1>2
      <3> QED  BY <3>1
    <2> QED  BY <2>1, <2>2, <2>3
  <1>7. ASSUME NEW m \in a + 1 .. n, ops[m].op = "GET"
        PROVE  m \in Members(t)
    <2>1. m = n \/ m \in a + 1 .. e
      OBVIOUS
    <2> QED  BY <2>1, <1>1, <1>3, <1>7
  <1>8. GetsBetween(t, a, n)
    BY <1>2, <1>5, <1>6, <1>7 DEF GetsBetween
  <1> QED  BY <1>8 DEF t

LEMMA GetsGrow ==
  ASSUME NEW gs, NEW a \in Nat, NEW e \in Nat, GetsBetween(gs, a, e), ops[e + 1].op # "GET"
  PROVE  GetsBetween(gs, a, e + 1)
  <1>1. \A m \in a + 1 .. e + 1 : ops[m].op = "GET" => m \in a + 1 .. e
    OBVIOUS
  <1>2. \A m \in a + 1 .. e : m \in a + 1 .. e + 1
    OBVIOUS
  <1> QED  BY <1>1, <1>2 DEF GetsBetween

LEMMA GetsPass ==
  ASSUME NEW gs, NEW a \in Nat, NEW e \in Nat, GetsBetween(gs, a, e), ops[a + 1].op # "GET"
  PROVE  GetsBetween(gs, a + 1, e)
  <1>1. ASSUME NEW j \in 1 .. Len(gs)
        PROVE  gs[j] \in (a + 1) + 1 .. e /\ ops[gs[j]].op = "GET"
    <2>1. gs[j] \in a + 1 .. e /\ ops[gs[j]].op = "GET"
      BY DEF GetsBetween
    <2>2. gs[j] # a + 1
      BY <2>1
    <2> QED  BY <2>1, <2>2
  <1>2. \A m \in (a + 1) + 1 .. e : m \in a + 1 .. e
    OBVIOUS
  <1> QED  BY <1>1, <1>2 DEF GetsBetween

LEMMA GetsAnswered ==
  ASSUME NEW gs, NEW a \in Nat, NEW e \in Nat, a + 1 <= e, GetsBetween(gs, a, e), ops[a + 1].op = "GET"
  PROVE  gs # << >> /\ gs[1] = a + 1 /\ GetsBetween(Tail(gs), a + 1, e)
  <1> DEFINE n == a + 1
             t == Tail(gs)
             k == Len(gs)
  <1>1. /\ gs \in Seq(Nat)
        /\ \A j \in 1 .. k : gs[j] \in a + 1 .. e /\ ops[gs[j]].op = "GET"
        /\ Rising(gs)
        /\ \A m \in a + 1 .. e : ops[m].op = "GET" => m \in Members(gs)
    BY DEF GetsBetween
  <1>2. n \in a + 1 .. e
    OBVIOUS
  <1>3. n \in Members(gs)
    BY <1>1, <1>2
  <1>4. gs # << >>
    BY <1>3 DEF Members
  <1>5. /\ Members(t) = Members(gs) \ {gs[1]} /\ Rising(t) /\ gs[1] \in Members(gs)
        /\ \A x \in Members(gs) : gs[1] <= x /\ x \in Nat
    BY <1>1, <1>4, MembersRest
  <1>6. k \in Nat /\ k >= 1 /\ t \in Seq(Nat) /\ Len(t) = k - 1 /\ (\A i \in 1 .. k - 1 : t[i] = gs[i + 1])
    BY <1>1, <1>4, RestIs
  <1>7. gs[1] = n
    <2>1. gs[1] \in a + 1 .. e
      BY <1>1, <1>6
    <2>2. gs[1] <= n
      BY <1>3, <1>5
    <2> QED  BY <2>1, <2>2
  <1> HIDE DEF t, k
  <1>8. ASSUME NEW j \in 1 .. k - 1
        PROVE  t[j] \in n + 1 .. e /\ ops[t[j]].op = "GET"
    <2>1. j + 1 \in 1 .. k /\ t[j] = gs[j + 1]
      BY <1>6
    <2>2. t[j] \in a + 1 .. e /\ ops[t[j]].op = "GET"
      BY <2>1, <1>1
    <2>3. t[j] \in Members(t)
      BY <1>6 DEF Members
    <2>4. t[j] # n
      BY <2>3, <1>5, <1>7
    <2> QED  BY <2>2, <2>4
  <1>9. ASSUME NEW m \in n + 1 .. e, ops[m].op = "GET"
        PROVE  m \in Members(t)
    <2>1. m \in a + 1 .. e /\ m # n
      OBVIOUS
    <2> QED  BY <2>1, <1>1, <1>5, <1>7, <1>9
  <1>10. GetsBetween(t, n, e)
    BY <1>5, <1>6, <1>8, <1>9 DEF GetsBetween
  <1> QED  BY <1>4, <1>7, <1>10 DEF t

-----------------------------------------------------------------------------
(* The read commands and the lengths.                                      *)

LEMMA CmdsAre ==
  ASSUME OpsSound, NEW n \in 1 .. Len(ops), ops[n].op # "PASS"
  PROVE  /\ NumOfWords(ops[n].words) \in Nat /\ NumOfWords(ops[n].words) >= 1
         /\ CmdsOf(n) \in Seq(ReadCmds) /\ Len(CmdsOf(n)) = NumOfWords(ops[n].words)
         /\ \A i \in 1 .. NumOfWords(ops[n].words) : CmdsOf(n)[i].addr = ops[n].addr /\ CmdsOf(n)[i].line = i - 1
  <1> DEFINE x == ops[n].words
             e == ops[n].addr
             c == NumOfWords(x)
  <1>1. x \in Nat \ {0} /\ e \in Addresses
    BY OpIs
  <1> HIDE DEF x, e
  <1>2. c \in Nat /\ c >= 1
    BY <1>1, LinesOf
  <1> HIDE DEF c
  <1>3. \A i \in 1 .. c : i - 1 \in Nat /\ [addr |-> e, line |-> i - 1] \in ReadCmds
    BY <1>1, <1>2 DEF ReadCmds
  <1>4. [i \in 1 .. c |-> [addr |-> e, line |-> i - 1]] \in Seq(ReadCmds)
    BY <1>2, <1>3
  <1>5. Len([i \in 1 .. c |-> [addr |-> e, line |-> i - 1]]) = c
    BY <1>2
  <1> QED  BY <1>2, <1>4, <1>5 DEF CmdsOf, c, x, e

LEMMA CommandedGrow ==
  ASSUME OpsSound, NEW gs \in Seq(Nat), NEW d \in Nat, d <= Len(gs), NEW q \in Seq(ReadCmds), Commanded(gs, d, q),
         NEW n \in 1 .. Len(ops), ops[n].op = "GET"
  PROVE  Commanded(Append(gs, n), d, q \o CmdsOf(n))
  <1> DEFINE t == Append(gs, n)
             k == Len(gs)
             v == CmdsOf(n)
  <1>1. v \in Seq(ReadCmds) /\ n \in Nat
    BY CmdsAre
  <1>2. k \in Nat /\ Len(t) = k + 1 /\ (\A i \in 1 .. k : t[i] = gs[i]) /\ t[k + 1] = n
    BY <1>1, LongerIs
  <1>3. PICK fr \in Seq(Seq(ReadCmds)) :
          Len(fr) = k - d /\ (\A i \in 1 .. Len(fr) : fr[i] = CmdsOf(gs[d + i])) /\ Runs(q, 0, fr)
    BY DEF Commanded
  <1> DEFINE f == Append(fr, v)
  <1>4. f \in Seq(Seq(ReadCmds)) /\ Len(f) = (k - d) + 1 /\ (\A i \in 1 .. k - d : f[i] = fr[i]) /\ f[(k - d) + 1] = v
    <2>1. f \in Seq(Seq(ReadCmds)) /\ Len(f) = Len(fr) + 1 /\ (\A i \in 1 .. Len(fr) : f[i] = fr[i]) /\ f[Len(fr) + 1] = v
      BY <1>1, LongerIs
    <2> QED  BY <2>1, <1>3
  <1>5. Runs(q \o v, 0, f)
    BY <1>1, <1>3, RunsGrow
  <1> HIDE DEF t, k, v, f
  <1>6. ASSUME NEW i \in 1 .. (k - d) + 1
        PROVE  f[i] = CmdsOf(t[d + i])
    <2>0. k \in Nat /\ k - d \in Int
      BY <1>2
    <2>1. i \in 1 .. k - d \/ i = (k - d) + 1
      BY <2>0, LastOrBefore
    <2>2. CASE i = (k - d) + 1
      <3>1. d + i = k + 1
        BY <2>2, <1>2
      <3>2. t[d + i] = n
        BY <3>1, <1>2
      <3> QED  BY <2>2, <3>2, <1>4 DEF v
    <2>3. CASE i \in 1 .. k - d
      <3>1. d + i \in 1 .. k
        BY <2>3, <1>2
      <3>2. t[d + i] = gs[d + i] /\ fr[i] = CmdsOf(gs[d + i])
        BY <2>3, <3>1, <1>2, <1>3
      <3> QED  BY <2>3, <3>2, <1>4
    <2> QED  BY <2>1, <2>2, <2>3
  <1>7. Len(f) = Len(t) - d
    BY <1>2, <1>4
  <1>8. Commanded(t, d, q \o v)
    BY <1>4, <1>5, <1>6, <1>7 DEF Commanded
  <1> QED  BY <1>8 DEF t, v

LEMMA CommandedRest ==
  ASSUME NEW gs \in Seq(Nat), gs # << >>, NEW d \in Nat, d >= 1, d <= Len(gs), NEW q, Commanded(gs, d, q)
  PROVE  Commanded(Tail(gs), d - 1, q)
  <1> DEFINE t == Tail(gs)
             k == Len(gs)
  <1>1. k \in Nat /\ k >= 1 /\ Len(t) = k - 1 /\ (\A i \in 1 .. k - 1 : t[i] = gs[i + 1])
    BY RestIs
  <1>2. PICK fr \in Seq(Seq(ReadCmds)) :
          Len(fr) = k - d /\ (\A i \in 1 .. Len(fr) : fr[i] = CmdsOf(gs[d + i])) /\ Runs(q, 0, fr)
    BY DEF Commanded
  <1> HIDE DEF t, k
  <1>3. ASSUME NEW i \in 1 .. k - d
        PROVE  fr[i] = CmdsOf(t[(d - 1) + i])
    <2>1. (d - 1) + i \in 1 .. k - 1 /\ ((d - 1) + i) + 1 = d + i
      BY <1>1
    <2>2. t[(d - 1) + i] = gs[d + i]
      BY <2>1, <1>1
    <2> QED  BY <2>2, <1>2
  <1>4. Len(fr) = Len(t) - (d - 1)
    BY <1>1, <1>2
  <1>5. Commanded(t, d - 1, q)
    BY <1>2, <1>3, <1>4 DEF Commanded
  <1> QED  BY <1>5 DEF t

LEMMA LengthsGrow ==
  ASSUME NEW gs \in Seq(Nat), NEW c \in Nat, c <= Len(gs), NEW q \in Seq(Nat), Lengths(gs, c, q), NEW n \in Nat, ops[n].words \in Nat
  PROVE  Lengths(Append(gs, n), c, Append(q, ops[n].words))
  <1> DEFINE t == Append(gs, n)
             k == Len(gs)
             p == Append(q, ops[n].words)
  <1>1. k \in Nat /\ Len(t) = k + 1 /\ (\A i \in 1 .. k : t[i] = gs[i]) /\ t[k + 1] = n
    BY LongerIs
  <1>2. Len(q) = k - c /\ \A i \in 1 .. k - c : q[i] = ops[gs[c + i]].words
    BY DEF Lengths
  <1>3. Len(p) = (k - c) + 1 /\ (\A i \in 1 .. k - c : p[i] = q[i]) /\ p[(k - c) + 1] = ops[n].words
    BY <1>2, LongerIs
  <1> HIDE DEF t, k, p
  <1>4. ASSUME NEW i \in 1 .. (k - c) + 1
        PROVE  p[i] = ops[t[c + i]].words
    <2>0. k \in Nat /\ k - c \in Int
      BY <1>1
    <2>1. i \in 1 .. k - c \/ i = (k - c) + 1
      BY <2>0, LastOrBefore
    <2>2. CASE i = (k - c) + 1
      <3>1. c + i = k + 1
        BY <2>2, <1>1
      <3> QED  BY <2>2, <3>1, <1>1, <1>3
    <2>3. CASE i \in 1 .. k - c
      <3>1. c + i \in 1 .. k
        BY <2>3, <1>1
      <3>2. t[c + i] = gs[c + i] /\ p[i] = q[i]
        BY <2>3, <3>1, <1>1, <1>3
      <3> QED  BY <2>3, <3>2, <1>2
    <2> QED  BY <2>1, <2>2, <2>3
  <1>5. Len(t) - c = (k - c) + 1
    BY <1>1
  <1>6. Lengths(t, c, p)
    BY <1>3, <1>4, <1>5 DEF Lengths
  <1> QED  BY <1>6 DEF t, p

LEMMA LengthsRest ==
  ASSUME NEW gs \in Seq(Nat), gs # << >>, NEW c \in Nat, c >= 1, c <= Len(gs), NEW q, Lengths(gs, c, q)
  PROVE  Lengths(Tail(gs), c - 1, q)
  <1> DEFINE t == Tail(gs)
             k == Len(gs)
  <1>1. k \in Nat /\ k >= 1 /\ Len(t) = k - 1 /\ (\A i \in 1 .. k - 1 : t[i] = gs[i + 1])
    BY RestIs
  <1>2. Len(q) = k - c /\ \A i \in 1 .. k - c : q[i] = ops[gs[c + i]].words
    BY DEF Lengths
  <1> HIDE DEF t, k
  <1>3. ASSUME NEW i \in 1 .. k - c
        PROVE  q[i] = ops[t[(c - 1) + i]].words
    <2>1. (c - 1) + i \in 1 .. k - 1 /\ ((c - 1) + i) + 1 = c + i
      BY <1>1
    <2>2. t[(c - 1) + i] = gs[c + i]
      BY <2>1, <1>1
    <2> QED  BY <2>2, <1>2
  <1>4. Len(t) - (c - 1) = k - c
    BY <1>1
  <1>5. Lengths(t, c - 1, q)
    BY <1>2, <1>3, <1>4 DEF Lengths
  <1> QED  BY <1>5 DEF t

LEMMA LengthsTake ==
  ASSUME NEW gs \in Seq(Nat), NEW c \in Nat, NEW q \in Seq(Nat), q # << >>, Lengths(gs, c, q)
  PROVE  c + 1 <= Len(gs) /\ Head(q) = ops[gs[c + 1]].words /\ Lengths(gs, c + 1, Tail(q))
  <1> DEFINE k == Len(gs)
             p == Tail(q)
  <1>1. Len(q) = k - c /\ \A i \in 1 .. k - c : q[i] = ops[gs[c + i]].words
    BY DEF Lengths
  <1>2. Head(q) = q[1] /\ k - c \in Nat /\ k - c >= 1 /\ Len(p) = (k - c) - 1 /\ (\A i \in 1 .. (k - c) - 1 : p[i] = q[i + 1]) /\ k \in Nat
    BY <1>1, RestIs
  <1> HIDE DEF k, p
  <1>3. ASSUME NEW i \in 1 .. k - (c + 1)
        PROVE  p[i] = ops[gs[(c + 1) + i]].words
    <2>1. i \in 1 .. (k - c) - 1 /\ i + 1 \in 1 .. k - c /\ c + (i + 1) = (c + 1) + i
      BY <1>2
    <2>2. p[i] = q[i + 1] /\ q[i + 1] = ops[gs[c + (i + 1)]].words
      BY <2>1, <1>1, <1>2
    <2> QED  BY <2>1, <2>2
  <1>4. c + 1 <= k /\ Len(p) = k - (c + 1) /\ 1 \in 1 .. k - c
    BY <1>2
  <1> QED  BY <1>1, <1>2, <1>3, <1>4 DEF Lengths, k, p

-----------------------------------------------------------------------------
(* What the memory puts out.                                               *)

\* A line of the memory, read for a GET that demux has passed on, is fresh: the SETs before it
\* are written.
LEMMA ReadFresh ==
  ASSUME OpsSound, NEW M, NEW sm, NEW ln, NEW e \in Nat, e <= Len(ops), MemoryHolds(M, sm, ln, e),
         NEW F, NEW a \in Nat, SetsInTurn(F, sm, a, e), NEW n \in a + 1 .. e, ops[n].op = "GET",
         NEW bl, bl = [i \in 1 .. NumOfWords(ops[n].words) |-> M[ops[n].addr][i - 1]]
  PROVE  FreshLines(n, bl)
  <1> DEFINE x == ops[n].words
             g == ops[n].addr
             c == NumOfWords(x)
  <1>1. n \in 1 .. Len(ops) /\ n \in Nat
    BY DEF OpsSound
  <1>2. x \in Nat /\ x >= 2 /\ x <= MaxWords /\ MaxWords \in Nat /\ g \in Addresses
    BY <1>1, OpIs
  <1>3. PICK b \in 1 .. Len(ops) : PriorSet(n, b) /\ ops[b].words = x
    BY <1>1 DEF OpsSound
  <1>4. b \in SetsOf(g) /\ b < n /\ \A m \in SetsOf(g) : m < n => m <= b
    BY <1>3 DEF PriorSet
  <1>5. ops[b].op = "SET" /\ ops[b].addr = g /\ b \in Nat
    BY <1>4, SetsAre
  <1>6. b \notin Members(sm)
    BY <1>4 DEF SetsInTurn
  <1>7. b \in 1 .. e
    BY <1>1, <1>3, <1>4
  <1>8. \A l \in 0 .. c - 1 : \E m \in SetsOf(g) : m >= b /\ M[g][l] = LineOf(m, l)
    BY <1>3, <1>5, <1>6, <1>7 DEF MemoryHolds
  <1>9. x \in Nat \ {0} /\ MaxWords \in Nat \ {0}
    BY <1>2
  <1>10. c \in Nat /\ c <= NumOfWords(MaxWords) /\ NumOfWords(MaxWords) \in Nat
    BY <1>2, <1>9, LinesOf, LinesGrow
  <1>11. M \in [Addresses -> [Slots -> MemLines]]
    BY DEF MemoryHolds
  <1>12. bl = [i \in 1 .. c |-> M[g][i - 1]]
    OBVIOUS
  <1> HIDE DEF x, g, c
  <1>13. \A i \in 1 .. c : i - 1 \in Slots /\ i - 1 \in 0 .. c - 1
    BY <1>10 DEF Slots
  <1>14. \A i \in 1 .. c : M[g][i - 1] \in MemLines
    BY <1>2, <1>11, <1>13
  <1>15. bl \in Seq(MemLines) /\ Len(bl) = c /\ \A i \in 1 .. c : bl[i] = M[g][i - 1]
    <2>1. [i \in 1 .. c |-> M[g][i - 1]] \in Seq(MemLines)
      BY <1>10, <1>14
    <2>2. Len([i \in 1 .. c |-> M[g][i - 1]]) = c
      BY <1>10
    <2> QED  BY <2>1, <2>2, <1>12
  <1>16. ASSUME NEW l \in 1 .. c, NEW w \in 1 .. LineWords, (l - 1) * LineWords + w <= x
         PROVE  FreshWord(n, (l - 1) * LineWords + w, bl[l][w])
    <2>1. PICK m \in SetsOf(g) : m >= b /\ M[g][l - 1] = LineOf(m, l - 1)
      BY <1>8, <1>13
    <2> DEFINE i == (l - 1) * LineWords + w
    <2>2. m \in 1 .. Len(ops) /\ m \in Nat /\ ops[m].op = "SET" /\ ops[m].words \in Nat
      <3>1. m \in 1 .. Len(ops) /\ ops[m].op = "SET"
        BY SetsAre
      <3> QED  BY <3>1, OpIs
    <2>3. i \in Nat
      <3>1. l - 1 \in Nat
        BY <1>10
      <3>2. (l - 1) * LineWords \in Nat
        BY <3>1, NextLine
      <3> QED  BY <3>2
    <2>4. bl[l][w] = IF i <= ops[m].words THEN <<m, i>> ELSE PadWord(m, i)
      <3>1. bl[l][w] = LineOf(m, l - 1)[w]
        BY <2>1, <1>15
      <3>2. bl[l][w] = IF i <= ops[m].words THEN <<m, i>> ELSE IF l - 1 = 0 THEN NoWord ELSE <<m, ((l - 1) - 1) * LineWords + w>>
        BY <3>1 DEF LineOf
      <3>3. CASE l - 1 = 0
        <4>1. i <= LineWords
          BY <3>3, StoreAssumption
        <4> QED  BY <3>2, <3>3, <4>1 DEF PadWord
      <3>4. CASE l - 1 # 0
        <4>1. PICK j \in Nat : j = (l - 1) - 1 /\ l - 1 = j + 1
          BY <3>4, <1>10
        <4>2. (j + 1) * LineWords = j * LineWords + LineWords /\ j * LineWords \in Nat /\ LineWords \in Nat
          BY <4>1, NextLine, StoreAssumption
        <4>3. i = j * LineWords + LineWords + w
          BY <4>1, <4>2
        <4>4. ~(i <= LineWords) /\ i - LineWords = j * LineWords + w
          BY <4>2, <4>3
        <4> QED  BY <3>2, <3>4, <4>1, <4>4 DEF PadWord
      <3> QED  BY <3>3, <3>4
    <2> HIDE DEF i
    <2>5. Fresh(n, b, i, bl[l][w])
      <3>1. CASE i <= ops[m].words
        <4>1. bl[l][w] = <<m, i>>
          BY <3>1, <2>4
        <4>2. bl[l][w][1] = m /\ bl[l][w][2] = i
          <5>1. <<m, i>>[1] = m /\ <<m, i>>[2] = i
            OBVIOUS
          <5> QED  BY <4>1, <5>1
        <4> QED  BY <4>2, <2>1 DEF Fresh, g
      <3>2. CASE ~(i <= ops[m].words)
        <4>1. bl[l][w] = PadWord(m, i) /\ ops[m].words < i
          BY <3>2, <2>2, <2>3, <2>4
        <4>2. m # b
          BY <4>1, <2>2, <2>3, <1>3, <1>16, <1>2 DEF i
        <4>3. m # n
          BY <2>2
        <4>4. ~(m < n)
          BY <4>2, <2>1, <2>2, <1>4, <1>5
        <4>5. m > n
          BY <4>3, <4>4, <2>2, <1>1
        <4> QED  BY <4>1, <4>5 DEF Fresh, g
      <3> QED  BY <3>1, <3>2
    <2>6. FreshWord(n, i, bl[l][w])
      BY <2>5, <1>1, <1>3, FreshIs
    <2> QED  BY <2>6 DEF i
  <1> QED  BY <1>15, <1>16 DEF FreshLines, c, x

\* The memory answers the first command, all lines of a value at once.
FirstValue(q) == CHOOSE i \in 1 .. Len(q) : (i = Len(q) \/ q[i + 1].line = 0) /\ \A j \in 2 .. i : q[j].line # 0
CmdsTaken(gs, d, q, k) ==
  /\ d + 1 <= Len(gs) /\ k = NumOfWords(ops[gs[d + 1]].words) /\ k \in Nat
  /\ \A i \in 1 .. k : q[i].addr = ops[gs[d + 1]].addr /\ q[i].line = i - 1
  /\ LastPart(q, k) \in Seq(ReadCmds) /\ Commanded(gs, d + 1, LastPart(q, k))

LEMMA CommandedRead ==
  ASSUME OpsSound, NEW gs \in Seq(Nat), NEW d \in Nat, d <= Len(gs), NEW q \in Seq(ReadCmds), q # << >>, Commanded(gs, d, q),
         \A j \in 1 .. Len(gs) : gs[j] \in 1 .. Len(ops) /\ ops[gs[j]].op = "GET",
         NEW k, k = FirstValue(q)
  PROVE  CmdsTaken(gs, d, q, k)
  <1> DEFINE z == Len(gs)
  <1>1. PICK fr \in Seq(Seq(ReadCmds)) :
          Len(fr) = z - d /\ (\A i \in 1 .. Len(fr) : fr[i] = CmdsOf(gs[d + i])) /\ Runs(q, 0, fr)
    BY DEF Commanded
  <1>2. z \in Nat /\ Len(q) \in Nat /\ Len(q) >= 1
    BY RestIs
  <1>3. fr # << >>
    <2> SUFFICES ASSUME fr = << >>
                 PROVE  FALSE
      OBVIOUS
    <2>1. Len(fr) = 0
      OBVIOUS
    <2> QED  BY <2>1, <1>1, RunsNone
  <1>4. Len(fr) \in Nat /\ Len(fr) >= 1 /\ Len(Tail(fr)) = Len(fr) - 1 /\ (\A i \in 1 .. Len(fr) - 1 : Tail(fr)[i] = fr[i + 1])
        /\ Tail(fr) \in Seq(Seq(ReadCmds))
    BY <1>3, RestIs
  <1> DEFINE n == gs[d + 1]
             c == NumOfWords(ops[n].words)
  <1>5. d + 1 \in 1 .. z /\ n \in 1 .. Len(ops) /\ ops[n].op = "GET"
    <2>1. d + 1 \in 1 .. z
      BY <1>1, <1>2, <1>4
    <2> QED  BY <2>1
  <1>6. fr[1] = CmdsOf(n)
    BY <1>1, <1>4
  <1>7. /\ c \in Nat /\ c >= 1 /\ Len(fr[1]) = c
        /\ \A i \in 1 .. c : fr[1][i].addr = ops[n].addr /\ fr[1][i].line = i - 1
    <2>1. /\ c \in Nat /\ c >= 1 /\ Len(CmdsOf(n)) = c
          /\ \A i \in 1 .. c : CmdsOf(n)[i].addr = ops[n].addr /\ CmdsOf(n)[i].line = i - 1
      <3> HIDE DEF n
      <3> QED  BY ONLY <1>5, CmdsAre, OpsSound
    <2> HIDE DEF n, c
    <2> QED  BY ONLY <2>1, <1>6
  <1> HIDE DEF z, n, c
  <1> DEFINE T == SubSeq(q, c + 1, Len(q))
  <1>8. /\ c <= Len(q) /\ (\A i \in 1 .. c : q[i] = fr[1][i]) /\ (Len(fr) = 1 => Len(q) = c)
        /\ T \in Seq(ReadCmds) /\ Len(T) = Len(q) - c /\ Runs(T, c, fr)
    <2>1. c <= Len(fr[1]) /\ c \in Nat
      BY <1>7
    <2>3. Runs(q, 0, fr)
      BY <1>1
    <2>2. /\ Len(fr[1]) <= Len(q) /\ (\A i \in 1 .. Len(fr[1]) : q[i] = fr[1][i])
          /\ (Len(fr) = 1 => Len(q) = Len(fr[1]))
          /\ T \in Seq(ReadCmds) /\ Len(T) = Len(q) - c /\ Runs(T, c, fr)
      BY <2>1, <2>3, <1>3, RunsFirst
    <2> HIDE DEF T
    <2> QED  BY <2>2, <1>7
  <1>9. Runs(T, 0, Tail(fr))
    BY <1>3, <1>7, <1>8, RunsNext
  <1>10. \A i \in 1 .. c : q[i].addr = ops[n].addr /\ q[i].line = i - 1
    BY <1>7, <1>8
  <1>11. c = Len(q) \/ q[c + 1].line = 0
    <2> SUFFICES ASSUME c # Len(q)
                 PROVE  q[c + 1].line = 0
      OBVIOUS
    <2>1. Len(fr) >= 2
      BY <1>4, <1>8
    <2> DEFINE g == Tail(fr)
               m == gs[d + 2]
    <2>g. Len(g) = Len(fr) - 1 /\ (\A i \in 1 .. Len(fr) - 1 : g[i] = fr[i + 1]) /\ g \in Seq(Seq(ReadCmds)) /\ Runs(T, 0, g)
      BY <1>4, <1>9
    <2> HIDE DEF g
    <2>2. g # << >> /\ g[1] = CmdsOf(m)
      <3>1. 1 \in 1 .. Len(fr) - 1 /\ 2 \in 1 .. Len(fr) /\ Len(g) # 0 /\ 1 + 1 = 2
        <4>1. PICK L \in Nat : L = Len(fr)
          BY <1>4
        <4>2. L >= 2 /\ Len(g) = L - 1
          BY <4>1, <2>1, <2>g
        <4>3. 1 \in 1 .. L - 1 /\ 2 \in 1 .. L /\ L - 1 # 0
          BY <4>2
        <4> QED  BY <4>1, <4>2, <4>3
      <3>2. g[1] = fr[2]
        BY <3>1, <2>g
      <3>3. fr[2] = CmdsOf(m)
        BY <3>1, <1>1
      <3> QED  BY <3>1, <3>2, <3>3
    <2>3. m \in 1 .. Len(ops) /\ ops[m].op = "GET"
      <3>1. d + 2 \in 1 .. z
        BY <2>1, <1>1, <1>2
      <3> QED  BY <3>1 DEF z
    <2>4. Len(g[1]) \in Nat /\ Len(g[1]) >= 1 /\ g[1][1].line = 0
      <3> DEFINE y == NumOfWords(ops[m].words)
      <3>1. y \in Nat /\ y >= 1 /\ Len(CmdsOf(m)) = y /\ \A i \in 1 .. y : CmdsOf(m)[i].line = i - 1
        BY <2>3, CmdsAre
      <3> HIDE DEF y
      <3>2. 1 \in 1 .. y /\ 1 - 1 = 0
        BY <3>1
      <3> QED  BY <3>1, <3>2, <2>2
    <2>5. T[1] = g[1][1]
      <3> HIDE DEF T
      <3>1. 0 \in Nat /\ 0 <= Len(g[1]) /\ 1 \in 1 .. Len(g[1])
        BY <2>4
      <3>2. \A i \in 1 .. Len(g[1]) : T[i] = g[1][i]
        <4>1. T \in Seq(ReadCmds) /\ g \in Seq(Seq(ReadCmds)) /\ Runs(T, 0, g) /\ g # << >>
          BY <2>2, <2>g, <1>8
        <4> QED  BY <3>1, <4>1, RunsFirst
      <3> QED  BY <3>1, <3>2
    <2>6. T[1] = q[c + 1]
      <3>1. \A i \in c + 1 .. Len(q) : q[i] \in ReadCmds
        BY <1>7, ElementOfSeq
      <3>2. \A i \in 1 .. Len(q) - (c + 1) + 1 : T[i] = q[(c + 1) + i - 1]
        BY <3>1, <1>2, <1>7, SubSeqProperties
      <3>3. 1 \in 1 .. Len(q) - (c + 1) + 1 /\ (c + 1) + 1 - 1 = c + 1
        BY <1>2, <1>7, <1>8
      <3> QED  BY <3>2, <3>3
    <2> QED  BY <2>4, <2>5, <2>6
  <1>12. ASSUME NEW j \in 2 .. c
         PROVE  q[j].line # 0
    <2>1. j \in 1 .. c /\ j - 1 # 0
      BY <1>7
    <2>2. q[j].line = j - 1
      BY <2>1, <1>10
    <2> QED  BY <2>1, <2>2
  <1>13. c \in 1 .. Len(q)
    BY <1>2, <1>7, <1>8
  <1>14. ASSUME NEW i \in 1 .. Len(q), i = Len(q) \/ q[i + 1].line = 0, \A j \in 2 .. i : q[j].line # 0
         PROVE  i = c
    <2>1. CASE i < c
      <3>1. i # Len(q) /\ i + 1 \in 1 .. c
        BY <2>1, <1>2, <1>7, <1>8
      <3>2. q[i + 1].line = (i + 1) - 1
        BY <3>1, <1>10
      <3> QED  BY <3>1, <3>2, <1>14
    <2>2. CASE c < i
      <3>1. c # Len(q) /\ c + 1 \in 2 .. i
        BY <2>2, <1>2, <1>7
      <3> QED  BY <3>1, <1>11, <1>14
    <2> QED  BY <2>1, <2>2, <1>7
  <1>15. k = c
    <2>1. k \in 1 .. Len(q) /\ (k = Len(q) \/ q[k + 1].line = 0) /\ \A j \in 2 .. k : q[j].line # 0
      BY <1>11, <1>12, <1>13 DEF FirstValue
    <2> QED  BY <2>1, <1>14
  <1>16. ASSUME NEW i \in 1 .. Len(Tail(fr))
         PROVE  Tail(fr)[i] = CmdsOf(gs[(d + 1) + i])
    <2>1. i \in 1 .. Len(fr) - 1 /\ i + 1 \in 1 .. Len(fr) /\ d + (i + 1) = (d + 1) + i
      BY <1>4
    <2>2. Tail(fr)[i] = fr[i + 1] /\ fr[i + 1] = CmdsOf(gs[d + (i + 1)])
      BY <2>1, <1>1, <1>4
    <2> QED  BY <2>1, <2>2
  <1>17. Len(Tail(fr)) = z - (d + 1)
    BY <1>1, <1>2, <1>4
  <1>18. Commanded(gs, d + 1, T)
    BY <1>4, <1>9, <1>16, <1>17 DEF Commanded, z
  <1>19. d + 1 <= z
    BY <1>5, <1>2
  <1> QED  BY <1>7, <1>8, <1>10, <1>15, <1>18, <1>19 DEF c, n, z, CmdsTaken, LastPart

\* The lines read belong to the first d GETs only.
LEMMA ReadOutSame ==
  ASSUME NEW gs, NEW g2, NEW c \in Nat, NEW d \in Nat, NEW b \in {0, 1}, b <= c, c <= d, NEW s, NEW q, NEW line,
         ReadOut(gs, c, d, b, s, q, line), \A i \in 1 .. d : g2[i] = gs[i]
  PROVE  ReadOut(g2, c, d, b, s, q, line)
  <1>1. PICK fr \in Seq(Seq(MemLines)) :
          /\ Len(fr) = d - c + b /\ \A i \in 1 .. Len(fr) : FreshLines(gs[c - b + i], fr[i])
          /\ Runs(q, s, fr)
          /\ b = 1 => s >= 1 /\ s <= Len(fr[1]) /\ line = fr[1][s]
          /\ b = 0 => s = 0
    BY DEF ReadOut
  <1>2. ASSUME NEW i \in 1 .. Len(fr)
        PROVE  FreshLines(g2[c - b + i], fr[i])
    <2>1. c - b + i \in 1 .. d
      BY <1>1
    <2>2. g2[c - b + i] = gs[c - b + i]
      BY <2>1
    <2> QED  BY <2>2, <1>1
  <1> QED  BY <1>1, <1>2 DEF ReadOut

LEMMA ReadOutRest ==
  ASSUME NEW gs \in Seq(Nat), gs # << >>, NEW c \in Nat, NEW d \in Nat, NEW b \in {0, 1}, b + 1 <= c, c <= d, d <= Len(gs),
         NEW s, NEW q, NEW line, ReadOut(gs, c, d, b, s, q, line)
  PROVE  ReadOut(Tail(gs), c - 1, d - 1, b, s, q, line)
  <1> DEFINE t == Tail(gs)
             k == Len(gs)
  <1>0. k \in Nat /\ k >= 1 /\ (\A i \in 1 .. k - 1 : t[i] = gs[i + 1])
    BY RestIs
  <1> HIDE DEF t, k
  <1>1. PICK fr \in Seq(Seq(MemLines)) :
          /\ Len(fr) = d - c + b /\ \A i \in 1 .. Len(fr) : FreshLines(gs[c - b + i], fr[i])
          /\ Runs(q, s, fr)
          /\ b = 1 => s >= 1 /\ s <= Len(fr[1]) /\ line = fr[1][s]
          /\ b = 0 => s = 0
    BY DEF ReadOut
  <1>2. ASSUME NEW i \in 1 .. Len(fr)
        PROVE  FreshLines(t[(c - 1) - b + i], fr[i])
    <2>1. (c - 1) - b + i \in 1 .. k - 1 /\ ((c - 1) - b + i) + 1 = c - b + i
      BY <1>0, <1>1 DEF k
    <2>2. t[(c - 1) - b + i] = gs[c - b + i]
      BY <2>1, <1>0
    <2> QED  BY <2>2, <1>1
  <1>3. Len(fr) = (d - 1) - (c - 1) + b
    BY <1>1
  <1>4. ReadOut(t, c - 1, d - 1, b, s, q, line)
    BY <1>1, <1>2, <1>3 DEF ReadOut
  <1> QED  BY <1>4 DEF t

\* The memory answers for one more GET.
LEMMA ReadOutGrow ==
  ASSUME NEW gs, NEW c \in Nat, NEW d \in Nat, NEW b \in {0, 1}, b <= c, c <= d, NEW s \in Nat, NEW q \in Seq(MemLines), NEW line,
         ReadOut(gs, c, d, b, s, q, line), NEW bl \in Seq(MemLines), FreshLines(gs[d + 1], bl)
  PROVE  ReadOut(gs, c, d + 1, b, s, q \o bl, line)
  <1>1. PICK fr \in Seq(Seq(MemLines)) :
          /\ Len(fr) = d - c + b /\ \A i \in 1 .. Len(fr) : FreshLines(gs[c - b + i], fr[i])
          /\ Runs(q, s, fr)
          /\ b = 1 => s >= 1 /\ s <= Len(fr[1]) /\ line = fr[1][s]
          /\ b = 0 => s = 0
    BY DEF ReadOut
  <1> DEFINE f == Append(fr, bl)
             k == Len(fr)
  <1>2. f \in Seq(Seq(MemLines)) /\ k \in Nat /\ Len(f) = k + 1 /\ (\A i \in 1 .. k : f[i] = fr[i]) /\ f[k + 1] = bl
    BY LongerIs
  <1>3. Runs(q, s, fr)
    BY <1>1
  <1>4. Runs(q \o bl, s, f)
    BY <1>3, RunsGrow
  <1> HIDE DEF f, k
  <1>5. k = d - c + b /\ Len(f) = (d + 1) - c + b
    BY <1>1, <1>2 DEF k
  <1>6. ASSUME NEW i \in 1 .. k + 1
        PROVE  FreshLines(gs[c - b + i], f[i])
    <2>1. i \in 1 .. k \/ i = k + 1
      BY <1>2
    <2>2. CASE i = k + 1
      <3>1. c - b + i = d + 1
        BY <2>2, <1>5
      <3> QED  BY <2>2, <3>1, <1>2
    <2>3. CASE i \in 1 .. k
      <3>1. f[i] = fr[i] /\ FreshLines(gs[c - b + i], fr[i])
        BY <2>3, <1>1, <1>2 DEF k
      <3> QED  BY <3>1
    <2> QED  BY <2>1, <2>2, <2>3
  <1>7. b = 1 => f[1] = fr[1]
    <2> SUFFICES ASSUME b = 1
                 PROVE  f[1] = fr[1]
      OBVIOUS
    <2>1. 1 \in 1 .. k
      BY <1>2, <1>5
    <2> QED  BY <2>1, <1>2
  <1>8. \A i \in 1 .. Len(f) : FreshLines(gs[c - b + i], f[i])
    BY <1>2, <1>6
  <1> HIDE DEF ReadOut
  <1>9. b = 1 => s >= 1 /\ s <= Len(f[1]) /\ line = f[1][s]
    BY <1>1, <1>7
  <1>10. b = 0 => s = 0
    BY <1>1
  <1> QED  BY <1>2, <1>4, <1>5, <1>8, <1>9, <1>10 DEF ReadOut

\* receive takes the first line of the next value.
LEMMA ReadOutBegin ==
  ASSUME OpsSound, NEW gs, NEW c \in Nat, NEW d \in Nat, c <= d, NEW s \in Nat, NEW q \in Seq(MemLines), q # << >>, NEW line,
         ReadOut(gs, c, d, 0, s, q, line), c < d => gs[c + 1] \in 1 .. Len(ops) /\ ops[gs[c + 1]].op = "GET"
  PROVE  /\ c < d /\ Head(q) \in MemLines
         /\ FreshWord(gs[c + 1], 1, Head(q)[1])
         /\ ReadOut(gs, c + 1, d, 1, 1, Tail(q), Head(q))
  <1>1. PICK fr \in Seq(Seq(MemLines)) :
          /\ Len(fr) = d - c + 0 /\ \A i \in 1 .. Len(fr) : FreshLines(gs[c - 0 + i], fr[i])
          /\ Runs(q, s, fr) /\ s = 0
    BY DEF ReadOut
  <1>2. Runs(q, 0, fr) /\ Len(fr) = d - c /\ Len(fr) \in Nat
    BY <1>1
  <1>3. fr # << >>
    <2> SUFFICES ASSUME fr = << >>
                 PROVE  FALSE
      OBVIOUS
    <2>1. Len(fr) = 0 /\ 0 \in Nat
      OBVIOUS
    <2>2. q = << >>
      BY <2>1, <1>2, RunsNone
    <2> QED  BY <2>2
  <1>4. c < d /\ Len(fr) >= 1
    <2>1. Len(fr) # 0
      BY <1>3
    <2> QED  BY <2>1, <1>2
  <1> DEFINE n == gs[c + 1]
             v == fr[1]
  <1>5. FreshLines(n, v)
    <2>1. 1 \in 1 .. Len(fr) /\ c - 0 + 1 = c + 1
      BY <1>2, <1>4
    <2>2. FreshLines(gs[c - 0 + 1], fr[1])
      BY <2>1, <1>1
    <2> QED  BY <2>1, <2>2
  <1>6. ops[n].words \in Nat \ {0} /\ ops[n].words >= 2
    <2>1. n \in 1 .. Len(ops) /\ ops[n].op = "GET"
      BY <1>4
    <2> HIDE DEF n
    <2>2. ops[n].words \in 2 .. MaxWords /\ MaxWords \in Nat
      BY <2>1, OpIs
    <2> QED  BY <2>2, NotEmpty
  <1>7. v \in Seq(MemLines) /\ Len(v) \in Nat /\ Len(v) >= 1
    BY <1>5, <1>6, LinesOf DEF FreshLines
  <1> HIDE DEF n, v
  <1>8. (\A i \in 1 .. Len(v) : q[i] = v[i]) /\ Runs(SubSeq(q, 1 + 1, Len(q)), 1, fr)
    <2>1. 1 <= Len(fr[1]) /\ 1 \in Nat
      BY <1>7 DEF v
    <2> QED  BY <2>1, <1>2, <1>3, RunsFirst DEF v
  <1>9. Head(q) = q[1] /\ Head(q) \in MemLines /\ Tail(q) = SubSeq(q, 2, Len(q))
    BY RestIs, TailIsSubSeq
  <1>10. Head(q) = v[1] /\ Runs(Tail(q), 1, fr)
    <2>1. 1 + 1 = 2 /\ 1 \in 1 .. Len(v)
      BY <1>7
    <2>2. Runs(SubSeq(q, 2, Len(q)), 1, fr)
      BY <1>8
    <2> QED  BY <2>1, <2>2, <1>8, <1>9
  <1>11. FreshWord(n, 1, Head(q)[1])
    <2>1. 1 \in 1 .. Len(v) /\ 1 \in 1 .. LineWords /\ (1 - 1) * LineWords + 1 = 1 /\ 1 <= ops[n].words
      BY <1>6, <1>7, StoreAssumption
    <2>2. (1 - 1) * LineWords + 1 <= ops[n].words => FreshWord(n, (1 - 1) * LineWords + 1, v[1][1])
      BY <2>1, <1>5 DEF FreshLines
    <2> QED  BY <2>1, <2>2, <1>10
  <1>12. Len(fr) = d - (c + 1) + 1 /\ \A i \in 1 .. Len(fr) : FreshLines(gs[(c + 1) - 1 + i], fr[i])
    <2>1. Len(fr) = d - (c + 1) + 1
      BY <1>2
    <2>2. ASSUME NEW i \in 1 .. Len(fr)
          PROVE  FreshLines(gs[(c + 1) - 1 + i], fr[i])
      <3>1. (c + 1) - 1 + i = c - 0 + i
        BY <1>2
      <3>2. FreshLines(gs[c - 0 + i], fr[i])
        BY <1>1
      <3> QED  BY <3>1, <3>2
    <2> QED  BY <2>1, <2>2
  <1>13. 1 >= 1 /\ 1 <= Len(fr[1]) /\ Head(q) = fr[1][1]
    BY <1>7, <1>10 DEF v
  <1>14. ReadOut(gs, c + 1, d, 1, 1, Tail(q), Head(q))
    BY <1>10, <1>12, <1>13 DEF ReadOut
  <1> QED  BY <1>4, <1>9, <1>11, <1>14 DEF n

\* The lines of the value that receive works on.
LEMMA ReadOutFirst ==
  ASSUME NEW gs, NEW c \in Nat, NEW d \in Nat, 1 <= c, c <= d, NEW s, NEW q, NEW line, ReadOut(gs, c, d, 1, s, q, line)
  PROVE  \E fr \in Seq(Seq(MemLines)) :
           /\ fr # << >> /\ Len(fr) \in Nat /\ Len(fr) = d - c + 1 /\ \A i \in 1 .. Len(fr) : FreshLines(gs[c - 1 + i], fr[i])
           /\ FreshLines(gs[c], fr[1]) /\ Runs(q, s, fr)
           /\ s >= 1 /\ s <= Len(fr[1]) /\ line = fr[1][s]
  <1>1. PICK fr \in Seq(Seq(MemLines)) :
          /\ Len(fr) = d - c + 1 /\ \A i \in 1 .. Len(fr) : FreshLines(gs[c - 1 + i], fr[i])
          /\ Runs(q, s, fr) /\ s >= 1 /\ s <= Len(fr[1]) /\ line = fr[1][s]
    BY DEF ReadOut
  <1>2. Len(fr) \in Nat /\ Len(fr) >= 1
    BY <1>1
  <1>3. fr # << >>
    BY <1>2
  <1>4. 1 \in 1 .. Len(fr) /\ c - 1 + 1 = c
    BY <1>2
  <1>5. FreshLines(gs[c], fr[1])
    BY <1>1, <1>4
  <1> QED  BY <1>1, <1>2, <1>3, <1>5

LEMMA ReadOutWord ==
  ASSUME NEW gs, NEW c \in Nat, NEW d \in Nat, 1 <= c, c <= d, NEW s \in Nat, NEW q, NEW line, ReadOut(gs, c, d, 1, s, q, line),
         NEW counter \in 0 .. LineWords - 1, (s - 1) * LineWords + counter + 1 <= ops[gs[c]].words
  PROVE  s >= 1 /\ line[counter + 1] \in Pairs /\ FreshWord(gs[c], (s - 1) * LineWords + counter + 1, line[counter + 1])
  <1>1. PICK fr \in Seq(Seq(MemLines)) : FreshLines(gs[c], fr[1]) /\ s >= 1 /\ s <= Len(fr[1]) /\ line = fr[1][s]
    BY ReadOutFirst
  <1>2. PICK v : v = fr[1]
    OBVIOUS
  <1>3. v \in Seq(MemLines) /\ s >= 1 /\ s <= Len(v) /\ line = v[s] /\ FreshLines(gs[c], v)
    BY <1>1, <1>2 DEF FreshLines
  <1>4. Len(v) \in Nat /\ s \in 1 .. Len(v) /\ counter + 1 \in 1 .. LineWords
    BY <1>3, StoreAssumption
  <1>5. line \in MemLines
    BY <1>3, <1>4, ElementOfSeq
  <1>6. PICK x : x = (s - 1) * LineWords
    OBVIOUS
  <1>7. x \in Nat
    <2>1. s - 1 \in Nat /\ LineWords \in Nat
      BY <1>3, StoreAssumption
    <2> QED  BY <2>1, <1>6
  <1>8. x + counter + 1 = x + (counter + 1)
    BY <1>7
  <1>9. x + (counter + 1) <= ops[gs[c]].words
    BY <1>6, <1>8
  <1>10. x + (counter + 1) <= ops[gs[c]].words => FreshWord(gs[c], x + (counter + 1), v[s][counter + 1])
    BY <1>3, <1>4, <1>6 DEF FreshLines
  <1>11. FreshWord(gs[c], x + counter + 1, line[counter + 1])
    BY <1>3, <1>8, <1>9, <1>10
  <1> QED  BY <1>3, <1>4, <1>5, <1>6, <1>11 DEF MemLines

\* receive takes the next line of the value, or is done with it.
LEMMA ReadOutNext ==
  ASSUME NEW gs, NEW c \in Nat, NEW d \in Nat, 1 <= c, c <= d, NEW s \in Nat, NEW q \in Seq(MemLines), NEW line,
         ReadOut(gs, c, d, 1, s, q, line), ops[gs[c]].words \in Nat \ {0}, s * LineWords < ops[gs[c]].words
  PROVE  q # << >> /\ Head(q) \in MemLines /\ ReadOut(gs, c, d, 1, s + 1, Tail(q), Head(q))
  <1>1. PICK fr \in Seq(Seq(MemLines)) :
          /\ fr # << >> /\ Len(fr) \in Nat /\ Len(fr) = d - c + 1 /\ \A i \in 1 .. Len(fr) : FreshLines(gs[c - 1 + i], fr[i])
          /\ FreshLines(gs[c], fr[1]) /\ Runs(q, s, fr)
          /\ s >= 1 /\ s <= Len(fr[1]) /\ line = fr[1][s]
    BY ReadOutFirst
  <1>2. PICK v : v = fr[1]
    OBVIOUS
  <1>3. v \in Seq(MemLines) /\ s < Len(v) /\ Len(v) \in Nat
    BY <1>1, <1>2, LinesOf DEF FreshLines
  <1>4. Runs(q, s, fr) /\ fr # << >> /\ s + 1 <= Len(fr[1]) /\ 1 \in Nat
    BY <1>1, <1>2, <1>3
  <1>5. /\ Len(v) - s <= Len(q) /\ (\A i \in 1 .. Len(v) - s : q[i] = v[s + i])
        /\ Runs(SubSeq(q, 1 + 1, Len(q)), s + 1, fr)
    BY <1>2, <1>4, RunsTake
  <1>6. Len(q) \in Nat /\ Len(q) >= 1 /\ 1 \in 1 .. Len(v) - s
    BY <1>3, <1>5
  <1>7. q # << >>
    BY <1>6
  <1>8. Head(q) = q[1] /\ Head(q) \in MemLines /\ Tail(q) = SubSeq(q, 2, Len(q))
    BY <1>7, RestIs, TailIsSubSeq
  <1>9. Head(q) = fr[1][s + 1]
    BY <1>2, <1>5, <1>6, <1>8
  <1>10. Runs(Tail(q), s + 1, fr)
    <2>1. Runs(SubSeq(q, 2, Len(q)), s + 1, fr)
      BY <1>5
    <2> QED  BY <2>1, <1>8
  <1>11. s + 1 >= 1
    OBVIOUS
  <1>12. ReadOut(gs, c, d, 1, s + 1, Tail(q), Head(q))
    BY <1>1, <1>4, <1>9, <1>10, <1>11 DEF ReadOut
  <1> QED  BY <1>7, <1>8, <1>12

LEMMA ReadOutEnd ==
  ASSUME NEW gs, NEW c \in Nat, NEW d \in Nat, 1 <= c, c <= d, NEW s \in Nat, NEW q \in Seq(MemLines), NEW line,
         ReadOut(gs, c, d, 1, s, q, line), ops[gs[c]].words \in Nat \ {0}, s * LineWords >= ops[gs[c]].words, NEW any
  PROVE  ReadOut(gs, c, d, 0, 0, q, any)
  <1>1. PICK fr \in Seq(Seq(MemLines)) :
          /\ fr # << >> /\ Len(fr) \in Nat /\ Len(fr) = d - c + 1 /\ \A i \in 1 .. Len(fr) : FreshLines(gs[c - 1 + i], fr[i])
          /\ FreshLines(gs[c], fr[1]) /\ Runs(q, s, fr)
          /\ s >= 1 /\ s <= Len(fr[1]) /\ line = fr[1][s]
    BY ReadOutFirst
  <1>2. s = Len(fr[1])
    <2>1. Len(fr[1]) = NumOfWords(ops[gs[c]].words) /\ s <= Len(fr[1])
      BY <1>1 DEF FreshLines
    <2>2. PICK L : L = NumOfWords(ops[gs[c]].words)
      OBVIOUS
    <2>3. PICK x : x = s * LineWords
      OBVIOUS
    <2>4. x \in Nat
      BY <2>3, StoreAssumption
    <2>5. ~ (x < ops[gs[c]].words)
      BY <2>3, <2>4
    <2>6. L \in Nat /\ (s < L <=> x < ops[gs[c]].words)
      BY <2>2, <2>3, LinesOf
    <2> QED  BY <2>1, <2>2, <2>5, <2>6
  <1>3. Runs(q, Len(fr[1]), fr) /\ fr # << >>
    BY <1>1, <1>2
  <1>4. Runs(q, 0, Tail(fr))
    BY <1>3, RunsNext
  <1> DEFINE t == Tail(fr)
             k == Len(fr)
  <1>5. t \in Seq(Seq(MemLines)) /\ Len(t) = k - 1 /\ (\A i \in 1 .. k - 1 : t[i] = fr[i + 1])
    BY <1>3, RestIs
  <1>6. k \in Nat /\ k = d - c + 1
    BY <1>1
  <1> HIDE DEF t, k
  <1>7. ASSUME NEW i \in 1 .. Len(t)
        PROVE  FreshLines(gs[c - 0 + i], t[i])
    <2>a. k \in Nat /\ Len(t) = k - 1
      BY <1>5, <1>6
    <2>b. i \in 1 .. k - 1 /\ i + 1 \in 1 .. k /\ c - 1 + (i + 1) = c - 0 + i
      BY <2>a
    <2>1. i \in 1 .. k - 1 /\ i + 1 \in 1 .. Len(fr) /\ c - 1 + (i + 1) = c - 0 + i
      BY <2>b DEF k
    <2>2. FreshLines(gs[c - 1 + (i + 1)], fr[i + 1])
      BY <2>1, <1>1
    <2> QED  BY <2>1, <2>2, <1>5
  <1>8. Len(t) = d - c + 0
    BY <1>5, <1>6
  <1>9. ReadOut(gs, c, d, 0, 0, q, any)
    <2>1. Runs(q, 0, t) /\ t \in Seq(Seq(MemLines))
      BY <1>4, <1>5 DEF t
    <2>2. (0 = 1) => 0 >= 1 /\ 0 <= Len(t[1]) /\ any = t[1][0]
      OBVIOUS
    <2> QED  BY <2>1, <2>2, <1>7, <1>8 DEF ReadOut
  <1> QED  BY <1>9

JoinOf(q, s, t) == q = s \o t

LEMMA JoinLonger ==
  ASSUME NEW S, NEW s \in Seq(S), NEW t \in Seq(S), NEW x \in S, NEW q, JoinOf(q, s, t)
  PROVE  JoinOf(Append(q, x), s, Append(t, x))
  <1>0. q = s \o t
    BY DEF JoinOf
  <1>1. s \o t \in Seq(S) /\ <<x>> \in Seq(S)
    OBVIOUS
  <1>2. Append(q, x) = q \o <<x>>
    BY <1>0, <1>1, AppendIsConcat
  <1>3. Append(t, x) = t \o <<x>>
    BY AppendIsConcat
  <1>4. (s \o t) \o <<x>> = s \o (t \o <<x>>)
    BY <1>1, ConcatAssociative
  <1>5. Append(q, x) = s \o Append(t, x)
    BY <1>0, <1>2, <1>3, <1>4
  <1> QED  BY <1>5 DEF JoinOf

LEMMA FirstOf ==
  ASSUME NEW S, NEW s \in Seq(S), NEW k \in Nat, k <= Len(s)
  PROVE  /\ SubSeq(s, 1, k) \in Seq(S) /\ Len(SubSeq(s, 1, k)) = k
         /\ \A i \in 1 .. k : SubSeq(s, 1, k)[i] = s[i]
  <1>1. 1 \in 1 .. Len(s) + 1 /\ k \in 1 - 1 .. Len(s)
    OBVIOUS
  <1>2. PICK r : r = SubSeq(s, 1, k)
    OBVIOUS
  <1>3. r \in Seq(S) /\ Len(r) = (IF 1 <= k THEN k - 1 + 1 ELSE 0) /\ \A i \in 1 .. k - 1 + 1 : r[i] = s[1 + i - 1]
    BY <1>1, <1>2, SubSeqProperties
  <1>4. Len(r) = k
    BY <1>3
  <1>5. ASSUME NEW i \in 1 .. k
        PROVE  r[i] = s[i]
    <2>1. i \in 1 .. k - 1 + 1 /\ 1 + i - 1 = i
      OBVIOUS
    <2> QED  BY <2>1, <1>3
  <1> QED  BY <1>2, <1>3, <1>4, <1>5

LEMMA DropOf ==
  ASSUME NEW S, NEW s \in Seq(S), NEW k \in Nat, k <= Len(s)
  PROVE  /\ SubSeq(s, k + 1, Len(s)) \in Seq(S) /\ Len(SubSeq(s, k + 1, Len(s))) = Len(s) - k
         /\ \A i \in 1 .. Len(s) - k : SubSeq(s, k + 1, Len(s))[i] = s[k + i]
  <1>0. PICK L \in Nat : L = Len(s)
    BY LenProperties
  <1>1. k + 1 \in 1 .. L + 1 /\ L \in (k + 1) - 1 .. L
    BY <1>0
  <1>2. PICK r : r = SubSeq(s, k + 1, L)
    OBVIOUS
  <1>3. r \in Seq(S) /\ Len(r) = (IF k + 1 <= L THEN L - (k + 1) + 1 ELSE 0)
        /\ \A i \in 1 .. L - (k + 1) + 1 : r[i] = s[(k + 1) + i - 1]
    BY <1>0, <1>1, <1>2, SubSeqProperties
  <1>4. Len(r) = L - k
    BY <1>0, <1>3
  <1>5. ASSUME NEW i \in 1 .. L - k
        PROVE  r[i] = s[k + i]
    <2>1. i \in 1 .. L - (k + 1) + 1 /\ (k + 1) + i - 1 = k + i
      OBVIOUS
    <2> QED  BY <2>1, <1>3
  <1> QED  BY <1>0, <1>2, <1>3, <1>4, <1>5

LEMMA DropJoin ==
  ASSUME NEW S, NEW s \in Seq(S), NEW t \in Seq(S), NEW k \in Nat, k <= Len(s)
  PROVE  /\ SubSeq(s \o t, k + 1, Len(s \o t)) = SubSeq(s, k + 1, Len(s)) \o t
         /\ SubSeq(s \o t, 1, k) = SubSeq(s, 1, k)
  <1> DEFINE q == s \o t
             x == SubSeq(q, k + 1, Len(q))
             B == SubSeq(s, k + 1, Len(s))
             y == B \o t
             a == Len(s)
             p == Len(t)
  <1>1. /\ q \in Seq(S) /\ a \in Nat /\ p \in Nat /\ Len(q) = a + p /\ (\A i \in 1 .. a : q[i] = s[i])
        /\ \A i \in 1 .. p : q[a + i] = t[i]
    BY JoinIs
  <1> HIDE DEF q
  <1>2. B \in Seq(S) /\ Len(B) = a - k /\ k <= a /\ \A i \in 1 .. a - k : B[i] = s[k + i]
    BY DropOf
  <1> HIDE DEF B
  <1>3. k <= Len(q)
    BY <1>1, <1>2
  <1>4. x \in Seq(S) /\ Len(x) = Len(q) - k /\ \A i \in 1 .. Len(q) - k : x[i] = q[k + i]
    BY <1>1, <1>3, DropOf
  <1>5. Len(x) = (a + p) - k /\ \A i \in 1 .. (a + p) - k : x[i] = q[k + i]
    BY <1>1, <1>4
  <1>6. y \in Seq(S) /\ Len(y) = Len(B) + p /\ (\A i \in 1 .. Len(B) : y[i] = B[i]) /\ \A i \in 1 .. p : y[Len(B) + i] = t[i]
    <2>1. B \in Seq(S)
      BY <1>2
    <2> QED  BY <2>1, JoinIs
  <1> HIDE DEF x, y, a, p
  <1>7. ASSUME NEW i \in 1 .. Len(x)
        PROVE  x[i] = y[i]
    <2>0. i \in 1 .. (a + p) - k /\ x[i] = q[k + i]
      BY <1>5
    <2>1. CASE i <= a - k
      <3>1. i \in 1 .. a - k /\ k + i \in 1 .. a
        BY <2>0, <2>1, <1>1, <1>2
      <3>2. q[k + i] = s[k + i] /\ B[i] = s[k + i] /\ y[i] = B[i]
        BY <3>1, <1>1, <1>2, <1>6
      <3> QED  BY <3>2, <2>0
    <2>2. CASE ~ (i <= a - k)
      <3>1. PICK j : j = i - (a - k)
        OBVIOUS
      <3>2. j \in 1 .. p /\ k + i = a + j /\ i = (a - k) + j
        <4>1. i \in Int /\ a \in Int /\ k \in Int /\ p \in Int /\ k <= a /\ i <= (a + p) - k /\ i >= 1 /\ ~ (i <= a - k)
          BY <2>0, <2>2, <1>1, <1>2
        <4> QED  BY <4>1, <3>1
      <3>3. q[a + j] = t[j] /\ y[Len(B) + j] = t[j]
        BY <3>2, <1>1, <1>6
      <3> QED  BY <3>2, <3>3, <2>0, <1>2
    <2> QED  BY <2>1, <2>2
  <1>8. Len(x) = Len(y)
    BY <1>1, <1>2, <1>5, <1>6
  <1>9. x = y
    BY <1>4, <1>6, <1>7, <1>8, SeqEqual
  <1>10. SubSeq(q, 1, k) = SubSeq(s, 1, k)
    <2>1. PICK u : u = SubSeq(q, 1, k)
      OBVIOUS
    <2>2. PICK v : v = SubSeq(s, 1, k)
      OBVIOUS
    <2>3. u \in Seq(S) /\ Len(u) = k /\ \A i \in 1 .. k : u[i] = q[i]
      BY <2>1, <1>1, <1>3, FirstOf
    <2>4. v \in Seq(S) /\ Len(v) = k /\ \A i \in 1 .. k : v[i] = s[i]
      BY <2>2, FirstOf
    <2>5. ASSUME NEW i \in 1 .. k
          PROVE  u[i] = v[i]
      <3>1. i \in 1 .. a
        BY <1>1, <1>2
      <3> QED  BY <3>1, <2>3, <2>4, <1>1
    <2>6. u = v
      BY <2>3, <2>4, <2>5, SeqEqual
    <2> QED  BY <2>1, <2>2, <2>6
  <1> QED  BY <1>9, <1>10 DEF x, y, B, q

\* PutOut of its parts.
LEMMA PutOutWhole ==
  ASSUME NEW gs, NEW c, NEW s, NEW counter, NEW left, NEW A \in Seq(Pairs), NEW fr \in Seq(Seq(Pairs)),
         Len(fr) = c - 0, \A i \in 1 .. Len(fr) : FreshPart(gs[i], fr[i]) /\ Len(fr[i]) = ops[gs[i]].words, Runs(A, 0, fr)
  PROVE  PutOut(gs, c, 0, s, A, counter, left)
  <1>0. << >> \in Seq(Pairs)
    BY EmptySeq
  <1>1. PICK e \in Seq(Pairs) : e = << >>
    BY <1>0
  <1>2. A = A \o e
    BY <1>1
  <1>3. (0 = 0 => e = << >>)
    BY <1>1
  <1>4. 0 = 1 => /\ FreshPart(gs[c], e) /\ Len(e) = (s - 1) * LineWords + counter
                 /\ left \in Nat \ {0} /\ Len(e) + left = ops[gs[c]].words
    OBVIOUS
  <1> QED  BY <1>2, <1>3, <1>4 DEF PutOut

LEMMA PutOutPart ==
  ASSUME NEW gs, NEW c, NEW s, NEW counter, NEW left, NEW A \in Seq(Pairs), NEW fr \in Seq(Seq(Pairs)), NEW part \in Seq(Pairs),
         Len(fr) = c - 1, \A i \in 1 .. Len(fr) : FreshPart(gs[i], fr[i]) /\ Len(fr[i]) = ops[gs[i]].words, Runs(A, 0, fr),
         FreshPart(gs[c], part), Len(part) = (s - 1) * LineWords + counter, left \in Nat \ {0}, Len(part) + left = ops[gs[c]].words
  PROVE  PutOut(gs, c, 1, s, A \o part, counter, left)
  <1>1. 1 = 0 => part = << >>
    OBVIOUS
  <1>2. PICK q : q = A \o part
    OBVIOUS
  <1>3. PutOut(gs, c, 1, s, q, counter, left)
    BY <1>1, <1>2 DEF PutOut
  <1> QED  BY <1>2, <1>3

\* The words that receive has put out belong to the first c GETs only.
LEMMA PutOutSame ==
  ASSUME NEW gs, NEW g2, NEW c \in Nat, NEW b \in {0, 1}, b <= c, NEW s, NEW q, NEW counter, NEW left,
         PutOut(gs, c, b, s, q, counter, left), \A i \in 1 .. c : g2[i] = gs[i]
  PROVE  PutOut(g2, c, b, s, q, counter, left)
  <1>1. PICK fr \in Seq(Seq(Pairs)), A \in Seq(Pairs), part \in Seq(Pairs) :
          /\ Len(fr) = c - b /\ \A i \in 1 .. Len(fr) : FreshPart(gs[i], fr[i]) /\ Len(fr[i]) = ops[gs[i]].words
          /\ Runs(A, 0, fr) /\ q = A \o part
          /\ b = 0 => part = << >>
          /\ b = 1 => /\ FreshPart(gs[c], part) /\ Len(part) = (s - 1) * LineWords + counter
                      /\ left \in Nat \ {0} /\ Len(part) + left = ops[gs[c]].words
    BY DEF PutOut
  <1>2. ASSUME NEW i \in 1 .. Len(fr)
        PROVE  FreshPart(g2[i], fr[i]) /\ Len(fr[i]) = ops[g2[i]].words
    <2>1. i \in 1 .. c
      BY <1>1
    <2> QED  BY <2>1, <1>1
  <1>3. b = 1 => g2[c] = gs[c]
    OBVIOUS
  <1>4. b = 1 => /\ FreshPart(g2[c], part) /\ Len(part) = (s - 1) * LineWords + counter
                 /\ left \in Nat \ {0} /\ Len(part) + left = ops[g2[c]].words
    BY <1>1, <1>3
  <1> QED  BY <1>1, <1>2, <1>4 DEF PutOut

LEMMA PartGrow ==
  ASSUME NEW n, NEW v, FreshPart(n, v), NEW word \in Pairs, FreshWord(n, Len(v) + 1, word)
  PROVE  FreshPart(n, Append(v, word)) /\ Append(v, word) \in Seq(Pairs) /\ Len(Append(v, word)) = Len(v) + 1
  <1>1. v \in Seq(Pairs) /\ \A i \in 1 .. Len(v) : FreshWord(n, i, v[i])
    BY DEF FreshPart
  <1> DEFINE t == Append(v, word)
             k == Len(v)
  <1>2. t \in Seq(Pairs) /\ k \in Nat /\ Len(t) = k + 1 /\ (\A i \in 1 .. k : t[i] = v[i]) /\ t[k + 1] = word
    BY <1>1, LongerIs
  <1>3. FreshWord(n, k + 1, word)
    OBVIOUS
  <1> HIDE DEF t
  <1>4. ASSUME NEW i \in 1 .. Len(t)
        PROVE  FreshWord(n, i, t[i])
    <2>1. i \in 1 .. k \/ i = k + 1
      BY <1>2
    <2>2. CASE i = k + 1
      BY <2>2, <1>2, <1>3
    <2>3. CASE i \in 1 .. k
      BY <2>3, <1>1, <1>2
    <2> QED  BY <2>1, <2>2, <2>3
  <1>5. FreshPart(n, t)
    BY <1>2, <1>4 DEF FreshPart
  <1> QED  BY <1>2, <1>5 DEF t

\* The first word of a value.
LEMMA PutOutBegin ==
  ASSUME NEW gs, NEW c \in Nat, NEW s, NEW q \in Seq(Pairs), NEW counter, NEW left, PutOut(gs, c, 0, s, q, counter, left),
         ops[gs[c + 1]].words \in Nat, ops[gs[c + 1]].words >= 2, NEW word \in Pairs, FreshWord(gs[c + 1], 1, word)
  PROVE  PutOut(gs, c + 1, 1, 1, Append(q, word), 1, ops[gs[c + 1]].words - 1)
  <1>1. PICK fr \in Seq(Seq(Pairs)), A \in Seq(Pairs), part \in Seq(Pairs) :
          /\ Len(fr) = c - 0 /\ \A i \in 1 .. Len(fr) : FreshPart(gs[i], fr[i]) /\ Len(fr[i]) = ops[gs[i]].words
          /\ Runs(A, 0, fr) /\ q = A \o part /\ part = << >>
    BY DEF PutOut
  <1>2. q = A
    BY <1>1
  <1>3. <<word>> \in Seq(Pairs) /\ Len(<<word>>) = 1 /\ <<word>>[1] = word /\ Append(q, word) = A \o <<word>>
    BY <1>2
  <1>4. FreshPart(gs[c + 1], <<word>>)
    BY <1>3 DEF FreshPart
  <1>5. PICK L : L = ops[gs[c + 1]].words
    OBVIOUS
  <1>6. (1 - 1) * LineWords + 1 = 1 /\ L - 1 \in Nat \ {0} /\ 1 + (L - 1) = L /\ Len(fr) = (c + 1) - 1
    BY <1>1, <1>5, StoreAssumption
  <1>7. Len(<<word>>) = (1 - 1) * LineWords + 1 /\ Len(<<word>>) + (L - 1) = ops[gs[c + 1]].words
    BY <1>3, <1>5, <1>6
  <1>8. PutOut(gs, c + 1, 1, 1, A \o <<word>>, 1, L - 1)
    <2> DEFINE part2 == <<word>>
    <2>1. part2 \in Seq(Pairs) /\ FreshPart(gs[c + 1], part2) /\ Len(part2) = (1 - 1) * LineWords + 1 /\ Len(part2) + (L - 1) = ops[gs[c + 1]].words
      BY <1>3, <1>4, <1>7
    <2> HIDE DEF part2
    <2>2. PutOut(gs, c + 1, 1, 1, A \o part2, 1, L - 1)
      BY <2>1, <1>1, <1>6, PutOutPart
    <2> QED  BY <2>2 DEF part2
  <1> QED  BY <1>3, <1>5, <1>8

\* A word that is not the last one of its value.
LEMMA PutOutWord ==
  ASSUME NEW gs, NEW c \in Nat, NEW s \in Nat, s >= 1, NEW q \in Seq(Pairs), NEW counter \in Nat, NEW left,
         PutOut(gs, c, 1, s, q, counter, left), NEW word \in Pairs, FreshWord(gs[c], (s - 1) * LineWords + counter + 1, word),
         left - 1 > 0, NEW s2, NEW k2, (s2 - 1) * LineWords + k2 = (s - 1) * LineWords + counter + 1
  PROVE  PutOut(gs, c, 1, s2, Append(q, word), k2, left - 1)
  <1>1. PICK fr \in Seq(Seq(Pairs)), A \in Seq(Pairs), part \in Seq(Pairs) :
          /\ Len(fr) = c - 1 /\ \A i \in 1 .. Len(fr) : FreshPart(gs[i], fr[i]) /\ Len(fr[i]) = ops[gs[i]].words
          /\ Runs(A, 0, fr) /\ q = A \o part
          /\ FreshPart(gs[c], part) /\ Len(part) = (s - 1) * LineWords + counter
          /\ left \in Nat \ {0} /\ Len(part) + left = ops[gs[c]].words
    BY DEF PutOut
  <1>2. FreshWord(gs[c], Len(part) + 1, word) /\ FreshPart(gs[c], part)
    BY <1>1
  <1>3. /\ FreshPart(gs[c], Append(part, word)) /\ Append(part, word) \in Seq(Pairs)
        /\ Len(Append(part, word)) = Len(part) + 1
    BY <1>2, PartGrow
  <1>4. Append(q, word) = A \o Append(part, word)
    <2>1. q = A \o part
      BY <1>1
    <2>2. JoinOf(q, A, part)
      BY <2>1 DEF JoinOf
    <2>3. JoinOf(Append(q, word), A, Append(part, word))
      BY <2>2, JoinLonger
    <2> QED  BY <2>3 DEF JoinOf
  <1>5. PICK t : t = Append(part, word)
    OBVIOUS
  <1>6. Len(part) \in Nat /\ left - 1 \in Nat \ {0}
    BY <1>1
  <1>7. Len(t) = (s2 - 1) * LineWords + k2
    BY <1>1, <1>3, <1>5
  <1>8. Len(t) + (left - 1) = ops[gs[c]].words
    <2>1. PICK j \in Nat : j = Len(part)
      BY <1>6
    <2>2. Len(t) = j + 1 /\ j + left = ops[gs[c]].words /\ left \in Nat
      BY <2>1, <1>1, <1>3, <1>5
    <2>3. (j + 1) + (left - 1) = j + left
      BY <2>2
    <2> QED  BY <2>2, <2>3
  <1>9. t \in Seq(Pairs) /\ FreshPart(gs[c], t) /\ Append(q, word) = A \o t
    BY <1>3, <1>4, <1>5
  <1>10. PutOut(gs, c, 1, s2, A \o t, k2, left - 1)
    BY <1>1, <1>6, <1>7, <1>8, <1>9, PutOutPart
  <1> QED  BY <1>9, <1>10

\* The last word of a value.
LEMMA PutOutEnd ==
  ASSUME NEW gs, NEW c \in Nat, c >= 1, NEW s \in Nat, s >= 1, NEW q \in Seq(Pairs), NEW counter \in Nat, NEW left,
         PutOut(gs, c, 1, s, q, counter, left), NEW word \in Pairs, FreshWord(gs[c], (s - 1) * LineWords + counter + 1, word),
         left - 1 = 0, NEW k2, NEW l2
  PROVE  PutOut(gs, c, 0, 0, Append(q, word), k2, l2)
  <1>1. PICK fr \in Seq(Seq(Pairs)), A \in Seq(Pairs), part \in Seq(Pairs) :
          /\ Len(fr) = c - 1 /\ \A i \in 1 .. Len(fr) : FreshPart(gs[i], fr[i]) /\ Len(fr[i]) = ops[gs[i]].words
          /\ Runs(A, 0, fr) /\ q = A \o part
          /\ FreshPart(gs[c], part) /\ Len(part) = (s - 1) * LineWords + counter
          /\ left \in Nat \ {0} /\ Len(part) + left = ops[gs[c]].words
    BY DEF PutOut
  <1>2. FreshWord(gs[c], Len(part) + 1, word) /\ FreshPart(gs[c], part)
    BY <1>1
  <1>3. /\ FreshPart(gs[c], Append(part, word)) /\ Append(part, word) \in Seq(Pairs)
        /\ Len(Append(part, word)) = Len(part) + 1
    BY <1>2, PartGrow
  <1>4. Append(q, word) = A \o Append(part, word)
    <2>1. q = A \o part
      BY <1>1
    <2>2. JoinOf(q, A, part)
      BY <2>1 DEF JoinOf
    <2>3. JoinOf(Append(q, word), A, Append(part, word))
      BY <2>2, JoinLonger
    <2> QED  BY <2>3 DEF JoinOf
  <1>5. PICK t : t = Append(part, word)
    OBVIOUS
  <1>6. t \in Seq(Pairs) /\ FreshPart(gs[c], t) /\ Append(q, word) = A \o t /\ Len(t) = ops[gs[c]].words
    <2>1. Len(part) \in Nat /\ left = 1
      BY <1>1
    <2> QED  BY <2>1, <1>1, <1>3, <1>4, <1>5
  <1>7. Runs(A, 0, fr) /\ 0 \in Nat
    BY <1>1
  <1> DEFINE f == Append(fr, t)
             k == Len(fr)
  <1>8. f \in Seq(Seq(Pairs)) /\ k \in Nat /\ Len(f) = k + 1 /\ (\A i \in 1 .. k : f[i] = fr[i]) /\ f[k + 1] = t
    BY <1>6, LongerIs
  <1>9. Runs(A \o t, 0, f)
    BY <1>6, <1>7, RunsGrow
  <1> HIDE DEF f, k
  <1>10. k = c - 1 /\ Len(f) = c - 0
    BY <1>1, <1>8 DEF k
  <1>11. ASSUME NEW i \in 1 .. Len(f)
         PROVE  FreshPart(gs[i], f[i]) /\ Len(f[i]) = ops[gs[i]].words
    <2>1. i \in 1 .. k \/ i = k + 1
      BY <1>8
    <2>2. CASE i = k + 1
      <3>1. i = c /\ f[i] = t
        BY <2>2, <1>8, <1>10
      <3> QED  BY <3>1, <1>6
    <2>3. CASE i \in 1 .. k
      <3>1. f[i] = fr[i] /\ FreshPart(gs[i], fr[i]) /\ Len(fr[i]) = ops[gs[i]].words
        BY <2>3, <1>1, <1>8 DEF k
      <3> QED  BY <3>1
    <2> QED  BY <2>1, <2>2, <2>3
  <1>12. PICK B : B = A \o t
    OBVIOUS
  <1>13. B \in Seq(Pairs) /\ Runs(B, 0, f) /\ Append(q, word) = B
    BY <1>6, <1>9, <1>12
  <1>14. PutOut(gs, c, 0, 0, B, k2, l2)
    BY <1>8, <1>10, <1>11, <1>13, PutOutWhole
  <1> QED  BY <1>13, <1>14

\* A whole value is there, if there are words enough.
LEMMA PutOutReady ==
  ASSUME NEW gs, NEW c \in Nat, NEW b \in {0, 1}, b <= c, NEW s, NEW q \in Seq(Pairs), NEW counter, NEW left,
         PutOut(gs, c, b, s, q, counter, left), ops[gs[1]].words \in Nat \ {0}, Len(q) >= ops[gs[1]].words
  PROVE  b + 1 <= c
  <1> SUFFICES ASSUME c = b
               PROVE  FALSE
    OBVIOUS
  <1>1. PICK fr \in Seq(Seq(Pairs)), A \in Seq(Pairs), part \in Seq(Pairs) :
          /\ Len(fr) = c - b /\ Runs(A, 0, fr) /\ q = A \o part
          /\ b = 0 => part = << >>
          /\ b = 1 => left \in Nat \ {0} /\ Len(part) + left = ops[gs[c]].words
    BY DEF PutOut
  <1>2. Len(fr) = 0 /\ Runs(A, 0, fr) /\ 0 \in Nat
    BY <1>1
  <1>3. A = << >>
    BY <1>2, RunsNone
  <1>4. q = part
    BY <1>1, <1>3
  <1>5. CASE b = 0
    <2>1. Len(q) = 0
      BY <1>1, <1>4, <1>5
    <2> QED  BY <2>1
  <1>6. CASE b = 1
    <2>1. c = 1 /\ Len(part) + left = ops[gs[1]].words /\ left \in Nat \ {0} /\ Len(part) \in Nat
      BY <1>1, <1>6
    <2> QED  BY <2>1, <1>4
  <1> QED  BY <1>5, <1>6

\* remux takes the first value, of k words.
PutTaken(gs, c, b, s, q, counter, left, n, k) ==
  /\ FreshPart(n, FirstPart(q, k)) /\ Len(FirstPart(q, k)) = k /\ LastPart(q, k) \in Seq(Pairs)
  /\ PutOut(Tail(gs), c - 1, b, s, LastPart(q, k), counter, left)

LEMMA PutOutTake ==
  ASSUME NEW gs \in Seq(Nat), gs # << >>, NEW c \in Nat, NEW b \in {0, 1}, b + 1 <= c, c <= Len(gs), NEW s,
         NEW q \in Seq(Pairs), NEW counter, NEW left, PutOut(gs, c, b, s, q, counter, left), NEW n, n = gs[1], NEW k \in Nat, k = ops[n].words
  PROVE  PutTaken(gs, c, b, s, q, counter, left, n, k)
  <1>1. PICK fr \in Seq(Seq(Pairs)), A \in Seq(Pairs), part \in Seq(Pairs) :
          /\ Len(fr) = c - b /\ \A i \in 1 .. Len(fr) : FreshPart(gs[i], fr[i]) /\ Len(fr[i]) = ops[gs[i]].words
          /\ Runs(A, 0, fr) /\ q = A \o part
          /\ b = 0 => part = << >>
          /\ b = 1 => /\ FreshPart(gs[c], part) /\ Len(part) = (s - 1) * LineWords + counter
                      /\ left \in Nat \ {0} /\ Len(part) + left = ops[gs[c]].words
    BY DEF PutOut
  <1>2. Len(fr) \in Nat /\ Len(fr) >= 1
    BY <1>1
  <1>3. fr # << >> /\ Runs(A, 0, fr)
    BY <1>1, <1>2
  <1>4. FreshPart(gs[1], fr[1]) /\ Len(fr[1]) = k /\ fr[1] \in Seq(Pairs)
    BY <1>1, <1>2 DEF FreshPart
  <1>5. PICK v : v = fr[1]
    OBVIOUS
  <1>6. /\ k <= Len(A) /\ (\A i \in 1 .. k : A[i] = v[i])
        /\ SubSeq(A, k + 1, Len(A)) \in Seq(Pairs) /\ Len(SubSeq(A, k + 1, Len(A))) = Len(A) - k
        /\ Runs(SubSeq(A, k + 1, Len(A)), k, fr)
    <2>1. k <= Len(fr[1]) /\ Runs(A, 0, fr) /\ fr # << >>
      BY <1>3, <1>4
    <2>2. /\ Len(fr[1]) <= Len(A) /\ (\A i \in 1 .. Len(fr[1]) : A[i] = fr[1][i])
          /\ SubSeq(A, k + 1, Len(A)) \in Seq(Pairs) /\ Len(SubSeq(A, k + 1, Len(A))) = Len(A) - k
          /\ Runs(SubSeq(A, k + 1, Len(A)), k, fr)
      <3> HIDE DEF Pairs
      <3> QED  BY ONLY <2>1, RunsFirst, A \in Seq(Pairs), fr \in Seq(Seq(Pairs)), k \in Nat
    <2> QED  BY <2>2, <1>4, <1>5
  <1>7. PICK B : B = SubSeq(A, k + 1, Len(A))
    OBVIOUS
  <1>8. Runs(B, 0, Tail(fr))
    <2>1. B \in Seq(Pairs) /\ Runs(B, Len(fr[1]), fr)
      BY <1>4, <1>6, <1>7
    <2> QED  BY <2>1, <1>3, RunsNext
  <1>9. SubSeq(q, 1, k) = v
    <2>1. k <= Len(A)
      BY <1>6
    <2>a. q = A \o part
      BY <1>1
    <2>2. SubSeq(q, 1, k) = SubSeq(A, 1, k)
      <3> HIDE DEF Pairs
      <3> QED  BY ONLY <2>1, <2>a, DropJoin, A \in Seq(Pairs), part \in Seq(Pairs), k \in Nat
    <2>3. PICK u : u = SubSeq(A, 1, k)
      OBVIOUS
    <2>4. u \in Seq(Pairs) /\ Len(u) = k /\ \A i \in 1 .. k : u[i] = A[i]
      <3> HIDE DEF Pairs
      <3> QED  BY ONLY <2>1, <2>3, FirstOf, A \in Seq(Pairs), k \in Nat
    <2>5. v \in Seq(Pairs) /\ Len(v) = k /\ \A i \in 1 .. k : u[i] = v[i]
      BY <2>4, <1>4, <1>5, <1>6
    <2>6. u = v
      BY <2>4, <2>5, SeqEqual
    <2> QED  BY <2>2, <2>3, <2>6
  <1>10. SubSeq(q, k + 1, Len(q)) = B \o part
    <2>1. k <= Len(A) /\ q = A \o part
      BY <1>1, <1>6
    <2> HIDE DEF Pairs
    <2> QED  BY ONLY <2>1, <1>7, DropJoin, A \in Seq(Pairs), part \in Seq(Pairs), k \in Nat
  <1>11. PutOut(Tail(gs), c - 1, b, s, B \o part, counter, left)
    <2> DEFINE t == Tail(gs)
               f == Tail(fr)
               K == Len(gs)
               J == Len(fr)
    <2>1. K \in Nat /\ (\A i \in 1 .. K - 1 : t[i] = gs[i + 1])
      BY RestIs
    <2>2. f \in Seq(Seq(Pairs)) /\ Len(f) = J - 1 /\ (\A i \in 1 .. J - 1 : f[i] = fr[i + 1])
      BY <1>3, RestIs
    <2>3. J \in Nat /\ J = c - b /\ c <= K
      BY <1>1, <1>2
    <2>4. Runs(B, 0, f)
      BY <1>8
    <2> HIDE DEF t, f, K, J
    <2>5. ASSUME NEW i \in 1 .. Len(f)
          PROVE  FreshPart(t[i], f[i]) /\ Len(f[i]) = ops[t[i]].words
      <3>0. Len(f) = J - 1 /\ J \in Nat /\ K \in Nat /\ J = c - b /\ c <= K
        BY <2>1, <2>2, <2>3
      <3>1. i \in 1 .. J - 1 /\ i \in 1 .. K - 1 /\ i + 1 \in 1 .. J
        BY <3>0
      <3>2. FreshPart(gs[i + 1], fr[i + 1]) /\ Len(fr[i + 1]) = ops[gs[i + 1]].words
        BY <3>1, <1>1 DEF J
      <3> QED  BY <3>1, <3>2, <2>1, <2>2
    <2>6. Len(f) = (c - 1) - b
      BY <2>2, <2>3
    <2>7. b = 1 => t[c - 1] = gs[c]
      <3> SUFFICES ASSUME b = 1
                   PROVE  t[c - 1] = gs[c]
        OBVIOUS
      <3>1. c - 1 \in 1 .. K - 1 /\ (c - 1) + 1 = c
        BY <2>1, <2>3
      <3> QED  BY <3>1, <2>1
    <2>8. b = 1 => /\ FreshPart(t[c - 1], part) /\ Len(part) = (s - 1) * LineWords + counter
                   /\ left \in Nat \ {0} /\ Len(part) + left = ops[t[c - 1]].words
      BY <1>1, <2>7
    <2>9. B \in Seq(Pairs) /\ part \in Seq(Pairs) /\ (b = 0 => part = << >>)
      BY <1>1, <1>6, <1>7
    <2>10. PutOut(t, c - 1, b, s, B \o part, counter, left)
      BY <2>2, <2>4, <2>5, <2>6, <2>8, <2>9 DEF PutOut
    <2> QED  BY <2>10 DEF t
  <1>12. B \o part \in Seq(Pairs)
    BY <1>6, <1>7
  <1> QED  BY <1>4, <1>5, <1>9, <1>10, <1>11, <1>12 DEF FirstPart, LastPart, PutTaken

-----------------------------------------------------------------------------
(* New requests change nothing for the earlier ones.                       *)

LEMMA OpsStay ==
  ASSUME OpsSound, ops' = ops
  PROVE  OpsSound' /\ OpsGrow
  <1>1. OpsGrow
    BY DEF OpsGrow, OpsSound
  <1>2. OpsSound'
    BY DEF OpsSound, PriorSet, SetsOf
  <1> QED  BY <1>1, <1>2

LEMMA SetsInTurnStays ==
  ASSUME OpsSound, OpsSound', OpsGrow, NEW F, NEW sm, NEW a \in Nat, NEW d \in Nat, d <= Len(ops), SetsInTurn(F, sm, a, d),
         \A i \in 1 .. Len(sm) : sm[i] \in 1 .. Len(ops)
  PROVE  SetsInTurn(F, sm, a, d)'
  <1>0. Len(ops) \in Nat /\ \A m \in 1 .. Len(ops) : ops'[m] = ops[m]
    BY DEF OpsGrow
  <1>1. \A i \in 1 .. Len(sm) : sm[i] \in F /\ ops'[sm[i]].op = "SET"
    BY <1>0 DEF SetsInTurn
  <1>2. sm # << >> => \A m \in 1 .. d : ops'[m].op = "SET" /\ m >= sm[1] => m \in Members(sm)
    <2>1. \A m \in 1 .. d : ops'[m] = ops[m]
      BY <1>0
    <2> QED  BY <2>1 DEF SetsInTurn
  <1>3. ASSUME NEW n \in a + 1 .. d, ops'[n].op = "GET", NEW m \in SetsOf(ops[n].addr)', m < n
        PROVE  m \notin Members(sm)
    <2>1. n \in 1 .. Len(ops) /\ n \in Nat
      BY <1>0
    <2>2. ops'[n] = ops[n]
      BY <2>1, <1>0
    <2>3. PICK e : e = ops[n].addr
      OBVIOUS
    <2>4. m \in SetsOf(e)'
      BY <2>2, <2>3, <1>3 DEF SetsOf
    <2>5. m \in 1 .. Len(ops')
      BY <2>4 DEF SetsOf, OpsSound
    <2>6. m \in 1 .. Len(ops)
      BY <2>1, <2>5, <1>0, <1>3 DEF OpsGrow
    <2>7. m \in SetsOf(e)
      BY <2>4, <2>6, SetsStay
    <2> QED  BY <2>2, <2>3, <2>7, <1>3 DEF SetsInTurn
  <1>4. Rising(sm)
    BY DEF SetsInTurn
  <1>5. \A n \in a + 1 .. d : ops'[n].op = "GET" => \A m \in SetsOf(ops[n].addr)' : m < n => m \notin Members(sm)
    BY <1>3
  <1> QED  BY <1>1, <1>2, <1>4, <1>5 DEF SetsInTurn

LEMMA WordsStay ==
  ASSUME OpsGrow, NEW sm, NEW q, NEW ln, WordsInTurn(sm, q, ln), Len(sm) \in Nat, sm = << >> \/ Len(sm) >= 1,
         \A i \in 1 .. Len(sm) : sm[i] \in 1 .. Len(ops)
  PROVE  WordsInTurn(sm, q, ln)'
  <1>0. \A m \in 1 .. Len(ops) : ops'[m] = ops[m]
    BY DEF OpsGrow
  <1>1. PICK fr \in Seq(Seq(ValueItems)) :
          Len(fr) = Len(sm) /\ (\A i \in 1 .. Len(fr) : fr[i] = ValueWords(sm[i])) /\ Runs(q, ln * LineWords, fr)
    BY DEF WordsInTurn
  <1>2. ASSUME NEW m \in 1 .. Len(ops)
        PROVE  ValueWords(m)' = ValueWords(m)
    BY <1>0 DEF ValueWords
  <1>3. \A i \in 1 .. Len(fr) : fr[i] = ValueWords(sm[i])'
    <2> SUFFICES ASSUME NEW i \in 1 .. Len(fr)
                 PROVE  fr[i] = ValueWords(sm[i])'
      OBVIOUS
    <2>1. PICK m \in 1 .. Len(ops) : m = sm[i]
      BY <1>1
    <2>2. fr[i] = ValueWords(m) /\ ValueWords(m)' = ValueWords(m)
      BY <2>1, <1>1, <1>2
    <2> QED  BY <2>1, <2>2 DEF ValueWords
  <1>4. sm # << >> => ops'[sm[1]] = ops[sm[1]]
    BY <1>0
  <1>5. ln \in Nat /\ (sm = << >> => ln = 0) /\ (sm # << >> => ln * LineWords < ops'[sm[1]].words)
    BY <1>4 DEF WordsInTurn
  <1> QED  BY <1>1, <1>3, <1>5 DEF WordsInTurn

LEMMA LineStays ==
  ASSUME OpsGrow, NEW m \in 1 .. Len(ops), NEW l
  PROVE  LineOf(m, l)' = LineOf(m, l)
  BY DEF OpsGrow, LineOf

LEMMA MemoryStays ==
  ASSUME OpsSound, OpsSound', OpsGrow, NEW M, NEW sm, NEW ln, NEW d \in Nat, d <= Len(ops), MemoryHolds(M, sm, ln, d),
         sm # << >> => sm[1] \in 1 .. Len(ops)
  PROVE  MemoryHolds(M, sm, ln, d)'
  <1>0. Len(ops) \in Nat /\ \A m \in 1 .. Len(ops) : ops'[m] = ops[m]
    BY DEF OpsGrow
  <1>1. ASSUME NEW b \in 1 .. d, ops'[b].op = "SET" /\ b \notin Members(sm), NEW l \in 0 .. NumOfWords(ops'[b].words) - 1
        PROVE  \E m \in SetsOf(ops[b].addr)' : m >= b /\ M[ops'[b].addr][l] = LineOf(m, l)'
    <2>1. b \in 1 .. Len(ops)
      BY <1>0
    <2>2. ops'[b] = ops[b]
      BY <2>1, <1>0
    <2>3. PICK e : e = ops[b].addr
      OBVIOUS
    <2>4. PICK m \in SetsOf(ops[b].addr) : m >= b /\ M[ops[b].addr][l] = LineOf(m, l)
      BY <2>2, <1>1 DEF MemoryHolds
    <2>5. m \in SetsOf(e) /\ m \in 1 .. Len(ops)
      BY <2>3, <2>4, SetsAre
    <2>6. m \in SetsOf(e)'
      BY <2>5, SetsStay
    <2>7. m \in SetsOf(ops[b].addr)'
      BY <2>2, <2>3, <2>6 DEF SetsOf
    <2>8. LineOf(m, l)' = LineOf(m, l)
      BY <2>5, LineStays
    <2> QED  BY <2>2, <2>4, <2>7, <2>8
  <1>2. sm # << >> => \A l \in 0 .. ln - 1 : M[ops'[sm[1]].addr][l] = LineOf(sm[1], l)'
    <2> SUFFICES ASSUME sm # << >>, NEW l \in 0 .. ln - 1
                 PROVE  M[ops'[sm[1]].addr][l] = LineOf(sm[1], l)'
      OBVIOUS
    <2>1. PICK m \in 1 .. Len(ops) : m = sm[1]
      OBVIOUS
    <2>2. M[ops[m].addr][l] = LineOf(m, l) /\ ops'[m] = ops[m] /\ LineOf(m, l)' = LineOf(m, l)
      BY <2>1, <1>0, LineStays DEF MemoryHolds
    <2> QED  BY <2>1, <2>2 DEF LineOf
  <1>3. M \in [Addresses -> [Slots -> MemLines]]
    BY DEF MemoryHolds
  <1> QED  BY <1>1, <1>2, <1>3 DEF MemoryHolds, NumOfWords

LEMMA GetsStay ==
  ASSUME OpsGrow, NEW gs, NEW a \in Nat, NEW e \in Nat, e <= Len(ops), GetsBetween(gs, a, e)
  PROVE  GetsBetween(gs, a, e)'
  <1>0. \A m \in a + 1 .. e : ops'[m] = ops[m]
    BY DEF OpsGrow
  <1> QED  BY <1>0 DEF GetsBetween

LEMMA CmdsStay ==
  ASSUME OpsGrow, NEW n \in 1 .. Len(ops)
  PROVE  CmdsOf(n)' = CmdsOf(n)
  BY DEF OpsGrow, CmdsOf

LEMMA CommandedStays ==
  ASSUME OpsGrow, NEW gs, NEW d \in Nat, NEW q, Commanded(gs, d, q), Len(gs) \in Nat, \A j \in 1 .. Len(gs) : gs[j] \in 1 .. Len(ops)
  PROVE  Commanded(gs, d, q)'
  <1>1. PICK fr \in Seq(Seq(ReadCmds)) :
          Len(fr) = Len(gs) - d /\ (\A i \in 1 .. Len(fr) : fr[i] = CmdsOf(gs[d + i])) /\ Runs(q, 0, fr)
    BY DEF Commanded
  <1>2. ASSUME NEW i \in 1 .. Len(fr)
        PROVE  fr[i] = CmdsOf(gs[d + i])'
    <2>1. d + i \in 1 .. Len(gs)
      BY <1>1
    <2>2. PICK m \in 1 .. Len(ops) : m = gs[d + i]
      BY <2>1
    <2>3. fr[i] = CmdsOf(m) /\ CmdsOf(m)' = CmdsOf(m)
      BY <2>2, <1>1, CmdsStay
    <2> QED  BY <2>2, <2>3 DEF CmdsOf
  <1> QED  BY <1>1, <1>2 DEF Commanded

LEMMA LengthsStay ==
  ASSUME OpsGrow, NEW gs, NEW c \in Nat, NEW q, Lengths(gs, c, q), Len(gs) \in Nat, \A j \in 1 .. Len(gs) : gs[j] \in 1 .. Len(ops)
  PROVE  Lengths(gs, c, q)'
  <1>1. ASSUME NEW i \in 1 .. Len(gs) - c
        PROVE  q[i] = ops'[gs[c + i]].words
    <2>1. c + i \in 1 .. Len(gs)
      OBVIOUS
    <2>2. gs[c + i] \in 1 .. Len(ops)
      BY <2>1
    <2>3. ops'[gs[c + i]] = ops[gs[c + i]]
      BY <2>2 DEF OpsGrow
    <2> QED  BY <2>3 DEF Lengths
  <1> QED  BY <1>1 DEF Lengths

LEMMA LinesStay ==
  ASSUME OpsSound, OpsSound', OpsGrow, NEW n \in 1 .. Len(ops), ops[n].op = "GET", NEW bl, FreshLines(n, bl)
  PROVE  FreshLines(n, bl)'
  <1>1. ops'[n] = ops[n]
    BY DEF OpsGrow
  <1>2. ASSUME NEW l \in 1 .. Len(bl), NEW w \in 1 .. LineWords, (l - 1) * LineWords + w <= ops'[n].words
        PROVE  FreshWord(n, (l - 1) * LineWords + w, bl[l][w])'
    <2>1. PICK i : i = (l - 1) * LineWords + w
      OBVIOUS
    <2>2. PICK x : x = bl[l][w]
      OBVIOUS
    <2>3. FreshWord(n, i, x)
      BY <2>1, <2>2, <1>1, <1>2 DEF FreshLines
    <2>4. FreshWord(n, i, x)'
      BY <2>3, FreshStays
    <2> QED  BY <2>1, <2>2, <2>4
  <1> QED  BY <1>1, <1>2 DEF FreshLines, NumOfWords

LEMMA PartStays ==
  ASSUME OpsSound, OpsSound', OpsGrow, NEW n \in 1 .. Len(ops), ops[n].op = "GET", NEW v, FreshPart(n, v)
  PROVE  FreshPart(n, v)'
  <1>1. ASSUME NEW i \in 1 .. Len(v)
        PROVE  FreshWord(n, i, v[i])'
    <2>1. PICK x : x = v[i]
      OBVIOUS
    <2>2. FreshWord(n, i, x)
      BY <2>1 DEF FreshPart
    <2>3. FreshWord(n, i, x)'
      BY <2>2, FreshStays
    <2> QED  BY <2>1, <2>3
  <1> QED  BY <1>1 DEF FreshPart

LEMMA ReadOutStays ==
  ASSUME OpsSound, OpsSound', OpsGrow, NEW gs, NEW c \in Nat, NEW d \in Nat, NEW b \in {0, 1}, b <= c, c <= d, d <= Len(gs), Len(gs) \in Nat,
         NEW s, NEW q, NEW line, ReadOut(gs, c, d, b, s, q, line),
         \A j \in 1 .. Len(gs) : gs[j] \in 1 .. Len(ops) /\ ops[gs[j]].op = "GET"
  PROVE  ReadOut(gs, c, d, b, s, q, line)'
  <1>1. PICK fr \in Seq(Seq(MemLines)) :
          /\ Len(fr) = d - c + b /\ \A i \in 1 .. Len(fr) : FreshLines(gs[c - b + i], fr[i])
          /\ Runs(q, s, fr)
          /\ b = 1 => s >= 1 /\ s <= Len(fr[1]) /\ line = fr[1][s]
          /\ b = 0 => s = 0
    BY DEF ReadOut
  <1>2. ASSUME NEW i \in 1 .. Len(fr)
        PROVE  FreshLines(gs[c - b + i], fr[i])'
    <2>1. c - b + i \in 1 .. Len(gs)
      BY <1>1
    <2>2. PICK n \in 1 .. Len(ops) : n = gs[c - b + i] /\ ops[n].op = "GET"
      BY <2>1
    <2>3. PICK v : v = fr[i]
      OBVIOUS
    <2>4. FreshLines(n, v)
      BY <2>2, <2>3, <1>1
    <2>5. FreshLines(n, v)'
      BY <2>2, <2>4, LinesStay
    <2> QED  BY <2>2, <2>3, <2>5
  <1> QED  BY <1>1, <1>2 DEF ReadOut

LEMMA PutOutStays ==
  ASSUME OpsSound, OpsSound', OpsGrow, NEW gs, NEW c \in Nat, NEW b \in {0, 1}, b <= c, c <= Len(gs), Len(gs) \in Nat,
         NEW s, NEW q, NEW counter, NEW left, PutOut(gs, c, b, s, q, counter, left),
         \A j \in 1 .. Len(gs) : gs[j] \in 1 .. Len(ops) /\ ops[gs[j]].op = "GET"
  PROVE  PutOut(gs, c, b, s, q, counter, left)'
  <1>1. PICK fr \in Seq(Seq(Pairs)), A \in Seq(Pairs), part \in Seq(Pairs) :
          /\ Len(fr) = c - b /\ \A i \in 1 .. Len(fr) : FreshPart(gs[i], fr[i]) /\ Len(fr[i]) = ops[gs[i]].words
          /\ Runs(A, 0, fr) /\ q = A \o part
          /\ b = 0 => part = << >>
          /\ b = 1 => /\ FreshPart(gs[c], part) /\ Len(part) = (s - 1) * LineWords + counter
                      /\ left \in Nat \ {0} /\ Len(part) + left = ops[gs[c]].words
    BY DEF PutOut
  <1>2. ASSUME NEW i \in 1 .. Len(gs), NEW v, FreshPart(gs[i], v)
        PROVE  FreshPart(gs[i], v)' /\ ops'[gs[i]] = ops[gs[i]]
    <2>1. PICK n \in 1 .. Len(ops) : n = gs[i] /\ ops[n].op = "GET"
      OBVIOUS
    <2>2. FreshPart(n, v)
      BY <2>1, <1>2
    <2>3. FreshPart(n, v)' /\ ops'[n] = ops[n]
      BY <2>1, <2>2, PartStays DEF OpsGrow
    <2> QED  BY <2>1, <2>3
  <1>3. ASSUME NEW i \in 1 .. Len(fr)
        PROVE  FreshPart(gs[i], fr[i])' /\ Len(fr[i]) = ops'[gs[i]].words
    <2>1. i \in 1 .. Len(gs)
      BY <1>1
    <2>2. PICK v : v = fr[i]
      OBVIOUS
    <2>3. FreshPart(gs[i], v) /\ Len(v) = ops[gs[i]].words
      BY <2>2, <1>1
    <2>4. FreshPart(gs[i], v)' /\ ops'[gs[i]] = ops[gs[i]]
      BY <2>1, <2>3, <1>2
    <2> QED  BY <2>2, <2>3, <2>4
  <1>4. b = 1 => /\ FreshPart(gs[c], part)' /\ Len(part) = (s - 1) * LineWords + counter
                 /\ left \in Nat \ {0} /\ Len(part) + left = ops'[gs[c]].words
    <2> SUFFICES ASSUME b = 1
                 PROVE  /\ FreshPart(gs[c], part)' /\ Len(part) = (s - 1) * LineWords + counter
                        /\ left \in Nat \ {0} /\ Len(part) + left = ops'[gs[c]].words
      OBVIOUS
    <2>1. c \in 1 .. Len(gs)
      OBVIOUS
    <2>2. FreshPart(gs[c], part)
      BY <1>1
    <2>3. FreshPart(gs[c], part)' /\ ops'[gs[c]] = ops[gs[c]]
      BY <2>1, <2>2, <1>2
    <2> QED  BY <2>3, <1>1
  <1> QED  BY <1>1, <1>3, <1>4 DEF PutOut

-----------------------------------------------------------------------------
(* The steps of the read path.                                             *)

\* The requests of the GETs.
LEMMA GetsAre ==
  ASSUME NEW gs, NEW a \in Nat, NEW e \in Nat, e <= Len(ops), Len(ops) \in Nat, GetsBetween(gs, a, e)
  PROVE  /\ gs \in Seq(Nat) /\ Len(gs) \in Nat
         /\ \A j \in 1 .. Len(gs) : gs[j] \in a + 1 .. e /\ gs[j] \in 1 .. Len(ops) /\ ops[gs[j]].op = "GET"
  <1>1. gs \in Seq(Nat) /\ \A j \in 1 .. Len(gs) : gs[j] \in a + 1 .. e /\ ops[gs[j]].op = "GET"
    BY DEF GetsBetween
  <1>2. Len(gs) \in Nat
    BY <1>1
  <1>3. a + 1 .. e \subseteq 1 .. Len(ops)
    OBVIOUS
  <1> QED  BY <1>1, <1>2, <1>3

LEMMA ReadsStay ==
  ASSUME OpsSound, OpsSound', OpsGrow, NEW a \in Nat, NEW e \in Nat, e <= Len(ops), NEW b \in {0, 1}, NEW P, NEW line, NEW counter, NEW left,
         ReadsOf(a, e, b, P, line, counter, left)
  PROVE  ReadsOf(a, e, b, P, line, counter, left)'
  <1>1. PICK gs \in Seq(Nat), c \in Nat, d \in Nat, s \in Nat :
          /\ GetsBetween(gs, a, e)
          /\ b <= c /\ c <= d /\ d <= Len(gs)
          /\ Commanded(gs, d, P["memRdCmd"]) /\ Lengths(gs, c, P["valueLengthQ"])
          /\ ReadOut(gs, c, d, b, s, P["memRdData"], line)
          /\ PutOut(gs, c, b, s, P["getPath2remux"], counter, left)
    BY DEF ReadsOf
  <1>2. /\ Len(gs) \in Nat /\ Len(ops) \in Nat
        /\ \A j \in 1 .. Len(gs) : gs[j] \in 1 .. Len(ops) /\ ops[gs[j]].op = "GET"
    BY <1>1, GetsAre DEF OpsGrow
  <1>3. GetsBetween(gs, a, e)'
    BY <1>1, GetsStay
  <1>4. Commanded(gs, d, P["memRdCmd"])'
    BY <1>1, <1>2, CommandedStays
  <1>5. Lengths(gs, c, P["valueLengthQ"])'
    BY <1>1, <1>2, LengthsStay
  <1>6. ReadOut(gs, c, d, b, s, P["memRdData"], line)'
    BY <1>1, <1>2, ReadOutStays
  <1>7. PutOut(gs, c, b, s, P["getPath2remux"], counter, left)'
    <2>1. c <= Len(gs)
      BY <1>1, <1>2
    <2> QED  BY <2>1, <1>1, <1>2, PutOutStays
  <1> QED  BY <1>1, <1>3, <1>4, <1>5, <1>6, <1>7 DEF ReadsOf

\* A request is demuxed.
LEMMA ReadsGrow ==
  ASSUME NEW a \in Nat, NEW e \in Nat, NEW b, NEW P, NEW line, NEW counter, NEW left, ReadsOf(a, e, b, P, line, counter, left),
         ops[e + 1].op # "GET", NEW P2,
         P2["memRdCmd"] = P["memRdCmd"], P2["valueLengthQ"] = P["valueLengthQ"], P2["memRdData"] = P["memRdData"],
         P2["getPath2remux"] = P["getPath2remux"]
  PROVE  ReadsOf(a, e + 1, b, P2, line, counter, left)
  BY GetsGrow DEF ReadsOf

LEMMA ReadsSame ==
  ASSUME NEW a, NEW e, NEW b, NEW P, NEW line, NEW counter, NEW left, ReadsOf(a, e, b, P, line, counter, left), NEW P2,
         P2["memRdCmd"] = P["memRdCmd"], P2["valueLengthQ"] = P["valueLengthQ"], P2["memRdData"] = P["memRdData"],
         P2["getPath2remux"] = P["getPath2remux"]
  PROVE  ReadsOf(a, e, b, P2, line, counter, left)
  BY DEF ReadsOf

LEMMA ReadsGrowGet ==
  ASSUME OpsSound, NEW a \in Nat, NEW e \in Nat, a <= e, e + 1 \in 1 .. Len(ops), ops[e + 1].op = "GET", NEW b \in {0, 1},
         NEW P, FifosTyped(P), NEW line, NEW counter, NEW left, ReadsOf(a, e, b, P, line, counter, left), NEW P2,
         P2["memRdCmd"] = P["memRdCmd"] \o CmdsOf(e + 1), P2["valueLengthQ"] = Append(P["valueLengthQ"], ops[e + 1].words),
         P2["memRdData"] = P["memRdData"], P2["getPath2remux"] = P["getPath2remux"]
  PROVE  ReadsOf(a, e + 1, b, P2, line, counter, left)
  <1>1. PICK gs \in Seq(Nat), c \in Nat, d \in Nat, s \in Nat :
          /\ GetsBetween(gs, a, e)
          /\ b <= c /\ c <= d /\ d <= Len(gs)
          /\ Commanded(gs, d, P["memRdCmd"]) /\ Lengths(gs, c, P["valueLengthQ"])
          /\ ReadOut(gs, c, d, b, s, P["memRdData"], line)
          /\ PutOut(gs, c, b, s, P["getPath2remux"], counter, left)
    BY DEF ReadsOf
  <1>2. P["memRdCmd"] \in Seq(ReadCmds) /\ P["valueLengthQ"] \in Seq(Nat)
    BY DEF FifosTyped
  <1>3. e + 1 \in Nat /\ ops[e + 1].words \in Nat /\ Len(gs) \in Nat
    <2>1. ops[e + 1].words \in Nat
      BY ONLY OpIs, OpsSound, e + 1 \in 1 .. Len(ops)
    <2>2. e + 1 \in Nat /\ Len(gs) \in Nat
      BY ONLY e \in Nat, gs \in Seq(Nat)
    <2> QED  BY ONLY <2>1, <2>2
  <1> DEFINE g == Append(gs, e + 1)
  <1>4. g \in Seq(Nat) /\ Len(g) = Len(gs) + 1 /\ \A i \in 1 .. Len(gs) : g[i] = gs[i]
    BY <1>3, LongerIs
  <1>5. GetsBetween(g, a, e + 1)
    BY <1>1, GetsGrowGet
  <1>6. Commanded(g, d, P["memRdCmd"] \o CmdsOf(e + 1))
    BY <1>1, <1>2, CommandedGrow
  <1>7. Lengths(g, c, Append(P["valueLengthQ"], ops[e + 1].words))
    <2>1. c <= Len(gs)
      BY <1>1, <1>3
    <2> QED  BY <2>1, <1>1, <1>2, <1>3, LengthsGrow
  <1> HIDE DEF g
  <1>8. \A i \in 1 .. d : g[i] = gs[i]
    BY <1>1, <1>3, <1>4
  <1>9. ReadOut(g, c, d, b, s, P["memRdData"], line)
    BY <1>1, <1>8, ReadOutSame
  <1>10. PutOut(g, c, b, s, P["getPath2remux"], counter, left)
    <2>1. \A i \in 1 .. c : g[i] = gs[i]
      BY <1>1, <1>8
    <2> QED  BY <2>1, <1>1, PutOutSame
  <1>11. d <= Len(g)
    BY <1>1, <1>3, <1>4
  <1> QED  BY <1>1, <1>4, <1>5, <1>6, <1>7, <1>9, <1>10, <1>11 DEF ReadsOf

\* An answer without a value.
LEMMA ReadsPass ==
  ASSUME NEW a \in Nat, NEW e \in Nat, NEW b, NEW P, NEW line, NEW counter, NEW left, ReadsOf(a, e, b, P, line, counter, left),
         ops[a + 1].op # "GET", NEW P2,
         P2["memRdCmd"] = P["memRdCmd"], P2["valueLengthQ"] = P["valueLengthQ"], P2["memRdData"] = P["memRdData"],
         P2["getPath2remux"] = P["getPath2remux"]
  PROVE  ReadsOf(a + 1, e, b, P2, line, counter, left)
  BY GetsPass DEF ReadsOf

\* An answer with a value.
AnswerTaken(a, e, b, P, P2, line, counter, left, k) ==
  /\ FreshPart(a + 1, FirstPart(P["getPath2remux"], k)) /\ Len(FirstPart(P["getPath2remux"], k)) = k
  /\ P2["getPath2remux"] \in Seq(Pairs)
  /\ ReadsOf(a + 1, e, b, P2, line, counter, left)

LEMMA ReadsAnswered ==
  ASSUME OpsSound, NEW a \in Nat, NEW e \in Nat, a + 1 <= e, e <= Len(ops), ops[a + 1].op = "GET", NEW b, b = 0 \/ b = 1,
         NEW P, FifosTyped(P), NEW line, NEW counter, NEW left, ReadsOf(a, e, b, P, line, counter, left),
         NEW k, k = ops[a + 1].words, Len(P["getPath2remux"]) >= k, NEW P2,
         P2["memRdCmd"] = P["memRdCmd"], P2["valueLengthQ"] = P["valueLengthQ"], P2["memRdData"] = P["memRdData"],
         P2["getPath2remux"] = LastPart(P["getPath2remux"], k)
  PROVE  AnswerTaken(a, e, b, P, P2, line, counter, left, k)
  <1>0. b \in {0, 1}
    OBVIOUS
  <1> USE <1>0
  <1>1. PICK gs \in Seq(Nat), c \in Nat, d \in Nat, s \in Nat :
          /\ GetsBetween(gs, a, e)
          /\ b <= c /\ c <= d /\ d <= Len(gs)
          /\ Commanded(gs, d, P["memRdCmd"]) /\ Lengths(gs, c, P["valueLengthQ"])
          /\ ReadOut(gs, c, d, b, s, P["memRdData"], line)
          /\ PutOut(gs, c, b, s, P["getPath2remux"], counter, left)
    BY DEF ReadsOf
  <1>2. PICK q \in Seq(Pairs) : q = P["getPath2remux"]
    BY DEF FifosTyped
  <1>3. gs # << >> /\ gs[1] = a + 1 /\ GetsBetween(Tail(gs), a + 1, e)
    BY <1>1, GetsAnswered
  <1>4. a + 1 \in 1 .. Len(ops) /\ Len(gs) \in Nat
    BY DEF OpsSound
  <1>5. k \in Nat \ {0}
    <2>1. ops[a + 1].words \in 2 .. MaxWords /\ MaxWords \in Nat
      BY <1>4, OpIs
    <2> QED  BY <2>1
  <1>6. b + 1 <= c
    <2>1. ops[gs[1]].words \in Nat \ {0} /\ Len(q) >= ops[gs[1]].words
      BY <1>2, <1>3, <1>5
    <2>2. PutOut(gs, c, b, s, q, counter, left) /\ b <= c
      BY <1>1, <1>2
    <2> QED  BY <2>1, <2>2, PutOutReady
  <1>7. /\ FreshPart(a + 1, FirstPart(q, k)) /\ Len(FirstPart(q, k)) = k
        /\ LastPart(q, k) \in Seq(Pairs)
        /\ PutOut(Tail(gs), c - 1, b, s, LastPart(q, k), counter, left)
    <2>1. PutOut(gs, c, b, s, q, counter, left)
      BY <1>1, <1>2
    <2>2. c <= Len(gs) /\ b + 1 <= c /\ gs # << >>
      BY <1>1, <1>3, <1>4, <1>6
    <2>3. PICK j \in Nat : j = ops[gs[1]].words /\ j = k
      BY <1>3, <1>5
    <2>4. /\ FreshPart(a + 1, FirstPart(q, j)) /\ Len(FirstPart(q, j)) = j /\ LastPart(q, j) \in Seq(Pairs)
          /\ PutOut(Tail(gs), c - 1, b, s, LastPart(q, j), counter, left)
      <3>1. PICK n : n = a + 1
        OBVIOUS
      <3>2. n = gs[1] /\ j = ops[n].words
        BY <3>1, <2>3, <1>3
      <3>3. /\ FreshPart(n, FirstPart(q, j)) /\ Len(FirstPart(q, j)) = j /\ LastPart(q, j) \in Seq(Pairs)
            /\ PutOut(Tail(gs), c - 1, b, s, LastPart(q, j), counter, left)
        <4>1. PutTaken(gs, c, b, s, q, counter, left, n, j)
          BY <2>1, <2>2, <3>2, PutOutTake
        <4> QED  BY <4>1 DEF PutTaken
      <3> QED  BY <3>1, <3>3
    <2> QED  BY <2>3, <2>4
  <1>8. ReadOut(Tail(gs), c - 1, d - 1, b, s, P["memRdData"], line)
    BY <1>1, <1>3, <1>6, ReadOutRest
  <1>9. Commanded(Tail(gs), d - 1, P["memRdCmd"])
    <2>1. d >= 1
      BY <1>1, <1>6
    <2> QED  BY <2>1, <1>1, <1>3, CommandedRest
  <1>10. Lengths(Tail(gs), c - 1, P["valueLengthQ"])
    <2>0. c <= d /\ d <= Len(gs)
      BY <1>1
    <2>1. c >= 1 /\ c <= Len(gs)
      BY ONLY <2>0, <1>4, <1>6, b \in {0, 1}, c \in Nat, d \in Nat
    <2> QED  BY <2>1, <1>1, <1>3, LengthsRest
  <1>11. Tail(gs) \in Seq(Nat) /\ Len(Tail(gs)) = Len(gs) - 1
    BY <1>3, RestIs
  <1>12. c - 1 \in Nat /\ d - 1 \in Nat /\ b <= c - 1 /\ c - 1 <= d - 1 /\ d - 1 <= Len(Tail(gs))
    BY <1>1, <1>4, <1>6, <1>11
  <1>13. PutOut(Tail(gs), c - 1, b, s, P2["getPath2remux"], counter, left)
    BY <1>2, <1>7
  <1>14. PICK t : t = Tail(gs)
    OBVIOUS
  <1>15. ReadsOf(a + 1, e, b, P2, line, counter, left)
    BY <1>3, <1>8, <1>9, <1>10, <1>11, <1>12, <1>13, <1>14 DEF ReadsOf
  <1> QED  BY <1>2, <1>7, <1>15 DEF AnswerTaken

\* What the memory returns for the commands q, from the first on.
LinesRead(M, q, k) == [i \in 1 .. k |-> M[q[i].addr][q[i].line]]

ReadBurst(P, P2, M, k) ==
  /\ P["memRdCmd"] # << >> /\ k = FirstValue(P["memRdCmd"])
  /\ P2["memRdCmd"] = LastPart(P["memRdCmd"], k) /\ P2["valueLengthQ"] = P["valueLengthQ"]
  /\ P2["memRdData"] = P["memRdData"] \o LinesRead(M, P["memRdCmd"], k) /\ P2["getPath2remux"] = P["getPath2remux"]

LEMMA ReadsMemory ==
  ASSUME OpsSound, NEW a \in Nat, NEW e \in Nat, e <= Len(ops), NEW b, b = 0 \/ b = 1,
         NEW P, FifosTyped(P), NEW line, NEW counter, NEW left, ReadsOf(a, e, b, P, line, counter, left),
         NEW M, NEW sm, NEW ln, MemoryHolds(M, sm, ln, e), NEW F, SetsInTurn(F, sm, a, e),
         NEW k, NEW P2, ReadBurst(P, P2, M, k)
  PROVE  /\ ReadsOf(a, e, b, P2, line, counter, left)
         /\ P2["memRdCmd"] \in Seq(ReadCmds) /\ P2["memRdData"] \in Seq(MemLines)
  <1>w. /\ P["memRdCmd"] # << >> /\ k = FirstValue(P["memRdCmd"])
        /\ P2["memRdCmd"] = LastPart(P["memRdCmd"], k) /\ P2["valueLengthQ"] = P["valueLengthQ"]
        /\ P2["memRdData"] = P["memRdData"] \o LinesRead(M, P["memRdCmd"], k) /\ P2["getPath2remux"] = P["getPath2remux"]
        /\ b \in {0, 1}
    BY DEF ReadBurst
  <1> USE <1>w
  <1>1. PICK gs \in Seq(Nat), c \in Nat, d \in Nat, s \in Nat :
          /\ GetsBetween(gs, a, e)
          /\ b <= c /\ c <= d /\ d <= Len(gs)
          /\ Commanded(gs, d, P["memRdCmd"]) /\ Lengths(gs, c, P["valueLengthQ"])
          /\ ReadOut(gs, c, d, b, s, P["memRdData"], line)
          /\ PutOut(gs, c, b, s, P["getPath2remux"], counter, left)
    BY DEF ReadsOf
  <1>2. PICK q \in Seq(ReadCmds) : q = P["memRdCmd"] /\ q # << >>
    BY DEF FifosTyped
  <1>3. P["memRdData"] \in Seq(MemLines)
    BY DEF FifosTyped
  <1>4. Len(ops) \in Nat
    BY DEF OpsSound
  <1>5. /\ Len(gs) \in Nat
        /\ \A j \in 1 .. Len(gs) : gs[j] \in a + 1 .. e /\ gs[j] \in 1 .. Len(ops) /\ ops[gs[j]].op = "GET"
    BY <1>1, <1>4, GetsAre
  <1>6. /\ d + 1 <= Len(gs) /\ k = NumOfWords(ops[gs[d + 1]].words) /\ k \in Nat
        /\ \A i \in 1 .. k : q[i].addr = ops[gs[d + 1]].addr /\ q[i].line = i - 1
        /\ LastPart(q, k) \in Seq(ReadCmds) /\ Commanded(gs, d + 1, LastPart(q, k))
    <2>1. k = FirstValue(q) /\ q # << >>
      BY <1>2
    <2>2. d <= Len(gs) /\ Commanded(gs, d, q)
      BY <1>1, <1>2
    <2>3. CmdsTaken(gs, d, q, k)
      BY <2>1, <2>2, <1>5, CommandedRead
    <2> QED  BY <2>3 DEF CmdsTaken
  <1>7. PICK n : n = gs[d + 1]
    OBVIOUS
  <1>8. d + 1 \in 1 .. Len(gs)
    BY <1>6
  <1>9. n \in a + 1 .. e /\ ops[n].op = "GET"
    BY <1>5, <1>7, <1>8
  <1> DEFINE bl == [i \in 1 .. NumOfWords(ops[n].words) |-> M[ops[n].addr][i - 1]]
  <1>10. FreshLines(n, bl)
    BY <1>9, ReadFresh
  <1>11. LinesRead(M, q, k) = bl
    BY <1>6, <1>7 DEF LinesRead
  <1>12. bl \in Seq(MemLines)
    BY <1>10 DEF FreshLines
  <1> HIDE DEF bl
  <1>13. ReadOut(gs, c, d + 1, b, s, P["memRdData"] \o bl, line)
    <2>1. FreshLines(gs[d + 1], bl)
      BY <1>7, <1>10
    <2>2. PICK r \in Seq(MemLines) : r = P["memRdData"]
      BY <1>3
    <2>3. ReadOut(gs, c, d, b, s, r, line) /\ b <= c /\ c <= d
      BY <2>2, <1>1
    <2>4. ReadOut(gs, c, d + 1, b, s, r \o bl, line)
      BY <2>1, <2>3, <1>12, ReadOutGrow
    <2> QED  BY <2>2, <2>4
  <1>14. P2["memRdCmd"] = LastPart(q, k) /\ P2["memRdData"] = P["memRdData"] \o bl
    BY <1>2, <1>11
  <1>15. c <= d + 1 /\ d + 1 \in Nat
    BY <1>1
  <1>16. ReadsOf(a, e, b, P2, line, counter, left)
    BY <1>1, <1>6, <1>13, <1>14, <1>15 DEF ReadsOf
  <1>17. P["memRdData"] \o bl \in Seq(MemLines)
    BY <1>3, <1>12, JoinIs
  <1> QED  BY <1>6, <1>14, <1>16, <1>17

\* receive takes the first word of a value.
LEMMA ReadsBegin ==
  ASSUME OpsSound, NEW a \in Nat, NEW e \in Nat, e <= Len(ops),
         NEW P, FifosTyped(P), NEW line, NEW counter, NEW left, ReadsOf(a, e, 0, P, line, counter, left),
         P["valueLengthQ"] # << >>, P["memRdData"] # << >>, NEW x, x = Head(P["memRdData"]), NEW P2,
         P2["memRdCmd"] = P["memRdCmd"], P2["valueLengthQ"] = Tail(P["valueLengthQ"]), P2["memRdData"] = Tail(P["memRdData"]),
         P2["getPath2remux"] = Append(P["getPath2remux"], x[1])
  PROVE  x[1] \in Pairs /\ ReadsOf(a, e, 1, P2, x, 1, Head(P["valueLengthQ"]) - 1)
  <1>1. PICK gs \in Seq(Nat), c \in Nat, d \in Nat, s \in Nat :
          /\ GetsBetween(gs, a, e)
          /\ 0 <= c /\ c <= d /\ d <= Len(gs)
          /\ Commanded(gs, d, P["memRdCmd"]) /\ Lengths(gs, c, P["valueLengthQ"])
          /\ ReadOut(gs, c, d, 0, s, P["memRdData"], line)
          /\ PutOut(gs, c, 0, s, P["getPath2remux"], counter, left)
    BY DEF ReadsOf
  <1>2. PICK l \in Seq(Nat) : l = P["valueLengthQ"] /\ l # << >>
    BY DEF FifosTyped
  <1>3. PICK r \in Seq(MemLines) : r = P["memRdData"] /\ r # << >>
    BY DEF FifosTyped
  <1>4. PICK q \in Seq(Pairs) : q = P["getPath2remux"]
    BY DEF FifosTyped
  <1>5. Len(ops) \in Nat
    BY DEF OpsSound
  <1>6. Len(gs) \in Nat /\ \A j \in 1 .. Len(gs) : gs[j] \in 1 .. Len(ops) /\ ops[gs[j]].op = "GET"
    BY <1>1, <1>5, GetsAre
  <1>7. c + 1 <= Len(gs) /\ Head(l) = ops[gs[c + 1]].words /\ Lengths(gs, c + 1, Tail(l))
    <2>1. Lengths(gs, c, l) /\ l # << >>
      BY <1>1, <1>2
    <2> QED  BY <2>1, LengthsTake
  <1>8. PICK n : n = gs[c + 1]
    OBVIOUS
  <1>9. c + 1 \in 1 .. Len(gs)
    BY <1>6, <1>7
  <1>10. n \in 1 .. Len(ops) /\ ops[n].op = "GET"
    BY <1>6, <1>8, <1>9
  <1>11. c < d /\ x \in MemLines /\ FreshWord(n, 1, x[1]) /\ ReadOut(gs, c + 1, d, 1, 1, Tail(r), x)
    <2>1. ReadOut(gs, c, d, 0, s, r, line) /\ c <= d /\ r # << >> /\ x = Head(r)
      BY <1>1, <1>3
    <2>2. gs[c + 1] \in 1 .. Len(ops) /\ ops[gs[c + 1]].op = "GET"
      BY <1>8, <1>10
    <2>3. /\ c < d /\ Head(r) \in MemLines
          /\ FreshWord(gs[c + 1], 1, Head(r)[1])
          /\ ReadOut(gs, c + 1, d, 1, 1, Tail(r), Head(r))
      BY <2>1, <2>2, ReadOutBegin
    <2> QED  BY <2>1, <2>3, <1>8
  <1>12. x[1] \in Pairs
    <2>1. x \in [1 .. LineWords -> Pairs]
      BY <1>11 DEF MemLines
    <2>2. 1 \in 1 .. LineWords
      BY StoreAssumption
    <2> QED  BY <2>1, <2>2
  <1>13. ops[n].words \in Nat /\ ops[n].words >= 2
    BY <1>10, OpIs
  <1>14. PutOut(gs, c + 1, 1, 1, Append(q, x[1]), 1, ops[n].words - 1)
    <2>1. PutOut(gs, c, 0, s, q, counter, left)
      BY <1>1, <1>4
    <2>2. ops[gs[c + 1]].words \in Nat /\ ops[gs[c + 1]].words >= 2 /\ FreshWord(gs[c + 1], 1, x[1])
      BY <1>8, <1>11, <1>13
    <2>3. PutOut(gs, c + 1, 1, 1, Append(q, x[1]), 1, ops[gs[c + 1]].words - 1)
      BY <2>1, <2>2, <1>12, PutOutBegin
    <2> QED  BY <2>3, <1>8
  <1>15. Head(P["valueLengthQ"]) = ops[n].words
    BY <1>2, <1>7, <1>8
  <1>16. Lengths(gs, c + 1, P2["valueLengthQ"])
    BY <1>2, <1>7
  <1>17. ReadOut(gs, c + 1, d, 1, 1, P2["memRdData"], x)
    BY <1>3, <1>11
  <1>18. PutOut(gs, c + 1, 1, 1, P2["getPath2remux"], 1, Head(P["valueLengthQ"]) - 1)
    BY <1>4, <1>14, <1>15
  <1>19. c + 1 \in Nat /\ 1 <= c + 1 /\ c + 1 <= d /\ 1 \in Nat
    <2>1. c < d
      BY <1>11
    <2> QED  BY <2>1
  <1>20. Commanded(gs, d, P2["memRdCmd"])
    BY <1>1
  <1>21. ReadsOf(a, e, 1, P2, x, 1, Head(P["valueLengthQ"]) - 1)
    BY <1>1, <1>16, <1>17, <1>18, <1>19, <1>20 DEF ReadsOf
  <1> QED  BY <1>12, <1>21

\* The words still due.
LEMMA PutOutDue ==
  ASSUME NEW gs, NEW c, NEW s, NEW q, NEW counter, NEW left, PutOut(gs, c, 1, s, q, counter, left)
  PROVE  left \in Nat \ {0} /\ (s - 1) * LineWords + counter \in Nat /\ (s - 1) * LineWords + counter + left = ops[gs[c]].words
  <1>1. PICK part \in Seq(Pairs) :
          /\ Len(part) = (s - 1) * LineWords + counter
          /\ left \in Nat \ {0} /\ Len(part) + left = ops[gs[c]].words
    BY DEF PutOut
  <1> QED  BY <1>1

\* A word in the middle of a line or at its end, and the last word of a value.
WordTaken(a, e, P, P2, line, counter, left, x) ==
  /\ x \in Pairs /\ left \in Nat \ {0}
  /\ left - 1 > 0 /\ counter # LineWords - 1 /\ P2["memRdData"] = P["memRdData"] => ReadsOf(a, e, 1, P2, line, counter + 1, left - 1)
  /\ left - 1 > 0 /\ counter = LineWords - 1 => P["memRdData"] # << >>
  /\ left - 1 > 0 /\ counter = LineWords - 1 /\ P2["memRdData"] = Tail(P["memRdData"]) =>
       ReadsOf(a, e, 1, P2, Head(P["memRdData"]), 0, left - 1)
  /\ left - 1 = 0 /\ P2["memRdData"] = P["memRdData"] => \A any, k, l : ReadsOf(a, e, 0, P2, any, k, l)

LEMMA ReadsWord ==
  ASSUME OpsSound, NEW a \in Nat, NEW e \in Nat, e <= Len(ops),
         NEW P, FifosTyped(P), NEW line, NEW counter \in 0 .. LineWords - 1, NEW left, ReadsOf(a, e, 1, P, line, counter, left),
         NEW x, x = line[counter + 1], NEW P2, P2["memRdCmd"] = P["memRdCmd"], P2["valueLengthQ"] = P["valueLengthQ"],
         P2["getPath2remux"] = Append(P["getPath2remux"], x)
  PROVE  WordTaken(a, e, P, P2, line, counter, left, x)
  <1>1. PICK gs \in Seq(Nat), c \in Nat, d \in Nat, s \in Nat :
          /\ GetsBetween(gs, a, e)
          /\ 1 <= c /\ c <= d /\ d <= Len(gs)
          /\ Commanded(gs, d, P["memRdCmd"]) /\ Lengths(gs, c, P["valueLengthQ"])
          /\ ReadOut(gs, c, d, 1, s, P["memRdData"], line)
          /\ PutOut(gs, c, 1, s, P["getPath2remux"], counter, left)
    BY DEF ReadsOf
  <1>2. PICK r \in Seq(MemLines) : r = P["memRdData"]
    BY DEF FifosTyped
  <1>3. PICK q \in Seq(Pairs) : q = P["getPath2remux"]
    BY DEF FifosTyped
  <1>4. Len(ops) \in Nat
    BY DEF OpsSound
  <1>5. PICK n : n = gs[c]
    OBVIOUS
  <1>6. n \in 1 .. Len(ops) /\ ops[n].op = "GET"
    <2>1. Len(gs) \in Nat /\ \A j \in 1 .. Len(gs) : gs[j] \in 1 .. Len(ops) /\ ops[gs[j]].op = "GET"
      BY <1>1, <1>4, GetsAre
    <2>2. c \in 1 .. Len(gs)
      BY <2>1, <1>1
    <2> QED  BY <2>1, <2>2, <1>5
  <1>7. ops[n].words \in Nat \ {0}
    <2>1. ops[n].words \in 2 .. MaxWords /\ MaxWords \in Nat
      BY <1>6, OpIs
    <2> QED  BY <2>1, NotEmpty
  <1>8. 1 <= c /\ c <= d /\ ReadOut(gs, c, d, 1, s, r, line) /\ PutOut(gs, c, 1, s, q, counter, left)
    BY <1>1, <1>2, <1>3
  <1>9. left \in Nat \ {0} /\ (s - 1) * LineWords + counter \in Nat /\ (s - 1) * LineWords + counter + left = ops[gs[c]].words
    BY <1>8, PutOutDue
  <1>10. (s - 1) * LineWords + counter + 1 <= ops[gs[c]].words
    <2>1. PICK y \in Nat : y = (s - 1) * LineWords + counter
      BY <1>9
    <2>2. y + left = ops[gs[c]].words /\ left \in Nat \ {0}
      BY <2>1, <1>9
    <2>3. y + 1 <= ops[gs[c]].words
      BY <2>2
    <2> QED  BY <2>1, <2>3
  <1>11. s >= 1 /\ x \in Pairs /\ FreshWord(gs[c], (s - 1) * LineWords + counter + 1, x)
    BY <1>8, <1>10, ReadOutWord
  <1>12. counter \in Nat /\ LineWords \in Nat /\ LineWords >= 2 /\ counter <= LineWords - 1
    BY StoreAssumption
  <1>13. PICK y \in Nat : y = (s - 1) * LineWords /\ s * LineWords = y + LineWords
    <2>1. PICK z \in Nat : s = z + 1
      <3>1. s - 1 \in Nat /\ s = (s - 1) + 1
        BY <1>11
      <3> QED  BY <3>1
    <2>2. s - 1 = z
      BY <2>1
    <2>3. (z + 1) * LineWords = z * LineWords + LineWords /\ z * LineWords \in Nat
      BY NextLine
    <2> QED  BY <2>1, <2>2, <2>3
  <1>14. ASSUME left - 1 > 0, counter # LineWords - 1, P2["memRdData"] = P["memRdData"]
         PROVE  ReadsOf(a, e, 1, P2, line, counter + 1, left - 1)
    <2>1. (s - 1) * LineWords + (counter + 1) = (s - 1) * LineWords + counter + 1
      BY <1>12, <1>13
    <2>2. PutOut(gs, c, 1, s, Append(q, x), counter + 1, left - 1)
      BY <2>1, <1>8, <1>11, <1>12, <1>14, PutOutWord
    <2>3. PutOut(gs, c, 1, s, P2["getPath2remux"], counter + 1, left - 1) /\ ReadOut(gs, c, d, 1, s, P2["memRdData"], line)
      BY <2>2, <1>1, <1>3, <1>14
    <2>4. Commanded(gs, d, P2["memRdCmd"]) /\ Lengths(gs, c, P2["valueLengthQ"])
      BY <1>1
    <2> QED  BY <2>3, <2>4, <1>1 DEF ReadsOf
  <1>15. ASSUME left - 1 > 0, counter = LineWords - 1
         PROVE  /\ r # << >> /\ ReadOut(gs, c, d, 1, s + 1, Tail(r), Head(r))
                /\ PutOut(gs, c, 1, s + 1, Append(q, x), 0, left - 1)
    <2>1. y + counter + left = ops[gs[c]].words /\ y + LineWords = y + counter + 1
      BY <1>9, <1>12, <1>13, <1>15
    <2>2. y + LineWords < ops[gs[c]].words
      BY <2>1, <1>9, <1>12, <1>13, <1>15
    <2>3. s * LineWords < ops[gs[c]].words /\ ops[gs[c]].words \in Nat \ {0}
      BY <2>2, <1>5, <1>7, <1>13
    <2>4. r # << >> /\ ReadOut(gs, c, d, 1, s + 1, Tail(r), Head(r))
      BY <2>3, <1>8, ReadOutNext
    <2>5. ((s + 1) - 1) * LineWords + 0 = (s - 1) * LineWords + counter + 1
      <3>1. (s + 1) - 1 = s
        OBVIOUS
      <3>2. s * LineWords + 0 = y + counter + 1
        BY <2>1, <1>12, <1>13
      <3> QED  BY <3>1, <3>2, <1>13
    <2>6. PutOut(gs, c, 1, s + 1, Append(q, x), 0, left - 1)
      BY <2>5, <1>8, <1>11, <1>12, <1>15, PutOutWord
    <2> QED  BY <2>4, <2>6
  <1>16. ASSUME left - 1 > 0, counter = LineWords - 1, P2["memRdData"] = Tail(P["memRdData"])
         PROVE  ReadsOf(a, e, 1, P2, Head(P["memRdData"]), 0, left - 1)
    <2>1. ReadOut(gs, c, d, 1, s + 1, Tail(r), Head(r)) /\ PutOut(gs, c, 1, s + 1, Append(q, x), 0, left - 1)
      BY <1>15, <1>16
    <2>2. /\ ReadOut(gs, c, d, 1, s + 1, P2["memRdData"], Head(P["memRdData"]))
          /\ PutOut(gs, c, 1, s + 1, P2["getPath2remux"], 0, left - 1)
      BY <2>1, <1>2, <1>3, <1>16
    <2>3. Commanded(gs, d, P2["memRdCmd"]) /\ Lengths(gs, c, P2["valueLengthQ"]) /\ s + 1 \in Nat
      BY <1>1
    <2> QED  BY <2>2, <2>3, <1>1 DEF ReadsOf
  <1>17. ASSUME left - 1 = 0, P2["memRdData"] = P["memRdData"], NEW any, NEW k, NEW l
         PROVE  ReadsOf(a, e, 0, P2, any, k, l)
    <2>1. y + counter + left = ops[gs[c]].words
      BY <1>9, <1>13
    <2>a. PICK w : w = ops[gs[c]].words
      OBVIOUS
    <2>b. y + counter + left = w /\ left \in Nat /\ left - 1 = 0
      BY <2>1, <2>a, <1>9, <1>17
    <2>c. y + LineWords >= w
      BY <2>b, <1>12
    <2>2. y + LineWords >= ops[gs[c]].words
      BY <2>a, <2>c
    <2>3. s * LineWords >= ops[gs[c]].words /\ ops[gs[c]].words \in Nat \ {0}
      BY <2>2, <1>5, <1>7, <1>13
    <2>4. ReadOut(gs, c, d, 0, 0, r, any)
      BY <2>3, <1>8, ReadOutEnd
    <2>5. PutOut(gs, c, 0, 0, Append(q, x), k, l)
      BY <1>8, <1>11, <1>12, <1>17, PutOutEnd
    <2>6. PutOut(gs, c, 0, 0, P2["getPath2remux"], k, l) /\ ReadOut(gs, c, d, 0, 0, P2["memRdData"], any)
      BY <2>4, <2>5, <1>2, <1>3, <1>17
    <2>7. Commanded(gs, d, P2["memRdCmd"]) /\ Lengths(gs, c, P2["valueLengthQ"]) /\ 0 \in Nat /\ 0 <= c
      BY <1>1
    <2> QED  BY <2>6, <2>7, <1>1 DEF ReadsOf
  <1>18. left - 1 > 0 /\ counter = LineWords - 1 => P["memRdData"] # << >>
    BY <1>2, <1>15
  <1> QED  BY <1>9, <1>11, <1>14, <1>16, <1>17, <1>18 DEF WordTaken

-----------------------------------------------------------------------------
(* What the steps do to the FIFOs.                                         *)

LEMMA DemuxPass ==
  ASSUME paths = [p \in Paths |-> paths[p]], NEW n, ops[n].op = "PASS", Demux(n)
  PROVE  /\ paths' = [p \in Paths |-> paths'[p]]
         /\ \A p \in Paths \ {"metadataBuffer"} : paths'[p] = paths[p]
         /\ paths'["metadataBuffer"] = Append(paths["metadataBuffer"], n)
  BY DEF Demux, Paths

LEMMA DemuxSet ==
  ASSUME paths = [p \in Paths |-> paths[p]], NEW n, ops[n].op = "SET", Demux(n)
  PROVE  /\ paths' = [p \in Paths |-> paths'[p]]
         /\ \A p \in Paths \ {"metadataBuffer", "setMetadata", "setValueIn"} : paths'[p] = paths[p]
         /\ paths'["metadataBuffer"] = Append(paths["metadataBuffer"], n)
         /\ paths'["setMetadata"] = Append(paths["setMetadata"], n)
         /\ paths'["setValueIn"] = paths["setValueIn"] \o ValueWords(n)
  BY DEF Demux, Paths

LEMMA DemuxGet ==
  ASSUME paths = [p \in Paths |-> paths[p]], NEW n, ops[n].op = "GET", Demux(n)
  PROVE  /\ paths' = [p \in Paths |-> paths'[p]]
         /\ \A p \in Paths \ {"metadataBuffer", "memRdCmd", "valueLengthQ"} : paths'[p] = paths[p]
         /\ paths'["metadataBuffer"] = Append(paths["metadataBuffer"], n)
         /\ paths'["memRdCmd"] = paths["memRdCmd"] \o CmdsOf(n)
         /\ paths'["valueLengthQ"] = Append(paths["valueLengthQ"], ops[n].words)
  BY DEF Demux, Paths, CmdsOf

-----------------------------------------------------------------------------
(* The steps of both paths.                                                *)

LEMMA DataStay ==
  ASSUME OpsSound, OpsSound', OpsGrow, NEW F, F \subseteq 1 .. Len(ops), NEW P, NEW a \in Nat, NEW d \in Nat, d <= Len(ops), NEW ln, NEW M,
         NEW b \in {0, 1}, NEW line, NEW counter, NEW left, ValuesOf(F, P, a, d, ln, M, b, line, counter, left)
  PROVE  ValuesOf(F, P, a, d, ln, M, b, line, counter, left)'
  <1>1. PICK sm \in Seq(Nat) : sm = P["setMetadata"]
    BY DEF ValuesOf, FifosTyped
  <1>2. SetsInTurn(F, sm, a, d) /\ WordsInTurn(sm, P["setValueIn"], ln) /\ MemoryHolds(M, sm, ln, d) /\ ReadsOf(a, d, b, P, line, counter, left)
    BY <1>1 DEF ValuesOf
  <1>3. \A i \in 1 .. Len(sm) : sm[i] \in 1 .. Len(ops)
    BY <1>2 DEF SetsInTurn
  <1>4. Len(sm) \in Nat /\ (sm = << >> \/ Len(sm) >= 1)
    BY RestIs, LenProperties
  <1>5. SetsInTurn(F, sm, a, d)'
    BY <1>2, <1>3, SetsInTurnStays
  <1>6. WordsInTurn(sm, P["setValueIn"], ln)'
    BY <1>2, <1>3, <1>4, WordsStay
  <1>7. MemoryHolds(M, sm, ln, d)'
    <2>1. sm # << >> => sm[1] \in 1 .. Len(ops)
      BY <1>3, <1>4
    <2> QED  BY <2>1, <1>2, MemoryStays
  <1>8. ReadsOf(a, d, b, P, line, counter, left)'
    BY <1>2, ReadsStay
  <1>9. FifosTyped(P)
    BY DEF ValuesOf
  <1> QED  BY <1>1, <1>5, <1>6, <1>7, <1>8, <1>9 DEF ValuesOf

\* demux.
LEMMA DataPass ==
  ASSUME OpsSound, NEW F, NEW P, NEW a \in Nat, NEW d \in Nat, d + 1 \in 1 .. Len(ops), ops[d + 1].op = "PASS", NEW ln, NEW M, NEW b,
         NEW line, NEW counter, NEW left, ValuesOf(F, P, a, d, ln, M, b, line, counter, left), NEW P2,
         P2 = [p \in Paths |-> P2[p]], \A p \in Paths \ {"metadataBuffer"} : P2[p] = P[p],
         P2["metadataBuffer"] = Append(P["metadataBuffer"], d + 1)
  PROVE  ValuesOf(F, P2, a, d + 1, ln, M, b, line, counter, left)
  <1>1. /\ P2["setMetadata"] = P["setMetadata"] /\ P2["setValueIn"] = P["setValueIn"] /\ P2["memRdCmd"] = P["memRdCmd"]
        /\ P2["valueLengthQ"] = P["valueLengthQ"] /\ P2["memRdData"] = P["memRdData"] /\ P2["getPath2remux"] = P["getPath2remux"]
    BY DEF Paths
  <1>2. FifosTyped(P)
    BY DEF ValuesOf
  <1>3. P2["metadataBuffer"] \in Seq(Nat)
    <2>1. PICK mb \in Seq(Nat) : mb = P["metadataBuffer"]
      BY <1>2 DEF FifosTyped
    <2>2. Append(mb, d + 1) \in Seq(Nat)
      OBVIOUS
    <2> QED  BY <2>1, <2>2
  <1>4. FifosTyped(P2)
    BY <1>1, <1>2, <1>3 DEF FifosTyped
  <1>5. PICK sm \in Seq(Nat) : sm = P["setMetadata"]
    BY <1>2 DEF FifosTyped
  <1>6. SetsInTurn(F, sm, a, d + 1)
    <2>1. SetsInTurn(F, sm, a, d)
      BY <1>5 DEF ValuesOf
    <2>2. ops[d + 1].op # "SET" /\ ops[d + 1].op # "GET"
      OBVIOUS
    <2> QED  BY <2>1, <2>2, SetsGrowGet
  <1>7. MemoryHolds(M, sm, ln, d + 1)
    <2>1. MemoryHolds(M, sm, ln, d) /\ ops[d + 1].op # "SET"
      BY <1>5 DEF ValuesOf
    <2> QED  BY <2>1, MemoryGrow
  <1>8. ReadsOf(a, d + 1, b, P2, line, counter, left)
    <2>1. ReadsOf(a, d, b, P, line, counter, left) /\ ops[d + 1].op # "GET"
      BY DEF ValuesOf
    <2> QED  BY <2>1, <1>1, ReadsGrow
  <1>9. WordsInTurn(P2["setMetadata"], P2["setValueIn"], ln)
    BY <1>1 DEF ValuesOf
  <1> QED  BY <1>1, <1>4, <1>5, <1>6, <1>7, <1>8, <1>9 DEF ValuesOf

LEMMA DataSet ==
  ASSUME OpsSound, NEW F, NEW P, NEW a \in Nat, NEW d \in Nat, d + 1 \in 1 .. Len(ops), ops[d + 1].op = "SET", NEW ln, NEW M, NEW b,
         NEW line, NEW counter, NEW left, ValuesOf(F, P, a, d, ln, M, b, line, counter, left), F \subseteq 1 .. d, NEW P2,
         P2 = [p \in Paths |-> P2[p]], \A p \in Paths \ {"metadataBuffer", "setMetadata", "setValueIn"} : P2[p] = P[p],
         P2["metadataBuffer"] = Append(P["metadataBuffer"], d + 1), P2["setMetadata"] = Append(P["setMetadata"], d + 1),
         P2["setValueIn"] = P["setValueIn"] \o ValueWords(d + 1)
  PROVE  ValuesOf(F \cup {d + 1}, P2, a, d + 1, ln, M, b, line, counter, left)
  <1>1. /\ P2["memRdCmd"] = P["memRdCmd"]
        /\ P2["valueLengthQ"] = P["valueLengthQ"] /\ P2["memRdData"] = P["memRdData"] /\ P2["getPath2remux"] = P["getPath2remux"]
    BY DEF Paths
  <1>2. FifosTyped(P)
    BY DEF ValuesOf
  <1>3. ValueWords(d + 1) \in Seq(ValueItems)
    BY ValueIs
  <1>4. PICK sm \in Seq(Nat) : sm = P["setMetadata"]
    BY <1>2 DEF FifosTyped
  <1>5. PICK q \in Seq(ValueItems) : q = P["setValueIn"]
    BY <1>2 DEF FifosTyped
  <1>6. PICK mb \in Seq(Nat) : mb = P["metadataBuffer"]
    BY <1>2 DEF FifosTyped
  <1>7. Append(sm, d + 1) \in Seq(Nat) /\ Append(mb, d + 1) \in Seq(Nat) /\ q \o ValueWords(d + 1) \in Seq(ValueItems)
    BY <1>3
  <1>8. P2["metadataBuffer"] \in Seq(Nat) /\ P2["setMetadata"] \in Seq(Nat) /\ P2["setValueIn"] \in Seq(ValueItems)
    BY <1>4, <1>5, <1>6, <1>7
  <1>9. FifosTyped(P2)
    BY <1>1, <1>2, <1>8 DEF FifosTyped
  <1>10. SetsInTurn(F \cup {d + 1}, Append(sm, d + 1), a, d + 1)
    <2>1. SetsInTurn(F, sm, a, d)
      BY <1>4 DEF ValuesOf
    <2> QED  BY <2>1, SetsGrowSet
  <1>11. WordsInTurn(sm, q, ln)
    BY <1>4, <1>5 DEF ValuesOf
  <1>12. WordsInTurn(Append(sm, d + 1), q \o ValueWords(d + 1), ln)
    BY <1>11, WordsGrow
  <1>13. MemoryHolds(M, Append(sm, d + 1), ln, d + 1)
    <2>1. MemoryHolds(M, sm, ln, d)
      BY <1>4 DEF ValuesOf
    <2>2. sm = << >> => ln = 0
      BY <1>11 DEF WordsInTurn
    <2> QED  BY <2>1, <2>2, MemoryGrowSet
  <1>14. ReadsOf(a, d + 1, b, P2, line, counter, left)
    <2>1. ReadsOf(a, d, b, P, line, counter, left) /\ ops[d + 1].op # "GET"
      BY DEF ValuesOf
    <2> QED  BY <2>1, <1>1, ReadsGrow
  <1>15. P2["setMetadata"] = Append(sm, d + 1) /\ P2["setValueIn"] = q \o ValueWords(d + 1)
    BY <1>4, <1>5
  <1> QED  BY <1>9, <1>10, <1>12, <1>13, <1>14, <1>15 DEF ValuesOf

\* No SET of the address of n is in F; and n is demuxed as a GET.
NoSetOf(F, n) == \A m \in F : ops[m].op = "SET" => ops[m].addr # ops[n].addr
DemuxedGet(P, P2, n) ==
  /\ P2 = [p \in Paths |-> P2[p]] /\ \A p \in Paths \ {"metadataBuffer", "memRdCmd", "valueLengthQ"} : P2[p] = P[p]
  /\ P2["metadataBuffer"] = Append(P["metadataBuffer"], n) /\ P2["memRdCmd"] = P["memRdCmd"] \o CmdsOf(n)
  /\ P2["valueLengthQ"] = Append(P["valueLengthQ"], ops[n].words)

LEMMA DataGet ==
  ASSUME OpsSound, NEW F, NEW P, NEW a \in Nat, NEW d \in Nat, a <= d, d + 1 \in 1 .. Len(ops), ops[d + 1].op = "GET", NEW ln, NEW M,
         NEW b, b = 0 \/ b = 1, NEW line, NEW counter, NEW left, ValuesOf(F, P, a, d, ln, M, b, line, counter, left),
         NoSetOf(F, d + 1), NEW P2, DemuxedGet(P, P2, d + 1)
  PROVE  ValuesOf(F \cup {d + 1}, P2, a, d + 1, ln, M, b, line, counter, left)
  <1>0. /\ P2 = [p \in Paths |-> P2[p]] /\ \A p \in Paths \ {"metadataBuffer", "memRdCmd", "valueLengthQ"} : P2[p] = P[p]
        /\ P2["metadataBuffer"] = Append(P["metadataBuffer"], d + 1) /\ P2["memRdCmd"] = P["memRdCmd"] \o CmdsOf(d + 1)
        /\ P2["valueLengthQ"] = Append(P["valueLengthQ"], ops[d + 1].words)
    BY DEF DemuxedGet
  <1>1. /\ P2["setMetadata"] = P["setMetadata"] /\ P2["setValueIn"] = P["setValueIn"]
        /\ P2["memRdData"] = P["memRdData"] /\ P2["getPath2remux"] = P["getPath2remux"]
    BY <1>0 DEF Paths
  <1>2. FifosTyped(P)
    BY DEF ValuesOf
  <1>3. CmdsOf(d + 1) \in Seq(ReadCmds) /\ ops[d + 1].words \in Nat
    BY CmdsAre, OpIs
  <1>4. PICK sm \in Seq(Nat) : sm = P["setMetadata"]
    BY <1>2 DEF FifosTyped
  <1>5. PICK q \in Seq(ReadCmds) : q = P["memRdCmd"]
    BY <1>2 DEF FifosTyped
  <1>6. PICK mb \in Seq(Nat) : mb = P["metadataBuffer"]
    BY <1>2 DEF FifosTyped
  <1>7. PICK lq \in Seq(Nat) : lq = P["valueLengthQ"]
    BY <1>2 DEF FifosTyped
  <1>8. Append(lq, ops[d + 1].words) \in Seq(Nat) /\ Append(mb, d + 1) \in Seq(Nat) /\ q \o CmdsOf(d + 1) \in Seq(ReadCmds)
    BY <1>3
  <1>9. P2["metadataBuffer"] \in Seq(Nat) /\ P2["memRdCmd"] \in Seq(ReadCmds) /\ P2["valueLengthQ"] \in Seq(Nat)
    BY <1>0, <1>5, <1>6, <1>7, <1>8
  <1>10. FifosTyped(P2)
    BY <1>0, <1>1, <1>2, <1>9 DEF FifosTyped
  <1>11. SetsInTurn(F \cup {d + 1}, sm, a, d + 1)
    <2>1. SetsInTurn(F, sm, a, d)
      BY <1>4 DEF ValuesOf
    <2>2. PICK G : G = F \cup {d + 1}
      OBVIOUS
    <2>3. F \subseteq G /\ ops[d + 1].op # "SET"
      BY <2>2
    <2>a. \A m \in F : ops[m].op = "SET" => ops[m].addr # ops[d + 1].addr
      BY DEF NoSetOf
    <2>4. SetsInTurn(G, sm, a, d + 1)
      BY <2>1, <2>3, <2>a, SetsGrowGet
    <2> QED  BY <2>2, <2>4
  <1>12. MemoryHolds(M, sm, ln, d + 1)
    <2>1. MemoryHolds(M, sm, ln, d) /\ ops[d + 1].op # "SET"
      BY <1>4 DEF ValuesOf
    <2> QED  BY <2>1, MemoryGrow
  <1>13. ReadsOf(a, d + 1, b, P2, line, counter, left)
    <2>1. ReadsOf(a, d, b, P, line, counter, left)
      BY DEF ValuesOf
    <2>2. P2["memRdCmd"] = P["memRdCmd"] \o CmdsOf(d + 1) /\ P2["valueLengthQ"] = Append(P["valueLengthQ"], ops[d + 1].words)
      BY <1>0
    <2>3. b \in {0, 1}
      OBVIOUS
    <2> QED  BY <2>1, <2>2, <2>3, <1>1, <1>2, ReadsGrowGet
  <1>14. WordsInTurn(P2["setMetadata"], P2["setValueIn"], ln)
    BY <1>1 DEF ValuesOf
  <1> QED  BY <1>1, <1>4, <1>10, <1>11, <1>12, <1>13, <1>14 DEF ValuesOf

\* A step of the read path.
LEMMA DataReads ==
  ASSUME NEW F, NEW P, NEW a, NEW d, NEW ln, NEW M, NEW b, NEW line, NEW counter, NEW left,
         ValuesOf(F, P, a, d, ln, M, b, line, counter, left), NEW P2, FifosTyped(P2),
         P2["setMetadata"] = P["setMetadata"], P2["setValueIn"] = P["setValueIn"],
         NEW b2, NEW x, NEW k, NEW l, ReadsOf(a, d, b2, P2, x, k, l)
  PROVE  ValuesOf(F, P2, a, d, ln, M, b2, x, k, l)
  BY DEF ValuesOf

\* setPath writes a line.
LineWritten(P2, ln, ln2, M, M2, k, n, final) ==
  /\ k = WordsOfLine /\ n = Head(paths["setMetadata"]) /\ final = paths["setValueIn"][k].eop
  /\ P2 = [p \in Paths |-> P2[p]] /\ \A p \in Paths \ {"setMetadata", "setValueIn"} : P2[p] = paths[p]
  /\ P2["setValueIn"] = LastPart(paths["setValueIn"], k)
  /\ P2["setMetadata"] = (IF final THEN Tail(paths["setMetadata"]) ELSE paths["setMetadata"])
  /\ ln2 = (IF final THEN 0 ELSE ln + 1)
  /\ M2 = [M EXCEPT ![ops[n].addr][ln] = LineOfWords(paths["setValueIn"], k, BufferOf(M, ops[n].addr, ln))]

LEMMA DataWritten ==
  ASSUME OpsSound, NEW F, F \subseteq 1 .. Len(ops), NEW a, NEW d \in Nat, d <= Len(ops), NEW ln, NEW M, NEW b,
         NEW line, NEW counter, NEW left, ValuesOf(F, paths, a, d, ln, M, b, line, counter, left), paths["setMetadata"] # << >>,
         NEW k, NEW n, NEW final, NEW P2, NEW ln2, NEW M2, LineWritten(P2, ln, ln2, M, M2, k, n, final)
  PROVE  ValuesOf(F, P2, a, d, ln2, M2, b, line, counter, left)
  <1>w. /\ k = WordsOfLine /\ n = Head(paths["setMetadata"]) /\ final = paths["setValueIn"][k].eop
        /\ P2 = [p \in Paths |-> P2[p]] /\ \A p \in Paths \ {"setMetadata", "setValueIn"} : P2[p] = paths[p]
        /\ P2["setValueIn"] = LastPart(paths["setValueIn"], k)
        /\ P2["setMetadata"] = (IF final THEN Tail(paths["setMetadata"]) ELSE paths["setMetadata"])
        /\ ln2 = (IF final THEN 0 ELSE ln + 1)
        /\ M2 = [M EXCEPT ![ops[n].addr][ln] = LineOfWords(paths["setValueIn"], k, BufferOf(M, ops[n].addr, ln))]
    BY DEF LineWritten
  <1> USE <1>w
  <1>0. FifosTyped(paths)
    BY DEF ValuesOf
  <1>1. PICK sm \in Seq(Nat) : sm = paths["setMetadata"] /\ sm # << >>
    BY <1>0 DEF FifosTyped
  <1>2. PICK q \in Seq(ValueItems) : q = paths["setValueIn"]
    BY <1>0 DEF FifosTyped
  <1>3. SetsInTurn(F, sm, a, d) /\ WordsInTurn(sm, q, ln) /\ MemoryHolds(M, sm, ln, d) /\ ReadsOf(a, d, b, paths, line, counter, left)
    BY <1>1, <1>2 DEF ValuesOf
  <1>4. \A i \in 1 .. Len(sm) : sm[i] \in 1 .. Len(ops) /\ ops[sm[i]].op = "SET"
    BY <1>3 DEF SetsInTurn
  <1>5. n = sm[1] /\ Len(sm) \in Nat /\ Len(sm) >= 1 /\ Tail(sm) \in Seq(Nat)
    <2>1. n = Head(sm) /\ sm # << >>
      BY <1>1
    <2> QED  BY ONLY <2>1, RestIs, sm \in Seq(Nat)
  <1>6. n \in 1 .. Len(ops) /\ ops[n].op = "SET" /\ sm[1] \in 1 .. Len(ops) /\ ops[sm[1]].op = "SET"
    BY ONLY <1>4, <1>5
  <1>7. ops[n].words \in Nat /\ n \in Nat
    BY ONLY <1>6, OpIs, OpsSound
  <1>8. ln \in Nat /\ ln * LineWords < ops[n].words
    <2>1. ln \in Nat /\ ln * LineWords < ops[sm[1]].words
      BY ONLY <1>1, <1>3 DEF WordsInTurn
    <2> QED  BY ONLY <2>1, <1>5
  <1>9. PICK p \in Nat : p = ln * LineWords
    <2>1. ln * LineWords \in Nat
      BY ONLY <1>8, NextLine
    <2> QED  BY ONLY <2>1
  <1>10. /\ k \in Nat /\ k >= 1 /\ k <= LineWords /\ p + k <= ops[n].words
         /\ final <=> p + k = ops[n].words
         /\ p + k = ops[n].words \/ k = LineWords
         /\ \A i \in 1 .. k : q[i].data = <<n, p + i>>
    <2>1. WordsInTurn(sm, paths["setValueIn"], ln)
      BY <1>2, <1>3
    <2>2. LET x == WordsOfLine
              y == paths["setValueIn"]
              h == sm[1]
              w == ops[h].words
              z == ln * LineWords
          IN /\ x \in Nat /\ x >= 1 /\ x <= LineWords /\ z \in Nat /\ z + x <= w
             /\ y[x].eop <=> z + x = w
             /\ z + x = w \/ x = LineWords
             /\ \A i \in 1 .. x : y[i].data = <<h, z + i>>
             /\ z + LineWords >= w => z + x = w
      BY <2>1, <1>0, <1>1, <1>6, LineTaken
    <2> QED  BY <2>2, <1>2, <1>5, <1>9
  <1>11. LineOfWords(q, k, BufferOf(M, ops[n].addr, ln)) = LineOf(n, ln)
    <2>1. ln * LineWords + k <= ops[n].words
      BY <1>9, <1>10
    <2>2. ln * LineWords + k = ops[n].words \/ k = LineWords
      BY <1>9, <1>10
    <2>3. WordsAre(q, k, n, ln)
      BY <1>9, <1>10 DEF WordsAre
    <2>4. n \in Nat /\ ln \in Nat /\ k \in Nat /\ ops[n].words \in Nat
      BY <1>7, <1>8, <1>10
    <2>5. FullBefore(n, ln, BufferOf(M, ops[n].addr, ln))
      <3>1. \A l \in 0 .. ln - 1 : M[ops[sm[1]].addr][l] = LineOf(sm[1], l)
        BY ONLY <1>1, <1>3 DEF MemoryHolds
      <3>2. \A l \in 0 .. ln - 1 : M[ops[n].addr][l] = LineOf(n, l)
        BY ONLY <3>1, <1>5
      <3> QED  BY ONLY <3>2, <2>4, <1>8, ValueBufferIs
    <2> HIDE <1>w
    <2> QED  BY ONLY <2>1, <2>2, <2>3, <2>4, <2>5, LineIs
  <1>12. M2 = [M EXCEPT ![ops[sm[1]].addr][ln] = LineOf(sm[1], ln)]
    BY <1>2, <1>5, <1>11
  <1>13. ln * LineWords < ops[sm[1]].words
    BY <1>5, <1>8
  <1>14. /\ MemoryHolds(M2, sm, ln + 1, d)
         /\ ln * LineWords + LineWords >= ops[sm[1]].words => MemoryHolds(M2, Tail(sm), 0, d)
    BY <1>1, <1>3, <1>6, <1>8, <1>12, <1>13, MemoryWritten
  <1>15. ln * LineWords + k <= ops[sm[1]].words /\ k \in Nat /\ LineWords \in Nat
    BY <1>5, <1>9, <1>10, StoreAssumption
  <1>16. /\ LastPart(q, k) \in Seq(ValueItems)
         /\ ln * LineWords + k = ops[sm[1]].words => WordsInTurn(Tail(sm), LastPart(q, k), 0)
         /\ ln * LineWords + k < ops[sm[1]].words /\ k = LineWords => WordsInTurn(sm, LastPart(q, k), ln + 1)
    BY <1>1, <1>3, <1>4, <1>15, LineLeaves DEF LastPart
  <1>17. ReadsOf(a, d, b, P2, line, counter, left)
    <2>1. /\ P2["memRdCmd"] = paths["memRdCmd"] /\ P2["valueLengthQ"] = paths["valueLengthQ"]
          /\ P2["memRdData"] = paths["memRdData"] /\ P2["getPath2remux"] = paths["getPath2remux"]
      BY DEF Paths
    <2> QED  BY <2>1, <1>3, ReadsSame
  <1>18. P2["setValueIn"] = LastPart(q, k) /\ P2["setMetadata"] = (IF final THEN Tail(sm) ELSE sm)
    BY <1>1, <1>2
  <1>19. FifosTyped(P2)
    <2>1. P2["setMetadata"] \in Seq(Nat) /\ P2["setValueIn"] \in Seq(ValueItems)
      BY <1>5, <1>16, <1>18
    <2>2. /\ P2["memRdCmd"] = paths["memRdCmd"] /\ P2["valueLengthQ"] = paths["valueLengthQ"]
          /\ P2["memRdData"] = paths["memRdData"] /\ P2["getPath2remux"] = paths["getPath2remux"]
          /\ P2["metadataBuffer"] = paths["metadataBuffer"]
      BY DEF Paths
    <2> QED  BY <2>1, <2>2, <1>0 DEF FifosTyped
  <1>20. CASE final
    <2>1. P2["setMetadata"] = Tail(sm) /\ ln2 = 0
      BY <1>18, <1>20
    <2>2. p + k = ops[n].words
      BY ONLY <1>10, <1>20
    <2>a. k \in Nat /\ k <= LineWords
      BY ONLY <1>10
    <2>3. p + LineWords >= ops[n].words
      <3>1. LineWords \in Nat
        BY ONLY StoreAssumption
      <3> QED  BY ONLY <2>2, <2>a, <3>1, p \in Nat
    <2>4. MemoryHolds(M2, Tail(sm), 0, d)
      BY <2>3, <1>5, <1>9, <1>14
    <2>5. WordsInTurn(Tail(sm), LastPart(q, k), 0)
      BY <2>2, <1>5, <1>9, <1>16
    <2>6. SetsInTurn(F, Tail(sm), a, d)
      BY <1>1, <1>3, SetsWritten
    <2> QED  BY <2>1, <2>4, <2>5, <2>6, <1>17, <1>18, <1>19 DEF ValuesOf
  <1>21. CASE ~ final
    <2>1. P2["setMetadata"] = sm /\ ln2 = ln + 1
      BY <1>18, <1>21
    <2>2. p + k < ops[n].words /\ k = LineWords
      <3>1. p + k # ops[n].words /\ k = LineWords
        BY ONLY <1>10, <1>21
      <3>2. ops[n].words \in Nat
        BY <1>7
      <3>3. p + k \in Nat /\ p + k <= ops[n].words
        BY ONLY <1>10, p \in Nat
      <3> QED  BY ONLY <3>1, <3>2, <3>3
    <2>3. WordsInTurn(sm, LastPart(q, k), ln + 1)
      BY <2>2, <1>5, <1>9, <1>16
    <2> QED  BY <2>1, <2>3, <1>3, <1>14, <1>17, <1>18, <1>19 DEF ValuesOf
  <1> QED  BY <1>20, <1>21

-----------------------------------------------------------------------------
(* accessControl: the streams to pop are those of the entries.             *)

LEMMA PopsTyped ==
  ASSUME NEW p \in {0, 1, 2}, NEW q \in Seq({0, 1})
  PROVE  PopsOf(p, q) \in Seq({0, 1})
  <1>1. CASE p = NoOne
    BY <1>1 DEF PopsOf
  <1>2. CASE p # NoOne
    <2>1. <<p>> \in Seq({0, 1})
      BY <1>2 DEF NoOne
    <2>2. PICK s \in Seq({0, 1}) : s = <<p>>
      BY <2>1
    <2>3. s \o q \in Seq({0, 1})
      OBVIOUS
    <2> QED  BY <2>2, <2>3, <1>2 DEF PopsOf
  <1> QED  BY <1>1, <1>2

LEMMA PopsNext ==
  ASSUME NEW q \in Seq({0, 1}), q # << >>
  PROVE  Head(q) \in {0, 1} /\ Tail(q) \in Seq({0, 1}) /\ PopsOf(Head(q), Tail(q)) = q /\ PopsOf(NoOne, q) = q
  <1>1. Head(q) \in {0, 1} /\ Tail(q) \in Seq({0, 1})
    BY RestIs
  <1>2. <<Head(q)>> \o Tail(q) = q
    <2> DEFINE x == <<Head(q)>>
               y == Tail(q)
               z == x \o y
    <2>1. x \in Seq({0, 1}) /\ Len(x) = 1 /\ x[1] = Head(q)
      BY <1>1
    <2>2. y \in Seq({0, 1}) /\ Len(q) \in Nat /\ Len(q) >= 1 /\ Len(y) = Len(q) - 1 /\ (\A i \in 1 .. Len(q) - 1 : y[i] = q[i + 1]) /\ Head(q) = q[1]
      BY RestIs
    <2> HIDE DEF x, y
    <2>3. /\ z \in Seq({0, 1}) /\ Len(z) = Len(x) + Len(y) /\ (\A i \in 1 .. Len(x) : z[i] = x[i])
          /\ \A i \in 1 .. Len(y) : z[Len(x) + i] = y[i]
      <3>1. x \in Seq({0, 1})
        BY <2>1
      <3>2. y \in Seq({0, 1})
        BY <2>2
      <3>3. PICK S : S = {0, 1}
        OBVIOUS
      <3>4. x \in Seq(S) /\ y \in Seq(S)
        BY <3>1, <3>2, <3>3
      <3>5. /\ z \in Seq(S) /\ Len(z) = Len(x) + Len(y) /\ (\A i \in 1 .. Len(x) : z[i] = x[i])
            /\ \A i \in 1 .. Len(y) : z[Len(x) + i] = y[i]
        BY <3>4, JoinIs
      <3> HIDE DEF z
      <3> QED  BY <3>3, <3>5
    <2> HIDE DEF z
    <2>4. Len(z) = Len(q)
      BY <2>1, <2>2, <2>3
    <2>5. ASSUME NEW i \in 1 .. Len(q)
          PROVE  z[i] = q[i]
      <3>1. CASE i = 1
        <4>1. 1 \in 1 .. Len(x)
          BY <2>1
        <4> QED  BY <4>1, <3>1, <2>1, <2>2, <2>3
      <3>2. CASE i # 1
        <4>1. PICK j \in Nat : j = i - 1
          BY <2>2
        <4>2. j \in 1 .. Len(q) - 1 /\ j \in 1 .. Len(y) /\ Len(x) + j = i /\ j + 1 = i
          BY <4>1, <3>2, <2>1, <2>2
        <4>3. z[Len(x) + j] = y[j]
          BY <4>2, <2>3
        <4>4. y[j] = q[j + 1]
          BY <4>2, <2>2
        <4> QED  BY <4>2, <4>3, <4>4
      <3> QED  BY <3>1, <3>2
    <2>6. z = q
      BY <2>3, <2>4, <2>5, SeqEqual
    <2> QED  BY <2>6 DEF x, y, z
  <1>3. Head(q) # NoOne
    BY <1>1 DEF NoOne
  <1> QED  BY <1>1, <1>2, <1>3 DEF PopsOf

LEMMA PopsLonger ==
  ASSUME NEW p \in {0, 1, 2}, NEW q \in Seq({0, 1}), NEW x \in {0, 1}
  PROVE  PopsOf(p, Append(q, x)) = Append(PopsOf(p, q), x)
  <1>1. CASE p = NoOne
    BY <1>1 DEF PopsOf
  <1>2. CASE p # NoOne
    <2>1. <<p>> \in Seq({0, 1})
      BY <1>2 DEF NoOne
    <2>2. PICK s \in Seq({0, 1}) : s = <<p>>
      BY <2>1
    <2>3. JoinOf(s \o q, s, q)
      BY DEF JoinOf
    <2>4. JoinOf(Append(s \o q, x), s, Append(q, x))
      BY <2>3, JoinLonger
    <2> QED  BY <2>2, <2>4, <1>2 DEF PopsOf, JoinOf
  <1> QED  BY <1>1, <1>2

LEMMA PopsRest ==
  ASSUME NEW p \in {0, 1}, NEW q \in Seq({0, 1})
  PROVE  /\ PopsOf(p, q) \in Seq({0, 1}) /\ PopsOf(p, q) # << >> /\ PopsOf(p, q)[1] = p /\ Tail(PopsOf(p, q)) = q
  <1>1. PopsOf(p, q) = <<p>> \o q
    BY DEF PopsOf, NoOne
  <1> DEFINE x == <<p>>
             z == x \o q
             t == Tail(z)
  <1>2. x \in Seq({0, 1}) /\ Len(x) = 1 /\ x[1] = p
    OBVIOUS
  <1> HIDE DEF x
  <1>3. /\ z \in Seq({0, 1}) /\ Len(q) \in Nat /\ Len(z) = Len(x) + Len(q) /\ (\A i \in 1 .. Len(x) : z[i] = x[i])
        /\ \A i \in 1 .. Len(q) : z[Len(x) + i] = q[i]
    <2>1. x \in Seq({0, 1})
      BY <1>2
    <2>3. PICK S : S = {0, 1}
      OBVIOUS
    <2>4. x \in Seq(S) /\ q \in Seq(S)
      BY <2>1, <2>3
    <2>5. /\ z \in Seq(S) /\ Len(q) \in Nat /\ Len(z) = Len(x) + Len(q) /\ (\A i \in 1 .. Len(x) : z[i] = x[i])
          /\ \A i \in 1 .. Len(q) : z[Len(x) + i] = q[i]
      BY <2>4, JoinIs
    <2> HIDE DEF z
    <2> QED  BY <2>3, <2>5
  <1> HIDE DEF z
  <1>4. Len(z) = Len(q) + 1 /\ z[1] = p
    <2>1. 1 \in 1 .. Len(x)
      BY <1>2
    <2> QED  BY <2>1, <1>2, <1>3
  <1>5. z # << >>
    BY <1>3, <1>4
  <1>6. t \in Seq({0, 1}) /\ Len(t) = Len(z) - 1 /\ \A i \in 1 .. Len(z) - 1 : t[i] = z[i + 1]
    BY <1>3, <1>5, RestIs
  <1> HIDE DEF t
  <1>7. Len(t) = Len(q)
    BY <1>3, <1>4, <1>6
  <1>8. ASSUME NEW i \in 1 .. Len(q)
        PROVE  t[i] = q[i]
    <2>1. i \in 1 .. Len(z) - 1 /\ Len(x) + i = i + 1
      BY <1>2, <1>3, <1>4
    <2> QED  BY <2>1, <1>3, <1>6
  <1>9. t = q
    BY <1>6, <1>7, <1>8, SeqEqual
  <1> QED  BY <1>1, <1>3, <1>4, <1>5, <1>9 DEF z, x, t

LEMMA StreamsLonger ==
  ASSUME NEW h \in Seq(Nat), NEW p \in Seq({0, 1}), Streaming(h, p), NEW n \in Nat
  PROVE  Streaming(Append(h, n), Append(p, StreamOf(n)))
  <1> DEFINE H == Append(h, n)
             P == Append(p, StreamOf(n))
             k == Len(h)
  <1>1. StreamOf(n) \in {0, 1}
    BY DEF StreamOf
  <1>2. k \in Nat /\ Len(H) = k + 1 /\ (\A i \in 1 .. k : H[i] = h[i]) /\ H[k + 1] = n
    BY LongerIs
  <1>3. Len(p) = k /\ \A i \in 1 .. k : p[i] = StreamOf(h[i])
    BY DEF Streaming
  <1>4. Len(P) = k + 1 /\ (\A i \in 1 .. k : P[i] = p[i]) /\ P[k + 1] = StreamOf(n)
    BY <1>1, <1>3, LongerIs
  <1> HIDE DEF H, P, k
  <1>5. ASSUME NEW i \in 1 .. k + 1
        PROVE  P[i] = StreamOf(H[i])
    <2>1. i \in 1 .. k \/ i = k + 1
      BY <1>2
    <2>2. CASE i = k + 1
      BY <2>2, <1>2, <1>4
    <2>3. CASE i \in 1 .. k
      BY <2>3, <1>2, <1>3, <1>4
    <2> QED  BY <2>1, <2>2, <2>3
  <1>6. Streaming(H, P)
    BY <1>2, <1>4, <1>5 DEF Streaming
  <1> QED  BY <1>6 DEF H, P

LEMMA StreamsRest ==
  ASSUME NEW h \in Seq(Nat), NEW p \in Seq({0, 1}), Streaming(h, p), p # << >>
  PROVE  h # << >> /\ p[1] = StreamOf(h[1]) /\ Streaming(Tail(h), Tail(p))
  <1>1. Len(p) = Len(h) /\ \A i \in 1 .. Len(h) : p[i] = StreamOf(h[i])
    BY DEF Streaming
  <1> DEFINE H == Tail(h)
             P == Tail(p)
             k == Len(h)
  <1>2. Len(p) \in Nat /\ Len(p) >= 1 /\ Len(P) = Len(p) - 1 /\ \A i \in 1 .. Len(p) - 1 : P[i] = p[i + 1]
    BY RestIs
  <1>3. h # << >>
    BY <1>1, <1>2
  <1>4. Len(H) = k - 1 /\ \A i \in 1 .. k - 1 : H[i] = h[i + 1]
    BY <1>3, RestIs
  <1> HIDE DEF H, P
  <1>5. ASSUME NEW i \in 1 .. Len(H)
        PROVE  P[i] = StreamOf(H[i])
    <2>1. i \in 1 .. k - 1 /\ i + 1 \in 1 .. k /\ i \in 1 .. Len(p) - 1
      BY <1>1, <1>2, <1>4
    <2>2. P[i] = p[i + 1] /\ H[i] = h[i + 1] /\ p[i + 1] = StreamOf(h[i + 1])
      BY <2>1, <1>1, <1>2, <1>4
    <2> QED  BY <2>2
  <1>6. Streaming(H, P)
    BY <1>1, <1>2, <1>4, <1>5 DEF Streaming
  <1>7. p[1] = StreamOf(h[1])
    BY <1>1, <1>2
  <1> QED  BY <1>3, <1>6, <1>7 DEF H, P

LEMMA StreamsStay ==
  ASSUME OpsGrow, NEW h, NEW p, Streaming(h, p), \A i \in 1 .. Len(h) : h[i] \in 1 .. Len(ops)
  PROVE  Streaming(h, p)'
  <1>1. ASSUME NEW i \in 1 .. Len(h)
        PROVE  p[i] = StreamOf(h[i])'
    <2>1. PICK n \in 1 .. Len(ops) : n = h[i]
      OBVIOUS
    <2>2. ops'[n] = ops[n]
      BY DEF OpsGrow
    <2>3. p[i] = StreamOf(n)
      BY <2>1 DEF Streaming
    <2> QED  BY <2>1, <2>2, <2>3 DEF StreamOf
  <1> QED  BY <1>1 DEF Streaming

-----------------------------------------------------------------------------
(* What the steps leave as it is.                                          *)

LEMMA FlowFacts ==
  ASSUME FlowsFresh
  PROVE  /\ OpsSound /\ DataFlows /\ InTurn /\ FilterOrder /\ CountsAgree /\ RecTyped /\ AnsweredFresh /\ FifosTyped(paths)
         /\ Len(ops) \in Nat /\ Done \in Nat /\ Demuxed \in Nat /\ Done <= Demuxed /\ Demuxed <= Len(ops)
         /\ HeldCount \in {0, 1} /\ Reading \in {0, 1} /\ Len(inData) \in Nat /\ Demuxed + HeldCount + Len(inData) = Len(ops)
         /\ Members(accFilter) \subseteq 1 .. Demuxed /\ Members(accFilter) \subseteq 1 .. Len(ops)
  <1>1. OpsSound /\ DataFlows /\ InTurn /\ FilterOrder /\ CountsAgree /\ RecTyped /\ AnsweredFresh
    BY DEF FlowsFresh
  <1>2. FifosTyped(paths)
    BY <1>1 DEF DataFlows, ValuesOf
  <1>3. Len(ops) \in Nat
    BY <1>1 DEF OpsSound
  <1>4. answers \in Seq([req : Nat, value : Seq(Pairs)]) /\ inData \in Seq(Nat) /\ Demuxed + HeldCount + Len(inData) = Len(ops)
    BY <1>1 DEF InTurn
  <1>5. Done \in Nat /\ Len(inData) \in Nat
    BY <1>4 DEF Done
  <1>6. PICK mb \in Seq(Nat) : mb = paths["metadataBuffer"]
    BY <1>2 DEF FifosTyped
  <1>7. Demuxed = Done + Len(mb) /\ Len(mb) \in Nat
    BY <1>6 DEF Done, Demuxed
  <1>8. HeldCount \in {0, 1} /\ Reading \in {0, 1}
    BY DEF HeldCount, Reading
  <1>9. Demuxed \in Nat /\ Done <= Demuxed /\ Demuxed <= Len(ops)
    BY <1>3, <1>4, <1>5, <1>7, <1>8
  <1>10. Members(accFilter) \subseteq 1 .. Demuxed
    BY <1>1 DEF FilterOrder, Members
  <1>11. Members(accFilter) \subseteq 1 .. Len(ops)
    BY <1>3, <1>9, <1>10
  <1> QED  BY <1>1, <1>2, <1>3, <1>4, <1>5, <1>8, <1>9, <1>10, <1>11

LEMMA DataNext ==
  ASSUME OpsSound, OpsSound', OpsGrow, Members(accFilter') \subseteq 1 .. Len(ops), Done' \in Nat, Demuxed' \in Nat, Demuxed' <= Len(ops),
         NEW b \in {0, 1}, Reading' = b,
         ValuesOf(Members(accFilter'), paths', Done', Demuxed', lines', dram', b, rec'.line, rec'.counter, rec'.left)
  PROVE  DataFlows'
  <1>1. PICK F, P, a, d, ln, M, x, k, l : F = Members(accFilter') /\ P = paths' /\ a = Done' /\ d = Demuxed' /\ ln = lines' /\ M = dram'
                                          /\ x = rec'.line /\ k = rec'.counter /\ l = rec'.left
    OBVIOUS
  <1>2. ValuesOf(F, P, a, d, ln, M, b, x, k, l) /\ F \subseteq 1 .. Len(ops) /\ a \in Nat /\ d \in Nat /\ d <= Len(ops)
    BY <1>1
  <1>3. ValuesOf(F, P, a, d, ln, M, b, x, k, l)'
    BY <1>2, DataStay
  <1> QED  BY <1>1, <1>3 DEF DataFlows, Members, Done, Demuxed, Reading

LEMMA InTurnSame ==
  ASSUME InTurn, ops' = ops, answers' = answers, paths'["metadataBuffer"] = paths["metadataBuffer"], acc' = acc, inData' = inData
  PROVE  InTurn' /\ Done' = Done /\ Demuxed' = Demuxed
  BY DEF InTurn, Done, Demuxed, Holding, HeldCount

LEMMA FilterSame ==
  ASSUME FilterOrder, InTurn, ops' = ops, accFilter' = accFilter, seqQ' = seqQ, acc' = acc, sbuild' = sbuild, Demuxed' = Demuxed,
         pops' \in [{0, 1} -> Nat], pops'[0] >= pops[0], pops'[1] >= pops[1]
  PROVE  FilterOrder'
  <1>1. acc.pop \in {0, 1, 2}
    BY DEF InTurn
  <1>2. CanPop => CanPop'
    <2>1. pops \in [{0, 1} -> Nat]
      BY DEF FilterOrder
    <2>2. CASE acc.pop = 0
      BY <2>1, <2>2 DEF CanPop, NoOne
    <2>3. CASE acc.pop = 1
      BY <2>1, <2>3 DEF CanPop, NoOne
    <2>4. CASE acc.pop = 2
      BY <2>4 DEF CanPop, NoOne
    <2> QED  BY <1>1, <2>2, <2>3, <2>4
  <1>3. AccCompare(acc.req)' <=> AccCompare(acc.req)
    BY DEF AccCompare
  <1>4. Streaming(HeldSeq, PopsOf(acc.pop, seqQ))' <=> Streaming(HeldSeq, PopsOf(acc.pop, seqQ))
    BY DEF Streaming, HeldSeq, PopsOf, StreamOf, Holding
  <1> QED  BY <1>2, <1>3, <1>4 DEF FilterOrder, Rising

LEMMA CountsSame ==
  ASSUME CountsAgree, ops' = ops, accFilter' = accFilter,
         pops'[1] + Len(paths'["setMetadata"]) = pops[1] + Len(paths["setMetadata"]),
         pops'[0] + Len(paths'["valueLengthQ"]) + Reading' = pops[0] + Len(paths["valueLengthQ"]) + Reading
  PROVE  CountsAgree'
  <1>1. EnteredOf("SET")' = EnteredOf("SET") /\ EnteredOf("GET")' = EnteredOf("GET")
    BY DEF EnteredOf, Members
  <1>2. /\ Cardinality(EnteredOf("SET")') = pops'[1] + Len(paths'["setMetadata"])
        /\ Cardinality(EnteredOf("GET")') = pops'[0] + Len(paths'["valueLengthQ"]) + Reading'
    BY <1>1 DEF CountsAgree
  <1> QED  BY <1>2 DEF CountsAgree

LEMMA AnsweredStays ==
  ASSUME AnsweredFresh, OpsSound, OpsSound', OpsGrow, answers' = answers, Done \in Nat, Done <= Len(ops)
  PROVE  AnsweredFresh'
  <1> SUFFICES ASSUME NEW k \in 1 .. Len(answers'), ops'[k].op = "GET"
               PROVE  FreshPart(k, answers[k].value)' /\ Len(answers'[k].value) = ops'[k].words
    BY DEF AnsweredFresh
  <1>1. k \in 1 .. Len(ops) /\ k \in 1 .. Len(answers)
    BY DEF OpsGrow, Done
  <1>2. ops'[k] = ops[k]
    BY <1>1 DEF OpsGrow
  <1>3. PICK v : v = answers[k].value
    OBVIOUS
  <1>4. FreshPart(k, v) /\ Len(v) = ops[k].words /\ ops[k].op = "GET"
    BY <1>1, <1>2, <1>3 DEF AnsweredFresh
  <1>5. FreshPart(k, v)'
    BY <1>1, <1>4, PartStays
  <1> QED  BY <1>2, <1>3, <1>4, <1>5

LEMMA RecSame ==
  ASSUME RecTyped, rec' = rec
  PROVE  RecTyped' /\ Reading' = Reading
  BY DEF RecTyped, Reading

\* The request that accessControl holds.
LEMMA HeldIs ==
  ASSUME FlowsFresh
  PROVE  /\ HeldSeq \in Seq(Nat) /\ \A i \in 1 .. Len(HeldSeq) : HeldSeq[i] \in 1 .. Len(ops)
         /\ accFilter \in Seq(Nat) /\ \A i \in 1 .. Len(accFilter) : accFilter[i] \in 1 .. Len(ops)
         /\ Holding => /\ acc.req = Demuxed + 1 /\ acc.req \in 1 .. Len(ops) /\ acc.req \in Nat /\ ops[acc.req].op \in {"SET", "GET"}
                       /\ HeldSeq = Append(accFilter, acc.req) /\ HeldSeq # << >> /\ HeldCount = 1
         /\ ~ Holding => HeldSeq = accFilter /\ HeldCount = 0
  <1>1. /\ InTurn /\ FilterOrder /\ OpsSound /\ Len(ops) \in Nat /\ Demuxed \in Nat /\ Demuxed <= Len(ops)
        /\ Len(inData) \in Nat /\ Demuxed + HeldCount + Len(inData) = Len(ops)
    BY FlowFacts
  <1>2. accFilter \in Seq(Nat) /\ \A i \in 1 .. Len(accFilter) : accFilter[i] \in 1 .. Len(ops)
    BY <1>1 DEF FilterOrder
  <1>3. CASE ~ Holding
    BY <1>2, <1>3 DEF HeldSeq, HeldCount
  <1>4. CASE Holding
    <2>1. HeldCount = 1 /\ HeldSeq = Append(accFilter, acc.req)
      BY <1>4 DEF HeldSeq, HeldCount
    <2>2. acc.req = Demuxed + 1 /\ ops[acc.req].op # "PASS"
      BY <1>1, <1>4 DEF InTurn
    <2>3. acc.req \in 1 .. Len(ops) /\ acc.req \in Nat
      BY <1>1, <2>1, <2>2
    <2>4. ops[acc.req].op \in {"SET", "GET"}
      BY <1>1, <2>2, <2>3, OpIs
    <2>5. PICK n \in Nat : n = acc.req /\ n \in 1 .. Len(ops)
      BY <2>3
    <2>6. PICK h : h = Append(accFilter, n)
      OBVIOUS
    <2>7. h \in Seq(Nat) /\ Len(accFilter) \in Nat /\ Len(h) = Len(accFilter) + 1 /\ (\A i \in 1 .. Len(accFilter) : h[i] = accFilter[i]) /\ h[Len(accFilter) + 1] = n
      BY <1>2, <2>6, LongerIs
    <2>8. \A i \in 1 .. Len(h) : h[i] \in 1 .. Len(ops)
      <3> SUFFICES ASSUME NEW i \in 1 .. Len(h)
                   PROVE  h[i] \in 1 .. Len(ops)
        OBVIOUS
      <3>1. i \in 1 .. Len(accFilter) \/ i = Len(accFilter) + 1
        BY <2>7
      <3> QED  BY <3>1, <2>5, <2>7, <1>2
    <2>9. h # << >>
      BY <2>7
    <2> QED  BY <1>2, <1>4, <2>1, <2>2, <2>3, <2>4, <2>5, <2>6, <2>7, <2>8, <2>9
  <1> QED  BY <1>3, <1>4

\* DeliverOp.
LEMMA DeliverFlows ==
  ASSUME FlowsFresh, DeliverOp
  PROVE  FlowsFresh'
  <1>1. /\ OpsSound /\ DataFlows /\ InTurn /\ FilterOrder /\ CountsAgree /\ RecTyped /\ AnsweredFresh
        /\ Len(ops) \in Nat /\ Done \in Nat /\ Demuxed \in Nat /\ Done <= Demuxed /\ Demuxed <= Len(ops)
        /\ HeldCount \in {0, 1} /\ Reading \in {0, 1} /\ Len(inData) \in Nat /\ Demuxed + HeldCount + Len(inData) = Len(ops)
        /\ Members(accFilter) \subseteq 1 .. Len(ops)
    BY FlowFacts
  <1>2. OpsSound' /\ OpsGrow /\ Len(ops') = Len(ops) + 1
    BY <1>1, DeliverOps
  <1>3. /\ inData' = Append(inData, Len(ops')) /\ sbuild' = sbuild /\ acc' = acc /\ seqQ' = seqQ /\ accFilter' = accFilter /\ pops' = pops
        /\ paths' = paths /\ lines' = lines /\ rec' = rec /\ dram' = dram /\ answers' = answers
    BY DEF DeliverOp
  <1>4. Done' = Done /\ Demuxed' = Demuxed /\ Reading' = Reading /\ HeldCount' = HeldCount /\ (Holding' <=> Holding) /\ HeldSeq' = HeldSeq
    BY <1>3 DEF Done, Demuxed, Reading, HeldCount, Holding, HeldSeq
  <1>5. DataFlows'
    <2>1. ValuesOf(Members(accFilter'), paths', Done', Demuxed', lines', dram', Reading, rec'.line, rec'.counter, rec'.left)
      BY <1>1, <1>3, <1>4 DEF DataFlows
    <2>2. Members(accFilter') \subseteq 1 .. Len(ops) /\ Done' \in Nat /\ Demuxed' \in Nat /\ Demuxed' <= Len(ops)
      BY <1>1, <1>3, <1>4
    <2> QED  BY <1>1, <1>2, <1>4, <2>1, <2>2, DataNext
  <1>6. InTurn'
    <2>1. Holding => ops'[acc.req] = ops[acc.req]
      BY <1>2, HeldIs DEF OpsGrow
    <2>2. inData \in Seq(Nat) /\ Len(ops') \in Nat
      BY <1>1, <1>2 DEF InTurn
    <2>3. inData' \in Seq(Nat) /\ Len(inData') = Len(inData) + 1 /\ (\A i \in 1 .. Len(inData) : inData'[i] = inData[i]) /\ inData'[Len(inData) + 1] = Len(ops')
      BY <1>3, <2>2, LongerIs
    <2>4. ASSUME NEW i \in 1 .. Len(inData')
          PROVE  inData'[i] = Demuxed' + HeldCount' + i
      <3>1. i \in 1 .. Len(inData) \/ i = Len(inData) + 1
        BY <1>1, <2>3
      <3>2. CASE i \in 1 .. Len(inData)
        BY <3>2, <1>1, <1>4, <2>3 DEF InTurn
      <3>3. CASE i = Len(inData) + 1
        BY <3>3, <1>1, <1>2, <1>4, <2>3
      <3> QED  BY <3>1, <3>2, <3>3
    <2>5. Demuxed' + HeldCount' + Len(inData') = Len(ops')
      <3>1. PICK x, y, z, w : x = Demuxed /\ y = HeldCount /\ z = Len(inData) /\ w = Len(ops)
        OBVIOUS
      <3>2. x \in Nat /\ y \in {0, 1} /\ z \in Nat /\ w \in Nat /\ x + y + z = w
        BY <1>1, <3>1
      <3>3. x + y + (z + 1) = w + 1
        BY <3>2
      <3>4. Demuxed' = x /\ HeldCount' = y /\ Len(inData') = z + 1 /\ Len(ops') = w + 1
        BY <1>2, <1>4, <2>3, <3>1
      <3> QED  BY <3>3, <3>4
    <2> QED  BY <1>1, <1>3, <1>4, <2>1, <2>3, <2>4, <2>5 DEF InTurn
  <1>7. FilterOrder'
    <2>1. \A i \in 1 .. Len(accFilter) : ops'[accFilter[i]] = ops[accFilter[i]]
      BY <1>2, HeldIs DEF OpsGrow
    <2>2. Streaming(HeldSeq, PopsOf(acc.pop, seqQ))'
      <3>1. PICK h, p : h = HeldSeq /\ p = PopsOf(acc.pop, seqQ)
        OBVIOUS
      <3>2. Streaming(h, p) /\ \A i \in 1 .. Len(h) : h[i] \in 1 .. Len(ops)
        BY <3>1, <1>1, HeldIs DEF FilterOrder
      <3>3. Streaming(h, p)'
        BY <1>2, <3>2, StreamsStay
      <3>4. HeldSeq' = h /\ PopsOf(acc.pop, seqQ)' = p
        BY <3>1, <1>3, <1>4 DEF PopsOf
      <3> QED  BY <3>3, <3>4 DEF Streaming, StreamOf
    <2>3. CanPop' <=> CanPop
      BY <1>3 DEF CanPop
    <2>4. acc.state = "ACC_PUSH" => ~ AccCompare(acc.req)'
      <3> SUFFICES ASSUME acc.state = "ACC_PUSH", AccCompare(acc.req)'
                   PROVE  FALSE
        OBVIOUS
      <3>1. DOMAIN accFilter = 1 .. Len(accFilter)
        BY <1>1 DEF FilterOrder
      <3>2. Holding
        BY DEF Holding
      <3>3. ops'[acc.req] = ops[acc.req]
        BY <1>2, <3>2, HeldIs DEF OpsGrow
      <3>4. AccCompare(acc.req)
        BY <1>3, <2>1, <3>1, <3>3 DEF AccCompare
      <3> QED  BY <1>1, <3>4 DEF FilterOrder
    <2> QED  BY <1>1, <1>3, <1>4, <2>1, <2>2, <2>3, <2>4 DEF FilterOrder, Rising
  <1>8. CountsAgree'
    <2>1. ASSUME NEW o
          PROVE  EnteredOf(o)' = EnteredOf(o)
      <3>1. Members(accFilter)' = Members(accFilter)
        BY <1>3 DEF Members
      <3>2. \A n \in Members(accFilter) : ops'[n] = ops[n]
        BY <1>1, <1>2 DEF OpsGrow
      <3> QED  BY <3>1, <3>2 DEF EnteredOf
    <2>2. /\ Cardinality(EnteredOf("SET")') = pops'[1] + Len(paths'["setMetadata"])
          /\ Cardinality(EnteredOf("GET")') = pops'[0] + Len(paths'["valueLengthQ"]) + Reading'
      BY <2>1, <1>1, <1>3, <1>4 DEF CountsAgree
    <2> QED  BY <2>2 DEF CountsAgree
  <1>9. RecTyped'
    BY <1>1, <1>3, RecSame
  <1>10. AnsweredFresh'
    <2>1. Done <= Len(ops)
      BY <1>1
    <2> QED  BY <1>1, <1>2, <1>3, <2>1, AnsweredStays
  <1> QED  BY <1>2, <1>5, <1>6, <1>7, <1>8, <1>9, <1>10 DEF FlowsFresh

\* accessControl moves on, and leaves the FIFOs and the filter.
LEMMA ControlSame ==
  ASSUME FlowsFresh, UNCHANGED <<sbuild, ops, lines, rec, dram, answers, paths, accFilter, pops>>,
         acc' \in [state : AccStates, req : Nat, pop : {0, 1, 2}],
         Holding' => acc'.req = Demuxed + 1 /\ ops[acc'.req].op # "PASS",
         inData' \in Seq(Nat), \A i \in 1 .. Len(inData') : inData'[i] = Demuxed + HeldCount' + i, Demuxed + HeldCount' + Len(inData') = Len(ops),
         seqQ' \in Seq({0, 1}), NEW h, h = HeldSeq', NEW p, p = PopsOf(acc'.pop, seqQ'), Streaming(h, p),
         acc'.state \in {"ACC_POP", "ACC_POP_WAIT"} => acc'.pop # NoOne /\ pops[acc'.pop] > 0,
         acc'.state = "ACC_PUSH" => ~ AccCompare(acc'.req)
  PROVE  FlowsFresh'
  <1>1. /\ OpsSound /\ DataFlows /\ InTurn /\ FilterOrder /\ CountsAgree /\ RecTyped /\ AnsweredFresh
        /\ Len(ops) \in Nat /\ Done \in Nat /\ Demuxed \in Nat /\ Done <= Demuxed /\ Demuxed <= Len(ops)
        /\ Reading \in {0, 1} /\ Members(accFilter) \subseteq 1 .. Len(ops)
    BY FlowFacts
  <1>2. OpsSound' /\ OpsGrow
    BY <1>1, OpsStay
  <1>3. Done' = Done /\ Demuxed' = Demuxed /\ Reading' = Reading
    BY DEF Done, Demuxed, Reading
  <1>4. DataFlows'
    <2>1. ValuesOf(Members(accFilter'), paths', Done', Demuxed', lines', dram', Reading, rec'.line, rec'.counter, rec'.left)
      BY <1>1, <1>3 DEF DataFlows
    <2>2. Members(accFilter') \subseteq 1 .. Len(ops) /\ Done' \in Nat /\ Demuxed' \in Nat /\ Demuxed' <= Len(ops)
      BY <1>1, <1>3
    <2> QED  BY <1>1, <1>2, <1>3, <2>1, <2>2, DataNext
  <1>5. InTurn'
    BY <1>1, <1>3 DEF InTurn
  <1>6. FilterOrder'
    <2>1. AccCompare(acc.req)' <=> AccCompare(acc'.req)
      BY DEF AccCompare
    <2>2. CanPop' <=> acc'.pop # NoOne /\ pops[acc'.pop] > 0
      BY DEF CanPop
    <2>3. PopsOf(acc.pop, seqQ)' = p
      BY DEF PopsOf
    <2>4. Streaming(HeldSeq, PopsOf(acc.pop, seqQ))'
      BY <2>3 DEF Streaming, StreamOf
    <2> QED  BY <1>1, <1>3, <2>1, <2>2, <2>4 DEF FilterOrder, Rising
  <1>7. CountsAgree'
    BY <1>1, <1>3, CountsSame
  <1>8. RecTyped'
    BY <1>1, RecSame
  <1>9. AnsweredFresh'
    <2>1. Done <= Len(ops)
      BY <1>1
    <2> QED  BY <1>1, <1>2, <2>1, AnsweredStays
  <1> QED  BY <1>2, <1>4, <1>5, <1>6, <1>7, <1>8, <1>9 DEF FlowsFresh

\* As far as the input is concerned, too.
LEMMA StateSame ==
  ASSUME FlowsFresh, UNCHANGED <<sbuild, ops, lines, rec, dram, answers, paths, accFilter, pops, inData>>,
         acc' \in [state : AccStates, req : Nat, pop : {0, 1, 2}], Holding' <=> Holding, acc'.req = acc.req,
         seqQ' \in Seq({0, 1}), PopsOf(acc'.pop, seqQ') = PopsOf(acc.pop, seqQ),
         acc'.state \in {"ACC_POP", "ACC_POP_WAIT"} => acc'.pop # NoOne /\ pops[acc'.pop] > 0,
         acc'.state = "ACC_PUSH" => ~ AccCompare(acc'.req)
  PROVE  FlowsFresh'
  <1>1. InTurn /\ FilterOrder
    BY FlowFacts
  <1>2. HeldCount' = HeldCount /\ HeldSeq' = HeldSeq
    BY DEF HeldCount, HeldSeq
  <1>3. PICK h, p : h = HeldSeq /\ p = PopsOf(acc.pop, seqQ)
    OBVIOUS
  <1>4. Streaming(h, p) /\ h = HeldSeq' /\ p = PopsOf(acc'.pop, seqQ')
    BY <1>1, <1>2, <1>3 DEF FilterOrder
  <1>5. /\ Holding' => acc'.req = Demuxed + 1 /\ ops[acc'.req].op # "PASS"
        /\ inData' \in Seq(Nat) /\ (\A i \in 1 .. Len(inData') : inData'[i] = Demuxed + HeldCount' + i)
        /\ Demuxed + HeldCount' + Len(inData') = Len(ops)
    BY <1>1, <1>2 DEF InTurn
  <1> QED  BY <1>4, <1>5, ControlSame

\* The next stream to pop is taken from filterSeq.
LEMMA EvalFlows ==
  ASSUME FlowsFresh, AccEval, UNCHANGED <<sbuild, ops, lines, rec, dram, answers>>
  PROVE  FlowsFresh'
  <1>1. InTurn /\ FilterOrder
    BY FlowFacts
  <1>2. /\ acc \in [state : AccStates, req : Nat, pop : {0, 1, 2}] /\ seqQ \in Seq({0, 1})
        /\ acc.state = "ACC_EVAL" /\ inData' = inData /\ accFilter' = accFilter /\ pops' = pops /\ paths' = paths
    BY <1>1 DEF InTurn, FilterOrder, AccEval
  <1>3. Holding
    BY <1>2 DEF Holding
  <1>4. CASE ~ AccCompare(acc.req) /\ ~ AccFull
    <2>1. acc' = [acc EXCEPT !.state = "ACC_PUSH"] /\ seqQ' = seqQ
      BY <1>4 DEF AccEval
    <2>2. acc' \in [state : AccStates, req : Nat, pop : {0, 1, 2}] /\ acc'.req = acc.req /\ acc'.pop = acc.pop /\ acc'.state = "ACC_PUSH"
      BY <1>2, <2>1 DEF AccStates
    <2>3. Holding' /\ PopsOf(acc'.pop, seqQ') = PopsOf(acc.pop, seqQ) /\ ~ AccCompare(acc'.req)
      BY <2>1, <2>2, <1>4 DEF Holding
    <2> QED  BY <1>2, <1>3, <2>1, <2>2, <2>3, StateSame
  <1>5. CASE ~ (~ AccCompare(acc.req) /\ ~ AccFull) /\ acc.pop # NoOne
    <2>1. acc' = [acc EXCEPT !.state = "ACC_WAIT"] /\ seqQ' = seqQ
      BY <1>5 DEF AccEval
    <2>2. acc' \in [state : AccStates, req : Nat, pop : {0, 1, 2}] /\ acc'.req = acc.req /\ acc'.pop = acc.pop /\ acc'.state = "ACC_WAIT"
      BY <1>2, <2>1 DEF AccStates
    <2>3. Holding' /\ PopsOf(acc'.pop, seqQ') = PopsOf(acc.pop, seqQ)
      BY <2>1, <2>2 DEF Holding
    <2> QED  BY <1>2, <1>3, <2>1, <2>2, <2>3, StateSame
  <1>6. CASE ~ (~ AccCompare(acc.req) /\ ~ AccFull) /\ acc.pop = NoOne
    <2>1. acc' = [acc EXCEPT !.state = "ACC_WAIT", !.pop = Head(seqQ)] /\ seqQ' = Tail(seqQ)
      BY <1>6 DEF AccEval
    <2>2. seqQ # << >>
      <3>1. Streaming(HeldSeq, seqQ)
        BY <1>1, <1>6 DEF FilterOrder, PopsOf
      <3>2. HeldSeq \in Seq(Nat) /\ HeldSeq # << >>
        BY <1>3, HeldIs
      <3>3. Len(HeldSeq) \in Nat /\ Len(HeldSeq) >= 1
        BY <3>2, RestIs
      <3>4. Len(seqQ) = Len(HeldSeq)
        BY <3>1 DEF Streaming
      <3> QED  BY <3>3, <3>4
    <2>3. Head(seqQ) \in {0, 1} /\ Tail(seqQ) \in Seq({0, 1}) /\ PopsOf(Head(seqQ), Tail(seqQ)) = seqQ /\ PopsOf(NoOne, seqQ) = seqQ
      BY <1>2, <2>2, PopsNext
    <2>4. acc' \in [state : AccStates, req : Nat, pop : {0, 1, 2}] /\ acc'.req = acc.req /\ acc'.pop = Head(seqQ) /\ acc'.state = "ACC_WAIT"
      BY <1>2, <2>1, <2>3 DEF AccStates
    <2>5. Holding' /\ PopsOf(acc'.pop, seqQ') = PopsOf(acc.pop, seqQ) /\ seqQ' \in Seq({0, 1})
      BY <2>1, <2>3, <2>4, <1>6 DEF Holding
    <2> QED  BY <1>2, <1>3, <2>4, <2>5, StateSame
  <1> QED  BY <1>4, <1>5, <1>6

LEMMA WaitFlows ==
  ASSUME FlowsFresh, AccWait, UNCHANGED <<sbuild, ops, lines, rec, dram, answers>>
  PROVE  FlowsFresh'
  <1>1. InTurn /\ FilterOrder
    BY FlowFacts
  <1>2. /\ acc \in [state : AccStates, req : Nat, pop : {0, 1, 2}] /\ seqQ' \in Seq({0, 1})
        /\ acc.state = "ACC_WAIT" /\ inData' = inData /\ accFilter' = accFilter /\ pops' = pops /\ paths' = paths /\ seqQ' = seqQ
    BY <1>1 DEF InTurn, FilterOrder, AccWait
  <1>3. Holding
    BY <1>2 DEF Holding
  <1>4. PICK s \in AccStates : /\ acc' = [acc EXCEPT !.state = s] /\ s \notin {"ACC_IDLE", "ACC_POP"}
                               /\ s \in {"ACC_POP", "ACC_POP_WAIT"} => CanPop
                               /\ s = "ACC_PUSH" => ~ AccCompare(acc.req)
    BY DEF AccWait, AccStates
  <1>5. acc' \in [state : AccStates, req : Nat, pop : {0, 1, 2}] /\ acc'.req = acc.req /\ acc'.pop = acc.pop /\ acc'.state = s
    BY <1>2, <1>4
  <1>6. Holding' /\ PopsOf(acc'.pop, seqQ') = PopsOf(acc.pop, seqQ)
    BY <1>2, <1>4, <1>5 DEF Holding
  <1>7. /\ acc'.state \in {"ACC_POP", "ACC_POP_WAIT"} => acc'.pop # NoOne /\ pops[acc'.pop] > 0
        /\ acc'.state = "ACC_PUSH" => ~ AccCompare(acc'.req)
    BY <1>4, <1>5 DEF CanPop
  <1> QED  BY <1>2, <1>3, <1>5, <1>6, <1>7, StateSame

\* accessControl takes the next request.
LEMMA InputIs ==
  ASSUME FlowsFresh, ~ Holding, inData # << >>
  PROVE  /\ Head(inData) = Demuxed + 1 /\ Demuxed + 1 \in 1 .. Len(ops) /\ Tail(inData) \in Seq(Nat) /\ Len(Tail(inData)) = Len(inData) - 1
         /\ \A i \in 1 .. Len(Tail(inData)) : Tail(inData)[i] = Demuxed + 1 + i
         /\ Demuxed + 1 + Len(Tail(inData)) = Len(ops)
  <1>1. InTurn /\ Len(ops) \in Nat /\ Demuxed \in Nat
    BY FlowFacts
  <1>2. HeldCount = 0
    BY DEF HeldCount
  <1>3. inData \in Seq(Nat) /\ (\A i \in 1 .. Len(inData) : inData[i] = Demuxed + i) /\ Demuxed + Len(inData) = Len(ops)
    BY <1>1, <1>2 DEF InTurn
  <1> DEFINE t == Tail(inData)
  <1>4. /\ Head(inData) = inData[1] /\ t \in Seq(Nat) /\ Len(inData) \in Nat /\ Len(inData) >= 1 /\ Len(t) = Len(inData) - 1
        /\ \A i \in 1 .. Len(inData) - 1 : t[i] = inData[i + 1]
    BY <1>3, RestIs
  <1> HIDE DEF t
  <1>5. Head(inData) = Demuxed + 1 /\ Demuxed + 1 \in 1 .. Len(ops) /\ Demuxed + 1 + Len(t) = Len(ops)
    <2>1. inData[1] = Demuxed + 1
      <3>1. 1 \in 1 .. Len(inData)
        BY <1>4
      <3> QED  BY <3>1, <1>3
    <2>2. Demuxed + 1 \in 1 .. Len(ops) /\ Demuxed + 1 + Len(t) = Len(ops)
      <3>1. PICK x, y, z, d : x = Len(inData) /\ y = Len(t) /\ z = Len(ops) /\ d = Demuxed
        OBVIOUS
      <3>2. x \in Nat /\ x >= 1 /\ y = x - 1 /\ z \in Nat /\ d \in Nat
        BY <3>1, <1>1, <1>4
      <3>3. d + x = z
        BY <3>1, <1>3
      <3>4. d + 1 \in 1 .. z /\ d + 1 + y = z
        BY <3>2, <3>3
      <3> QED  BY <3>1, <3>4
    <2> QED  BY <2>1, <2>2, <1>4
  <1>6. ASSUME NEW i \in 1 .. Len(t)
        PROVE  t[i] = Demuxed + 1 + i
    <2>1. i + 1 \in 1 .. Len(inData) /\ i \in 1 .. Len(inData) - 1
      BY <1>4
    <2>2. t[i] = inData[i + 1] /\ inData[i + 1] = Demuxed + (i + 1)
      BY <1>3, <1>4, <2>1
    <2> QED  BY <1>1, <2>2
  <1> QED  BY <1>4, <1>5, <1>6 DEF t

LEMMA AcceptFlows ==
  ASSUME FlowsFresh, acc.state = "ACC_IDLE", inData # << >>, NEW n, n = Head(inData), ops[n].op # "PASS",
         inData' = Tail(inData), seqQ' = Append(seqQ, StreamOf(n)), acc' = [acc EXCEPT !.state = "ACC_EVAL", !.req = n],
         UNCHANGED <<sbuild, ops, lines, rec, dram, answers, paths, accFilter, pops>>
  PROVE  FlowsFresh'
  <1>1. InTurn /\ FilterOrder /\ Len(ops) \in Nat /\ Demuxed \in Nat
    BY FlowFacts
  <1>2. ~ Holding
    BY DEF Holding
  <1>3. /\ n = Demuxed + 1 /\ n \in 1 .. Len(ops) /\ inData' \in Seq(Nat)
        /\ \A i \in 1 .. Len(inData') : inData'[i] = Demuxed + 1 + i
        /\ Demuxed + 1 + Len(inData') = Len(ops)
    BY <1>2, InputIs
  <1>4. acc \in [state : AccStates, req : Nat, pop : {0, 1, 2}] /\ seqQ \in Seq({0, 1}) /\ n \in Nat /\ StreamOf(n) \in {0, 1}
    BY <1>1, <1>3 DEF InTurn, FilterOrder, StreamOf
  <1>5. acc' \in [state : AccStates, req : Nat, pop : {0, 1, 2}] /\ acc'.state = "ACC_EVAL" /\ acc'.req = n /\ acc'.pop = acc.pop
    BY <1>4 DEF AccStates
  <1>6. Holding' /\ HeldCount' = 1 /\ HeldSeq' = Append(accFilter, n)
    BY <1>5 DEF Holding, HeldCount, HeldSeq
  <1>7. seqQ' \in Seq({0, 1}) /\ PopsOf(acc'.pop, seqQ') = Append(PopsOf(acc.pop, seqQ), StreamOf(n))
    <2>1. PICK p \in {0, 1, 2}, x \in {0, 1} : p = acc.pop /\ x = StreamOf(n)
      BY <1>4
    <2>2. PopsOf(p, Append(seqQ, x)) = Append(PopsOf(p, seqQ), x)
      BY <1>4, PopsLonger
    <2>3. Append(seqQ, x) \in Seq({0, 1})
      BY <1>4, <2>1
    <2> QED  BY <1>5, <2>1, <2>2, <2>3
  <1>8. PICK h \in Seq(Nat), p \in Seq({0, 1}) : h = accFilter /\ p = PopsOf(acc.pop, seqQ)
    <2>1. acc.pop \in {0, 1, 2}
      BY <1>4
    <2>2. PopsOf(acc.pop, seqQ) \in Seq({0, 1})
      BY <2>1, <1>4, PopsTyped
    <2> QED  BY <1>1, <2>2 DEF FilterOrder
  <1>9. Streaming(h, p)
    BY <1>1, <1>2, <1>8 DEF FilterOrder, HeldSeq
  <1>10. Streaming(Append(h, n), Append(p, StreamOf(n)))
    BY <1>4, <1>9, StreamsLonger
  <1>11. PICK h2, p2 : h2 = Append(h, n) /\ p2 = Append(p, StreamOf(n))
    OBVIOUS
  <1>12. Streaming(h2, p2) /\ h2 = HeldSeq' /\ p2 = PopsOf(acc'.pop, seqQ')
    BY <1>6, <1>7, <1>8, <1>10, <1>11
  <1>13. /\ Holding' => acc'.req = Demuxed + 1 /\ ops[acc'.req].op # "PASS"
         /\ \A i \in 1 .. Len(inData') : inData'[i] = Demuxed + HeldCount' + i
         /\ Demuxed + HeldCount' + Len(inData') = Len(ops)
    BY <1>3, <1>5, <1>6
  <1>14. /\ acc'.state \in {"ACC_POP", "ACC_POP_WAIT"} => acc'.pop # NoOne /\ pops[acc'.pop] > 0
         /\ acc'.state = "ACC_PUSH" => ~ AccCompare(acc'.req)
    BY <1>5
  <1> QED  BY <1>3, <1>5, <1>7, <1>12, <1>13, <1>14, ControlSame

\* demux puts the request at the end of the buffer of remux.
LEMMA BufferIs ==
  ASSUME FlowsFresh, NEW n \in Nat, n = Demuxed + 1, paths'["metadataBuffer"] = Append(paths["metadataBuffer"], n), answers' = answers
  PROVE  Done' = Done /\ Demuxed' = Demuxed + 1 /\ \A i \in 1 .. Len(paths'["metadataBuffer"]) : paths'["metadataBuffer"][i] = Done + i
  <1>1. InTurn /\ FifosTyped(paths) /\ Done \in Nat
    BY FlowFacts
  <1>2. PICK mb \in Seq(Nat) : mb = paths["metadataBuffer"]
    BY <1>1 DEF FifosTyped
  <1>3. Demuxed = Done + Len(mb) /\ Done' = Done
    BY <1>2 DEF Done, Demuxed
  <1>4. PICK m2 : m2 = Append(mb, n)
    OBVIOUS
  <1>5. Len(mb) \in Nat /\ Len(m2) = Len(mb) + 1 /\ (\A i \in 1 .. Len(mb) : m2[i] = mb[i]) /\ m2[Len(mb) + 1] = n
    BY <1>4, LongerIs
  <1>6. m2 = paths'["metadataBuffer"]
    BY <1>2, <1>4
  <1>7. Demuxed' = Done + Len(m2)
    BY <1>3, <1>6 DEF Demuxed, Done
  <1>8. ASSUME NEW i \in 1 .. Len(m2)
        PROVE  m2[i] = Done + i
    <2>1. i \in 1 .. Len(mb) \/ i = Len(mb) + 1
      BY <1>5
    <2>2. \A j \in 1 .. Len(mb) : mb[j] = Done + j
      BY <1>1, <1>2 DEF InTurn
    <2>3. CASE i \in 1 .. Len(mb)
      BY <2>2, <2>3, <1>5
    <2>4. CASE i = Len(mb) + 1
      BY <2>4, <1>1, <1>3, <1>5
    <2> QED  BY <2>1, <2>3, <2>4
  <1>9. Demuxed' = Demuxed + 1
    BY <1>1, <1>3, <1>5, <1>7
  <1>10. \A i \in 1 .. Len(m2) : m2[i] = Done + i
    BY <1>8
  <1> QED  BY <1>3, <1>6, <1>9, <1>10

LEMMA PassFlows ==
  ASSUME FlowsFresh, acc.state = "ACC_IDLE", inData # << >>, NEW n, n = Head(inData), ops[n].op = "PASS",
         inData' = Tail(inData), Demux(n), UNCHANGED <<sbuild, ops, lines, rec, dram, answers, acc, seqQ, accFilter, pops>>
  PROVE  FlowsFresh'
  <1>1. /\ OpsSound /\ DataFlows /\ InTurn /\ FilterOrder /\ CountsAgree /\ RecTyped /\ AnsweredFresh /\ FifosTyped(paths)
        /\ Len(ops) \in Nat /\ Done \in Nat /\ Demuxed \in Nat /\ Done <= Demuxed /\ Demuxed <= Len(ops)
        /\ Reading \in {0, 1} /\ Members(accFilter) \subseteq 1 .. Len(ops)
    BY FlowFacts
  <1>2. OpsSound' /\ OpsGrow
    BY <1>1, OpsStay
  <1>3. ~ Holding /\ ~ Holding' /\ HeldCount = 0 /\ HeldCount' = 0 /\ HeldSeq' = HeldSeq
    BY DEF Holding, HeldCount, HeldSeq
  <1>4. /\ n = Demuxed + 1 /\ n \in Nat /\ Demuxed + 1 \in 1 .. Len(ops) /\ inData' \in Seq(Nat)
        /\ \A i \in 1 .. Len(inData') : inData'[i] = Demuxed + 1 + i
        /\ Demuxed + 1 + Len(inData') = Len(ops)
    BY <1>1, <1>3, InputIs
  <1>5. /\ paths' = [p \in Paths |-> paths'[p]]
        /\ \A p \in Paths \ {"metadataBuffer"} : paths'[p] = paths[p]
        /\ paths'["metadataBuffer"] = Append(paths["metadataBuffer"], n)
    <2>1. paths = [p \in Paths |-> paths[p]]
      BY <1>1 DEF FifosTyped
    <2> QED  BY <2>1, DemuxPass
  <1>6. Done' = Done /\ Demuxed' = Demuxed + 1 /\ \A i \in 1 .. Len(paths'["metadataBuffer"]) : paths'["metadataBuffer"][i] = Done + i
    BY <1>4, <1>5, BufferIs
  <1>7. Reading' = Reading
    BY DEF Reading
  <1>8. DataFlows'
    <2>1. ValuesOf(Members(accFilter), paths, Done, Demuxed, lines, dram, Reading, rec.line, rec.counter, rec.left)
      BY <1>1 DEF DataFlows
    <2>2. PICK F, P, P2, a, d, b, x, k, l :
            /\ F = Members(accFilter) /\ P = paths /\ P2 = paths' /\ a = Done /\ d = Demuxed /\ b = Reading
            /\ x = rec.line /\ k = rec.counter /\ l = rec.left
      OBVIOUS
    <2>a. a \in Nat /\ d \in Nat /\ b \in {0, 1}
      BY <1>1, <2>2
    <2>3. ValuesOf(F, P, a, d, lines, dram, b, x, k, l) /\ d + 1 \in 1 .. Len(ops) /\ ops[d + 1].op = "PASS"
      BY <2>1, <2>2, <1>4
    <2>4. /\ P2 = [p \in Paths |-> P2[p]] /\ \A p \in Paths \ {"metadataBuffer"} : P2[p] = P[p]
          /\ P2["metadataBuffer"] = Append(P["metadataBuffer"], d + 1)
      BY <2>2, <1>4, <1>5
    <2>5. ValuesOf(F, P2, a, d + 1, lines, dram, b, x, k, l)
      BY <1>1, <2>a, <2>3, <2>4, DataPass
    <2>6. ValuesOf(Members(accFilter'), paths', Done', Demuxed', lines', dram', b, rec'.line, rec'.counter, rec'.left)
      BY <2>2, <2>5, <1>6
    <2>7. Members(accFilter') \subseteq 1 .. Len(ops) /\ Done' \in Nat /\ Demuxed' \in Nat /\ Demuxed' <= Len(ops) /\ Reading' = b
      BY <1>1, <1>4, <1>6, <1>7, <2>2
    <2> QED  BY <1>1, <1>2, <2>a, <2>6, <2>7, DataNext
  <1>9. InTurn'
    <2>1. answers' \in Seq([req : Nat, value : Seq(Pairs)]) /\ (\A k \in 1 .. Done' : answers'[k].req = k) /\ acc' \in [state : AccStates, req : Nat, pop : {0, 1, 2}]
      BY <1>1, <1>6 DEF InTurn
    <2>2. \A i \in 1 .. Len(inData') : inData'[i] = Demuxed' + HeldCount' + i
      BY <1>1, <1>3, <1>4, <1>6
    <2>3. Demuxed' + HeldCount' + Len(inData') = Len(ops')
      BY <1>1, <1>3, <1>4, <1>6
    <2> QED  BY <2>1, <2>2, <2>3, <1>3, <1>4, <1>6 DEF InTurn
  <1>10. FilterOrder'
    <2>1. Streaming(HeldSeq, PopsOf(acc.pop, seqQ))'
      <3>1. PopsOf(acc.pop, seqQ)' = PopsOf(acc.pop, seqQ)
        BY DEF PopsOf
      <3>2. Streaming(HeldSeq, PopsOf(acc.pop, seqQ))
        BY <1>1 DEF FilterOrder
      <3> QED  BY <3>1, <3>2, <1>3 DEF Streaming, StreamOf
    <2>2. \A i \in 1 .. Len(accFilter') : accFilter'[i] \in 1 .. Demuxed' /\ ops'[accFilter'[i]].op # "PASS"
      BY <1>1, <1>6 DEF FilterOrder
    <2>3. acc'.state = "ACC_IDLE"
      OBVIOUS
    <2> QED  BY <1>1, <2>1, <2>2, <2>3 DEF FilterOrder, Rising
  <1>11. CountsAgree'
    <2>1. paths'["setMetadata"] = paths["setMetadata"] /\ paths'["valueLengthQ"] = paths["valueLengthQ"]
      BY <1>5 DEF Paths
    <2> QED  BY <2>1, <1>1, <1>7, CountsSame
  <1>12. RecTyped'
    BY <1>1, RecSame
  <1>13. AnsweredFresh'
    <2>1. Done <= Len(ops)
      BY <1>1
    <2> QED  BY <1>1, <1>2, <2>1, AnsweredStays
  <1> QED  BY <1>2, <1>8, <1>9, <1>10, <1>11, <1>12, <1>13 DEF FlowsFresh

LEMMA IdleFlows ==
  ASSUME FlowsFresh, AccIdle, UNCHANGED <<sbuild, ops, lines, rec, dram, answers>>
  PROVE  FlowsFresh'
  <1>1. InTurn /\ FilterOrder
    BY FlowFacts
  <1>2. acc.state = "ACC_IDLE" /\ accFilter' = accFilter /\ pops' = pops
    BY DEF AccIdle
  <1>3. CASE CanPop /\ acc' = [acc EXCEPT !.state = "ACC_POP"] /\ UNCHANGED <<inData, seqQ, paths>>
    <2>1. acc \in [state : AccStates, req : Nat, pop : {0, 1, 2}] /\ seqQ' \in Seq({0, 1})
      BY <1>1, <1>3 DEF InTurn, FilterOrder
    <2>2. acc' \in [state : AccStates, req : Nat, pop : {0, 1, 2}] /\ acc'.req = acc.req /\ acc'.pop = acc.pop /\ acc'.state = "ACC_POP"
      BY <1>3, <2>1 DEF AccStates
    <2>3. ~ Holding /\ ~ Holding' /\ PopsOf(acc'.pop, seqQ') = PopsOf(acc.pop, seqQ)
      BY <1>2, <1>3, <2>2 DEF Holding
    <2>4. acc'.pop # NoOne /\ pops[acc'.pop] > 0
      BY <1>3, <2>2 DEF CanPop
    <2> QED  BY <1>2, <1>3, <2>1, <2>2, <2>3, <2>4, StateSame
  <1>4. PICK n : n = Head(inData)
    OBVIOUS
  <1>5. CASE inData # << >> /\ inData' = Tail(inData) /\ ops[n].op = "PASS" /\ Demux(n) /\ UNCHANGED <<acc, seqQ>>
    BY <1>2, <1>4, <1>5, PassFlows
  <1>6. CASE /\ inData # << >> /\ inData' = Tail(inData) /\ ops[n].op # "PASS" /\ seqQ' = Append(seqQ, StreamOf(n))
             /\ acc' = [acc EXCEPT !.state = "ACC_EVAL", !.req = n] /\ UNCHANGED paths
    BY <1>2, <1>4, <1>6, AcceptFlows
  <1> QED  BY <1>3, <1>4, <1>5, <1>6 DEF AccIdle

\* The number of entries.
LEMMA EnteredFinite ==
  ASSUME accFilter \in Seq(Nat), NEW o
  PROVE  IsFiniteSet(EnteredOf(o)) /\ Cardinality(EnteredOf(o)) \in Nat
  <1>1. IsFiniteSet(Members(accFilter))
    BY MembersCount
  <1>2. EnteredOf(o) \subseteq Members(accFilter)
    BY DEF EnteredOf
  <1> QED  BY <1>1, <1>2, FS_Subset, FS_CardinalityType

LEMMA EnteredMore ==
  ASSUME accFilter \in Seq(Nat), NEW n \in Nat, n \notin Members(accFilter), accFilter' = Append(accFilter, n), ops' = ops, NEW o
  PROVE  /\ ops[n].op = o => Cardinality(EnteredOf(o)') = Cardinality(EnteredOf(o)) + 1
         /\ ops[n].op # o => EnteredOf(o)' = EnteredOf(o)
  <1>1. Members(accFilter)' = Members(accFilter) \cup {n}
    <2>1. Members(Append(accFilter, n)) = Members(accFilter) \cup {n}
      BY MembersLonger
    <2> QED  BY <2>1 DEF Members
  <1>2. EnteredOf(o)' = { m \in Members(accFilter) \cup {n} : ops[m].op = o }
    BY <1>1 DEF EnteredOf
  <1>3. ops[n].op # o => EnteredOf(o)' = EnteredOf(o)
    BY <1>2 DEF EnteredOf
  <1>4. ASSUME ops[n].op = o
        PROVE  Cardinality(EnteredOf(o)') = Cardinality(EnteredOf(o)) + 1
    <2>1. EnteredOf(o)' = EnteredOf(o) \cup {n} /\ n \notin EnteredOf(o)
      BY <1>2, <1>4 DEF EnteredOf
    <2>2. IsFiniteSet(EnteredOf(o))
      BY EnteredFinite
    <2>3. PICK E : E = EnteredOf(o)
      OBVIOUS
    <2>4. Cardinality(E \cup {n}) = Cardinality(E) + 1
      BY <2>1, <2>2, <2>3, FS_AddElement
    <2> QED  BY <2>1, <2>3, <2>4
  <1> QED  BY <1>3, <1>4

\* The streams to pop stay the same when the next one is taken from filterSeq.
LEMMA NextPop ==
  ASSUME FlowsFresh, NEW s \in AccStates,
         \/ acc.pop = NoOne /\ seqQ # << >> /\ acc' = [acc EXCEPT !.state = s, !.pop = Head(seqQ)] /\ seqQ' = Tail(seqQ)
         \/ acc' = [acc EXCEPT !.state = s] /\ seqQ' = seqQ
  PROVE  /\ acc' \in [state : AccStates, req : Nat, pop : {0, 1, 2}] /\ acc'.state = s /\ acc'.req = acc.req
         /\ seqQ' \in Seq({0, 1}) /\ PopsOf(acc.pop, seqQ)' = PopsOf(acc.pop, seqQ)
  <1>1. InTurn /\ FilterOrder
    BY FlowFacts
  <1>2. acc \in [state : AccStates, req : Nat, pop : {0, 1, 2}] /\ seqQ \in Seq({0, 1})
    BY <1>1 DEF InTurn, FilterOrder
  <1>3. CASE acc' = [acc EXCEPT !.state = s] /\ seqQ' = seqQ
    BY <1>2, <1>3 DEF PopsOf
  <1>4. CASE acc.pop = NoOne /\ seqQ # << >> /\ acc' = [acc EXCEPT !.state = s, !.pop = Head(seqQ)] /\ seqQ' = Tail(seqQ)
    <2>1. Head(seqQ) \in {0, 1} /\ Tail(seqQ) \in Seq({0, 1}) /\ PopsOf(Head(seqQ), Tail(seqQ)) = seqQ /\ PopsOf(NoOne, seqQ) = seqQ
      BY <1>2, <1>4, PopsNext
    <2>2. acc' \in [state : AccStates, req : Nat, pop : {0, 1, 2}] /\ acc'.state = s /\ acc'.req = acc.req /\ acc'.pop = Head(seqQ)
      BY <1>2, <1>4, <2>1
    <2>3. PopsOf(acc'.pop, seqQ') = PopsOf(acc.pop, seqQ)
      BY <1>4, <2>1, <2>2
    <2>4. PopsOf(acc.pop, seqQ)' = PopsOf(acc.pop, seqQ)
      BY <2>3 DEF PopsOf
    <2> QED  BY <1>4, <2>1, <2>2, <2>4
  <1> QED  BY <1>3, <1>4

\* The request enters the filter and is demuxed.
LEMMA PushFlows ==
  ASSUME FlowsFresh, Serving, AccStream, UNCHANGED <<sbuild, ops, lines, rec, dram, answers>>
  PROVE  FlowsFresh'
  <1>1. /\ OpsSound /\ DataFlows /\ InTurn /\ FilterOrder /\ CountsAgree /\ RecTyped /\ AnsweredFresh /\ FifosTyped(paths)
        /\ Len(ops) \in Nat /\ Done \in Nat /\ Demuxed \in Nat /\ Done <= Demuxed /\ Demuxed <= Len(ops)
        /\ Reading \in {0, 1} /\ Members(accFilter) \subseteq 1 .. Demuxed
        /\ HeldCount \in {0, 1} /\ Len(inData) \in Nat /\ Demuxed + HeldCount + Len(inData) = Len(ops)
    BY FlowFacts
  <1>2. OpsSound' /\ OpsGrow /\ Reading' = Reading
    BY <1>1, OpsStay DEF Reading
  <1>3. PICK n : n = acc.req
    OBVIOUS
  <1>4. acc.state = "ACC_PUSH" /\ Holding /\ inData' = inData /\ pops' = pops /\ accFilter' = Append(accFilter, n) /\ Demux(n) /\ ~ AccCompare(n)
    BY <1>1, <1>3 DEF AccStream, AccPush, Serving, Holding, FilterOrder
  <1>5. /\ n = Demuxed + 1 /\ n \in Nat /\ Demuxed + 1 \in 1 .. Len(ops) /\ ops[n].op \in {"SET", "GET"} /\ accFilter \in Seq(Nat)
        /\ HeldSeq = Append(accFilter, n) /\ HeldSeq \in Seq(Nat) /\ HeldCount = 1
    BY <1>3, <1>4, HeldIs
  <1>6. /\ acc' \in [state : AccStates, req : Nat, pop : {0, 1, 2}] /\ acc'.state = "ACC_IDLE"
        /\ seqQ' \in Seq({0, 1}) /\ PopsOf(acc.pop, seqQ)' = PopsOf(acc.pop, seqQ)
    <2>1. "ACC_IDLE" \in AccStates
      BY DEF AccStates
    <2>2. PICK s \in AccStates : s = "ACC_IDLE"
      BY <2>1
    <2>3. \/ acc.pop = NoOne /\ seqQ # << >> /\ acc' = [acc EXCEPT !.state = s, !.pop = Head(seqQ)] /\ seqQ' = Tail(seqQ)
          \/ acc' = [acc EXCEPT !.state = s] /\ seqQ' = seqQ
      BY <2>2 DEF AccStream
    <2> QED  BY <2>2, <2>3, NextPop
  <1>7. ~ Holding' /\ HeldCount' = 0 /\ HeldSeq' = HeldSeq
    BY <1>4, <1>5, <1>6 DEF Holding, HeldCount, HeldSeq
  <1>8. n \notin Members(accFilter) /\ \A y \in Members(accFilter) : y < n
    BY <1>1, <1>5
  <1>9. Members(accFilter') = Members(accFilter) \cup {n}
    BY <1>4, <1>5, MembersLonger
  <1>10. paths = [p \in Paths |-> paths[p]]
    BY <1>1 DEF FifosTyped
  <1>11. paths'["metadataBuffer"] = Append(paths["metadataBuffer"], n)
    <2>1. CASE ops[n].op = "SET"
      BY <1>4, <1>10, <2>1, DemuxSet
    <2>2. CASE ops[n].op = "GET"
      BY <1>4, <1>10, <2>2, DemuxGet
    <2> QED  BY <1>5, <2>1, <2>2
  <1>12. Done' = Done /\ Demuxed' = Demuxed + 1 /\ \A i \in 1 .. Len(paths'["metadataBuffer"]) : paths'["metadataBuffer"][i] = Done + i
    BY <1>5, <1>11, BufferIs
  <1>13. DataFlows'
    <2>1. ValuesOf(Members(accFilter), paths, Done, Demuxed, lines, dram, Reading, rec.line, rec.counter, rec.left)
      BY <1>1 DEF DataFlows
    <2>2. PICK F, P, P2, a, d, b, x, k, l :
            /\ F = Members(accFilter) /\ P = paths /\ P2 = paths' /\ a = Done /\ d = Demuxed /\ b = Reading
            /\ x = rec.line /\ k = rec.counter /\ l = rec.left
      OBVIOUS
    <2>a. a \in Nat /\ d \in Nat /\ b \in {0, 1} /\ a <= d /\ F \subseteq 1 .. d /\ d + 1 = n
      BY <1>1, <1>5, <2>2
    <2>3. ValuesOf(F, P, a, d, lines, dram, b, x, k, l) /\ d + 1 \in 1 .. Len(ops)
      BY <2>1, <2>2, <1>5
    <2>4. ASSUME ops[n].op = "SET"
          PROVE  ValuesOf(F \cup {d + 1}, P2, a, d + 1, lines, dram, b, x, k, l)
      <3>1. /\ P2 = [p \in Paths |-> P2[p]] /\ \A p \in Paths \ {"metadataBuffer", "setMetadata", "setValueIn"} : P2[p] = P[p]
            /\ P2["metadataBuffer"] = Append(P["metadataBuffer"], d + 1)
            /\ P2["setMetadata"] = Append(P["setMetadata"], d + 1)
            /\ P2["setValueIn"] = P["setValueIn"] \o ValueWords(d + 1)
        BY <2>2, <2>a, <2>4, <1>4, <1>10, DemuxSet
      <3>2. ops[d + 1].op = "SET"
        BY <2>4, <2>a
      <3> QED  BY <1>1, <2>a, <2>3, <3>1, <3>2, DataSet
    <2>5. ASSUME ops[n].op = "GET"
          PROVE  ValuesOf(F \cup {d + 1}, P2, a, d + 1, lines, dram, b, x, k, l)
      <3>1. /\ P2 = [p \in Paths |-> P2[p]] /\ \A p \in Paths \ {"metadataBuffer", "memRdCmd", "valueLengthQ"} : P2[p] = P[p]
            /\ P2["metadataBuffer"] = Append(P["metadataBuffer"], d + 1)
            /\ P2["memRdCmd"] = P["memRdCmd"] \o CmdsOf(d + 1)
            /\ P2["valueLengthQ"] = Append(P["valueLengthQ"], ops[d + 1].words)
        BY <2>2, <2>a, <2>5, <1>4, <1>10, DemuxGet
      <3>2. ops[d + 1].op = "GET"
        BY <2>5, <2>a
      <3>3. \A m \in F : ops[m].op = "SET" => ops[m].addr # ops[d + 1].addr
        <4> SUFFICES ASSUME NEW m \in F, ops[m].op = "SET", ops[m].addr = ops[d + 1].addr
                     PROVE  FALSE
          OBVIOUS
        <4>1. PICK i \in 1 .. Len(accFilter) : m = accFilter[i]
          BY <2>2 DEF Members
        <4>2. i \in DOMAIN accFilter
          BY <4>1, <1>5
        <4>3. ops[n].addr = ops[accFilter[i]].addr /\ ops[n].op = "GET" /\ ops[accFilter[i]].op = "SET"
          BY <4>1, <2>5, <2>a
        <4>4. AccCompare(n)
          BY <4>2, <4>3 DEF AccCompare, Serving
        <4> QED  BY <4>4, <1>4
      <3>4. OpsSound /\ a \in Nat /\ d \in Nat /\ (b = 0 \/ b = 1) /\ a <= d /\ d + 1 \in 1 .. Len(ops)
        BY <1>1, <2>a, <2>3
      <3>5. ValuesOf(F, P, a, d, lines, dram, b, x, k, l)
        BY <2>3
      <3>6. NoSetOf(F, d + 1)
        BY <3>3 DEF NoSetOf
      <3>7. DemuxedGet(P, P2, d + 1)
        BY <3>1 DEF DemuxedGet
      <3> QED  BY <3>2, <3>4, <3>5, <3>6, <3>7, DataGet
    <2>6. ValuesOf(F \cup {d + 1}, P2, a, d + 1, lines, dram, b, x, k, l)
      BY <1>5, <2>4, <2>5
    <2>7. ValuesOf(Members(accFilter'), paths', Done', Demuxed', lines', dram', b, rec'.line, rec'.counter, rec'.left)
      <3>1. Members(accFilter') = F \cup {d + 1} /\ Done' = a /\ Demuxed' = d + 1
        BY <1>9, <1>12, <2>2, <2>a
      <3> QED  BY <2>2, <2>6, <3>1
    <2>8. Members(accFilter') \subseteq 1 .. Len(ops) /\ Done' \in Nat /\ Demuxed' \in Nat /\ Demuxed' <= Len(ops) /\ Reading' = b
      BY <1>1, <1>2, <1>5, <1>9, <1>12, <2>2
    <2> QED  BY <1>1, <1>2, <2>a, <2>7, <2>8, DataNext
  <1>14. InTurn'
    <2>1. answers' \in Seq([req : Nat, value : Seq(Pairs)]) /\ (\A k \in 1 .. Done' : answers'[k].req = k)
      BY <1>1, <1>12 DEF InTurn
    <2>2. inData' \in Seq(Nat) /\ \A i \in 1 .. Len(inData') : inData'[i] = Demuxed' + HeldCount' + i
      <3>1. inData \in Seq(Nat) /\ \A i \in 1 .. Len(inData) : inData[i] = Demuxed + HeldCount + i
        BY <1>1 DEF InTurn
      <3> QED  BY <3>1, <1>1, <1>4, <1>5, <1>7, <1>12
    <2>3. Demuxed' + HeldCount' + Len(inData') = Len(ops')
      BY <1>1, <1>4, <1>5, <1>7, <1>12
    <2> QED  BY <2>1, <2>2, <2>3, <1>6, <1>7, <1>12 DEF InTurn
  <1>15. FilterOrder'
    <2>1. Streaming(HeldSeq, PopsOf(acc.pop, seqQ))'
      <3>1. Streaming(HeldSeq, PopsOf(acc.pop, seqQ))
        BY <1>1 DEF FilterOrder
      <3> QED  BY <3>1, <1>6, <1>7 DEF Streaming, StreamOf
    <2>2. Rising(accFilter')
      <3>1. Rising(accFilter)
        BY <1>1 DEF FilterOrder
      <3> QED  BY <3>1, <1>4, <1>5, <1>8, RisingLonger
    <2>3. /\ Len(accFilter) \in Nat /\ accFilter' \in Seq(Nat) /\ Len(accFilter') = Len(accFilter) + 1
          /\ (\A i \in 1 .. Len(accFilter) : accFilter'[i] = accFilter[i]) /\ accFilter'[Len(accFilter) + 1] = n
      BY <1>4, <1>5, LongerIs
    <2>4. ASSUME NEW i \in 1 .. Len(accFilter')
          PROVE  accFilter'[i] \in 1 .. Demuxed' /\ ops[accFilter'[i]].op # "PASS"
      <3>1. i \in 1 .. Len(accFilter) \/ i = Len(accFilter) + 1
        BY <2>3
      <3>2. CASE i = Len(accFilter) + 1
        BY <3>2, <2>3, <1>1, <1>5, <1>12
      <3>3. CASE i \in 1 .. Len(accFilter)
        <4>1. accFilter[i] \in 1 .. Demuxed /\ ops[accFilter[i]].op # "PASS"
          BY <3>3, <1>1 DEF FilterOrder
        <4> QED  BY <4>1, <3>3, <2>3, <1>1, <1>12
      <3> QED  BY <3>1, <3>2, <3>3
    <2>5. pops' \in [{0, 1} -> Nat]
      BY <1>1, <1>4 DEF FilterOrder
    <2>6. acc'.state = "ACC_IDLE" /\ seqQ' \in Seq({0, 1}) /\ accFilter' \in Seq(Nat)
      BY <1>6, <2>3
    <2> QED  BY <2>1, <2>2, <2>4, <2>5, <2>6 DEF FilterOrder, Rising
  <1>16. CountsAgree'
    <2>1. PICK sm \in Seq(Nat), lq \in Seq(Nat) : sm = paths["setMetadata"] /\ lq = paths["valueLengthQ"]
      BY <1>1 DEF FifosTyped
    <2>2. Cardinality(EnteredOf("SET")) = pops[1] + Len(sm) /\ Cardinality(EnteredOf("GET")) = pops[0] + Len(lq) + Reading
      BY <1>1, <2>1 DEF CountsAgree
    <2>3. pops[0] \in Nat /\ pops[1] \in Nat /\ Len(sm) \in Nat /\ Len(lq) \in Nat
      BY <1>1 DEF FilterOrder
    <2>4. \A o : /\ ops[n].op = o => Cardinality(EnteredOf(o)') = Cardinality(EnteredOf(o)) + 1
                 /\ ops[n].op # o => EnteredOf(o)' = EnteredOf(o)
      BY <1>4, <1>5, <1>8, EnteredMore
    <2>5. CASE ops[n].op = "SET"
      <3>1. paths'["setMetadata"] = Append(sm, n) /\ paths'["valueLengthQ"] = lq
        BY <1>4, <1>10, <2>1, <2>5, DemuxSet DEF Paths
      <3>2. Len(Append(sm, n)) = Len(sm) + 1
        BY <1>5
      <3>3. Cardinality(EnteredOf("SET")') = Cardinality(EnteredOf("SET")) + 1 /\ EnteredOf("GET")' = EnteredOf("GET")
        BY <2>4, <2>5
      <3>4. /\ Cardinality(EnteredOf("SET")') = pops'[1] + Len(paths'["setMetadata"])
            /\ Cardinality(EnteredOf("GET")') = pops'[0] + Len(paths'["valueLengthQ"]) + Reading'
        <4>1. PICK cs, cg, ds, dg, p, q, u, v, r : /\ cs = Cardinality(EnteredOf("SET")) /\ cg = Cardinality(EnteredOf("GET"))
                                                   /\ ds = Cardinality(EnteredOf("SET")') /\ dg = Cardinality(EnteredOf("GET")')
                                                   /\ p = pops[1] /\ q = pops[0] /\ u = Len(sm) /\ v = Len(lq) /\ r = Reading
          OBVIOUS
        <4>2. cs = p + u /\ cg = q + v + r /\ p \in Nat /\ q \in Nat /\ u \in Nat /\ v \in Nat /\ r \in {0, 1}
          BY <4>1, <1>1, <2>2, <2>3
        <4>3. ds = cs + 1 /\ dg = cg
          BY <4>1, <3>3
        <4>4. Len(paths'["setMetadata"]) = u + 1 /\ Len(paths'["valueLengthQ"]) = v
          BY <4>1, <3>1, <3>2
        <4>5. pops'[1] = p /\ pops'[0] = q /\ Reading' = r
          BY <4>1, <1>2, <1>4
        <4>6. ds = p + (u + 1) /\ dg = q + v + r
          BY <4>2, <4>3
        <4> QED  BY <4>1, <4>4, <4>5, <4>6
      <3> QED  BY <3>4 DEF CountsAgree
    <2>6. CASE ops[n].op = "GET"
      <3>1. paths'["setMetadata"] = sm /\ paths'["valueLengthQ"] = Append(lq, ops[n].words)
        BY <1>4, <1>10, <2>1, <2>6, DemuxGet DEF Paths
      <3>2. Len(Append(lq, ops[n].words)) = Len(lq) + 1
        <4>1. ops[n].words \in Nat
          BY <1>1, <1>5, OpIs
        <4> QED  BY <4>1
      <3>3. Cardinality(EnteredOf("GET")') = Cardinality(EnteredOf("GET")) + 1 /\ EnteredOf("SET")' = EnteredOf("SET")
        BY <2>4, <2>6
      <3>4. /\ Cardinality(EnteredOf("SET")') = pops'[1] + Len(paths'["setMetadata"])
            /\ Cardinality(EnteredOf("GET")') = pops'[0] + Len(paths'["valueLengthQ"]) + Reading'
        <4>1. PICK cs, cg, ds, dg, p, q, u, v, r : /\ cs = Cardinality(EnteredOf("SET")) /\ cg = Cardinality(EnteredOf("GET"))
                                                   /\ ds = Cardinality(EnteredOf("SET")') /\ dg = Cardinality(EnteredOf("GET")')
                                                   /\ p = pops[1] /\ q = pops[0] /\ u = Len(sm) /\ v = Len(lq) /\ r = Reading
          OBVIOUS
        <4>2. cs = p + u /\ cg = q + v + r /\ p \in Nat /\ q \in Nat /\ u \in Nat /\ v \in Nat /\ r \in {0, 1}
          BY <4>1, <1>1, <2>2, <2>3
        <4>3. dg = cg + 1 /\ ds = cs
          BY <4>1, <3>3
        <4>4. Len(paths'["setMetadata"]) = u /\ Len(paths'["valueLengthQ"]) = v + 1
          BY <4>1, <3>1, <3>2
        <4>5. pops'[1] = p /\ pops'[0] = q /\ Reading' = r
          BY <4>1, <1>2, <1>4
        <4>6. ds = p + u /\ dg = q + (v + 1) + r
          BY <4>2, <4>3
        <4> QED  BY <4>1, <4>4, <4>5, <4>6
      <3> QED  BY <3>4 DEF CountsAgree
    <2> QED  BY <1>5, <2>5, <2>6
  <1>17. RecTyped'
    BY <1>1, RecSame
  <1>18. AnsweredFresh'
    <2>1. Done <= Len(ops)
      BY <1>1
    <2> QED  BY <1>1, <1>2, <2>1, AnsweredStays
  <1> QED  BY <1>2, <1>13, <1>14, <1>15, <1>16, <1>17, <1>18 DEF FlowsFresh

\* The oldest entry leaves the filter.
LEMMA RestLonger ==
  ASSUME NEW S, NEW s \in Seq(S), s # << >>, NEW x \in S
  PROVE  Append(s, x)[1] = s[1] /\ Tail(Append(s, x)) = Append(Tail(s), x)
  <1> DEFINE l == Append(s, x)
             t == Tail(s)
             u == Tail(l)
             v == Append(t, x)
             k == Len(s)
  <1>1. l \in Seq(S) /\ k \in Nat /\ Len(l) = k + 1 /\ (\A i \in 1 .. k : l[i] = s[i]) /\ l[k + 1] = x
    BY LongerIs
  <1>2. t \in Seq(S) /\ k >= 1 /\ Len(t) = k - 1 /\ \A i \in 1 .. k - 1 : t[i] = s[i + 1]
    BY RestIs
  <1> HIDE DEF l, t, k
  <1>3. l # << >>
    BY <1>1
  <1>4. u \in Seq(S) /\ Len(u) = Len(l) - 1 /\ \A i \in 1 .. Len(l) - 1 : u[i] = l[i + 1]
    BY <1>1, <1>3, RestIs
  <1>5. v \in Seq(S) /\ Len(v) = Len(t) + 1 /\ (\A i \in 1 .. Len(t) : v[i] = t[i]) /\ v[Len(t) + 1] = x
    BY <1>2, LongerIs
  <1> HIDE DEF u, v
  <1>6. Len(u) = k /\ Len(v) = k
    BY <1>1, <1>2, <1>4, <1>5
  <1>7. ASSUME NEW i \in 1 .. k
        PROVE  u[i] = v[i]
    <2>1. u[i] = l[i + 1]
      BY <1>1, <1>4
    <2>2. CASE i = k
      <3>1. l[i + 1] = x /\ v[i] = x
        <4>1. Len(t) + 1 = k
          BY <1>1, <1>2
        <4> QED  BY <2>2, <4>1, <1>1, <1>5
      <3> QED  BY <2>1, <3>1
    <2>3. CASE i # k
      <3>1. i \in 1 .. k - 1 /\ i + 1 \in 1 .. k /\ i \in 1 .. Len(t)
        BY <2>3, <1>1, <1>2
      <3>2. l[i + 1] = s[i + 1]
        BY <3>1, <1>1
      <3>3. v[i] = t[i] /\ t[i] = s[i + 1]
        BY <3>1, <1>2, <1>5
      <3> QED  BY <2>1, <3>2, <3>3
    <2> QED  BY <2>2, <2>3
  <1>8. u = v
    BY <1>4, <1>5, <1>6, <1>7, SeqEqual
  <1>9. l[1] = s[1]
    <2>1. 1 \in 1 .. k
      BY <1>1, <1>2
    <2> QED  BY <2>1, <1>1
  <1> QED  BY <1>8, <1>9 DEF l, t, u, v

LEMMA EnteredLess ==
  ASSUME accFilter \in Seq(Nat), accFilter # << >>, Rising(accFilter), accFilter' = Tail(accFilter), ops' = ops, NEW o, NEW f, f = accFilter[1]
  PROVE  /\ ops[f].op = o => Cardinality(EnteredOf(o)') = Cardinality(EnteredOf(o)) - 1
         /\ ops[f].op # o => EnteredOf(o)' = EnteredOf(o)
  <1>1. Members(accFilter)' = Members(accFilter) \ {f} /\ f \in Members(accFilter)
    <2>1. Members(Tail(accFilter)) = Members(accFilter) \ {accFilter[1]} /\ accFilter[1] \in Members(accFilter)
      BY MembersRest
    <2> QED  BY <2>1 DEF Members
  <1>2. EnteredOf(o)' = { m \in Members(accFilter) \ {f} : ops[m].op = o }
    BY <1>1 DEF EnteredOf
  <1>3. ops[f].op # o => EnteredOf(o)' = EnteredOf(o)
    BY <1>2 DEF EnteredOf
  <1>4. ASSUME ops[f].op = o
        PROVE  Cardinality(EnteredOf(o)') = Cardinality(EnteredOf(o)) - 1
    <2>1. EnteredOf(o)' = EnteredOf(o) \ {f} /\ f \in EnteredOf(o)
      BY <1>1, <1>2, <1>4 DEF EnteredOf
    <2>2. IsFiniteSet(EnteredOf(o))
      BY EnteredFinite
    <2>3. PICK E : E = EnteredOf(o)
      OBVIOUS
    <2>4. Cardinality(E \ {f}) = Cardinality(E) - 1
      BY <2>1, <2>2, <2>3, FS_RemoveElement
    <2> QED  BY <2>1, <2>3, <2>4
  <1> QED  BY <1>3, <1>4

\* A completion belongs to the oldest entry: its stream is due, and no SET that is still to be
\* written leaves the filter.
LEMMA OldestIs ==
  ASSUME FlowsFresh, acc.pop # NoOne, pops[acc.pop] > 0
  PROVE  /\ acc.pop \in {0, 1} /\ accFilter # << >> /\ accFilter \in Seq(Nat) /\ Rising(accFilter)
         /\ (acc.pop = 1 => ops[accFilter[1]].op = "SET") /\ (acc.pop = 0 => ops[accFilter[1]].op = "GET")
         /\ accFilter[1] \notin Members(paths["setMetadata"])
         /\ Streaming(Tail(HeldSeq), seqQ)
         /\ Holding => Tail(HeldSeq) = Append(Tail(accFilter), acc.req)
         /\ ~ Holding => Tail(HeldSeq) = Tail(accFilter)
  <1>1. /\ OpsSound /\ DataFlows /\ InTurn /\ FilterOrder /\ CountsAgree /\ FifosTyped(paths) /\ Len(ops) \in Nat /\ Demuxed \in Nat
        /\ Reading \in {0, 1} /\ Members(accFilter) \subseteq 1 .. Demuxed /\ Demuxed <= Len(ops)
    BY FlowFacts
  <1>2. acc.pop \in {0, 1} /\ seqQ \in Seq({0, 1}) /\ accFilter \in Seq(Nat) /\ Rising(accFilter) /\ pops[0] \in Nat /\ pops[1] \in Nat
    BY <1>1 DEF InTurn, FilterOrder, NoOne
  <1>3. PICK sm \in Seq(Nat), lq \in Seq(Nat) : sm = paths["setMetadata"] /\ lq = paths["valueLengthQ"]
    BY <1>1 DEF FifosTyped
  <1>4. /\ Cardinality(EnteredOf("SET")) = pops[1] + Len(sm) /\ Cardinality(EnteredOf("GET")) = pops[0] + Len(lq) + Reading
        /\ Len(sm) \in Nat /\ Len(lq) \in Nat
    BY <1>1, <1>3 DEF CountsAgree
  <1>5. accFilter # << >>
    <2> SUFFICES ASSUME accFilter = << >>
                 PROVE  FALSE
      OBVIOUS
    <2>1. Members(accFilter) = {}
      BY DEF Members
    <2>2. EnteredOf("SET") = {} /\ EnteredOf("GET") = {}
      BY <2>1 DEF EnteredOf
    <2>3. Cardinality({}) = 0
      BY FS_EmptySet
    <2>4. PICK c, p, q, u, v, r : c = Cardinality({}) /\ p = pops[1] /\ q = pops[0] /\ u = Len(sm) /\ v = Len(lq) /\ r = Reading
      OBVIOUS
    <2>5. c = p + u /\ c = q + v + r /\ c = 0 /\ p \in Nat /\ q \in Nat /\ u \in Nat /\ v \in Nat /\ r \in {0, 1}
      BY <2>2, <2>3, <2>4, <1>1, <1>2, <1>4
    <2>6. p = 0 /\ q = 0
      BY <2>5
    <2>7. pops[1] = 0 /\ pops[0] = 0
      BY <2>4, <2>6
    <2>8. pops[acc.pop] = 0
      BY <2>7, <1>2
    <2> QED  BY <2>8
  <1>6. PICK pq \in Seq({0, 1}) : pq = PopsOf(acc.pop, seqQ) /\ pq # << >> /\ pq[1] = acc.pop /\ Tail(pq) = seqQ
    <2>1. PICK p \in {0, 1} : p = acc.pop
      BY <1>2
    <2>2. PopsOf(p, seqQ) \in Seq({0, 1}) /\ PopsOf(p, seqQ) # << >> /\ PopsOf(p, seqQ)[1] = p /\ Tail(PopsOf(p, seqQ)) = seqQ
      BY <1>2, PopsRest
    <2> QED  BY <2>1, <2>2
  <1>7. PICK h \in Seq(Nat) : h = HeldSeq
    BY HeldIs
  <1>8. Streaming(h, pq)
    BY <1>1, <1>6, <1>7 DEF FilterOrder
  <1>9. h # << >> /\ pq[1] = StreamOf(h[1]) /\ Streaming(Tail(h), Tail(pq))
    BY <1>6, <1>8, StreamsRest
  <1>10. /\ h[1] = accFilter[1]
         /\ Holding => Tail(h) = Append(Tail(accFilter), acc.req)
         /\ ~ Holding => Tail(h) = Tail(accFilter)
    <2>1. CASE ~ Holding
      BY <2>1, <1>7 DEF HeldSeq
    <2>2. CASE Holding
      <3>1. h = Append(accFilter, acc.req) /\ acc.req \in Nat
        BY <2>2, <1>7, HeldIs
      <3>2. PICK n \in Nat : n = acc.req
        BY <3>1
      <3>3. Append(accFilter, n)[1] = accFilter[1] /\ Tail(Append(accFilter, n)) = Append(Tail(accFilter), n)
        BY <1>2, <1>5, RestLonger
      <3> QED  BY <2>2, <3>1, <3>2, <3>3
    <2> QED  BY <2>1, <2>2
  <1>11. PICK f : f = accFilter[1]
    OBVIOUS
  <1>12. f \in Members(accFilter) /\ \A x \in Members(accFilter) : f <= x /\ x \in Nat
    BY <1>2, <1>5, <1>11, MembersRest
  <1>13. f \in 1 .. Len(ops)
    BY <1>1, <1>12
  <1>14. ops[f].op \in {"SET", "GET"}
    <2>1. ops[f].op # "PASS"
      BY <1>1, <1>12 DEF FilterOrder, Members
    <2> QED  BY <2>1, <1>1, <1>13, OpIs
  <1>15. (acc.pop = 1 => ops[f].op = "SET") /\ (acc.pop = 0 => ops[f].op = "GET")
    BY <1>6, <1>9, <1>10, <1>11, <1>14 DEF StreamOf
  <1>16. SetsInTurn(Members(accFilter), sm, Done, Demuxed)
    BY <1>1, <1>3 DEF DataFlows, ValuesOf
  <1>17. f \notin Members(sm)
    <2>1. CASE acc.pop = 0
      BY <2>1, <1>15, <1>16 DEF SetsInTurn, Members
    <2>2. CASE acc.pop = 1
      <3> SUFFICES ASSUME f \in Members(sm)
                   PROVE  FALSE
        OBVIOUS
      <3>1. sm # << >> /\ Rising(sm)
        BY <1>16 DEF SetsInTurn, Members
      <3>2. sm[1] <= f /\ sm[1] \in Nat /\ f \in Nat
        <4>1. (\A x \in Members(sm) : sm[1] <= x /\ x \in Nat) /\ sm[1] \in Members(sm)
          BY <3>1, MembersRest
        <4> QED  BY <4>1
      <3>3. EnteredOf("SET") \subseteq Members(sm)
        <4> SUFFICES ASSUME NEW m \in Members(accFilter), ops[m].op = "SET"
                     PROVE  m \in Members(sm)
          BY DEF EnteredOf
        <4>1. m \in 1 .. Demuxed /\ f <= m /\ m \in Nat
          BY <1>1, <1>12
        <4>2. m >= sm[1]
          BY <3>2, <4>1
        <4> QED  BY <3>1, <4>1, <4>2, <1>16 DEF SetsInTurn
      <3>4. IsFiniteSet(Members(sm)) /\ Cardinality(Members(sm)) <= Len(sm)
        BY MembersCount
      <3>5. Cardinality(EnteredOf("SET")) <= Cardinality(Members(sm))
        BY <3>3, <3>4, FS_Subset
      <3>6. Cardinality(Members(sm)) \in Nat
        BY <3>4, FS_CardinalityType
      <3>7. PICK c, d, p, u : c = Cardinality(EnteredOf("SET")) /\ d = Cardinality(Members(sm)) /\ p = pops[1] /\ u = Len(sm)
        OBVIOUS
      <3>8. c = p + u /\ c <= d /\ d <= u /\ d \in Nat /\ u \in Nat /\ p \in Nat
        BY <1>2, <1>4, <3>4, <3>5, <3>6, <3>7
      <3>9. p > 0
        BY <2>2, <3>7
      <3> QED  BY <3>8, <3>9
    <2> QED  BY <1>2, <2>1, <2>2
  <1>18. Streaming(Tail(HeldSeq), seqQ)
    BY <1>6, <1>7, <1>9
  <1> QED  BY <1>2, <1>3, <1>5, <1>7, <1>10, <1>11, <1>15, <1>17, <1>18

LEMMA PopFlows ==
  ASSUME FlowsFresh, Serving, AccPop, UNCHANGED <<sbuild, ops, lines, rec, dram, answers>>
  PROVE  FlowsFresh'
  <1>1. /\ OpsSound /\ DataFlows /\ InTurn /\ FilterOrder /\ CountsAgree /\ RecTyped /\ AnsweredFresh /\ FifosTyped(paths)
        /\ Len(ops) \in Nat /\ Done \in Nat /\ Demuxed \in Nat /\ Done <= Demuxed /\ Demuxed <= Len(ops)
        /\ Reading \in {0, 1} /\ Members(accFilter) \subseteq 1 .. Len(ops)
    BY FlowFacts
  <1>2. OpsSound' /\ OpsGrow
    BY <1>1, OpsStay
  <1>3. /\ acc.state \in {"ACC_POP", "ACC_POP_WAIT"} /\ accFilter' = Tail(accFilter) /\ inData' = inData /\ paths' = paths
        /\ pops' = [pops EXCEPT ![acc.pop] = IF @ > 0 THEN @ - 1 ELSE 0]
    BY DEF AccPop, Serving
  <1>4. acc.pop # NoOne /\ pops[acc.pop] > 0
    BY <1>1, <1>3 DEF FilterOrder, CanPop
  <1>5. PICK f : f = accFilter[1]
    OBVIOUS
  <1>6. /\ acc.pop \in {0, 1} /\ accFilter # << >> /\ accFilter \in Seq(Nat) /\ Rising(accFilter)
        /\ (acc.pop = 1 => ops[f].op = "SET") /\ (acc.pop = 0 => ops[f].op = "GET")
        /\ f \notin Members(paths["setMetadata"])
        /\ Streaming(Tail(HeldSeq), seqQ)
        /\ Holding => Tail(HeldSeq) = Append(accFilter', acc.req)
        /\ ~ Holding => Tail(HeldSeq) = accFilter'
    BY <1>3, <1>4, <1>5, OldestIs
  <1>7. /\ acc \in [state : AccStates, req : Nat, pop : {0, 1, 2}] /\ seqQ \in Seq({0, 1}) /\ pops \in [{0, 1} -> Nat]
    BY <1>1 DEF InTurn, FilterOrder
  <1>8. PICK s \in AccStates : /\ s = IF acc.state = "ACC_POP" THEN "ACC_IDLE" ELSE "ACC_WAIT"
                               /\ IF seqQ # << >>
                                  THEN acc' = [acc EXCEPT !.state = s, !.pop = Head(seqQ)] /\ seqQ' = Tail(seqQ)
                                  ELSE acc' = [acc EXCEPT !.state = s, !.pop = NoOne] /\ UNCHANGED seqQ
    BY DEF AccPop, AccStates
  <1>9. /\ acc' \in [state : AccStates, req : Nat, pop : {0, 1, 2}] /\ acc'.state = s /\ acc'.req = acc.req
        /\ seqQ' \in Seq({0, 1}) /\ PopsOf(acc'.pop, seqQ') = seqQ
    <2>1. CASE seqQ # << >>
      <3>1. Head(seqQ) \in {0, 1} /\ Tail(seqQ) \in Seq({0, 1}) /\ PopsOf(Head(seqQ), Tail(seqQ)) = seqQ
        BY <1>7, <2>1, PopsNext
      <3>2. acc' = [acc EXCEPT !.state = s, !.pop = Head(seqQ)] /\ seqQ' = Tail(seqQ)
        BY <1>8, <2>1
      <3>3. acc' \in [state : AccStates, req : Nat, pop : {0, 1, 2}] /\ acc'.state = s /\ acc'.req = acc.req /\ acc'.pop = Head(seqQ)
        BY <1>7, <3>1, <3>2
      <3> QED  BY <3>1, <3>2, <3>3
    <2>2. CASE seqQ = << >>
      <3>1. acc' = [acc EXCEPT !.state = s, !.pop = NoOne] /\ seqQ' = seqQ
        BY <1>8, <2>2
      <3>2. acc' \in [state : AccStates, req : Nat, pop : {0, 1, 2}] /\ acc'.state = s /\ acc'.req = acc.req /\ acc'.pop = NoOne
        BY <1>7, <3>1 DEF NoOne
      <3> QED  BY <1>7, <3>1, <3>2 DEF PopsOf
    <2> QED  BY <2>1, <2>2
  <1>10. (Holding' <=> Holding) /\ HeldCount' = HeldCount /\ HeldSeq' = Tail(HeldSeq)
    <2>1. Holding' <=> Holding
      BY <1>3, <1>8, <1>9 DEF Holding
    <2>2. HeldSeq' = (IF Holding THEN Append(accFilter', acc.req) ELSE accFilter')
      BY <2>1, <1>9 DEF HeldSeq
    <2> QED  BY <2>1, <2>2, <1>6 DEF HeldCount
  <1>11. Done' = Done /\ Demuxed' = Demuxed /\ Reading' = Reading
    BY <1>3 DEF Done, Demuxed, Reading
  <1>12. Members(accFilter') = Members(accFilter) \ {f} /\ Rising(accFilter')
    BY <1>3, <1>5, <1>6, MembersRest
  <1>13. DataFlows'
    <2>1. PICK F, a, d, b : F = Members(accFilter) /\ a = Done /\ d = Demuxed /\ b = Reading
      OBVIOUS
    <2>2. ValuesOf(F, paths, a, d, lines, dram, b, rec.line, rec.counter, rec.left)
      BY <1>1, <2>1 DEF DataFlows
    <2>3. SetsInTurn(F \ {f}, paths["setMetadata"], a, d)
      <3>1. SetsInTurn(F, paths["setMetadata"], a, d)
        BY <2>2 DEF ValuesOf
      <3> QED  BY <3>1, <1>6, SetsPop
    <2>4. ValuesOf(F \ {f}, paths, a, d, lines, dram, b, rec.line, rec.counter, rec.left)
      BY <2>2, <2>3 DEF ValuesOf
    <2>5. Members(accFilter') = F \ {f}
      BY <1>12, <2>1
    <2>6. ValuesOf(Members(accFilter'), paths', Done', Demuxed', lines', dram', b, rec'.line, rec'.counter, rec'.left)
      BY <1>3, <1>11, <2>1, <2>4, <2>5
    <2>7. Members(accFilter') \subseteq 1 .. Len(ops) /\ Done' \in Nat /\ Demuxed' \in Nat /\ Demuxed' <= Len(ops) /\ Reading' = b /\ b \in {0, 1}
      BY <1>1, <1>11, <1>12, <2>1
    <2> QED  BY <1>1, <1>2, <2>6, <2>7, DataNext
  <1>14. InTurn'
    BY <1>1, <1>3, <1>9, <1>10, <1>11 DEF InTurn
  <1>15. FilterOrder'
    <2>1. Streaming(HeldSeq, PopsOf(acc.pop, seqQ))'
      <3>1. PICK h, p : h = Tail(HeldSeq) /\ p = seqQ
        OBVIOUS
      <3>2. HeldSeq' = h /\ PopsOf(acc.pop, seqQ)' = p /\ Streaming(h, p)
        BY <3>1, <1>6, <1>9, <1>10 DEF PopsOf
      <3> QED  BY <3>2 DEF Streaming, StreamOf
    <2>2. /\ accFilter' \in Seq(Nat) /\ Len(accFilter) \in Nat /\ Len(accFilter') = Len(accFilter) - 1
          /\ \A i \in 1 .. Len(accFilter) - 1 : accFilter'[i] = accFilter[i + 1]
      BY <1>3, <1>6, RestIs
    <2>3. ASSUME NEW i \in 1 .. Len(accFilter')
          PROVE  accFilter'[i] \in 1 .. Demuxed' /\ ops[accFilter'[i]].op # "PASS"
      <3>1. i \in 1 .. Len(accFilter) - 1 /\ i + 1 \in 1 .. Len(accFilter)
        BY <2>2
      <3>2. accFilter[i + 1] \in 1 .. Demuxed /\ ops[accFilter[i + 1]].op # "PASS"
        BY <1>1, <3>1 DEF FilterOrder
      <3> QED  BY <3>1, <3>2, <2>2, <1>11
    <2>4. pops' \in [{0, 1} -> Nat]
      BY <1>3, <1>4, <1>6, <1>7
    <2>5. acc'.state \notin {"ACC_POP", "ACC_POP_WAIT"} /\ acc'.state # "ACC_PUSH"
      BY <1>8, <1>9
    <2> QED  BY <2>1, <2>2, <2>3, <2>4, <2>5, <1>9, <1>12 DEF FilterOrder, Rising
  <1>16. CountsAgree'
    <2>1. PICK sm, lq : sm = paths["setMetadata"] /\ lq = paths["valueLengthQ"]
      OBVIOUS
    <2>2. Len(sm) \in Nat /\ Len(lq) \in Nat
      BY <1>1, <2>1 DEF FifosTyped
    <2>3. PICK cs, cg, ds, dg, p, q, u, v, r : /\ cs = Cardinality(EnteredOf("SET")) /\ cg = Cardinality(EnteredOf("GET"))
                                               /\ ds = Cardinality(EnteredOf("SET")') /\ dg = Cardinality(EnteredOf("GET")')
                                               /\ p = pops[1] /\ q = pops[0] /\ u = Len(sm) /\ v = Len(lq) /\ r = Reading
      OBVIOUS
    <2>4. cs = p + u /\ cg = q + v + r /\ p \in Nat /\ q \in Nat /\ u \in Nat /\ v \in Nat /\ r \in {0, 1}
      BY <2>1, <2>2, <2>3, <1>1, <1>7 DEF CountsAgree
    <2>5. \A o : /\ ops[f].op = o => Cardinality(EnteredOf(o)') = Cardinality(EnteredOf(o)) - 1
                 /\ ops[f].op # o => EnteredOf(o)' = EnteredOf(o)
      BY <1>3, <1>5, <1>6, EnteredLess
    <2>6. Len(paths'["setMetadata"]) = u /\ Len(paths'["valueLengthQ"]) = v /\ Reading' = r
      BY <1>3, <1>11, <2>1, <2>3
    <2>7. CASE acc.pop = 1
      <3>1. ds = cs - 1 /\ dg = cg
        BY <2>3, <2>5, <2>7, <1>6
      <3>2. pops'[1] = p - 1 /\ pops'[0] = q
        BY <2>3, <2>7, <1>3, <1>4, <1>7
      <3>3. ds = (p - 1) + u /\ dg = q + v + r
        BY <2>4, <3>1
      <3>4. /\ Cardinality(EnteredOf("SET")') = pops'[1] + Len(paths'["setMetadata"])
            /\ Cardinality(EnteredOf("GET")') = pops'[0] + Len(paths'["valueLengthQ"]) + Reading'
        BY <2>3, <2>6, <3>2, <3>3
      <3> QED  BY <3>4 DEF CountsAgree
    <2>8. CASE acc.pop = 0
      <3>1. ds = cs /\ dg = cg - 1
        BY <2>3, <2>5, <2>8, <1>6
      <3>2. pops'[1] = p /\ pops'[0] = q - 1
        BY <2>3, <2>8, <1>3, <1>4, <1>7
      <3>3. ds = p + u /\ dg = (q - 1) + v + r
        BY <2>4, <3>1
      <3>4. /\ Cardinality(EnteredOf("SET")') = pops'[1] + Len(paths'["setMetadata"])
            /\ Cardinality(EnteredOf("GET")') = pops'[0] + Len(paths'["valueLengthQ"]) + Reading'
        BY <2>3, <2>6, <3>2, <3>3
      <3> QED  BY <3>4 DEF CountsAgree
    <2> QED  BY <1>6, <2>7, <2>8
  <1>17. RecTyped'
    BY <1>1, RecSame
  <1>18. AnsweredFresh'
    <2>1. Done <= Len(ops)
      BY <1>1
    <2> QED  BY <1>1, <1>2, <2>1, AnsweredStays
  <1> QED  BY <1>2, <1>13, <1>14, <1>15, <1>16, <1>17, <1>18 DEF FlowsFresh

\* setPath, the memory and receive leave accessControl and the requests.
LEMMA PathsStep ==
  ASSUME FlowsFresh, UNCHANGED <<sbuild, ops, inData, acc, seqQ, accFilter, answers>>, paths'["metadataBuffer"] = paths["metadataBuffer"],
         pops' \in [{0, 1} -> Nat], pops'[0] >= pops[0], pops'[1] >= pops[1],
         pops'[1] + Len(paths'["setMetadata"]) = pops[1] + Len(paths["setMetadata"]),
         pops'[0] + Len(paths'["valueLengthQ"]) + Reading' = pops[0] + Len(paths["valueLengthQ"]) + Reading,
         RecTyped', NEW b, b = 0 \/ b = 1, Reading' = b,
         ValuesOf(Members(accFilter), paths', Done, Demuxed, lines', dram', b, rec'.line, rec'.counter, rec'.left)
  PROVE  FlowsFresh'
  <1>1. /\ OpsSound /\ InTurn /\ FilterOrder /\ CountsAgree /\ AnsweredFresh
        /\ Len(ops) \in Nat /\ Done \in Nat /\ Demuxed \in Nat /\ Done <= Demuxed /\ Demuxed <= Len(ops)
        /\ Members(accFilter) \subseteq 1 .. Len(ops)
    BY FlowFacts
  <1>2. OpsSound' /\ OpsGrow
    BY <1>1, OpsStay
  <1>3. InTurn' /\ Done' = Done /\ Demuxed' = Demuxed
    BY <1>1, InTurnSame
  <1>4. FilterOrder'
    BY <1>1, <1>3, FilterSame
  <1>5. CountsAgree'
    BY <1>1, CountsSame
  <1>6. AnsweredFresh'
    <2>1. Done <= Len(ops)
      BY <1>1
    <2> QED  BY <1>1, <1>2, <2>1, AnsweredStays
  <1>7. DataFlows'
    <2>1. b \in {0, 1}
      OBVIOUS
    <2>2. ValuesOf(Members(accFilter'), paths', Done', Demuxed', lines', dram', b, rec'.line, rec'.counter, rec'.left)
      BY <1>3
    <2>3. Members(accFilter') \subseteq 1 .. Len(ops) /\ Done' \in Nat /\ Demuxed' \in Nat /\ Demuxed' <= Len(ops)
      BY <1>1, <1>3
    <2> QED  BY <1>1, <1>2, <2>1, <2>2, <2>3, DataNext
  <1> QED  BY <1>2, <1>3, <1>4, <1>5, <1>6, <1>7 DEF FlowsFresh

LEMMA SetPathFields ==
  ASSUME paths = [p \in Paths |-> paths[p]], SetPath, NEW k, k = WordsOfLine
  PROVE  /\ paths' = [p \in Paths |-> paths'[p]]
         /\ \A p \in Paths \ {"setMetadata", "setValueIn"} : paths'[p] = paths[p]
         /\ paths'["setValueIn"] = LastPart(paths["setValueIn"], k)
         /\ paths'["setMetadata"] = (IF paths["setValueIn"][k].eop THEN Tail(paths["setMetadata"]) ELSE paths["setMetadata"])
  BY DEF SetPath, Paths, LastPart

LEMMA DramReadFields ==
  ASSUME paths = [p \in Paths |-> paths[p]], DramRead, ~ sbuild.gaps, NEW k, k = FirstValue(paths["memRdCmd"])
  PROVE  /\ paths' = [p \in Paths |-> paths'[p]]
         /\ \A p \in Paths \ {"memRdCmd", "memRdData"} : paths'[p] = paths[p]
         /\ paths'["memRdCmd"] = LastPart(paths["memRdCmd"], k)
         /\ paths'["memRdData"] = paths["memRdData"] \o LinesRead(dram, paths["memRdCmd"], k)
  <1>1. paths' = [paths EXCEPT !.memRdCmd = SubSeq(@, k + 1, Len(@)),
                               !.memRdData = @ \o [i \in 1 .. k |-> dram[paths["memRdCmd"][i].addr][paths["memRdCmd"][i].line]]]
    BY Zenon DEF DramRead, FirstValue
  <1>2. PICK x : x = [i \in 1 .. k |-> dram[paths["memRdCmd"][i].addr][paths["memRdCmd"][i].line]]
    OBVIOUS
  <1>3. x = LinesRead(dram, paths["memRdCmd"], k)
    BY <1>2 DEF LinesRead
  <1>4. paths' = [paths EXCEPT !.memRdCmd = SubSeq(@, k + 1, Len(@)), !.memRdData = @ \o x]
    BY <1>1, <1>2
  <1> QED  BY <1>3, <1>4 DEF Paths, LastPart

LEMMA GetIdleFields ==
  ASSUME paths = [p \in Paths |-> paths[p]], GetIdle, NEW x, x = Head(paths["memRdData"])
  PROVE  /\ paths' = [p \in Paths |-> paths'[p]]
         /\ \A p \in Paths \ {"valueLengthQ", "memRdData", "getPath2remux"} : paths'[p] = paths[p]
         /\ paths'["valueLengthQ"] = Tail(paths["valueLengthQ"]) /\ paths'["memRdData"] = Tail(paths["memRdData"])
         /\ paths'["getPath2remux"] = Append(paths["getPath2remux"], x[1])
  BY DEF GetIdle, Paths

LEMMA RemuxFields ==
  ASSUME paths = [p \in Paths |-> paths[p]], Remux, NEW n, n = Head(paths["metadataBuffer"]),
         NEW k, k = (IF ops[n].op = "GET" THEN ops[n].words ELSE 0)
  PROVE  /\ paths' = [p \in Paths |-> paths'[p]]
         /\ \A p \in Paths \ {"metadataBuffer", "getPath2remux"} : paths'[p] = paths[p]
         /\ paths'["metadataBuffer"] = Tail(paths["metadataBuffer"])
         /\ paths'["getPath2remux"] = LastPart(paths["getPath2remux"], k)
         /\ answers' = Append(answers, [req |-> n, value |-> FirstPart(paths["getPath2remux"], k)])
  BY DEF Remux, Paths, LastPart, FirstPart

\* setPath writes a line.
LEMMA SetPathFlows ==
  ASSUME FlowsFresh, SetPath
  PROVE  FlowsFresh'
  <1>1. /\ OpsSound /\ DataFlows /\ FilterOrder /\ RecTyped /\ FifosTyped(paths) /\ Reading \in {0, 1}
        /\ Len(ops) \in Nat /\ Demuxed \in Nat /\ Demuxed <= Len(ops) /\ Members(accFilter) \subseteq 1 .. Len(ops)
    BY FlowFacts
  <1>2. PICK k, n, final : k = WordsOfLine /\ n = Head(paths["setMetadata"]) /\ final = paths["setValueIn"][k].eop
    OBVIOUS
  <1>3. paths = [p \in Paths |-> paths[p]]
    BY <1>1 DEF FifosTyped
  <1>4. /\ paths' = [p \in Paths |-> paths'[p]]
        /\ \A p \in Paths \ {"setMetadata", "setValueIn"} : paths'[p] = paths[p]
        /\ paths'["setValueIn"] = LastPart(paths["setValueIn"], k)
        /\ paths'["setMetadata"] = (IF final THEN Tail(paths["setMetadata"]) ELSE paths["setMetadata"])
    BY <1>2, <1>3, SetPathFields
  <1>5. /\ paths["setMetadata"] # << >> /\ lines' = (IF final THEN 0 ELSE lines + 1)
        /\ dram' = [dram EXCEPT ![ops[n].addr][lines] = LineOfWords(paths["setValueIn"], k, BufferOf(dram, ops[n].addr, lines))]
        /\ pops' = (IF final THEN [pops EXCEPT ![1] = @ + 1] ELSE pops)
        /\ UNCHANGED <<sbuild, ops, inData, acc, seqQ, accFilter, rec, answers>>
    BY <1>2 DEF SetPath, LineOfWords, BufferOf, setValueBuffer
  <1>6. ValuesOf(Members(accFilter), paths', Done, Demuxed, lines', dram', Reading, rec'.line, rec'.counter, rec'.left)
    <2>1. PICK F, a, d, P2, ln, ln2, M, M2, b, x, c, l :
            /\ F = Members(accFilter) /\ a = Done /\ d = Demuxed /\ P2 = paths' /\ ln = lines /\ ln2 = lines' /\ M = dram /\ M2 = dram'
            /\ b = Reading /\ x = rec.line /\ c = rec.counter /\ l = rec.left
      OBVIOUS
    <2>2. F \subseteq 1 .. Len(ops) /\ d \in Nat /\ d <= Len(ops) /\ ValuesOf(F, paths, a, d, ln, M, b, x, c, l)
      BY <1>1, <2>1 DEF DataFlows
    <2>3. /\ P2 = [p \in Paths |-> P2[p]] /\ \A p \in Paths \ {"setMetadata", "setValueIn"} : P2[p] = paths[p]
          /\ P2["setValueIn"] = LastPart(paths["setValueIn"], k)
          /\ P2["setMetadata"] = (IF final THEN Tail(paths["setMetadata"]) ELSE paths["setMetadata"])
      BY <1>4, <2>1
    <2>4. ln2 = (IF final THEN 0 ELSE ln + 1) /\ M2 = [M EXCEPT ![ops[n].addr][ln] = LineOfWords(paths["setValueIn"], k, BufferOf(M, ops[n].addr, ln))]
      BY <1>5, <2>1
    <2>a. LineWritten(P2, ln, ln2, M, M2, k, n, final)
      BY <1>2, <2>3, <2>4 DEF LineWritten
    <2>5. ValuesOf(F, P2, a, d, ln2, M2, b, x, c, l)
      <3>1. OpsSound /\ paths["setMetadata"] # << >>
        BY <1>1, <1>5
      <3> QED  BY <2>2, <2>a, <3>1, DataWritten
    <2> QED  BY <1>5, <2>1, <2>5
  <1>7. RecTyped' /\ Reading' = Reading
    BY <1>1, <1>5, RecSame
  <1>8. paths'["metadataBuffer"] = paths["metadataBuffer"] /\ paths'["valueLengthQ"] = paths["valueLengthQ"]
    BY <1>4 DEF Paths
  <1>9. pops \in [{0, 1} -> Nat]
    BY <1>1 DEF FilterOrder
  <1>10. pops' \in [{0, 1} -> Nat] /\ pops'[0] = pops[0] /\ pops'[0] >= pops[0] /\ pops'[1] >= pops[1] /\ pops'[1] = (IF final THEN pops[1] + 1 ELSE pops[1])
    BY <1>5, <1>9
  <1>11. pops'[1] + Len(paths'["setMetadata"]) = pops[1] + Len(paths["setMetadata"])
    <2>1. PICK sm \in Seq(Nat) : sm = paths["setMetadata"]
      BY <1>1 DEF FifosTyped
    <2>2. Len(sm) \in Nat /\ Len(Tail(sm)) = Len(sm) - 1 /\ pops[1] \in Nat
      BY <1>5, <1>9, <2>1, RestIs
    <2>3. CASE final
      <3>1. pops'[1] = pops[1] + 1 /\ Len(paths'["setMetadata"]) = Len(sm) - 1
        BY <2>1, <2>2, <2>3, <1>4, <1>10
      <3> QED  BY <2>1, <2>2, <3>1
    <2>4. CASE ~ final
      BY <2>1, <2>2, <2>4, <1>4, <1>10
    <2> QED  BY <2>3, <2>4
  <1>12. pops'[0] + Len(paths'["valueLengthQ"]) + Reading' = pops[0] + Len(paths["valueLengthQ"]) + Reading
    BY <1>7, <1>8, <1>10
  <1>13. PICK b : b = Reading /\ (b = 0 \/ b = 1)
    BY <1>1
  <1> QED  BY <1>5, <1>6, <1>7, <1>8, <1>10, <1>11, <1>12, <1>13, PathsStep

\* The memory answers the commands of a value.
LEMMA DramReadFlows ==
  ASSUME FlowsFresh, Serving, DramRead
  PROVE  FlowsFresh'
  <1>1. /\ OpsSound /\ DataFlows /\ FilterOrder /\ RecTyped /\ FifosTyped(paths) /\ Reading \in {0, 1}
        /\ Len(ops) \in Nat /\ Done \in Nat /\ Demuxed \in Nat /\ Demuxed <= Len(ops)
    BY FlowFacts
  <1>2. PICK k : k = FirstValue(paths["memRdCmd"])
    OBVIOUS
  <1>3. paths = [p \in Paths |-> paths[p]]
    BY <1>1 DEF FifosTyped
  <1>4. /\ paths' = [p \in Paths |-> paths'[p]]
        /\ \A p \in Paths \ {"memRdCmd", "memRdData"} : paths'[p] = paths[p]
        /\ paths'["memRdCmd"] = LastPart(paths["memRdCmd"], k)
        /\ paths'["memRdData"] = paths["memRdData"] \o LinesRead(dram, paths["memRdCmd"], k)
    BY <1>2, <1>3, DramReadFields DEF Serving
  <1>5. paths["memRdCmd"] # << >> /\ UNCHANGED <<sbuild, ops, inData, acc, seqQ, accFilter, pops, lines, rec, dram, answers>>
    BY DEF DramRead
  <1>6. /\ paths'["metadataBuffer"] = paths["metadataBuffer"] /\ paths'["valueLengthQ"] = paths["valueLengthQ"]
        /\ paths'["setMetadata"] = paths["setMetadata"] /\ paths'["setValueIn"] = paths["setValueIn"] /\ paths'["getPath2remux"] = paths["getPath2remux"]
    BY <1>4 DEF Paths
  <1>7. ValuesOf(Members(accFilter), paths', Done, Demuxed, lines', dram', Reading, rec'.line, rec'.counter, rec'.left)
    <2>1. PICK F, a, d, P, P2, ln, M, b, x, c, l, sm :
            /\ F = Members(accFilter) /\ a = Done /\ d = Demuxed /\ P = paths /\ P2 = paths' /\ ln = lines /\ M = dram
            /\ b = Reading /\ x = rec.line /\ c = rec.counter /\ l = rec.left /\ sm = paths["setMetadata"]
      OBVIOUS
    <2>2. ValuesOf(F, P, a, d, ln, M, b, x, c, l) /\ a \in Nat /\ d \in Nat /\ d <= Len(ops) /\ b \in {0, 1} /\ FifosTyped(P)
      BY <1>1, <2>1 DEF DataFlows
    <2>3. SetsInTurn(F, sm, a, d) /\ MemoryHolds(M, sm, ln, d) /\ ReadsOf(a, d, b, P, x, c, l)
      BY <2>1, <2>2 DEF ValuesOf
    <2>4. /\ P["memRdCmd"] # << >> /\ k = FirstValue(P["memRdCmd"])
          /\ P2["memRdCmd"] = LastPart(P["memRdCmd"], k) /\ P2["valueLengthQ"] = P["valueLengthQ"]
          /\ P2["memRdData"] = P["memRdData"] \o LinesRead(M, P["memRdCmd"], k) /\ P2["getPath2remux"] = P["getPath2remux"]
      BY <1>2, <1>4, <1>5, <1>6, <2>1
    <2>5. ReadsOf(a, d, b, P2, x, c, l) /\ P2["memRdCmd"] \in Seq(ReadCmds) /\ P2["memRdData"] \in Seq(MemLines)
      <3>1. ReadBurst(P, P2, M, k)
        BY <2>4 DEF ReadBurst
      <3>2. OpsSound /\ (b = 0 \/ b = 1) /\ a \in Nat /\ d \in Nat /\ d <= Len(ops) /\ FifosTyped(P)
        BY <1>1, <2>2
      <3> QED  BY <2>3, <3>1, <3>2, ReadsMemory
    <2>6. FifosTyped(P2)
      BY <1>1, <1>4, <1>6, <2>1, <2>5 DEF FifosTyped
    <2>7. P2["setMetadata"] = P["setMetadata"] /\ P2["setValueIn"] = P["setValueIn"]
      BY <1>6, <2>1
    <2>8. ValuesOf(F, P2, a, d, ln, M, b, x, c, l)
      BY <2>2, <2>5, <2>6, <2>7, DataReads
    <2> QED  BY <1>5, <2>1, <2>8
  <1>8. RecTyped' /\ Reading' = Reading
    BY <1>1, <1>5, RecSame
  <1>9. pops \in [{0, 1} -> Nat]
    BY <1>1 DEF FilterOrder
  <1>10. pops' \in [{0, 1} -> Nat] /\ pops'[0] >= pops[0] /\ pops'[1] >= pops[1]
    BY <1>5, <1>9
  <1>11. /\ pops'[1] + Len(paths'["setMetadata"]) = pops[1] + Len(paths["setMetadata"])
         /\ pops'[0] + Len(paths'["valueLengthQ"]) + Reading' = pops[0] + Len(paths["valueLengthQ"]) + Reading
    BY <1>5, <1>6, <1>8
  <1>12. PICK b : b = Reading /\ (b = 0 \/ b = 1)
    BY <1>1
  <1> QED  BY <1>5, <1>6, <1>7, <1>8, <1>10, <1>11, <1>12, PathsStep

\* receive takes the first line of a value.
LEMMA GetIdleFlows ==
  ASSUME FlowsFresh, GetIdle, UNCHANGED <<sbuild, ops, inData, acc, seqQ, accFilter, lines, dram, answers>>
  PROVE  FlowsFresh'
  <1>1. /\ OpsSound /\ DataFlows /\ FilterOrder /\ RecTyped /\ FifosTyped(paths)
        /\ Len(ops) \in Nat /\ Done \in Nat /\ Demuxed \in Nat /\ Demuxed <= Len(ops)
    BY FlowFacts
  <1>2. PICK x : x = Head(paths["memRdData"])
    OBVIOUS
  <1>3. paths = [p \in Paths |-> paths[p]]
    BY <1>1 DEF FifosTyped
  <1>4. /\ paths' = [p \in Paths |-> paths'[p]]
        /\ \A p \in Paths \ {"valueLengthQ", "memRdData", "getPath2remux"} : paths'[p] = paths[p]
        /\ paths'["valueLengthQ"] = Tail(paths["valueLengthQ"]) /\ paths'["memRdData"] = Tail(paths["memRdData"])
        /\ paths'["getPath2remux"] = Append(paths["getPath2remux"], x[1])
    BY <1>2, <1>3, GetIdleFields
  <1>5. /\ rec.state = "GET_IDLE" /\ paths["valueLengthQ"] # << >> /\ paths["memRdData"] # << >> /\ pops' = pops
        /\ rec' = [state |-> "GET_ACC", line |-> x, left |-> Head(paths["valueLengthQ"]) - 1, counter |-> rec.counter + 1]
    BY <1>2 DEF GetIdle
  <1>6. rec.counter = 0 /\ Reading = 0 /\ Reading' = 1
    BY <1>1, <1>5 DEF RecTyped, Reading
  <1>7. RecTyped' /\ rec'.line = x /\ rec'.counter = 1 /\ rec'.left = Head(paths["valueLengthQ"]) - 1
    BY <1>5, <1>6, StoreAssumption DEF RecTyped
  <1>8. /\ paths'["metadataBuffer"] = paths["metadataBuffer"] /\ paths'["memRdCmd"] = paths["memRdCmd"]
        /\ paths'["setMetadata"] = paths["setMetadata"] /\ paths'["setValueIn"] = paths["setValueIn"]
    BY <1>4 DEF Paths
  <1>9. PICK lq \in Seq(Nat), r \in Seq(MemLines), g \in Seq(Pairs) :
          lq = paths["valueLengthQ"] /\ r = paths["memRdData"] /\ g = paths["getPath2remux"]
    BY <1>1 DEF FifosTyped
  <1>10. Tail(lq) \in Seq(Nat) /\ Len(lq) \in Nat /\ Len(Tail(lq)) = Len(lq) - 1 /\ Tail(r) \in Seq(MemLines)
    BY <1>5, <1>9, RestIs
  <1>11. ValuesOf(Members(accFilter), paths', Done, Demuxed, lines', dram', 1, rec'.line, rec'.counter, rec'.left)
    <2>1. PICK F, a, d, P, P2, ln, M, y, c, l :
            /\ F = Members(accFilter) /\ a = Done /\ d = Demuxed /\ P = paths /\ P2 = paths' /\ ln = lines /\ M = dram
            /\ y = rec.line /\ c = rec.counter /\ l = rec.left
      OBVIOUS
    <2>2. ValuesOf(F, P, a, d, ln, M, 0, y, c, l) /\ a \in Nat /\ d \in Nat /\ d <= Len(ops) /\ FifosTyped(P)
      BY <1>1, <1>6, <2>1 DEF DataFlows
    <2>3. ReadsOf(a, d, 0, P, y, c, l)
      BY <2>2 DEF ValuesOf
    <2>4. /\ P["valueLengthQ"] # << >> /\ P["memRdData"] # << >> /\ x = Head(P["memRdData"])
          /\ P2["memRdCmd"] = P["memRdCmd"] /\ P2["valueLengthQ"] = Tail(P["valueLengthQ"]) /\ P2["memRdData"] = Tail(P["memRdData"])
          /\ P2["getPath2remux"] = Append(P["getPath2remux"], x[1])
      BY <1>2, <1>4, <1>5, <1>8, <2>1
    <2>5. x[1] \in Pairs /\ ReadsOf(a, d, 1, P2, x, 1, Head(P["valueLengthQ"]) - 1)
      <3>1. OpsSound
        BY <1>1
      <3> QED  BY <3>1, <2>2, <2>3, <2>4, ReadsBegin
    <2>6. FifosTyped(P2)
      <3>1. Append(g, x[1]) \in Seq(Pairs)
        BY <2>5
      <3>2. P2["valueLengthQ"] \in Seq(Nat) /\ P2["memRdData"] \in Seq(MemLines) /\ P2["getPath2remux"] \in Seq(Pairs)
        BY <1>4, <1>9, <1>10, <2>1, <3>1
      <3> QED  BY <1>1, <1>4, <1>8, <2>1, <3>2 DEF FifosTyped
    <2>7. P2["setMetadata"] = P["setMetadata"] /\ P2["setValueIn"] = P["setValueIn"]
      BY <1>8, <2>1
    <2>8. PICK l2 : l2 = Head(P["valueLengthQ"]) - 1
      OBVIOUS
    <2>9. ReadsOf(a, d, 1, P2, x, 1, l2)
      BY <2>5, <2>8
    <2>10. ValuesOf(F, P2, a, d, ln, M, 1, x, 1, l2)
      BY <2>2, <2>6, <2>7, <2>9, DataReads
    <2> QED  BY <1>7, <2>1, <2>8, <2>10
  <1>12. pops \in [{0, 1} -> Nat]
    BY <1>1 DEF FilterOrder
  <1>13. pops' \in [{0, 1} -> Nat] /\ pops'[0] >= pops[0] /\ pops'[1] >= pops[1]
    BY <1>5, <1>12
  <1>14. pops'[1] + Len(paths'["setMetadata"]) = pops[1] + Len(paths["setMetadata"])
    BY <1>5, <1>8
  <1>15. pops'[0] + Len(paths'["valueLengthQ"]) + Reading' = pops[0] + Len(paths["valueLengthQ"]) + Reading
    <2>1. PICK p \in Nat, u \in Nat : p = pops[0] /\ u = Len(lq)
      BY <1>10, <1>12
    <2>2. pops'[0] = p /\ Len(paths'["valueLengthQ"]) = u - 1 /\ Len(paths["valueLengthQ"]) = u
      BY <1>4, <1>5, <1>9, <1>10, <2>1
    <2>3. p + (u - 1) + 1 = p + u + 0
      OBVIOUS
    <2> QED  BY <1>6, <2>1, <2>2, <2>3
  <1>16. PICK b : b = 1
    OBVIOUS
  <1>17. ValuesOf(Members(accFilter), paths', Done, Demuxed, lines', dram', b, rec'.line, rec'.counter, rec'.left)
    BY <1>11, <1>16
  <1> QED  BY <1>6, <1>7, <1>8, <1>13, <1>14, <1>15, <1>16, <1>17, PathsStep

\* receive puts out the next word.
LEMMA GetAccFlows ==
  ASSUME FlowsFresh, GetAcc, UNCHANGED <<sbuild, ops, inData, acc, seqQ, accFilter, lines, dram, answers>>
  PROVE  FlowsFresh'
  <1>1. /\ OpsSound /\ DataFlows /\ FilterOrder /\ RecTyped /\ FifosTyped(paths)
        /\ Len(ops) \in Nat /\ Done \in Nat /\ Demuxed \in Nat /\ Demuxed <= Len(ops)
    BY FlowFacts
  <1>2. PICK y, c, l, x : y = rec.line /\ c = rec.counter /\ l = rec.left /\ x = y[c + 1]
    OBVIOUS
  <1>3. rec.state = "GET_ACC" /\ c \in 0 .. LineWords - 1 /\ Reading = 1 /\ rec = [state |-> rec.state, line |-> y, left |-> l, counter |-> c]
    BY <1>1, <1>2 DEF GetAcc, RecTyped, Reading
  <1>4. PICK F, a, d, P, P2, ln, M :
          F = Members(accFilter) /\ a = Done /\ d = Demuxed /\ P = paths /\ P2 = paths' /\ ln = lines /\ M = dram
    OBVIOUS
  <1>5. ValuesOf(F, P, a, d, ln, M, 1, y, c, l) /\ a \in Nat /\ d \in Nat /\ d <= Len(ops) /\ FifosTyped(P)
    BY <1>1, <1>2, <1>3, <1>4 DEF DataFlows
  <1>6. ReadsOf(a, d, 1, P, y, c, l)
    BY <1>5 DEF ValuesOf
  <1>7. P = [p \in Paths |-> P[p]]
    BY <1>5 DEF FifosTyped
  <1>8. /\ P2 = [p \in Paths |-> P2[p]] /\ \A p \in Paths \ {"memRdData", "getPath2remux"} : P2[p] = P[p]
        /\ P2["getPath2remux"] = Append(P["getPath2remux"], x)
    <2>1. \/ P2 = [P EXCEPT !.getPath2remux = Append(@, x)]
          \/ P2 = [P EXCEPT !.getPath2remux = Append(@, x), !.memRdData = Tail(@)]
      BY <1>2, <1>4 DEF GetAcc
    <2> QED  BY <2>1, <1>7 DEF Paths
  <1>9. /\ P2["metadataBuffer"] = P["metadataBuffer"] /\ P2["memRdCmd"] = P["memRdCmd"] /\ P2["valueLengthQ"] = P["valueLengthQ"]
        /\ P2["setMetadata"] = P["setMetadata"] /\ P2["setValueIn"] = P["setValueIn"]
    BY <1>8 DEF Paths
  <1>10. WordTaken(a, d, P, P2, y, c, l, x)
    <2>1. OpsSound /\ x = y[c + 1]
      BY <1>1, <1>2
    <2>2. P2["memRdCmd"] = P["memRdCmd"] /\ P2["valueLengthQ"] = P["valueLengthQ"] /\ P2["getPath2remux"] = Append(P["getPath2remux"], x)
      BY <1>8, <1>9
    <2> QED  BY <1>3, <1>5, <1>6, <2>1, <2>2, ReadsWord
  <1>11. /\ x \in Pairs /\ l \in Nat \ {0}
         /\ l - 1 > 0 /\ c # LineWords - 1 /\ P2["memRdData"] = P["memRdData"] => ReadsOf(a, d, 1, P2, y, c + 1, l - 1)
         /\ l - 1 > 0 /\ c = LineWords - 1 => P["memRdData"] # << >>
         /\ l - 1 > 0 /\ c = LineWords - 1 /\ P2["memRdData"] = Tail(P["memRdData"]) => ReadsOf(a, d, 1, P2, Head(P["memRdData"]), 0, l - 1)
         /\ l - 1 = 0 /\ P2["memRdData"] = P["memRdData"] => \A any, k, m : ReadsOf(a, d, 0, P2, any, k, m)
    BY <1>10 DEF WordTaken
  <1>12. ASSUME P2["memRdData"] \in Seq(MemLines)
         PROVE  FifosTyped(P2)
    <2>1. PICK g \in Seq(Pairs) : g = P["getPath2remux"]
      BY <1>5 DEF FifosTyped
    <2>2. Append(g, x) \in Seq(Pairs)
      BY <1>11
    <2>3. P2["getPath2remux"] \in Seq(Pairs)
      BY <1>8, <2>1, <2>2
    <2> QED  BY <1>5, <1>8, <1>9, <1>12, <2>3 DEF FifosTyped
  <1>13. P["memRdData"] \in Seq(MemLines)
    BY <1>5 DEF FifosTyped
  <1>14. pops \in [{0, 1} -> Nat] /\ Len(P["valueLengthQ"]) \in Nat
    BY <1>1, <1>4 DEF FilterOrder, FifosTyped
  <1>15. paths'["metadataBuffer"] = paths["metadataBuffer"] /\ paths'["valueLengthQ"] = paths["valueLengthQ"] /\ paths'["setMetadata"] = paths["setMetadata"]
    BY <1>4, <1>9
  <1>16. CASE /\ l - 1 = 0 /\ rec' = [state |-> "GET_IDLE", line |-> << >>, left |-> 0, counter |-> 0]
              /\ pops' = [pops EXCEPT ![0] = @ + 1] /\ P2 = [P EXCEPT !.getPath2remux = Append(@, x)]
    <2>1. P2["memRdData"] = P["memRdData"]
      BY <1>7, <1>16 DEF Paths
    <2>2. ReadsOf(a, d, 0, P2, << >>, 0, 0)
      BY <1>11, <1>16, <2>1
    <2>3. FifosTyped(P2)
      BY <1>12, <1>13, <2>1
    <2>4. PICK b, x2, c2, l2 : b = 0 /\ x2 = << >> /\ c2 = 0 /\ l2 = 0
      OBVIOUS
    <2>5. ValuesOf(F, P2, a, d, ln, M, b, x2, c2, l2)
      <3>1. P2["setMetadata"] = P["setMetadata"] /\ P2["setValueIn"] = P["setValueIn"] /\ ReadsOf(a, d, b, P2, x2, c2, l2)
        BY <1>9, <2>2, <2>4
      <3> QED  BY <1>5, <2>3, <3>1, DataReads
    <2>6. rec'.line = x2 /\ rec'.counter = c2 /\ rec'.left = l2 /\ rec'.state = "GET_IDLE"
      BY <1>16, <2>4
    <2>7. RecTyped' /\ Reading' = 0
      BY <1>16, StoreAssumption DEF RecTyped, Reading
    <2>8. ValuesOf(Members(accFilter), paths', Done, Demuxed, lines', dram', b, rec'.line, rec'.counter, rec'.left)
      BY <1>4, <2>5, <2>6
    <2>9. pops' \in [{0, 1} -> Nat] /\ pops'[0] = pops[0] + 1 /\ pops'[1] = pops[1] /\ pops'[0] >= pops[0] /\ pops'[1] >= pops[1]
      BY <1>14, <1>16
    <2>10. pops'[1] + Len(paths'["setMetadata"]) = pops[1] + Len(paths["setMetadata"])
      BY <1>15, <2>9
    <2>11. pops'[0] + Len(paths'["valueLengthQ"]) + Reading' = pops[0] + Len(paths["valueLengthQ"]) + Reading
      <3>1. PICK p \in Nat, u \in Nat : p = pops[0] /\ u = Len(P["valueLengthQ"])
        BY <1>14
      <3>2. pops'[0] = p + 1 /\ Len(paths'["valueLengthQ"]) = u /\ Len(paths["valueLengthQ"]) = u
        BY <1>4, <1>15, <2>9, <3>1
      <3> QED  BY <1>3, <2>7, <3>1, <3>2
    <2> QED  BY <1>15, <2>4, <2>7, <2>8, <2>9, <2>10, <2>11, PathsStep
  <1>17. ASSUME l - 1 > 0, pops' = pops, NEW x2, NEW c2 \in 0 .. LineWords - 1, ReadsOf(a, d, 1, P2, x2, c2, l - 1),
                rec' = [state |-> rec.state, line |-> x2, left |-> l - 1, counter |-> c2], P2["memRdData"] \in Seq(MemLines)
         PROVE  FlowsFresh'
    <2>1. FifosTyped(P2)
      BY <1>12, <1>17
    <2>2. PICK b, l2 : b = 1 /\ l2 = l - 1
      OBVIOUS
    <2>3. ValuesOf(F, P2, a, d, ln, M, b, x2, c2, l2)
      <3>1. P2["setMetadata"] = P["setMetadata"] /\ P2["setValueIn"] = P["setValueIn"] /\ ReadsOf(a, d, b, P2, x2, c2, l2)
        BY <1>9, <1>17, <2>2
      <3> QED  BY <1>5, <2>1, <3>1, DataReads
    <2>4. rec'.line = x2 /\ rec'.counter = c2 /\ rec'.left = l2 /\ rec'.state = "GET_ACC"
      BY <1>3, <1>17, <2>2
    <2>5. RecTyped' /\ Reading' = 1
      BY <1>17, <2>4 DEF RecTyped, Reading
    <2>6. ValuesOf(Members(accFilter), paths', Done, Demuxed, lines', dram', b, rec'.line, rec'.counter, rec'.left)
      BY <1>4, <2>3, <2>4
    <2>7. pops' \in [{0, 1} -> Nat] /\ pops'[0] >= pops[0] /\ pops'[1] >= pops[1]
      BY <1>14, <1>17
    <2>8. /\ pops'[1] + Len(paths'["setMetadata"]) = pops[1] + Len(paths["setMetadata"])
          /\ pops'[0] + Len(paths'["valueLengthQ"]) + Reading' = pops[0] + Len(paths["valueLengthQ"]) + Reading
      BY <1>3, <1>15, <1>17, <2>5
    <2> QED  BY <1>15, <2>2, <2>5, <2>6, <2>7, <2>8, PathsStep
  <1>18. CASE /\ l - 1 > 0 /\ c = LineWords - 1 /\ P["memRdData"] # << >>
              /\ rec' = [rec EXCEPT !.left = l - 1, !.line = Head(P["memRdData"]), !.counter = 0]
              /\ P2 = [P EXCEPT !.getPath2remux = Append(@, x), !.memRdData = Tail(@)] /\ pops' = pops
    <2>1. P2["memRdData"] = Tail(P["memRdData"])
      BY <1>7, <1>18 DEF Paths
    <2>2. PICK x2 : x2 = Head(P["memRdData"])
      OBVIOUS
    <2>3. ReadsOf(a, d, 1, P2, x2, 0, l - 1)
      BY <1>11, <1>18, <2>1, <2>2
    <2>4. rec' = [state |-> rec.state, line |-> x2, left |-> l - 1, counter |-> 0]
      BY <1>3, <1>18, <2>2
    <2>5. P2["memRdData"] \in Seq(MemLines)
      BY <1>13, <1>18, <2>1, RestIs
    <2>6. 0 \in 0 .. LineWords - 1
      BY StoreAssumption
    <2> QED  BY <1>17, <1>18, <2>3, <2>4, <2>5, <2>6
  <1>19. CASE /\ l - 1 > 0 /\ (c = LineWords - 1 => P["memRdData"] = << >>)
              /\ rec' = [rec EXCEPT !.left = l - 1, !.counter = IF c = LineWords - 1 THEN @ ELSE @ + 1]
              /\ P2 = [P EXCEPT !.getPath2remux = Append(@, x)] /\ pops' = pops
    <2>1. P2["memRdData"] = P["memRdData"]
      BY <1>7, <1>19 DEF Paths
    <2>2. c # LineWords - 1
      BY <1>11, <1>19
    <2>3. ReadsOf(a, d, 1, P2, y, c + 1, l - 1)
      BY <1>11, <1>19, <2>1, <2>2
    <2>4. rec' = [state |-> rec.state, line |-> y, left |-> l - 1, counter |-> c + 1]
      <3>1. rec.counter = c
        BY <1>2
      <3>2. rec' = [rec EXCEPT !.left = l - 1, !.counter = c + 1]
        BY <1>19, <2>2, <3>1
      <3>3. PICK z, l2, c2 : z = rec.state /\ l2 = l - 1 /\ c2 = c + 1
        OBVIOUS
      <3>4. rec = [state |-> z, line |-> y, left |-> l, counter |-> c]
        BY <1>3, <3>3
      <3>5. rec' = [rec EXCEPT !.left = l2, !.counter = c2]
        BY <3>2, <3>3
      <3>6. rec' = [state |-> z, line |-> y, left |-> l2, counter |-> c2]
        BY <3>4, <3>5
      <3> QED  BY <3>3, <3>6
    <2>5. P2["memRdData"] \in Seq(MemLines)
      BY <1>13, <2>1
    <2>6. c + 1 \in 0 .. LineWords - 1
      BY <1>3, <2>2, StoreAssumption
    <2> QED  BY <1>17, <1>19, <2>3, <2>4, <2>5, <2>6
  <1> QED  BY <1>2, <1>4, <1>16, <1>18, <1>19 DEF GetAcc

LEMMA PartsOfNone ==
  ASSUME NEW S, NEW g \in Seq(S)
  PROVE  FirstPart(g, 0) = << >> /\ LastPart(g, 0) = g
  <1>1. /\ SubSeq(g, 1, 0) \in Seq(S) /\ Len(SubSeq(g, 1, 0)) = 0
    BY FirstOf
  <1>2. /\ SubSeq(g, 0 + 1, Len(g)) \in Seq(S) /\ Len(SubSeq(g, 0 + 1, Len(g))) = Len(g) - 0
        /\ \A i \in 1 .. Len(g) - 0 : SubSeq(g, 0 + 1, Len(g))[i] = g[0 + i]
    BY DropOf
  <1>3. PICK h : h = SubSeq(g, 0 + 1, Len(g))
    OBVIOUS
  <1>4. h \in Seq(S) /\ Len(h) = Len(g) /\ \A i \in 1 .. Len(g) : h[i] = g[i]
    BY <1>2, <1>3
  <1>5. h = g
    BY <1>4, SeqEqual
  <1> QED  BY <1>1, <1>3, <1>5 DEF FirstPart, LastPart

\* remux puts out the next answer.
LEMMA RemuxFlows ==
  ASSUME FlowsFresh, Remux
  PROVE  FlowsFresh'
  <1>1. /\ OpsSound /\ DataFlows /\ InTurn /\ FilterOrder /\ CountsAgree /\ RecTyped /\ AnsweredFresh /\ FifosTyped(paths)
        /\ Len(ops) \in Nat /\ Done \in Nat /\ Demuxed \in Nat /\ Done <= Demuxed /\ Demuxed <= Len(ops)
        /\ Reading \in {0, 1} /\ Members(accFilter) \subseteq 1 .. Len(ops)
    BY FlowFacts
  <1>2. /\ paths["metadataBuffer"] # << >> /\ ops' = ops
        /\ UNCHANGED <<sbuild, inData, acc, seqQ, accFilter, pops, lines, rec, dram>>
    BY DEF Remux
  <1>3. OpsSound' /\ OpsGrow
    BY <1>1, <1>2, OpsStay
  <1>4. PICK n, k : n = Head(paths["metadataBuffer"]) /\ k = (IF ops[n].op = "GET" THEN ops[n].words ELSE 0)
    OBVIOUS
  <1>5. Len(paths["getPath2remux"]) >= k
    BY <1>4 DEF Remux
  <1>6. /\ paths' = [p \in Paths |-> paths'[p]]
        /\ \A p \in Paths \ {"metadataBuffer", "getPath2remux"} : paths'[p] = paths[p]
        /\ paths'["metadataBuffer"] = Tail(paths["metadataBuffer"])
        /\ paths'["getPath2remux"] = LastPart(paths["getPath2remux"], k)
        /\ answers' = Append(answers, [req |-> n, value |-> FirstPart(paths["getPath2remux"], k)])
    <2>1. paths = [p \in Paths |-> paths[p]]
      BY <1>1 DEF FifosTyped
    <2> QED  BY <1>4, <2>1, RemuxFields
  <1>7. PICK mb \in Seq(Nat), g \in Seq(Pairs) : mb = paths["metadataBuffer"] /\ g = paths["getPath2remux"]
    BY <1>1 DEF FifosTyped
  <1>t. PICK mt : mt = Tail(mb)
    OBVIOUS
  <1>8. /\ mb # << >> /\ n = mb[1] /\ mt \in Seq(Nat) /\ Len(mb) \in Nat /\ Len(mb) >= 1 /\ Len(mt) = Len(mb) - 1
        /\ \A i \in 1 .. Len(mb) - 1 : mt[i] = mb[i + 1]
    BY <1>2, <1>4, <1>7, <1>t, RestIs
  <1>9. (\A i \in 1 .. Len(mb) : mb[i] = Done + i) /\ Demuxed = Done + Len(mb)
    BY <1>1, <1>7 DEF InTurn, Demuxed, Done
  <1>10. n = Done + 1 /\ n \in Nat /\ Done + 1 <= Demuxed /\ n \in 1 .. Len(ops)
    <2>1. 1 \in 1 .. Len(mb)
      BY <1>8
    <2>2. n = Done + 1
      BY <1>8, <1>9, <2>1
    <2> QED  BY <1>1, <1>8, <1>9, <2>2
  <1>11. PICK v, P2 : v = FirstPart(g, k) /\ P2 = paths'
    OBVIOUS
  <1>12. /\ P2["memRdCmd"] = paths["memRdCmd"] /\ P2["valueLengthQ"] = paths["valueLengthQ"] /\ P2["memRdData"] = paths["memRdData"]
         /\ P2["setMetadata"] = paths["setMetadata"] /\ P2["setValueIn"] = paths["setValueIn"]
         /\ P2["metadataBuffer"] = mt /\ P2["getPath2remux"] = LastPart(g, k)
    BY <1>6, <1>7, <1>t, <1>11 DEF Paths
  <1>13. PICK a, d, b, x, c, l : a = Done /\ d = Demuxed /\ b = Reading /\ x = rec.line /\ c = rec.counter /\ l = rec.left
    OBVIOUS
  <1>14. /\ ValuesOf(Members(accFilter), paths, a, d, lines, dram, b, x, c, l) /\ a \in Nat /\ d \in Nat /\ d <= Len(ops)
         /\ a + 1 <= d /\ n = a + 1 /\ (b = 0 \/ b = 1)
    BY <1>1, <1>10, <1>13 DEF DataFlows
  <1>15. ReadsOf(a, d, b, paths, x, c, l)
    BY <1>14 DEF ValuesOf
  <1>16. /\ v \in Seq(Pairs) /\ P2["getPath2remux"] \in Seq(Pairs) /\ ReadsOf(a + 1, d, b, P2, x, c, l)
         /\ ops[n].op = "GET" => FreshPart(n, v) /\ Len(v) = ops[n].words
    <2>1. CASE ops[n].op = "GET"
      <3>1. k = ops[a + 1].words /\ ops[a + 1].op = "GET"
        BY <1>4, <1>14, <2>1
      <3>2. PICK P : P = paths
        OBVIOUS
      <3>3. AnswerTaken(a, d, b, P, P2, x, c, l, k)
        <4>1. OpsSound /\ FifosTyped(P) /\ Len(P["getPath2remux"]) >= k /\ ReadsOf(a, d, b, P, x, c, l)
          BY <1>1, <1>5, <1>15, <3>2
        <4>2. /\ P2["memRdCmd"] = P["memRdCmd"] /\ P2["valueLengthQ"] = P["valueLengthQ"] /\ P2["memRdData"] = P["memRdData"]
              /\ P2["getPath2remux"] = LastPart(P["getPath2remux"], k)
          BY <1>7, <1>12, <3>2
        <4>3. a \in Nat /\ d \in Nat /\ d <= Len(ops) /\ a + 1 <= d /\ (b = 0 \/ b = 1)
          BY <1>14
        <4> QED  BY <3>1, <4>1, <4>2, <4>3, ReadsAnswered
      <3>4. FreshPart(a + 1, v) /\ Len(v) = k /\ P2["getPath2remux"] \in Seq(Pairs) /\ ReadsOf(a + 1, d, b, P2, x, c, l)
        BY <3>2, <3>3, <1>7, <1>11 DEF AnswerTaken
      <3>5. v \in Seq(Pairs)
        BY <3>4 DEF FreshPart
      <3> QED  BY <3>1, <3>4, <3>5, <1>14
    <2>2. CASE ops[n].op # "GET"
      <3>1. k = 0 /\ ops[a + 1].op # "GET"
        BY <1>4, <1>14, <2>2
      <3>2. v = << >> /\ LastPart(g, k) = g
        BY <1>7, <1>11, <3>1, PartsOfNone
      <3>3. P2["getPath2remux"] = g /\ g = paths["getPath2remux"] /\ v \in Seq(Pairs)
        BY <1>7, <1>12, <3>2
      <3>4. ReadsOf(a + 1, d, b, P2, x, c, l)
        <4>1. P2["getPath2remux"] = paths["getPath2remux"]
          BY <3>3
        <4>2. /\ P2["memRdCmd"] = paths["memRdCmd"] /\ P2["valueLengthQ"] = paths["valueLengthQ"] /\ P2["memRdData"] = paths["memRdData"]
              /\ a \in Nat /\ d \in Nat
          BY <1>12, <1>14
        <4> QED  BY <3>1, <4>1, <4>2, <1>15, ReadsPass
      <3> QED  BY <2>2, <3>3, <3>4, <1>7
    <2> QED  BY <2>1, <2>2
  <1>17. /\ answers \in Seq([req : Nat, value : Seq(Pairs)]) /\ [req |-> n, value |-> v] \in [req : Nat, value : Seq(Pairs)]
         /\ answers' = Append(answers, [req |-> n, value |-> v])
    BY <1>1, <1>6, <1>7, <1>10, <1>11, <1>16 DEF InTurn
  <1>18. /\ answers' \in Seq([req : Nat, value : Seq(Pairs)]) /\ Len(answers) = Done /\ Len(answers') = Done + 1
         /\ (\A i \in 1 .. Done : answers'[i] = answers[i]) /\ answers'[Done + 1] = [req |-> n, value |-> v]
    <2>1. PICK r \in [req : Nat, value : Seq(Pairs)] : r = [req |-> n, value |-> v]
      BY <1>17
    <2>2. Len(answers) = Done
      BY DEF Done
    <2> QED  BY <1>17, <2>1, <2>2, LongerIs
  <1>19. Done' = Done + 1 /\ Demuxed' = Demuxed /\ Reading' = Reading
    <2>1. Done' = Done + 1 /\ Reading' = Reading
      BY <1>2, <1>18 DEF Done, Reading
    <2>2. Demuxed' = Done' + Len(mt)
      BY <1>11, <1>12 DEF Demuxed, Done
    <2> QED  BY <2>1, <2>2, <1>1, <1>8, <1>9
  <1>20. DataFlows'
    <2>1. FifosTyped(P2)
      BY <1>1, <1>6, <1>8, <1>11, <1>12, <1>16 DEF FifosTyped
    <2>2. SetsInTurn(Members(accFilter), P2["setMetadata"], a + 1, d)
      <3>1. SetsInTurn(Members(accFilter), paths["setMetadata"], a, d)
        BY <1>14 DEF ValuesOf
      <3>2. SetsInTurn(Members(accFilter), paths["setMetadata"], a + 1, d)
        BY <3>1, <1>14, SetsAnswered
      <3> QED  BY <3>2, <1>12
    <2>3. WordsInTurn(P2["setMetadata"], P2["setValueIn"], lines) /\ MemoryHolds(dram, P2["setMetadata"], lines, d)
      BY <1>12, <1>14 DEF ValuesOf
    <2>4. ValuesOf(Members(accFilter), P2, a + 1, d, lines, dram, b, x, c, l)
      BY <2>1, <2>2, <2>3, <1>16 DEF ValuesOf
    <2>5. ValuesOf(Members(accFilter'), paths', Done', Demuxed', lines', dram', b, rec'.line, rec'.counter, rec'.left)
      BY <1>2, <1>11, <1>13, <1>19, <2>4
    <2>6. Members(accFilter') \subseteq 1 .. Len(ops) /\ Done' \in Nat /\ Demuxed' \in Nat /\ Demuxed' <= Len(ops) /\ Reading' = b /\ b \in {0, 1}
      BY <1>1, <1>2, <1>13, <1>19
    <2> QED  BY <1>1, <1>3, <2>5, <2>6, DataNext
  <1>21. InTurn'
    <2>1. \A i \in 1 .. Done' : answers'[i].req = i
      <3> SUFFICES ASSUME NEW i \in 1 .. Done + 1
                   PROVE  answers'[i].req = i
        BY <1>19
      <3>1. i \in 1 .. Done \/ i = Done + 1
        BY <1>1
      <3>2. CASE i \in 1 .. Done
        BY <3>2, <1>1, <1>18 DEF InTurn
      <3>3. CASE i = Done + 1
        BY <3>3, <1>10, <1>18
      <3> QED  BY <3>1, <3>2, <3>3
    <2>2. \A i \in 1 .. Len(mt) : mt[i] = Done' + i
      <3> SUFFICES ASSUME NEW i \in 1 .. Len(mt)
                   PROVE  mt[i] = Done + 1 + i
        BY <1>19
      <3>1. i \in 1 .. Len(mb) - 1 /\ i + 1 \in 1 .. Len(mb)
        BY <1>8
      <3>2. mt[i] = mb[i + 1] /\ mb[i + 1] = Done + (i + 1)
        BY <1>8, <1>9, <3>1
      <3> QED  BY <3>2, <1>1
    <2>3. (Holding' <=> Holding) /\ HeldCount' = HeldCount
      BY <1>2 DEF Holding, HeldCount
    <2>4. \A i \in 1 .. Len(paths'["metadataBuffer"]) : paths'["metadataBuffer"][i] = Done' + i
      BY <2>2, <1>11, <1>12
    <2> QED  BY <2>1, <2>3, <2>4, <1>1, <1>2, <1>18, <1>19 DEF InTurn
  <1>22. pops' \in [{0, 1} -> Nat] /\ pops'[0] >= pops[0] /\ pops'[1] >= pops[1]
    <2>1. pops \in [{0, 1} -> Nat]
      BY <1>1 DEF FilterOrder
    <2> QED  BY <2>1, <1>2
  <1>23. FilterOrder'
    BY <1>1, <1>2, <1>19, <1>22, FilterSame
  <1>24. CountsAgree'
    <2>1. /\ pops'[1] + Len(paths'["setMetadata"]) = pops[1] + Len(paths["setMetadata"])
          /\ pops'[0] + Len(paths'["valueLengthQ"]) + Reading' = pops[0] + Len(paths["valueLengthQ"]) + Reading
      BY <1>2, <1>11, <1>12, <1>19
    <2> QED  BY <2>1, <1>1, <1>2, CountsSame
  <1>25. RecTyped'
    BY <1>1, <1>2, RecSame
  <1>26. AnsweredFresh'
    <2> SUFFICES ASSUME NEW i \in 1 .. Len(answers'), ops'[i].op = "GET"
                 PROVE  FreshPart(i, answers[i].value)' /\ Len(answers'[i].value) = ops'[i].words
      BY DEF AnsweredFresh
    <2>1. i \in 1 .. Done \/ i = n
      BY <1>1, <1>10, <1>18
    <2>2. PICK w : w = answers'[i].value
      OBVIOUS
    <2>3. FreshPart(i, w) /\ Len(w) = ops[i].words /\ i \in 1 .. Len(ops) /\ ops[i].op = "GET"
      <3>1. CASE i \in 1 .. Done
        <4>1. answers'[i] = answers[i] /\ i \in 1 .. Len(answers)
          BY <3>1, <1>18
        <4>2. i \in 1 .. Len(ops) /\ ops[i].op = "GET"
          BY <3>1, <1>1, <1>2
        <4> QED  BY <4>1, <4>2, <2>2, <1>1 DEF AnsweredFresh
      <3>2. CASE i = n
        <4>1. w = v
          BY <3>2, <2>2, <1>10, <1>18
        <4> QED  BY <4>1, <3>2, <1>2, <1>10, <1>16
      <3> QED  BY <2>1, <3>1, <3>2
    <2>4. FreshPart(i, w)'
      BY <1>1, <1>3, <2>3, PartStays
    <2> QED  BY <1>2, <2>2, <2>3, <2>4
  <1> QED  BY <1>3, <1>20, <1>21, <1>23, <1>24, <1>25, <1>26 DEF FlowsFresh

-----------------------------------------------------------------------------
(* The first state, a stuttering step, and the theorems.                   *)

LEMMA NoReads ==
  ASSUME NEW P, P["memRdCmd"] = << >>, P["valueLengthQ"] = << >>, P["memRdData"] = << >>, P["getPath2remux"] = << >>,
         NEW x, NEW c, NEW l, NEW z \in Nat, z = 0
  PROVE  ReadsOf(z, z, z, P, x, c, l)
  <1>a. << >> \in Seq(Nat)
    OBVIOUS
  <1>1. PICK gs \in Seq(Nat) : gs = << >>
    BY <1>a
  <1>2. PICK q : q = << >>
    OBVIOUS
  <1>3. Len(gs) = 0 /\ Len(q) = 0 /\ Runs(q, z, q) /\ z # 1 /\ z - z = z /\ z - z + z = z /\ Len(gs) = z /\ Len(gs) - z = z /\ Len(q) = z
    BY <1>1, <1>2, RunsStart
  <1>4. \A i \in 1 .. z : FALSE
    OBVIOUS
  <1>5. GetsBetween(gs, z, z)
    <2>1. \A i \in z + 1 .. z : FALSE
      OBVIOUS
    <2> QED  BY <1>3, <2>1 DEF GetsBetween, Rising
  <1>6. Commanded(gs, z, q)
    <2>1. q \in Seq(Seq(ReadCmds)) /\ Len(q) = Len(gs) - z /\ \A i \in 1 .. Len(q) : q[i] = CmdsOf(gs[z + i])
      BY <1>2, <1>3, <1>4
    <2>2. Runs(q, 0, q)
      BY <1>3
    <2> QED  BY <2>1, <2>2 DEF Commanded
  <1>7. Lengths(gs, z, q)
    BY <1>3 DEF Lengths
  <1>8. ReadOut(gs, z, z, z, z, q, x)
    <2>1. q \in Seq(Seq(MemLines)) /\ Len(q) = z - z + z /\ \A i \in 1 .. Len(q) : FreshLines(gs[z - z + i], q[i])
      BY <1>2, <1>3, <1>4
    <2>2. Runs(q, z, q) /\ z # 1
      BY <1>3
    <2>3. \E fr \in Seq(Seq(MemLines)) :
            /\ Len(fr) = z - z + z /\ \A i \in 1 .. Len(fr) : FreshLines(gs[z - z + i], fr[i])
            /\ Runs(q, z, fr)
            /\ z = 1 => z >= 1 /\ z <= Len(fr[1]) /\ x = fr[1][z]
            /\ z = 0 => z = 0
      BY <2>1, <2>2
    <2> QED  BY <2>3 DEF ReadOut
  <1>9. PutOut(gs, z, z, z, q, c, l)
    <2>1. q \in Seq(Seq(Pairs)) /\ q \in Seq(Pairs) /\ Len(q) = z - z
          /\ \A i \in 1 .. Len(q) : FreshPart(gs[i], q[i]) /\ Len(q[i]) = ops[gs[i]].words
      BY <1>2, <1>3, <1>4
    <2>2. q = q \o q
      BY <1>2
    <2>3. Runs(q, 0, q) /\ z # 1 /\ (z = 0 => q = << >>)
      BY <1>2, <1>3
    <2>4. \E fr \in Seq(Seq(Pairs)), A \in Seq(Pairs), part \in Seq(Pairs) :
            /\ Len(fr) = z - z /\ \A i \in 1 .. Len(fr) : FreshPart(gs[i], fr[i]) /\ Len(fr[i]) = ops[gs[i]].words
            /\ Runs(A, 0, fr) /\ q = A \o part
            /\ z = 0 => part = << >>
            /\ z = 1 => /\ FreshPart(gs[z], part) /\ Len(part) = (z - 1) * LineWords + c
                        /\ l \in Nat \ {0} /\ Len(part) + l = ops[gs[z]].words
      BY <2>1, <2>2, <2>3, Zenon
    <2> QED  BY <2>4 DEF PutOut
  <1>10. Commanded(gs, z, P["memRdCmd"]) /\ Lengths(gs, z, P["valueLengthQ"]) /\ ReadOut(gs, z, z, z, z, P["memRdData"], x)
         /\ PutOut(gs, z, z, z, P["getPath2remux"], c, l)
    BY <1>2, <1>6, <1>7, <1>8, <1>9
  <1>11. z <= z /\ z <= Len(gs)
    BY <1>3
  <1> QED  BY <1>5, <1>10, <1>11 DEF ReadsOf

\* In the first state nothing is under way.
LEMMA StoreStarts ==
  ASSUME InitStore
  PROVE  FlowsFresh
  <1>1. /\ ops = << >> /\ inData = << >> /\ acc = [state |-> "ACC_IDLE", req |-> 0, pop |-> NoOne]
        /\ seqQ = << >> /\ accFilter = << >> /\ pops = [s \in {0, 1} |-> 0]
        /\ paths = [p \in Paths |-> << >>] /\ lines = 0
        /\ rec = [state |-> "GET_IDLE", line |-> << >>, left |-> 0, counter |-> 0]
        /\ answers = << >>
    BY DEF InitStore
  <1>2. /\ paths["setMetadata"] = << >> /\ paths["setValueIn"] = << >> /\ paths["memRdCmd"] = << >>
        /\ paths["valueLengthQ"] = << >> /\ paths["memRdData"] = << >> /\ paths["getPath2remux"] = << >>
        /\ paths["metadataBuffer"] = << >> /\ paths = [p \in Paths |-> paths[p]]
    BY <1>1 DEF Paths
  <1>3. Done = 0 /\ Demuxed = 0 /\ Reading = 0 /\ Len(ops) = 0
    BY <1>1, <1>2 DEF Done, Demuxed, Reading
  <1>4. OpsSound
    BY <1>1, <1>3 DEF OpsSound
  <1>5. FifosTyped(paths)
    BY <1>2 DEF FifosTyped
  <1>6. SetsInTurn(Members(accFilter), paths["setMetadata"], 0, 0)
    BY <1>2 DEF SetsInTurn, Rising
  <1>7. WordsInTurn(paths["setMetadata"], paths["setValueIn"], lines)
    <2>1. PICK fr, z : fr = << >> /\ z = 0 * LineWords
      OBVIOUS
    <2>2. z = 0
      BY <2>1, StoreAssumption
    <2>3. fr \in Seq(Seq(ValueItems)) /\ Len(fr) = 0 /\ \A i \in 1 .. Len(fr) : fr[i] = ValueWords(paths["setMetadata"][i])
      BY <2>1
    <2>4. Runs(paths["setValueIn"], z, fr)
      BY <1>2, <2>1, <2>2, RunsStart
    <2>5. Len(paths["setMetadata"]) = 0
      BY <1>2
    <2> QED  BY <1>1, <1>2, <2>1, <2>3, <2>4, <2>5 DEF WordsInTurn
  <1>8. MemoryHolds(dram, paths["setMetadata"], lines, 0)
    <2>1. [w \in 1 .. LineWords |-> NoWord] \in MemLines
      BY DEF MemLines, Pairs, NoWord
    <2>2. dram = [a \in Addresses |-> [l \in Slots |-> [w \in 1 .. LineWords |-> NoWord]]]
      BY DEF InitStore
    <2>3. dram \in [Addresses -> [Slots -> MemLines]]
      BY <2>1, <2>2
    <2> QED  BY <2>3, <1>2 DEF MemoryHolds
  <1>9. ReadsOf(0, 0, 0, paths, rec.line, rec.counter, rec.left)
    <2>1. PICK P, x, c, l : P = paths /\ x = rec.line /\ c = rec.counter /\ l = rec.left
      OBVIOUS
    <2>2. P["memRdCmd"] = << >> /\ P["valueLengthQ"] = << >> /\ P["memRdData"] = << >> /\ P["getPath2remux"] = << >>
      BY <1>2, <2>1
    <2>3. PICK z \in Nat : z = 0
      OBVIOUS
    <2>4. ReadsOf(z, z, z, P, x, c, l)
      BY <2>2, <2>3, NoReads
    <2> QED  BY <2>1, <2>3, <2>4
  <1>10. DataFlows
    BY <1>3, <1>5, <1>6, <1>7, <1>8, <1>9 DEF DataFlows, ValuesOf
  <1>11. ~ Holding /\ HeldCount = 0
    BY <1>1 DEF Holding, HeldCount
  <1>12. InTurn
    BY <1>1, <1>2, <1>3, <1>11 DEF InTurn, AccStates, NoOne
  <1>13. FilterOrder
    <2>1. Streaming(HeldSeq, PopsOf(acc.pop, seqQ))
      BY <1>1, <1>11 DEF HeldSeq, PopsOf, Streaming
    <2>2. pops \in [{0, 1} -> Nat]
      BY <1>1
    <2> QED  BY <1>1, <2>1, <2>2 DEF FilterOrder, Rising
  <1>14. CountsAgree
    <2>1. EnteredOf("SET") = {} /\ EnteredOf("GET") = {}
      BY <1>1 DEF EnteredOf, Members
    <2>2. Cardinality({}) = 0
      BY FS_EmptySet
    <2>3. pops[0] = 0 /\ pops[1] = 0
      BY <1>1
    <2>4. Len(paths["setMetadata"]) = 0 /\ Len(paths["valueLengthQ"]) = 0
      BY <1>2
    <2>5. Cardinality(EnteredOf("SET")) = 0 /\ Cardinality(EnteredOf("GET")) = 0
      BY <2>1, <2>2
    <2> QED  BY <1>3, <2>3, <2>4, <2>5 DEF CountsAgree
  <1>15. RecTyped
    BY <1>1, StoreAssumption DEF RecTyped
  <1>16. AnsweredFresh
    BY <1>1 DEF AnsweredFresh
  <1> QED  BY <1>4, <1>10, <1>12, <1>13, <1>14, <1>15, <1>16 DEF FlowsFresh

LEMMA StoreStutters ==
  ASSUME FlowsFresh, UNCHANGED svars
  PROVE  FlowsFresh'
  <1>1. /\ DataFlows /\ FilterOrder /\ RecTyped /\ (Reading = 0 \/ Reading = 1)
    BY FlowFacts
  <1>2. /\ UNCHANGED <<sbuild, ops, inData, acc, seqQ, accFilter, answers>> /\ paths' = paths /\ pops' = pops /\ rec' = rec
        /\ lines' = lines /\ dram' = dram
    BY DEF svars
  <1>3. Reading' = Reading /\ RecTyped'
    BY <1>1, <1>2, RecSame DEF Reading
  <1>4. PICK b : b = Reading
    OBVIOUS
  <1>5. ValuesOf(Members(accFilter), paths', Done, Demuxed, lines', dram', b, rec'.line, rec'.counter, rec'.left)
    BY <1>1, <1>2, <1>4 DEF DataFlows
  <1>6. pops' \in [{0, 1} -> Nat] /\ pops'[0] >= pops[0] /\ pops'[1] >= pops[1]
    <2>1. pops \in [{0, 1} -> Nat]
      BY <1>1 DEF FilterOrder
    <2> QED  BY <1>2, <2>1
  <1> QED  BY <1>1, <1>2, <1>3, <1>4, <1>5, <1>6, PathsStep

\* No step changes the build.
LEMMA BuildStays ==
  ASSUME [NextStore]_svars
  PROVE  sbuild' = sbuild
  BY DEF NextStore, DeliverOp, AccessControl, SetPath, DramRead, Receive, Remux, svars

LEMMA StoreInvStep ==
  ASSUME StoreInv, [NextStore]_svars
  PROVE  StoreInv'
  <1>1. sbuild' = sbuild
    BY BuildStays
  <1> SUFFICES ASSUME Serving
               PROVE  FlowsFresh'
    BY <1>1 DEF StoreInv, Serving
  <1>2. FlowsFresh
    BY DEF StoreInv
  <1>3. CASE DeliverOp
    BY <1>2, <1>3, DeliverFlows
  <1>4. CASE AccessControl
    <2>1. (AccIdle \/ AccEval \/ AccStream \/ AccWait \/ AccPop) /\ UNCHANGED <<sbuild, ops, lines, rec, dram, answers>>
      BY <1>4 DEF AccessControl
    <2>2. CASE AccIdle
      BY <1>2, <2>1, <2>2, IdleFlows
    <2>3. CASE AccEval
      BY <1>2, <2>1, <2>3, EvalFlows
    <2>4. CASE AccStream
      BY <1>2, <2>1, <2>4, PushFlows
    <2>5. CASE AccWait
      BY <1>2, <2>1, <2>5, WaitFlows
    <2>6. CASE AccPop
      BY <1>2, <2>1, <2>6, PopFlows
    <2> QED  BY <2>1, <2>2, <2>3, <2>4, <2>5, <2>6
  <1>5. CASE SetPath
    BY <1>2, <1>5, SetPathFlows
  <1>6. CASE DramRead
    BY <1>2, <1>6, DramReadFlows
  <1>7. CASE Receive
    <2>1. (GetIdle \/ GetAcc) /\ UNCHANGED <<sbuild, ops, inData, acc, seqQ, accFilter, lines, dram, answers>>
      BY <1>7 DEF Receive
    <2>2. CASE GetIdle
      BY <1>2, <2>1, <2>2, GetIdleFlows
    <2>3. CASE GetAcc
      BY <1>2, <2>1, <2>3, GetAccFlows
    <2> QED  BY <2>1, <2>2, <2>3
  <1>8. CASE Remux
    BY <1>2, <1>8, RemuxFlows
  <1>9. CASE UNCHANGED svars
    BY <1>2, <1>9, StoreStutters
  <1> QED  BY <1>3, <1>4, <1>5, <1>6, <1>7, <1>8, <1>9 DEF NextStore

LEMMA StoreInvFresh ==
  ASSUME StoreInv
  PROVE  GetsFresh
  <1> SUFFICES ASSUME Serving
               PROVE  \A k \in DOMAIN answers :
                        LET n == answers[k].req IN
                        ops[n].op = "GET" => \A i \in 1 .. ops[n].words : FreshWord(n, i, answers[k].value[i])
    BY DEF GetsFresh, Serving
  <1>1. InTurn /\ AnsweredFresh
    BY DEF StoreInv, FlowsFresh
  <1>2. DOMAIN answers = 1 .. Len(answers) /\ \A k \in 1 .. Len(answers) : answers[k].req = k
    BY <1>1 DEF InTurn, Done
  <1> SUFFICES ASSUME NEW k \in 1 .. Len(answers), ops[k].op = "GET", NEW i \in 1 .. ops[k].words
               PROVE  FreshWord(k, i, answers[k].value[i])
    BY <1>2
  <1>3. PICK v : v = answers[k].value
    OBVIOUS
  <1>4. FreshPart(k, v) /\ Len(v) = ops[k].words
    BY <1>1, <1>3 DEF AnsweredFresh
  <1>5. FreshWord(k, i, v[i])
    BY <1>4 DEF FreshPart
  <1> QED  BY <1>3, <1>5

\* The invariant of the value store (accessControl, demux, setPath, getPath and remux of
\* valueStore.cpp with accessFilter of globals.cpp), for every set of addresses, any lengths of
\* values, memory lines and filter, and any number of requests: with the filter and a memory
\* that does not pause inside a value, the FIFOs hold the requests between demux and remux in
\* their order, the filter holds every one of them that is under way, and what a GET has read
\* was written by the SET before it or by a later one.
THEOREM StoreInvariant == SpecStore => []StoreInv
  <1>1. InitStore => StoreInv
    BY StoreStarts DEF StoreInv
  <1>2. StoreInv /\ [NextStore]_svars => StoreInv'
    BY StoreInvStep
  <1> QED  BY <1>1, <1>2, PTL DEF SpecStore

\* With the filter, remux never answers a GET with a value from before the last SET of its
\* address, although the read path overtakes the write path in valueStore.cpp.
THEOREM StoreFresh == SpecStore => []GetsFresh
  <1>1. StoreInv => GetsFresh
    BY StoreInvFresh
  <1> QED  BY <1>1, StoreInvariant, PTL
=============================================================================
