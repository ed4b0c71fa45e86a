----------------------- MODULE HashMappingRefinement -----------------------
(***************************************************************************)
(* The invariants of the two tables of HashMapping, and the table of       *)
(* TranslationMap that they implement.                                     *)
(***************************************************************************)
EXTENDS HashMapping, FiniteSets

(* DRAM as it is once the writes under way are performed.                  *)

LastWrite(a) == CHOOSE n \in 1 .. Len(dramWr) :
  dramWr[n].addr = a /\ \A m \in n + 1 .. Len(dramWr) : dramWr[m].addr # a
EffDram ==
  IF dramWr = << >> THEN dram
  ELSE [a \in Addrs |-> IF Settled(a) THEN dram[a] ELSE dramWr[LastWrite(a)].hb]

\* The addresses of the buckets of the chain that starts at index h of table d.
Chain(d, h) ==
  LET bucket[n \in 0 .. Len(Pool)] ==
        IF n = 0 THEN {DmAddr(h)}
        ELSE bucket[n - 1] \cup
               { DmAddr(d[a].next) : a \in { b \in bucket[n - 1] : d[b].chained } }
  IN  bucket[Len(Pool)]

Holders(d, k) == { <<a, s>> \in Chain(d, DramIdx(k)) \X Slots : d[a].slot[s].key = k }

A == INSTANCE TranslationMap
       WITH map <- <<>>, residue <- <<>>, todo <- <<>>, done <- <<>>,
     Requests <- Inputs, CheckRights <- FALSE

\* The table as DRAM holds it.
MapBar ==
  LET d == EffDram IN
  [k \in Keys |->
     LET hs == Holders(d, k) IN
     IF hs = {} THEN A!Absent
     ELSE LET h == CHOOSE h \in hs : TRUE
              e == d[h[1]].slot[h[2]]
          IN  A!Entry(e.val, e.rw)]

Cached(k) == { s \in Slots : bram[BramIdx(k)].slot[s].key = k }

\* An entry in BRAM only, which no SET in fill_S2 is about to add to DRAM.
ResidueBar ==
  LET m == MapBar IN
  [k \in Keys |->
     IF Cached(k) = {} \/ m[k].present \/ (s2State # "IDLE" /\ pi[nS2 + 1].key = k)
     THEN A!Absent
     ELSE LET e == bram[BramIdx(k)].slot[CHOOSE s \in Cached(k) : TRUE]
          IN  A!Entry(e.val, e.rw)]

\* The request a pipeline word was forged from.
OpBar(p) == CASE p.op = "GET"     -> IF p.rw THEN "WRITE" ELSE "READ"
              [] p.op = "SET"     -> IF p.rw THEN "SET_RW" ELSE "SET_R"
              [] p.op = "UNKNOWN" -> "OTHER"
RequestBar(p) == [ch |-> p.ch, op |-> OpBar(p), key |-> p.key, val |-> p.val]
AnswerBar(p) == [ch |-> p.ch, op |-> OpBar(p), key |-> p.key, ok |-> p.ok,
                 val |-> IF p.op = "SET" THEN 0 ELSE p.output]

TodoBar == [n \in 1 .. nRemux - nS2 |-> RequestBar(pi[nS2 + n])]
DoneBar == [n \in 1 .. nS2 - nOut |-> AnswerBar(pi[nOut + n])]

Table == INSTANCE TranslationMap
  WITH map <- MapBar, residue <- ResidueBar, todo <- TodoBar, done <- DoneBar,
       Requests <- Inputs, CheckRights <- FALSE
GuardedTable == INSTANCE TranslationMap
  WITH map <- MapBar, residue <- ResidueBar, todo <- TodoBar, done <- DoneBar,
       Requests <- Inputs, CheckRights <- TRUE

\* Seen from outside, the pipeline executes the requests one at a time in the
\* order remux took them in: every translation returns the value of the last
\* successful SET of its key, none fails for a mapped key except a write to a
\* read-only one, and a failed SET changes nothing but perhaps the cached copy.
Refines == Table!Spec

\* In addition a write is never granted on a key that is mapped read-only.
RefinesGuarded == GuardedTable!Spec

\* The chains of the DRAM table share no bucket, use only buckets the allocator
\* has handed out, keep every key in the chain of its hash and only once, and
\* grow only when every bucket before the last is full.
ChainsWellFormed ==
  LET d == EffDram
      chain == [h \in 0 .. NDram - 1 |-> Chain(d, h)]
      Handed == { Pool[n] : n \in 1 .. nAlloc }
  IN
  /\ \A h \in DOMAIN chain :
       /\ chain[h] \ {DmAddr(h)} \subseteq Handed
       /\ \A g \in DOMAIN chain : g # h => chain[g] \cap chain[h] = {}
       /\ \A a \in chain[h], s \in Slots :
            LET e == d[a].slot[s] IN
            /\ e.used <=> e.key # 0
            /\ e.used => DramIdx(e.key) = h
            /\ d[a].chained => e.used
  /\ \A k \in Keys : Cardinality(Holders(d, k)) <= 1

\* A BRAM bucket that no request has reserved holds each key once, only keys
\* that hash to it, and for a key that DRAM maps, the value DRAM has.
BramCoherent ==
  LET m == MapBar IN
  \A b \in 0 .. NBram - 1 :
    (\A i \in nOut + 1 .. NReserved : Idx(i) # b) =>
      \A s \in Slots :
        LET e == bram[b].slot[s] IN
        e.key # 0 =>
          /\ e.used /\ BramIdx(e.key) = b
          /\ \A t \in Slots : bram[b].slot[t].key = e.key => t = s
          /\ m[e.key].present => m[e.key].val = e.val
=============================================================================
