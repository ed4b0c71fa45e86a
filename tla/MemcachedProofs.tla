-------------------------- MODULE MemcachedProofs --------------------------
(***************************************************************************)
(* Proofs about memcached's parts. The host's address manager: for pools   *)
(* of any size and FIFOs of any depth, a value address is in one place.    *)
(* The hard part is the flush: the board empties its FIFOs when it asks    *)
(* for one and its table when the host has acknowledged it, and the host   *)
(* refills its lists somewhere in between, so that the invariant must say  *)
(* in which of its steps the manager can be while the board is in each of  *)
(* its own (FlushInv), and what an access that is under way has seen       *)
(* (KnownInv). The hash table: for any keys that fit their buckets, the    *)
(* answers are those of the requests executed one by one and no value      *)
(* address is used twice. The hard part is that memWrite acts on what was  *)
(* read and compared earlier, with other requests in between: the          *)
(* invariant must say that the filter keeps all of it true (CompareInv,    *)
(* StreamInv), and what the table holds for the answers given so far       *)
(* (ContentInv).                                                           *)
(***************************************************************************)
EXTENDS AddressManager, MemcachedTable, DivisionLemmas, FiniteSetTheorems, SequenceTheorems, TLAPS

-----------------------------------------------------------------------------
(* The inductive invariant.                                                *)

ListNames == {"0", "0M", "0L", "1", "1M", "1L"}
Stages == {"free", "put", "flushreq", "flushack", "refill", "flushdone", "del"}
FirstPool == PoolStart["0"] .. PoolStart["0"] + PoolSize["0"] - 1
Once(s) == \A i, j \in DOMAIN s : s[i] = s[j] => i = j
Among(s, a) == \E i \in DOMAIN s : s[i] = a
Doing == call["manager"]
Access(r, v) == [reg |-> r, val |-> v]

IsCalls(c) == c = [t \in Threads |-> [op |-> c[t].op, reg |-> c[t].reg, val |-> c[t].val, st |-> c[t].st]]

HostTypeOK ==
  /\ pools = [l \in ListNames |-> pools[l]] /\ pools["0"] \in Seq(FirstPool)
  /\ mg \in [at : Stages, i : 1 .. 6]
  /\ mtx \in Threads \cup {"none"}
  /\ user = Access(user.reg, user.val)
  /\ ioctl_arg = Access(ioctl_arg.reg, ioctl_arg.val)
  /\ IsCalls(call)
  /\ board = [f \in {"free1", "free2", "del"} |-> board[f]]
  /\ board.free1 \in Seq(FirstPool) /\ board.del \in Seq(FirstPool)
  /\ inUse \subseteq FirstPool
  /\ flush \in [req : BOOLEAN, done : BOOLEAN, st : {"idle", "wait", "run"}]

\* The mutex, the shared argument and what the manager is asking for.
CallsInv ==
  /\ \A t \in Threads :
       /\ call[t].st \in {"idle", "locked", "copied", "accessed"}
       /\ mtx = t <=> call[t].st # "idle"
       /\ call[t].st = "locked" => user = Access(call[t].reg, call[t].val)
       /\ call[t].st = "copied" => ioctl_arg = Access(call[t].reg, call[t].val)
  /\ call["stats"].st # "idle" => call["stats"].op = "read" /\ call["stats"].reg = "stats"
  /\ Doing.st # "idle" =>
       /\ mg.at # "refill"
       /\ Doing.op = IF mg.at \in {"put", "flushack"} THEN "write" ELSE "read"
       /\ Doing.reg = IF mg.at \in {"free", "put"} THEN FreeReg(List) ELSE mg.at

\* What the manager knows of the board and of its lists.
KnownInv ==
  /\ Len(board.free1) <= HostDepth
  /\ mg.at = "put" /\ Doing.st = "idle" => pools[List] # << >>
  /\ mg.at = "put" /\ List = "0" /\ Doing.st \in {"locked", "copied"} => Doing.val \in FirstPool
  /\ mg.at = "del" /\ Doing.st = "accessed" => ioctl_arg.val \in FirstPool \cup {0}
  /\ ~flush.req /\ List = "0"
       /\ ((mg.at = "put" /\ Doing.st # "accessed") \/ (mg.at = "free" /\ Doing.st = "accessed" /\ ioctl_arg.val = 0))
       => Len(board.free1) < HostDepth
  /\ mg.at = "flushreq" /\ Doing.st = "accessed" /\ ioctl_arg.val = 1 => flush.st = "wait"
  /\ mg.at = "flushack" /\ Doing.st # "accessed" => flush.st = "wait"
  /\ mg.at = "flushdone" /\ Doing.st = "accessed" /\ ioctl_arg.val = 1 => flush.st # "run"

\* The three parties of a flush.
FlushInv ==
  /\ flush.req <=> flush.st # "idle"
  /\ flush.req => ~flush.done /\ board.free1 = << >> /\ board.del = << >>
  /\ flush.st = "run" => (mg.at = "flushack" /\ Doing.st = "accessed") \/ mg.at \in {"refill", "flushdone"}
  /\ mg.at \in {"flushack", "refill", "flushdone"} /\ flush.st = "idle" =>
       board.free1 = << >> /\ board.del = << >> /\ inUse = {}
  /\ mg.at = "flushdone" => pools["0"] = SmallOf("0")

OwnedInv ==
  /\ Once(pools["0"]) /\ Once(board.free1) /\ Once(board.del)
  /\ \A a \in FirstPool :
       /\ ~(Among(pools["0"], a) /\ Among(board.free1, a))
       /\ ~(Among(pools["0"], a) /\ Among(board.del, a))
       /\ ~(Among(pools["0"], a) /\ InHand(a))
       /\ ~(Among(board.free1, a) /\ Among(board.del, a))
       /\ ~(Among(board.free1, a) /\ InHand(a))
       /\ ~(Among(board.del, a) /\ InHand(a))
       /\ ~flush.req /\ a \in inUse =>
            ~Among(pools["0"], a) /\ ~Among(board.free1, a) /\ ~Among(board.del, a) /\ ~InHand(a)
       /\ ~flush.req /\ mg.at \notin {"flushack", "refill"} =>
            Among(pools["0"], a) \/ Among(board.free1, a) \/ Among(board.del, a) \/ a \in inUse \/ InHand(a)

HostGood == HostTypeOK /\ CallsInv /\ KnownInv /\ FlushInv /\ OwnedInv
HostInv == exited \in BOOLEAN /\ (~exited => HostGood)

-----------------------------------------------------------------------------
(* Sequences without repetitions.                                          *)

\* The first entry of a list is taken.
LEMMA TailOnce ==
  ASSUME NEW S, NEW s \in Seq(S), s # << >>, Once(s)
  PROVE  /\ Head(s) \in S /\ Among(s, Head(s))
         /\ Tail(s) \in Seq(S) /\ Once(Tail(s)) /\ Len(Tail(s)) = Len(s) - 1
         /\ \A a : Among(Tail(s), a) <=> Among(s, a) /\ a # Head(s)
<1>1. Len(s) \in Nat /\ Len(s) >= 1 /\ DOMAIN s = 1 .. Len(s)
  OBVIOUS
<1>2. Head(s) = s[1] /\ Head(s) \in S
  BY <1>1
<1>3. Tail(s) \in Seq(S) /\ Len(Tail(s)) = Len(s) - 1
  BY <1>1
<1>4. DOMAIN Tail(s) = 1 .. Len(s) - 1 /\ \A i \in 1 .. Len(s) - 1 : Tail(s)[i] = s[i + 1]
  BY <1>1, <1>3
<1>5. Among(s, Head(s))
  BY <1>1, <1>2 DEF Among
<1>6. Once(Tail(s))
  <2> SUFFICES ASSUME NEW i \in DOMAIN Tail(s), NEW j \in DOMAIN Tail(s), Tail(s)[i] = Tail(s)[j]
               PROVE  i = j
    BY DEF Once
  <2>1. i + 1 \in DOMAIN s /\ j + 1 \in DOMAIN s /\ s[i + 1] = s[j + 1]
    BY <1>1, <1>4
  <2>2. i + 1 = j + 1
    BY <2>1 DEF Once
  <2> QED
    BY <2>2, <1>4, <1>1
<1>7. ASSUME NEW a PROVE Among(Tail(s), a) <=> Among(s, a) /\ a # Head(s)
  <2>1. ASSUME Among(Tail(s), a) PROVE Among(s, a) /\ a # Head(s)
    <3>1. PICK i \in DOMAIN Tail(s) : Tail(s)[i] = a
      BY <2>1 DEF Among
    <3>2. i + 1 \in DOMAIN s /\ s[i + 1] = a /\ i + 1 # 1 /\ 1 \in DOMAIN s
      BY <3>1, <1>1, <1>4
    <3>3. s[1] # a
      BY <3>2 DEF Once
    <3> QED
      BY <3>2, <3>3, <1>2 DEF Among
  <2>2. ASSUME Among(s, a), a # Head(s) PROVE Among(Tail(s), a)
    <3>1. PICK i \in DOMAIN s : s[i] = a
      BY <2>2 DEF Among
    <3>2. i # 1
      BY <3>1, <2>2, <1>2
    <3>3. i - 1 \in DOMAIN Tail(s) /\ Tail(s)[i - 1] = a
      BY <3>1, <3>2, <1>1, <1>4
    <3> QED
      BY <3>3 DEF Among
  <2> QED
    BY <2>1, <2>2
<1> QED
  BY <1>2, <1>3, <1>5, <1>6, <1>7

\* An entry that the list does not hold is added at its end.
LEMMA AppendOnce ==
  ASSUME NEW S, NEW s \in Seq(S), NEW a \in S, Once(s), ~Among(s, a)
  PROVE  /\ Append(s, a) \in Seq(S) /\ Once(Append(s, a)) /\ Append(s, a) # << >>
         /\ \A b : Among(Append(s, a), b) <=> Among(s, b) \/ b = a
<1> DEFINE t == Append(s, a)
<1>1. Len(s) \in Nat /\ DOMAIN s = 1 .. Len(s)
  OBVIOUS
<1>2. t \in Seq(S) /\ Len(t) = Len(s) + 1 /\ DOMAIN t = 1 .. Len(s) + 1
  OBVIOUS
<1>9. t # << >>
  BY <1>1, <1>2
<1>3. t[Len(s) + 1] = a /\ \A i \in 1 .. Len(s) : t[i] = s[i]
  OBVIOUS
<1> HIDE DEF t
<1>4. \A i \in 1 .. Len(s) : s[i] # a
  BY <1>1 DEF Among
<1>5. Once(t)
  <2> SUFFICES ASSUME NEW i \in DOMAIN t, NEW j \in DOMAIN t, t[i] = t[j] PROVE i = j
    BY DEF Once
  <2>1. CASE i = Len(s) + 1 \/ j = Len(s) + 1
    BY <2>1, <1>1, <1>2, <1>3, <1>4
  <2>2. CASE i # Len(s) + 1 /\ j # Len(s) + 1
    <3>1. i \in DOMAIN s /\ j \in DOMAIN s /\ s[i] = s[j]
      BY <2>2, <1>1, <1>2, <1>3
    <3> QED
      BY <3>1 DEF Once
  <2> QED
    BY <2>1, <2>2
<1>6. ASSUME NEW b PROVE Among(t, b) <=> Among(s, b) \/ b = a
  <2>1. Among(t, b) => Among(s, b) \/ b = a
    BY <1>1, <1>2, <1>3 DEF Among
  <2>2. Among(s, b) => Among(t, b)
    BY <1>1, <1>2, <1>3 DEF Among
  <2>3. Len(s) + 1 \in DOMAIN t
    BY <1>1, <1>2
  <2> QED
    BY <2>1, <2>2, <2>3, <1>3 DEF Among
<1> QED
  BY <1>2, <1>5, <1>6, <1>9 DEF t

LEMMA EmptyOnce ==
  /\ \A S : << >> \in Seq(S)
  /\ Once(<< >>) /\ \A a : ~Among(<< >>, a)
BY DEF Once, Among

\* The small addresses of the first pool are listed once each.
LEMMA SmallOnce ==
  /\ SmallOf("0") \in Seq(FirstPool) /\ Once(SmallOf("0"))
  /\ \A a \in FirstPool : Among(SmallOf("0"), a)
  /\ \A k \in 1 .. PoolSize["0"] : SmallOf("0")[k] \in FirstPool
<1> DEFINE s == SmallOf("0")
           b == PoolStart["0"]
           n == PoolSize["0"]
<1>1. b \in Nat /\ n \in Nat /\ n > 0 /\ PoolGran["0"] = 1
  BY HostAssumption
<1>2. s = [k \in 1 .. n |-> b + (k - 1) * PoolGran["0"]]
  BY DEF SmallOf
<1>3. FirstPool = b .. b + n - 1
  BY DEF FirstPool
<1> HIDE DEF s, b, n
<1>4. s = [k \in 1 .. n |-> b + (k - 1)]
  BY <1>1, <1>2
<1>5. \A k \in 1 .. n : s[k] = b + (k - 1) /\ s[k] \in FirstPool
  BY <1>1, <1>3, <1>4
<1>6. s \in Seq(FirstPool) /\ DOMAIN s = 1 .. n
  BY <1>1, <1>4, <1>5
<1>7. Once(s)
  BY <1>1, <1>5, <1>6 DEF Once
<1>8. ASSUME NEW a \in FirstPool PROVE Among(s, a)
  <2>1. a - b + 1 \in 1 .. n
    BY <1>1, <1>3
  <2>2. s[a - b + 1] = a
    BY <2>1, <1>1, <1>5, <1>3
  <2> QED
    BY <2>1, <2>2, <1>6 DEF Among
<1> QED
  BY <1>5, <1>6, <1>7, <1>8 DEF s, n

\* Where a list holds an address once, the number of its copies says whether it does.
LEMMA CopiesOnce ==
  ASSUME NEW s, Once(s), NEW a
  PROVE  /\ Among(s, a) => Copies(s, a) = 1
         /\ ~Among(s, a) => Copies(s, a) = 0
<1>1. CASE Among(s, a)
  <2>1. PICK i \in DOMAIN s : s[i] = a
    BY <1>1 DEF Among
  <2>2. {j \in DOMAIN s : s[j] = a} = {i}
    BY <2>1 DEF Once
  <2> QED
    BY <1>1, <2>2, FS_Singleton DEF Copies
<1>2. CASE ~Among(s, a)
  <2>1. {j \in DOMAIN s : s[j] = a} = {}
    BY <1>2 DEF Among
  <2> QED
    BY <1>2, <2>1, FS_EmptySet DEF Copies
<1> QED
  BY <1>1, <1>2

-----------------------------------------------------------------------------
(* The parts of a step.                                                    *)

\* Calls d are calls c but for that of thread t.
CallIs(c, d, t, o, r, v, s) ==
  /\ IsCalls(d) /\ d[t].st = s /\ d[t].op = o /\ d[t].reg = r /\ d[t].val = v
  /\ \A u \in Threads : u # t => d[u] = c[u]

\* An access goes on.
LEMMA CallGoesOn ==
  ASSUME NEW c, IsCalls(c), NEW t \in Threads, NEW s, NEW d, d = [c EXCEPT ![t].st = s]
  PROVE  CallIs(c, d, t, c[t].op, c[t].reg, c[t].val, s)
<1>1. c[t] = [op |-> c[t].op, reg |-> c[t].reg, val |-> c[t].val, st |-> c[t].st]
  BY DEF IsCalls
<1>2. d[t] = [op |-> c[t].op, reg |-> c[t].reg, val |-> c[t].val, st |-> s]
  BY <1>1 DEF IsCalls
<1>3. \A u \in Threads : u # t => d[u] = c[u]
  BY DEF IsCalls
<1>4. d = [u \in Threads |-> d[u]]
  BY DEF IsCalls
<1>5. ASSUME NEW u \in Threads PROVE d[u] = [op |-> d[u].op, reg |-> d[u].reg, val |-> d[u].val, st |-> d[u].st]
  <2>1. CASE u = t
    BY <2>1, <1>2
  <2>2. CASE u # t
    BY <2>2, <1>3 DEF IsCalls
  <2> QED
    BY <2>1, <2>2
<1>6. IsCalls(d)
  BY <1>4, <1>5 DEF IsCalls
<1> QED
  BY <1>2, <1>3, <1>6 DEF CallIs

\* An access begins or ends.
LEMMA CallReplaced ==
  ASSUME NEW c, IsCalls(c), NEW t \in Threads, NEW o, NEW r, NEW v, NEW s,
         NEW d, d = [c EXCEPT ![t] = [op |-> o, reg |-> r, val |-> v, st |-> s]]
  PROVE  CallIs(c, d, t, o, r, v, s)
<1>1. d[t] = [op |-> o, reg |-> r, val |-> v, st |-> s]
  BY DEF IsCalls
<1>2. \A u \in Threads : u # t => d[u] = c[u]
  BY DEF IsCalls
<1>3. d = [u \in Threads |-> d[u]]
  BY DEF IsCalls
<1>4. ASSUME NEW u \in Threads PROVE d[u] = [op |-> d[u].op, reg |-> d[u].reg, val |-> d[u].val, st |-> d[u].st]
  <2>1. CASE u = t
    BY <2>1, <1>1
  <2>2. CASE u # t
    BY <2>2, <1>2 DEF IsCalls
  <2> QED
    BY <2>1, <2>2
<1>5. IsCalls(d)
  BY <1>3, <1>4 DEF IsCalls
<1> QED
  BY <1>1, <1>2, <1>5 DEF CallIs

\* The lists and their registers.
LEMMA ListRegisters ==
  ASSUME NEW i \in 1 .. 6
  PROVE  /\ Lists[i] \in ListNames /\ (Lists[i] = "0" <=> i = 1)
         /\ FreeReg(Lists[i]) \in {"free1", "free2", "unconnected"}
         /\ FreeReg(Lists[i]) = "free1" <=> Lists[i] = "0"
<1>1. i = 1 \/ i = 2 \/ i = 3 \/ i = 4 \/ i = 5 \/ i = 6
  OBVIOUS
<1>2. /\ Lists[1] = "0" /\ Lists[2] = "0M" /\ Lists[3] = "0L"
      /\ Lists[4] = "1" /\ Lists[5] = "1M" /\ Lists[6] = "1L"
  BY DEF Lists
<1>3. Lists[i] \in ListNames /\ (Lists[i] = "0" <=> i = 1)
  BY <1>1, <1>2 DEF ListNames
<1>4. /\ FreeReg("0") = "free1" /\ FreeReg("1") = "free2"
      /\ FreeReg("0M") = "unconnected" /\ FreeReg("0L") = "unconnected"
      /\ FreeReg("1M") = "unconnected" /\ FreeReg("1L") = "unconnected"
  BY DEF FreeReg
<1> QED
  BY <1>1, <1>2, <1>3, <1>4

\* Where addresses are matters only up to what changes them.
LEMMA OwnedSame ==
  ASSUME OwnedInv, pools["0"]' = pools["0"], board.free1' = board.free1, board.del' = board.del,
         inUse' = inUse, flush.req' = flush.req,
         \A a \in FirstPool : InHand(a)' <=> InHand(a),
         mg.at \in {"flushack", "refill"} => mg'.at \in {"flushack", "refill"}
  PROVE  OwnedInv'
<1> USE DEF OwnedInv
<1>1. FirstPool' = FirstPool
  BY DEF FirstPool
<1>2. (Once(pools["0"]) /\ Once(board.free1) /\ Once(board.del))'
  OBVIOUS
<1>3. ASSUME NEW a \in FirstPool
      PROVE  /\ Among(pools["0"], a)' <=> Among(pools["0"], a)
             /\ Among(board.free1, a)' <=> Among(board.free1, a)
             /\ Among(board.del, a)' <=> Among(board.del, a)
  BY DEF Among
<1> QED
  BY <1>1, <1>2, <1>3

-----------------------------------------------------------------------------
(* The board's steps.                                                      *)

\* The manager's side stays as it is.
LEMMA CallsSame ==
  ASSUME CallsInv, call' = call, mg' = mg, mtx' = mtx, user' = user, ioctl_arg' = ioctl_arg
  PROVE  CallsInv'
BY DEF CallsInv, Doing, List, Access, FreeReg

LEMMA TakeAddressStep ==
  ASSUME HostGood, TakeAddress
  PROVE  HostGood'
<1> USE DEF HostGood
<1> DEFINE f == board.free1
<1>0. flush.st = "idle" /\ f # << >> /\ inUse' = inUse \cup {Head(f)} /\ board' = [board EXCEPT !.free1 = Tail(f)]
      /\ UNCHANGED <<pools, mg, exited, mtx, user, ioctl_arg, call, flush>>
  BY DEF TakeAddress
<1>1. f \in Seq(FirstPool) /\ Once(f)
  BY DEF HostTypeOK, OwnedInv
<1>2. /\ Head(f) \in FirstPool /\ Among(f, Head(f))
      /\ Tail(f) \in Seq(FirstPool) /\ Once(Tail(f)) /\ Len(Tail(f)) = Len(f) - 1
      /\ \A a : Among(Tail(f), a) <=> Among(f, a) /\ a # Head(f)
  BY <1>0, <1>1, TailOnce
<1>3. board' = [g \in {"free1", "free2", "del"} |-> board'[g]] /\ board'.free1 = Tail(f) /\ board'.del = board.del
  BY <1>0 DEF HostTypeOK
<1>4. ~flush.req
  BY <1>0 DEF FlushInv
<1>5. mg.at \notin {"flushack", "refill", "flushdone"}
  BY <1>0 DEF FlushInv
<1>6. HostTypeOK'
  BY <1>0, <1>2, <1>3 DEF HostTypeOK, IsCalls, Access, FirstPool
<1>7. CallsInv'
  BY <1>0, CallsSame
<1>8. KnownInv'
  <2>0. Len(f) <= HostDepth
    BY DEF KnownInv
  <2>1. Len(board'.free1) < HostDepth /\ Len(board'.free1) <= HostDepth
    BY <1>1, <1>2, <1>3, <2>0, HostAssumption
  <2> QED
    BY <1>0, <2>1 DEF KnownInv, Doing, List, FirstPool
<1>9. FlushInv'
  BY <1>0, <1>3, <1>4, <1>5 DEF FlushInv, Doing
<1>10. OwnedInv'
  <2>1. \A a : InHand(a)' <=> InHand(a)
    BY <1>0 DEF InHand, List
  <2>2. FirstPool' = FirstPool
    BY DEF FirstPool
  <2>3. pools["0"]' = pools["0"] /\ board.free1' = Tail(f) /\ board.del' = board.del /\ flush.req' = flush.req /\ mg.at' = mg.at
    BY <1>0, <1>3
  <2>4. (Once(pools["0"]) /\ Once(board.free1) /\ Once(board.del))'
    BY <2>3, <1>2 DEF OwnedInv
  <2>5. ASSUME NEW a \in FirstPool
        PROVE  /\ Among(pools["0"], a)' <=> Among(pools["0"], a)
               /\ Among(board.free1, a)' <=> Among(f, a) /\ a # Head(f)
               /\ Among(board.del, a)' <=> Among(board.del, a)
    BY <2>3, <1>2
  <2>6. \A a : a \in inUse' <=> a \in inUse \/ a = Head(f)
    BY <1>0
  <2> HIDE DEF f
  <2>7. f = board.free1
    BY DEF f
  <2> QED
    BY <1>2, <1>4, <2>1, <2>2, <2>3, <2>4, <2>5, <2>6, <2>7 DEF OwnedInv
<1> QED
  BY <1>6, <1>7, <1>8, <1>9, <1>10

LEMMA ReturnAddressStep ==
  ASSUME HostGood, ReturnAddress
  PROVE  HostGood'
<1> USE DEF HostGood
<1> DEFINE f == board.del
<1>0. PICK b \in inUse :
        /\ flush.st = "idle" /\ inUse' = inUse \ {b} /\ board' = [board EXCEPT !.del = Append(f, b)]
        /\ UNCHANGED <<pools, mg, exited, mtx, user, ioctl_arg, call, flush>>
  BY DEF ReturnAddress
<1>4. ~flush.req
  BY <1>0 DEF FlushInv
<1>1. f \in Seq(FirstPool) /\ Once(f) /\ b \in FirstPool /\ ~Among(f, b)
  BY <1>4 DEF HostTypeOK, OwnedInv
<1>2. /\ Append(f, b) \in Seq(FirstPool) /\ Once(Append(f, b))
      /\ \A a : Among(Append(f, b), a) <=> Among(f, a) \/ a = b
  BY <1>1, AppendOnce
<1>3. board' = [g \in {"free1", "free2", "del"} |-> board'[g]] /\ board'.del = Append(f, b) /\ board'.free1 = board.free1
  BY <1>0 DEF HostTypeOK
<1>5. mg.at \notin {"flushack", "refill", "flushdone"}
  BY <1>0 DEF FlushInv
<1>6. HostTypeOK'
  BY <1>0, <1>2, <1>3 DEF HostTypeOK, IsCalls, Access, FirstPool
<1>7. CallsInv'
  BY <1>0, CallsSame
<1>8. KnownInv'
  BY <1>0, <1>3 DEF KnownInv, Doing, List, FirstPool
<1>9. FlushInv'
  BY <1>0, <1>3, <1>4, <1>5 DEF FlushInv, Doing
<1>10. OwnedInv'
  <2>1. \A a : InHand(a)' <=> InHand(a)
    BY <1>0 DEF InHand, List
  <2>2. FirstPool' = FirstPool
    BY DEF FirstPool
  <2>3. pools["0"]' = pools["0"] /\ board.del' = Append(f, b) /\ board.free1' = board.free1 /\ flush.req' = flush.req /\ mg.at' = mg.at
    BY <1>0, <1>3
  <2>4. (Once(pools["0"]) /\ Once(board.free1) /\ Once(board.del))'
    BY <2>3, <1>2 DEF OwnedInv
  <2>5. ASSUME NEW a \in FirstPool
        PROVE  /\ Among(pools["0"], a)' <=> Among(pools["0"], a)
               /\ Among(board.del, a)' <=> Among(f, a) \/ a = b
               /\ Among(board.free1, a)' <=> Among(board.free1, a)
    BY <2>3, <1>2
  <2>6. \A a : a \in inUse' <=> a \in inUse /\ a # b
    BY <1>0
  <2> HIDE DEF f
  <2>7. f = board.del
    BY DEF f
  <2> QED
    BY <1>1, <1>4, <2>1, <2>2, <2>3, <2>4, <2>5, <2>6, <2>7 DEF OwnedInv
<1> QED
  BY <1>6, <1>7, <1>8, <1>9, <1>10

LEMMA FlushRequestStep ==
  ASSUME HostGood, FlushRequest
  PROVE  HostGood'
<1> USE DEF HostGood
<1>0. flush.st = "idle" /\ flush' = [req |-> TRUE, done |-> FALSE, st |-> "wait"]
      /\ board' = [f \in DOMAIN board |-> << >>]
      /\ UNCHANGED <<pools, mg, exited, mtx, user, ioctl_arg, call, inUse>>
  BY DEF FlushRequest
<1>1. DOMAIN board = {"free1", "free2", "del"}
  BY DEF HostTypeOK
<1>2. board' = [g \in {"free1", "free2", "del"} |-> board'[g]] /\ board'.del = << >> /\ board'.free1 = << >>
  BY <1>0, <1>1
<1>3. flush'.req = TRUE /\ flush'.done = FALSE /\ flush'.st = "wait"
  BY <1>0
<1>6. HostTypeOK'
  <2>1. flush' \in [req : BOOLEAN, done : BOOLEAN, st : {"idle", "wait", "run"}]
    BY <1>0
  <2> QED
    BY <1>0, <1>2, <2>1, EmptyOnce DEF HostTypeOK, IsCalls, Access, FirstPool
<1>7. CallsInv'
  BY <1>0, CallsSame
<1>8. KnownInv'
  <2>1. Len(board'.free1) <= HostDepth
    BY <1>2, HostAssumption
  <2> QED
    BY <1>0, <1>3, <2>1 DEF KnownInv, Doing, List, FirstPool
<1>9. FlushInv'
  <2>1. SmallOf("0")' = SmallOf("0")
    BY DEF SmallOf
  <2> QED
    BY <1>0, <1>2, <1>3, <2>1 DEF FlushInv, Doing
<1>10. OwnedInv'
  <2>1. \A a : InHand(a)' <=> InHand(a)
    BY <1>0 DEF InHand, List
  <2>2. FirstPool' = FirstPool
    BY DEF FirstPool
  <2>3. pools["0"]' = pools["0"] /\ board.del' = << >> /\ board.free1' = << >>
    BY <1>0, <1>2
  <2>4. (Once(pools["0"]) /\ Once(board.free1) /\ Once(board.del))'
    BY <2>3, EmptyOnce DEF OwnedInv
  <2>5. ASSUME NEW a \in FirstPool
        PROVE  /\ Among(pools["0"], a)' <=> Among(pools["0"], a)
               /\ ~Among(board.del, a)'
               /\ ~Among(board.free1, a)'
    BY <2>3, EmptyOnce
  <2> QED
    BY <1>3, <2>1, <2>2, <2>4, <2>5 DEF OwnedInv
<1> QED
  BY <1>6, <1>7, <1>8, <1>9, <1>10

LEMMA FlushTableStep ==
  ASSUME HostGood, FlushTable
  PROVE  HostGood'
<1> USE DEF HostGood
<1>0. flush.st = "run" /\ flush' = [req |-> FALSE, done |-> TRUE, st |-> "idle"] /\ inUse' = {}
      /\ UNCHANGED <<pools, mg, exited, mtx, user, ioctl_arg, call, board>>
  BY DEF FlushTable
<1>3. flush'.req = FALSE /\ flush'.done = TRUE /\ flush'.st = "idle"
  BY <1>0
<1>4. flush.req /\ board.free1 = << >> /\ board.del = << >>
  BY <1>0 DEF FlushInv
<1>5. (mg.at = "flushack" /\ Doing.st = "accessed") \/ mg.at \in {"refill", "flushdone"}
  BY <1>0 DEF FlushInv
<1>6. HostTypeOK'
  <2>1. flush' \in [req : BOOLEAN, done : BOOLEAN, st : {"idle", "wait", "run"}]
    BY <1>0
  <2> QED
    BY <1>0, <2>1 DEF HostTypeOK, IsCalls, Access, FirstPool
<1>7. CallsInv'
  BY <1>0, CallsSame
<1>8. KnownInv'
  BY <1>0, <1>3, <1>5 DEF KnownInv, Doing, List, FirstPool
<1>9. FlushInv'
  <2>1. SmallOf("0")' = SmallOf("0")
    BY DEF SmallOf
  <2> QED
    BY <1>0, <1>3, <1>4, <2>1 DEF FlushInv, Doing
<1>10. OwnedInv'
  <2>1. \A a : InHand(a)' <=> InHand(a)
    BY <1>0 DEF InHand, List
  <2>2. FirstPool' = FirstPool
    BY DEF FirstPool
  <2>3. pools["0"]' = pools["0"] /\ board.del' = board.del /\ board.free1' = board.free1
    BY <1>0
  <2>4. (Once(pools["0"]) /\ Once(board.free1) /\ Once(board.del))'
    BY <2>3 DEF OwnedInv
  <2>5. ASSUME NEW a \in FirstPool
        PROVE  /\ Among(pools["0"], a)' <=> Among(pools["0"], a)
               /\ Among(board.del, a)' <=> Among(board.del, a)
               /\ Among(board.free1, a)' <=> Among(board.free1, a)
    BY <2>3
  <2>6. mg.at = "flushdone" => \A a \in FirstPool : Among(pools["0"], a)
    BY SmallOnce DEF FlushInv
  <2>7. inUse' = {} /\ mg' = mg
    BY <1>0
  <2> QED
    BY <1>3, <1>5, <2>1, <2>2, <2>4, <2>5, <2>6, <2>7 DEF OwnedInv
<1> QED
  BY <1>6, <1>7, <1>8, <1>9, <1>10

-----------------------------------------------------------------------------
(* Register accesses.                                                      *)

LEMMA ReadStatsStep ==
  ASSUME HostGood, ReadStats
  PROVE  HostGood'
<1> USE DEF HostGood
<1>0. call["stats"].st = "idle" /\ mtx = "none" /\ mtx' = "stats" /\ user' = Access("stats", 0)
      /\ call' = [call EXCEPT !["stats"] = [op |-> "read", reg |-> "stats", val |-> 0, st |-> "locked"]]
      /\ UNCHANGED <<pools, mg, exited, ioctl_arg, board, inUse, flush>>
  BY DEF ReadStats, Start, Access
<1>1. "stats" \in Threads /\ "manager" \in Threads /\ Threads = {"stats", "manager"}
  BY DEF Threads
<1>2. IsCalls(call)
  BY DEF HostTypeOK
<1>20. call' = [call EXCEPT !["stats"] = [op |-> "read", reg |-> "stats", val |-> 0, st |-> "locked"]]
  BY <1>0
<1>21. CallIs(call, call', "stats", "read", "stats", 0, "locked")
  BY <1>20, <1>1, <1>2, CallReplaced
<1>3. /\ IsCalls(call') /\ call'["stats"].st = "locked" /\ call'["stats"].op = "read"
      /\ call'["stats"].reg = "stats" /\ call'["stats"].val = 0
      /\ call'["manager"] = call["manager"]
  BY <1>21, <1>1 DEF CallIs
<1>4. Doing' = Doing /\ Doing.st = "idle"
  BY <1>0, <1>1, <1>3 DEF Doing, CallsInv
<1>5. List' = List
  BY <1>0 DEF List
<1>6. HostTypeOK'
  BY <1>0, <1>1, <1>3 DEF HostTypeOK, Access, FirstPool
<1>7. CallsInv'
  BY <1>0, <1>1, <1>3, <1>4 DEF CallsInv, Access
<1>8. KnownInv'
  BY <1>0, <1>4, <1>5 DEF KnownInv, FirstPool
<1>9. FlushInv'
  <2>1. SmallOf("0")' = SmallOf("0")
    BY DEF SmallOf
  <2> QED
    BY <1>0, <1>4, <2>1 DEF FlushInv
<1>10. OwnedInv'
  <2>1. \A a \in FirstPool : InHand(a)' <=> InHand(a)
    BY <1>0, <1>3, <1>5 DEF InHand
  <2>2. pools["0"]' = pools["0"] /\ board.free1' = board.free1 /\ board.del' = board.del /\ inUse' = inUse
        /\ flush.req' = flush.req /\ mg' = mg
    BY <1>0
  <2> QED
    BY <2>1, <2>2, OwnedSame
<1> QED
  BY <1>6, <1>7, <1>8, <1>9, <1>10

\* The manager begins an access that takes nothing from its lists.
LEMMA ManagerAsks ==
  ASSUME HostGood, UNCHANGED <<pools, mg, exited, ioctl_arg, board, inUse, flush>>,
         NEW o, NEW r, NEW v, Start("manager", o, r, v),
         mg.at \notin {"refill", "put"},
         o = (IF mg.at = "flushack" THEN "write" ELSE "read"),
         r = (IF mg.at = "free" THEN FreeReg(List) ELSE mg.at)
  PROVE  HostGood'
<1> USE DEF HostGood
<1>0. call["manager"].st = "idle" /\ mtx = "none" /\ mtx' = "manager" /\ user' = Access(r, v)
      /\ call' = [call EXCEPT !["manager"] = [op |-> o, reg |-> r, val |-> v, st |-> "locked"]]
  BY DEF Start, Access
<1>1. "stats" \in Threads /\ "manager" \in Threads /\ Threads = {"stats", "manager"}
  BY DEF Threads
<1>2. IsCalls(call)
  BY DEF HostTypeOK
<1>20. call' = [call EXCEPT !["manager"] = [op |-> o, reg |-> r, val |-> v, st |-> "locked"]]
  BY <1>0
<1>21. CallIs(call, call', "manager", o, r, v, "locked")
  BY <1>20, <1>1, <1>2, CallReplaced
<1>3. /\ IsCalls(call') /\ call'["manager"].st = "locked" /\ call'["manager"].op = o
      /\ call'["manager"].reg = r /\ call'["manager"].val = v
      /\ call'["stats"] = call["stats"]
  BY <1>21, <1>1 DEF CallIs
<1>4. Doing' = call'["manager"] /\ Doing = call["manager"]
  BY DEF Doing
<1>5. List' = List
  BY DEF List
<1>6. HostTypeOK'
  BY <1>0, <1>1, <1>3 DEF HostTypeOK, Access, FirstPool
<1>7. CallsInv'
  <2>1. call["stats"].st = "idle"
    BY <1>0, <1>1 DEF CallsInv
  <2> QED
    BY <1>0, <1>1, <1>3, <1>4, <1>5, <2>1 DEF CallsInv, Access, FreeReg
<1>8. KnownInv'
  BY <1>0, <1>3, <1>4, <1>5 DEF KnownInv, FirstPool
<1>9. FlushInv'
  <2>1. SmallOf("0")' = SmallOf("0")
    BY DEF SmallOf
  <2> QED
    BY <1>0, <1>3, <1>4, <2>1 DEF FlushInv
<1>10. OwnedInv'
  <2>1. \A a \in FirstPool : InHand(a)' <=> InHand(a)
    BY <1>0, <1>3, <1>5 DEF InHand
  <2>2. pools["0"]' = pools["0"] /\ board.free1' = board.free1 /\ board.del' = board.del /\ inUse' = inUse
        /\ flush.req' = flush.req /\ mg' = mg
    OBVIOUS
  <2> QED
    BY <2>1, <2>2, OwnedSame
<1> QED
  BY <1>6, <1>7, <1>8, <1>9, <1>10

\* The manager takes the first address of a list.
LEMMA WriteFreeStep ==
  ASSUME HostGood, WriteFree, UNCHANGED <<mg, exited, ioctl_arg, board, inUse, flush>>
  PROVE  HostGood'
<1> USE DEF HostGood
<1> DEFINE v == Head(pools[List])
           r == FreeReg(List)
<1>0. mg.at = "put" /\ call["manager"].st = "idle" /\ mtx = "none" /\ mtx' = "manager" /\ user' = Access(r, v)
      /\ call' = [call EXCEPT !["manager"] = [op |-> "write", reg |-> r, val |-> v, st |-> "locked"]]
      /\ pools' = [pools EXCEPT ![List] = Tail(@)]
  BY DEF WriteFree, Start, Access
<1>1. "stats" \in Threads /\ "manager" \in Threads /\ Threads = {"stats", "manager"}
  BY DEF Threads
<1>2. IsCalls(call)
  BY DEF HostTypeOK
<1>20. call' = [call EXCEPT !["manager"] = [op |-> "write", reg |-> r, val |-> v, st |-> "locked"]]
  BY <1>0
<1>21. CallIs(call, call', "manager", "write", r, v, "locked")
  BY <1>20, <1>1, <1>2, CallReplaced
<1>3. /\ IsCalls(call') /\ call'["manager"].st = "locked" /\ call'["manager"].op = "write"
      /\ call'["manager"].reg = r /\ call'["manager"].val = v
      /\ call'["stats"] = call["stats"]
  BY <1>21, <1>1 DEF CallIs
<1>4. Doing' = call'["manager"] /\ Doing = call["manager"]
  BY DEF Doing
<1>5. List' = List
  BY DEF List
<1>6. List \in ListNames /\ "0" \in ListNames
  BY ListRegisters DEF List, HostTypeOK, ListNames
<1>7. pools[List] # << >>
  BY <1>0, <1>4 DEF KnownInv
<1>8. /\ pools' = [l \in ListNames |-> pools'[l]]
      /\ List # "0" => pools'["0"] = pools["0"]
      /\ List = "0" => pools'["0"] = Tail(pools["0"]) /\ v = Head(pools["0"]) /\ pools["0"] # << >>
  BY <1>0, <1>6, <1>7 DEF HostTypeOK
<1>9. pools["0"] \in Seq(FirstPool) /\ Once(pools["0"])
  BY DEF HostTypeOK, OwnedInv
<1>10. List = "0" => /\ v \in FirstPool /\ Among(pools["0"], v)
                     /\ pools'["0"] \in Seq(FirstPool) /\ Once(pools'["0"])
                     /\ \A a : Among(pools'["0"], a) <=> Among(pools["0"], a) /\ a # v
  <2> SUFFICES ASSUME List = "0"
               PROVE  /\ v \in FirstPool /\ Among(pools["0"], v)
                      /\ pools'["0"] \in Seq(FirstPool) /\ Once(pools'["0"])
                      /\ \A a : Among(pools'["0"], a) <=> Among(pools["0"], a) /\ a # v
    OBVIOUS
  <2> DEFINE p == pools["0"]
  <2>1. p # << >> /\ v = Head(p) /\ pools'["0"] = Tail(p)
    BY <1>8
  <2>2. /\ Head(p) \in FirstPool /\ Among(p, Head(p))
        /\ Tail(p) \in Seq(FirstPool) /\ Once(Tail(p)) /\ Len(Tail(p)) = Len(p) - 1
        /\ \A a : Among(Tail(p), a) <=> Among(p, a) /\ a # Head(p)
    BY <2>1, <1>9, TailOnce
  <2> QED
    BY <2>1, <2>2
<1> HIDE DEF v, r
<1>11. HostTypeOK'
  <2>1. pools'["0"] \in Seq(FirstPool)
    BY <1>8, <1>9, <1>10
  <2> QED
    BY <1>0, <1>1, <1>3, <1>8, <2>1 DEF HostTypeOK, Access, FirstPool
<1>12. CallsInv'
  <2>1. call["stats"].st = "idle"
    BY <1>0, <1>1 DEF CallsInv
  <2> QED
    BY <1>0, <1>1, <1>3, <1>4, <1>5, <2>1 DEF CallsInv, Access, r, FreeReg
<1>13. KnownInv'
  BY <1>0, <1>3, <1>4, <1>5, <1>10 DEF KnownInv, FirstPool
<1>14. FlushInv'
  BY <1>0, <1>3, <1>4 DEF FlushInv
<1>15. OwnedInv'
  <2>1. CASE List # "0"
    <3>1. \A a \in FirstPool : InHand(a)' <=> InHand(a)
      BY <1>0, <1>3, <1>5, <2>1 DEF InHand
    <3>2. pools["0"]' = pools["0"] /\ board.free1' = board.free1 /\ board.del' = board.del /\ inUse' = inUse
          /\ flush.req' = flush.req /\ mg' = mg
      BY <1>8, <2>1
    <3> QED
      BY <3>1, <3>2, OwnedSame
  <2>2. CASE List = "0"
    <3>1. \A a : ~InHand(a) /\ (InHand(a)' <=> a = v)
      BY <1>0, <1>3, <1>5, <2>2 DEF InHand
    <3>2. FirstPool' = FirstPool
      BY DEF FirstPool
    <3>3. board.free1' = board.free1 /\ board.del' = board.del /\ flush.req' = flush.req /\ mg.at' = mg.at /\ inUse' = inUse
      OBVIOUS
    <3>4. (Once(pools["0"]) /\ Once(board.free1) /\ Once(board.del))'
      BY <3>3, <1>10, <2>2 DEF OwnedInv
    <3>5. ASSUME NEW a \in FirstPool
          PROVE  /\ Among(pools["0"], a)' <=> Among(pools["0"], a) /\ a # v
                 /\ Among(board.del, a)' <=> Among(board.del, a)
                 /\ Among(board.free1, a)' <=> Among(board.free1, a)
      BY <3>3, <1>10, <2>2
    <3> QED
      BY <1>10, <2>2, <3>1, <3>2, <3>3, <3>4, <3>5 DEF OwnedInv
  <2> QED
    BY <2>1, <2>2
<1> QED
  BY <1>11, <1>12, <1>13, <1>14, <1>15

LEMMA ManagerCallsStep ==
  ASSUME HostGood, ManagerCalls
  PROVE  HostGood'
<1>0. UNCHANGED <<mg, exited, ioctl_arg, board, inUse, flush>>
  BY DEF ManagerCalls
<1>1. CASE WriteFree
  BY <1>0, <1>1, WriteFreeStep
<1>2. ASSUME UNCHANGED pools, mg.at = "free", Start("manager", "read", FreeReg(List), 0) PROVE HostGood'
  BY <1>0, <1>2, ManagerAsks
<1>3. ASSUME UNCHANGED pools, mg.at \in {"flushreq", "flushdone", "del"}, Start("manager", "read", mg.at, 0) PROVE HostGood'
  <2>1. mg.at \notin {"refill", "put"} /\ "read" = (IF mg.at = "flushack" THEN "write" ELSE "read")
        /\ mg.at = (IF mg.at = "free" THEN FreeReg(List) ELSE mg.at)
    BY <1>3
  <2> QED
    BY <1>0, <1>3, <2>1, ManagerAsks
<1>4. ASSUME UNCHANGED pools, mg.at = "flushack", Start("manager", "write", "flushack", 1) PROVE HostGood'
  BY <1>0, <1>4, ManagerAsks
<1> QED
  BY <1>1, <1>2, <1>3, <1>4 DEF ManagerCalls

LEMMA CopyFromUserStep ==
  ASSUME HostGood, NEW t \in Threads, copy_from_user(t)
  PROVE  HostGood'
<1> USE DEF HostGood
<1>0. call[t].st = "locked" /\ ioctl_arg' = user /\ call' = [call EXCEPT ![t].st = "copied"]
      /\ UNCHANGED <<pools, mg, exited, mtx, user, board, inUse, flush>>
  BY DEF copy_from_user
<1>1. "stats" \in Threads /\ "manager" \in Threads /\ Threads = {"stats", "manager"}
  BY DEF Threads
<1>2. IsCalls(call)
  BY DEF HostTypeOK
<1>20. call' = [call EXCEPT ![t].st = "copied"]
  BY <1>0
<1>21. CallIs(call, call', t, call[t].op, call[t].reg, call[t].val, "copied")
  BY <1>20, <1>1, <1>2, CallGoesOn
<1>3. /\ IsCalls(call') /\ call'[t].st = "copied" /\ call'[t].op = call[t].op
      /\ call'[t].reg = call[t].reg /\ call'[t].val = call[t].val
      /\ \A u \in Threads : u # t => call'[u] = call[u]
  BY <1>21, <1>1 DEF CallIs
<1>4. mtx = t /\ \A u \in Threads : u # t => call[u].st = "idle"
  BY <1>0 DEF CallsInv
<1>5. List' = List /\ Doing' = call'["manager"] /\ Doing = call["manager"]
  BY <1>0 DEF List, Doing
<1>6. /\ Doing'.op = Doing.op /\ Doing'.reg = Doing.reg /\ Doing'.val = Doing.val
      /\ Doing'.st = "idle" <=> Doing.st = "idle"
      /\ Doing'.st \in {"locked", "copied"} <=> Doing.st \in {"locked", "copied"}
      /\ Doing'.st # "accessed" /\ Doing.st # "accessed"
  BY <1>0, <1>1, <1>3, <1>4, <1>5
<1>7. HostTypeOK'
  BY <1>0, <1>1, <1>3 DEF HostTypeOK, Access, FirstPool
<1>8. CallsInv'
  <2>1. ASSUME NEW u \in Threads
        PROVE  (/\ call[u].st \in {"idle", "locked", "copied", "accessed"}
                /\ mtx = u <=> call[u].st # "idle"
                /\ call[u].st = "locked" => user = Access(call[u].reg, call[u].val)
                /\ call[u].st = "copied" => ioctl_arg = Access(call[u].reg, call[u].val))'
    <3>1. CASE u = t
      BY <1>0, <1>3, <1>4, <3>1 DEF CallsInv, Access
    <3>2. CASE u # t
      BY <1>0, <1>3, <1>4, <3>2 DEF CallsInv, Access
    <3> QED
      BY <3>1, <3>2
  <2>2. (call["stats"].st # "idle" => call["stats"].op = "read" /\ call["stats"].reg = "stats")'
    BY <1>0, <1>1, <1>3, <1>4 DEF CallsInv
  <2> QED
    BY <1>0, <1>5, <1>6, <2>1, <2>2 DEF CallsInv, FreeReg
<1>9. KnownInv'
  BY <1>0, <1>5, <1>6 DEF KnownInv, FirstPool
<1>10. FlushInv'
  <2>1. SmallOf("0")' = SmallOf("0")
    BY DEF SmallOf
  <2> QED
    BY <1>0, <1>6, <2>1 DEF FlushInv
<1>11. OwnedInv'
  <2>1. \A a \in FirstPool : InHand(a)' <=> InHand(a)
    BY <1>0, <1>5, <1>6 DEF InHand
  <2>2. pools["0"]' = pools["0"] /\ board.free1' = board.free1 /\ board.del' = board.del /\ inUse' = inUse
        /\ flush.req' = flush.req /\ mg' = mg
    BY <1>0
  <2> QED
    BY <2>1, <2>2, OwnedSame
<1> QED
  BY <1>7, <1>8, <1>9, <1>10, <1>11

\* A register is read. Only a read of DEL by the manager takes something from the board.
LEMMA ReadStep ==
  ASSUME HostGood, ReadyDelays = {0}, NEW t \in Threads, readl(t)
  PROVE  HostGood'
<1> USE DEF HostGood
<1>0. PICK x \in RegisterRead(ioctl_arg.reg, 0) :
        /\ call[t].st = "copied" /\ call[t].op = "read"
        /\ ioctl_arg' = [ioctl_arg EXCEPT !.val = x]
        /\ board' = IF ioctl_arg.reg = "del" THEN [board EXCEPT !.del = Popped(0)] ELSE board
        /\ call' = [call EXCEPT ![t].st = "accessed"]
        /\ UNCHANGED <<pools, mg, exited, mtx, user, inUse, flush>>
  <2>1. PICK d \in ReadyDelays : \E x \in RegisterRead(ioctl_arg.reg, d) :
          /\ call[t].st = "copied" /\ call[t].op = "read"
          /\ ioctl_arg' = [ioctl_arg EXCEPT !.val = x]
          /\ board' = IF ioctl_arg.reg = "del" THEN [board EXCEPT !.del = Popped(d)] ELSE board
          /\ call' = [call EXCEPT ![t].st = "accessed"]
          /\ UNCHANGED <<pools, mg, exited, mtx, user, inUse, flush>>
    BY DEF readl
  <2>2. d = 0
    BY <2>1
  <2> QED
    BY <2>1, <2>2
<1>1. "stats" \in Threads /\ "manager" \in Threads /\ Threads = {"stats", "manager"}
  BY DEF Threads
<1>2. IsCalls(call)
  BY DEF HostTypeOK
<1>20. call' = [call EXCEPT ![t].st = "accessed"]
  BY <1>0
<1>21. CallIs(call, call', t, call[t].op, call[t].reg, call[t].val, "accessed")
  BY <1>20, <1>2, CallGoesOn
<1>3. /\ IsCalls(call') /\ call'[t].st = "accessed" /\ call'[t].op = call[t].op
      /\ call'[t].reg = call[t].reg /\ call'[t].val = call[t].val
      /\ \A u \in Threads : u # t => call'[u] = call[u]
  BY <1>21 DEF CallIs
<1>4. mtx = t /\ \A u \in Threads : u # t => call[u].st = "idle"
  BY <1>0 DEF CallsInv
<1>5. List' = List /\ Doing' = call'["manager"] /\ Doing = call["manager"]
  BY <1>0 DEF List, Doing
<1>6. ioctl_arg' = Access(ioctl_arg.reg, x) /\ ioctl_arg'.val = x /\ ioctl_arg.reg = call[t].reg
  <2>1. ioctl_arg = Access(ioctl_arg.reg, ioctl_arg.val)
    BY DEF HostTypeOK
  <2>2. ioctl_arg = Access(call[t].reg, call[t].val)
    BY <1>0 DEF CallsInv
  <2>3. ioctl_arg' = Access(ioctl_arg.reg, x)
    BY <1>0, <2>1 DEF Access
  <2> QED
    BY <2>2, <2>3 DEF Access
<1>61. ioctl_arg' = Access(ioctl_arg'.reg, ioctl_arg'.val)
  BY <1>6 DEF Access
<1>7. CallsInv'
  <2>1. ASSUME NEW u \in Threads
        PROVE  (/\ call[u].st \in {"idle", "locked", "copied", "accessed"}
                /\ mtx = u <=> call[u].st # "idle"
                /\ call[u].st = "locked" => user = Access(call[u].reg, call[u].val)
                /\ call[u].st = "copied" => ioctl_arg = Access(call[u].reg, call[u].val))'
    <3>1. CASE u = t
      BY <1>0, <1>3, <1>4, <3>1 DEF CallsInv, Access
    <3>2. CASE u # t
      BY <1>0, <1>3, <1>4, <3>2 DEF CallsInv, Access
    <3> QED
      BY <3>1, <3>2
  <2>2. (call["stats"].st # "idle" => call["stats"].op = "read" /\ call["stats"].reg = "stats")'
    BY <1>0, <1>1, <1>3, <1>4 DEF CallsInv
  <2>3. Doing'.op = Doing.op /\ Doing'.reg = Doing.reg /\ (Doing'.st = "idle" <=> Doing.st = "idle")
    BY <1>0, <1>1, <1>3, <1>4, <1>5
  <2> QED
    BY <1>0, <1>5, <2>1, <2>2, <2>3 DEF CallsInv, FreeReg
<1>8. CASE t = "stats"
  <2>1. ioctl_arg.reg = "stats"
    BY <1>0, <1>6, <1>8, <1>1 DEF CallsInv
  <2>2. board' = board /\ Doing' = Doing /\ Doing.st = "idle"
    BY <1>0, <1>1, <1>3, <1>4, <1>5, <1>8, <2>1
  <2>3. HostTypeOK'
    <3>1. (/\ pools = [l \in ListNames |-> pools[l]] /\ pools["0"] \in Seq(FirstPool)
           /\ mg \in [at : Stages, i : 1 .. 6] /\ mtx \in Threads \cup {"none"} /\ user = Access(user.reg, user.val))'
      BY <1>0 DEF HostTypeOK, FirstPool
    <3>2. (/\ board = [f \in {"free1", "free2", "del"} |-> board[f]]
           /\ board.free1 \in Seq(FirstPool) /\ board.del \in Seq(FirstPool)
           /\ inUse \subseteq FirstPool
           /\ flush \in [req : BOOLEAN, done : BOOLEAN, st : {"idle", "wait", "run"}])'
      BY <1>0, <2>2 DEF HostTypeOK, FirstPool
    <3> QED
      BY <1>3, <1>61, <3>1, <3>2 DEF HostTypeOK
  <2>4. KnownInv'
    BY <1>0, <1>5, <2>2 DEF KnownInv, FirstPool
  <2>5. FlushInv'
    <3>1. SmallOf("0")' = SmallOf("0")
      BY DEF SmallOf
    <3> QED
      BY <1>0, <2>2, <3>1 DEF FlushInv
  <2>6. OwnedInv'
    <3>1. \A a \in FirstPool : InHand(a)' <=> InHand(a)
      BY <1>0, <1>5, <2>2 DEF InHand, Doing
    <3>2. pools["0"]' = pools["0"] /\ board.free1' = board.free1 /\ board.del' = board.del /\ inUse' = inUse
          /\ flush.req' = flush.req /\ mg' = mg
      BY <1>0, <2>2
    <3> QED
      BY <3>1, <3>2, OwnedSame
  <2> QED
    BY <1>7, <2>3, <2>4, <2>5, <2>6
<1>9. CASE t = "manager"
  <2>0. /\ Doing.st = "copied" /\ Doing'.st = "accessed" /\ Doing.op = "read" /\ Doing.reg = ioctl_arg.reg
        /\ mg.at \in {"free", "flushreq", "flushdone", "del"}
        /\ ioctl_arg.reg = IF mg.at = "free" THEN FreeReg(List) ELSE mg.at
    <3>1. Doing.st = "copied" /\ Doing.op = "read" /\ Doing.reg = ioctl_arg.reg /\ Doing'.st = "accessed"
      BY <1>0, <1>3, <1>5, <1>6, <1>9
    <3>2. mg.at \in Stages
      BY DEF HostTypeOK
    <3> QED
      BY <3>1, <3>2 DEF CallsInv, Stages
  <2>1. CASE mg.at = "del"
    <3> DEFINE f == board.del
    <3>1. ioctl_arg.reg = "del" /\ RegisterRead("del", 0) = {DelEntry(0)}
      BY <2>0, <2>1 DEF RegisterRead
    <3>2. f \in Seq(FirstPool) /\ Once(f)
      BY DEF HostTypeOK, OwnedInv
    <3>3. x = IF f # << >> THEN Head(f) ELSE 0
      <4>1. x = DelEntry(0)
        BY <1>0, <3>1
      <4>2. DelEntry(0) = IF 1 <= Len(f) THEN f[1] ELSE 0
        BY DEF DelEntry
      <4> QED
        BY <3>2, <4>1, <4>2
    <3>4. Popped(0) = IF f # << >> THEN Tail(f) ELSE << >>
      <4>1. Popped(0) = SubSeq(f, 2, Len(f))
        BY DEF Popped
      <4>2. CASE f = << >>
        BY <4>1, <4>2
      <4>3. CASE f # << >>
        BY <4>1, <4>3, <3>2, TailIsSubSeq
      <4> QED
        BY <4>2, <4>3
    <3>5. board' = [g \in {"free1", "free2", "del"} |-> board'[g]] /\ board'.del = Popped(0) /\ board'.free1 = board.free1
      BY <1>0, <3>1 DEF HostTypeOK
    <3> HIDE DEF f
    <3>6. f # << >> => /\ Head(f) \in FirstPool /\ Among(f, Head(f))
                       /\ Tail(f) \in Seq(FirstPool) /\ Once(Tail(f))
                       /\ \A a : Among(Tail(f), a) <=> Among(f, a) /\ a # Head(f)
      <4> SUFFICES ASSUME f # << >>
                   PROVE  /\ Head(f) \in FirstPool /\ Among(f, Head(f))
                          /\ Tail(f) \in Seq(FirstPool) /\ Once(Tail(f))
                          /\ \A a : Among(Tail(f), a) <=> Among(f, a) /\ a # Head(f)
        OBVIOUS
      <4> QED
        BY <3>2, TailOnce
    <3>7. 0 \notin FirstPool
      BY HostAssumption DEF FirstPool
    <3>8. /\ x \in FirstPool \cup {0}
          /\ board'.del \in Seq(FirstPool) /\ Once(board'.del)
          /\ \A a \in FirstPool : Among(board'.del, a) <=> Among(f, a) /\ a # x
          /\ \A a \in FirstPool : a = x => Among(f, a)
      BY <3>2, <3>3, <3>4, <3>5, <3>6, <3>7, EmptyOnce
    <3>9. HostTypeOK'
      BY <1>0, <1>3, <1>61, <3>5, <3>8 DEF HostTypeOK, FirstPool
    <3>10. KnownInv'
      BY <1>0, <1>5, <1>6, <2>0, <2>1, <3>8 DEF KnownInv, FirstPool
    <3>11. FlushInv'
      <4>1. f = << >> => board'.del = << >>
        BY <3>4, <3>5
      <4> QED
        BY <1>0, <2>1, <3>5, <4>1 DEF FlushInv, f
    <3>12. OwnedInv'
      <4>1. \A a : ~InHand(a) /\ (InHand(a)' <=> a = x)
        BY <1>0, <1>5, <1>6, <2>0, <2>1 DEF InHand
      <4>2. FirstPool' = FirstPool
        BY DEF FirstPool
      <4>3. pools["0"]' = pools["0"] /\ board.free1' = board.free1 /\ flush.req' = flush.req /\ mg.at' = mg.at /\ inUse' = inUse
        BY <1>0, <3>5
      <4>4. (Once(pools["0"]) /\ Once(board.free1) /\ Once(board.del))'
        BY <4>3, <3>8 DEF OwnedInv
      <4>5. ASSUME NEW a \in FirstPool
            PROVE  /\ Among(pools["0"], a)' <=> Among(pools["0"], a)
                   /\ Among(board.del, a)' <=> Among(board.del, a) /\ a # x
                   /\ Among(board.free1, a)' <=> Among(board.free1, a)
        BY <4>3, <3>8 DEF f
      <4>6. \A a \in FirstPool : a = x => Among(board.del, a)
        BY <3>8 DEF f
      <4> QED
        BY <4>1, <4>2, <4>3, <4>4, <4>5, <4>6 DEF OwnedInv
    <3> QED
      BY <1>7, <3>9, <3>10, <3>11, <3>12
  <2>2. CASE mg.at # "del"
    <3>1. board' = board
      <4>1. FreeReg(List) # "del"
        BY ListRegisters DEF List, HostTypeOK
      <4> QED
        BY <1>0, <2>0, <2>2, <4>1
    <3>2. HostTypeOK'
      BY <1>0, <1>3, <1>61, <3>1 DEF HostTypeOK, FirstPool
    <3>3. mg.at = "free" /\ List = "0" /\ ~flush.req /\ x = 0 => Len(board.free1) < HostDepth
      <4> SUFFICES ASSUME mg.at = "free", List = "0", ~flush.req, x = 0 PROVE Len(board.free1) < HostDepth
        OBVIOUS
      <4>1. ioctl_arg.reg = "free1"
        BY <2>0 DEF FreeReg
      <4>2. x \in Full("free1")
        BY <1>0, <4>1 DEF RegisterRead
      <4>3. Len(board.free1) # HostDepth
        BY <4>2 DEF Full
      <4> QED
        BY <4>3, HostAssumption DEF KnownInv, HostTypeOK
    <3>4. mg.at = "flushreq" /\ x = 1 => flush.st = "wait"
      <4> SUFFICES ASSUME mg.at = "flushreq", x = 1 PROVE flush.st = "wait"
        OBVIOUS
      <4>1. ioctl_arg.reg = "flushreq"
        BY <2>0
      <4>2. x = Boolean(flush.req)
        BY <1>0, <4>1 DEF RegisterRead
      <4>3. flush.req
        BY <4>2 DEF Boolean
      <4> QED
        BY <4>3 DEF FlushInv, HostTypeOK
    <3>5. mg.at = "flushdone" /\ x = 1 => flush.st # "run"
      <4> SUFFICES ASSUME mg.at = "flushdone", x = 1 PROVE flush.st # "run"
        OBVIOUS
      <4>1. ioctl_arg.reg = "flushdone"
        BY <2>0
      <4>2. x = Boolean(flush.done)
        BY <1>0, <4>1 DEF RegisterRead
      <4>3. flush.done
        BY <4>2 DEF Boolean
      <4> QED
        BY <4>3 DEF FlushInv
    <3>6. KnownInv'
      BY <1>0, <1>5, <1>6, <2>0, <2>2, <3>1, <3>3, <3>4, <3>5 DEF KnownInv, FirstPool
    <3>7. FlushInv'
      <4>1. SmallOf("0")' = SmallOf("0")
        BY DEF SmallOf
      <4> QED
        BY <1>0, <2>0, <3>1, <4>1 DEF FlushInv
    <3>8. OwnedInv'
      <4>1. \A a \in FirstPool : InHand(a)' <=> InHand(a)
        BY <1>0, <1>5, <2>0, <2>2 DEF InHand
      <4>2. pools["0"]' = pools["0"] /\ board.free1' = board.free1 /\ board.del' = board.del /\ inUse' = inUse
            /\ flush.req' = flush.req /\ mg' = mg
        BY <1>0, <3>1
      <4> QED
        BY <4>1, <4>2, OwnedSame
    <3> QED
      BY <1>7, <3>2, <3>6, <3>7, <3>8
  <2> QED
    BY <2>1, <2>2
<1> QED
  BY <1>1, <1>8, <1>9

\* A register is written: an address is offered, or the flush acknowledged.
LEMMA WriteStep ==
  ASSUME HostGood, NEW t \in Threads, writel(t)
  PROVE  HostGood'
<1> USE DEF HostGood
<1> DEFINE stored == ioctl_arg.reg \in {"free1", "free2"} /\ ~flush.req /\ Len(board[ioctl_arg.reg]) < HostDepth
           acked == ioctl_arg.reg = "flushack" /\ flush.st = "wait"
<1>0. /\ call[t].st = "copied" /\ call[t].op = "write"
      /\ board' = IF stored THEN [board EXCEPT ![ioctl_arg.reg] = Append(@, ioctl_arg.val)] ELSE board
      /\ flush' = IF acked THEN [flush EXCEPT !.st = "run"] ELSE flush
      /\ call' = [call EXCEPT ![t].st = "accessed"]
      /\ UNCHANGED <<pools, mg, exited, mtx, user, ioctl_arg, inUse>>
  BY DEF writel
<1>1. "stats" \in Threads /\ "manager" \in Threads /\ Threads = {"stats", "manager"}
  BY DEF Threads
<1>2. IsCalls(call)
  BY DEF HostTypeOK
<1>20. call' = [call EXCEPT ![t].st = "accessed"]
  BY <1>0
<1>21. CallIs(call, call', t, call[t].op, call[t].reg, call[t].val, "accessed")
  BY <1>20, <1>2, CallGoesOn
<1>3. /\ IsCalls(call') /\ call'[t].st = "accessed" /\ call'[t].op = call[t].op
      /\ call'[t].reg = call[t].reg /\ call'[t].val = call[t].val
      /\ \A u \in Threads : u # t => call'[u] = call[u]
  BY <1>21 DEF CallIs
<1>4. mtx = t /\ t = "manager" /\ call["stats"].st = "idle"
  BY <1>0, <1>1 DEF CallsInv
<1>5. List' = List /\ Doing' = call'["manager"] /\ Doing = call["manager"]
  BY <1>0 DEF List, Doing
<1>6. /\ Doing.st = "copied" /\ Doing'.st = "accessed" /\ Doing.op = "write" /\ Doing'.op = "write" /\ Doing'.reg = Doing.reg
      /\ ioctl_arg = Access(Doing.reg, Doing.val)
      /\ ioctl_arg.reg = Doing.reg /\ ioctl_arg.val = Doing.val
      /\ mg.at \in {"put", "flushack"}
      /\ ioctl_arg.reg = IF mg.at = "put" THEN FreeReg(List) ELSE "flushack"
  <2>1. Doing.st = "copied" /\ Doing.op = "write" /\ Doing'.st = "accessed" /\ Doing'.op = "write" /\ Doing'.reg = Doing.reg
    BY <1>0, <1>3, <1>4, <1>5
  <2>2. ioctl_arg = Access(Doing.reg, Doing.val)
    BY <1>1, <1>5, <2>1 DEF CallsInv
  <2>3. ioctl_arg.reg = Doing.reg /\ ioctl_arg.val = Doing.val
    BY <2>2 DEF Access
  <2>4. mg.at \in {"put", "flushack"} /\ Doing.reg = IF mg.at = "put" THEN FreeReg(List) ELSE "flushack"
    BY <2>1 DEF CallsInv
  <2> QED
    BY <2>1, <2>2, <2>3, <2>4
<1>7. CallsInv'
  <2>1. ASSUME NEW u \in Threads
        PROVE  (/\ call[u].st \in {"idle", "locked", "copied", "accessed"}
                /\ mtx = u <=> call[u].st # "idle"
                /\ call[u].st = "locked" => user = Access(call[u].reg, call[u].val)
                /\ call[u].st = "copied" => ioctl_arg = Access(call[u].reg, call[u].val))'
    <3>1. CASE u = t
      BY <1>0, <1>3, <1>4, <3>1 DEF CallsInv, Access
    <3>2. CASE u # t
      BY <1>0, <1>1, <1>3, <1>4, <3>2 DEF CallsInv, Access
    <3> QED
      BY <3>1, <3>2
  <2>2. (call["stats"].st # "idle" => call["stats"].op = "read" /\ call["stats"].reg = "stats")'
    BY <1>0, <1>1, <1>3, <1>4 DEF CallsInv
  <2> QED
    BY <1>0, <1>5, <1>6, <2>1, <2>2 DEF CallsInv, FreeReg
<1>8. CASE mg.at = "flushack"
  <2>1. flush.st = "wait"
    BY <1>6, <1>8 DEF KnownInv
  <2>2. ~stored /\ acked
    BY <1>6, <1>8, <2>1
  <2>3. board' = board /\ flush' = [flush EXCEPT !.st = "run"]
    BY <1>0, <2>2
  <2>4. flush'.st = "run" /\ flush'.req = flush.req /\ flush'.done = flush.done /\ flush.req
        /\ flush' \in [req : BOOLEAN, done : BOOLEAN, st : {"idle", "wait", "run"}]
    BY <2>1, <2>3 DEF HostTypeOK, FlushInv
  <2>5. HostTypeOK'
    BY <1>0, <1>3, <2>3, <2>4 DEF HostTypeOK, FirstPool, Access
  <2>6. KnownInv'
    BY <1>0, <1>5, <1>6, <1>8, <2>3, <2>4 DEF KnownInv, FirstPool
  <2>7. FlushInv'
    BY <1>0, <1>6, <1>8, <2>3, <2>4 DEF FlushInv
  <2>8. OwnedInv'
    <3>1. \A a \in FirstPool : InHand(a)' <=> InHand(a)
      BY <1>0, <1>5, <1>6, <1>8 DEF InHand
    <3>2. pools["0"]' = pools["0"] /\ board.free1' = board.free1 /\ board.del' = board.del /\ inUse' = inUse
          /\ flush.req' = flush.req /\ mg' = mg
      BY <1>0, <2>3, <2>4
    <3> QED
      BY <3>1, <3>2, OwnedSame
  <2> QED
    BY <1>7, <2>5, <2>6, <2>7, <2>8
<1>9. CASE mg.at = "put"
  <2>0. FreeReg(List) \in {"free1", "free2", "unconnected"} /\ (FreeReg(List) = "free1" <=> List = "0")
    BY ListRegisters DEF List, HostTypeOK
  <2>1. flush' = flush
    BY <1>0, <1>6, <1>9, <2>0
  <2>2. CASE List # "0" \/ flush.req
    <3>1. /\ board' = [g \in {"free1", "free2", "del"} |-> board'[g]]
          /\ board'.free1 = board.free1 /\ board'.del = board.del
      BY <1>0, <1>6, <1>9, <2>0, <2>2 DEF HostTypeOK
    <3>2. HostTypeOK'
      BY <1>0, <1>3, <2>1, <3>1 DEF HostTypeOK, FirstPool, Access
    <3>3. KnownInv'
      BY <1>0, <1>5, <1>6, <1>9, <2>1, <3>1 DEF KnownInv, FirstPool
    <3>4. FlushInv'
      BY <1>0, <1>6, <1>9, <2>1, <3>1 DEF FlushInv
    <3>5. OwnedInv'
      <4>1. \A a \in FirstPool : InHand(a)' => InHand(a)
        BY <1>0, <1>5, <1>6, <1>9 DEF InHand
      <4>2. ~flush.req => \A a \in FirstPool : InHand(a)' <=> InHand(a)
        BY <1>0, <1>5, <1>6, <1>9, <2>2 DEF InHand
      <4>3. FirstPool' = FirstPool
        BY DEF FirstPool
      <4>4. pools["0"]' = pools["0"] /\ board.free1' = board.free1 /\ board.del' = board.del /\ inUse' = inUse
            /\ flush.req' = flush.req /\ mg' = mg
        BY <1>0, <2>1, <3>1
      <4>5. (Once(pools["0"]) /\ Once(board.free1) /\ Once(board.del))'
        BY <4>4 DEF OwnedInv
      <4>6. ASSUME NEW a \in FirstPool
            PROVE  /\ Among(pools["0"], a)' <=> Among(pools["0"], a)
                   /\ Among(board.del, a)' <=> Among(board.del, a)
                   /\ Among(board.free1, a)' <=> Among(board.free1, a)
        BY <4>4
      <4> QED
        BY <4>1, <4>2, <4>3, <4>4, <4>5, <4>6 DEF OwnedInv
    <3> QED
      BY <1>7, <3>2, <3>3, <3>4, <3>5
  <2>3. CASE List = "0" /\ ~flush.req
    <3> DEFINE f == board.free1
               v == Doing.val
    <3>1. ioctl_arg.reg = "free1" /\ ioctl_arg.val = v
      BY <1>6, <1>9, <2>0, <2>3
    <3>2. Len(f) < HostDepth /\ v \in FirstPool
      BY <1>6, <1>9, <2>3 DEF KnownInv
    <3>3. stored
      BY <2>3, <3>1, <3>2
    <3>4. /\ board' = [g \in {"free1", "free2", "del"} |-> board'[g]]
          /\ board'.free1 = Append(f, v) /\ board'.del = board.del
      BY <1>0, <3>1, <3>3 DEF HostTypeOK
    <3>5. InHand(v) /\ \A a : InHand(a) <=> a = v
      BY <1>5, <1>6, <1>9, <2>3 DEF InHand
    <3>6. f \in Seq(FirstPool) /\ Once(f) /\ ~Among(f, v)
      BY <3>2, <3>5 DEF HostTypeOK, OwnedInv
    <3> HIDE DEF f, v
    <3>7. /\ Append(f, v) \in Seq(FirstPool) /\ Once(Append(f, v))
          /\ \A a : Among(Append(f, v), a) <=> Among(f, a) \/ a = v
      BY <3>2, <3>6, AppendOnce
    <3>8. Len(Append(f, v)) <= HostDepth
      BY <3>2, <3>6, HostAssumption
    <3>9. HostTypeOK'
      BY <1>0, <1>3, <2>1, <3>4, <3>7 DEF HostTypeOK, FirstPool, Access
    <3>10. KnownInv'
      BY <1>0, <1>5, <1>6, <1>9, <2>1, <3>4, <3>8 DEF KnownInv, FirstPool
    <3>11. FlushInv'
      BY <1>0, <1>6, <1>9, <2>1, <2>3, <3>4 DEF FlushInv
    <3>12. OwnedInv'
      <4>1. \A a : ~InHand(a)'
        BY <1>0, <1>5, <1>6, <1>9 DEF InHand
      <4>2. FirstPool' = FirstPool
        BY DEF FirstPool
      <4>3. pools["0"]' = pools["0"] /\ board.del' = board.del /\ flush.req' = flush.req /\ mg.at' = mg.at /\ inUse' = inUse
        BY <1>0, <2>1, <3>4
      <4>4. (Once(pools["0"]) /\ Once(board.free1) /\ Once(board.del))'
        BY <4>3, <3>4, <3>7 DEF OwnedInv
      <4>5. ASSUME NEW a \in FirstPool
            PROVE  /\ Among(pools["0"], a)' <=> Among(pools["0"], a)
                   /\ Among(board.del, a)' <=> Among(board.del, a)
                   /\ Among(board.free1, a)' <=> Among(board.free1, a) \/ a = v
        BY <4>3, <3>4, <3>7 DEF f
      <4> QED
        BY <2>3, <3>5, <4>1, <4>2, <4>3, <4>4, <4>5 DEF OwnedInv
    <3> QED
      BY <1>7, <3>9, <3>10, <3>11, <3>12
  <2> QED
    BY <2>2, <2>3
<1> QED
  BY <1>6, <1>8, <1>9

\* The lists are cleared and filled again.
LEMMA RefillStep ==
  ASSUME HostGood, Refill
  PROVE  HostGood'
<1> USE DEF HostGood
<1>0. mg.at = "refill" /\ call["manager"].st = "idle" /\ pools' = fillPools(ClearedLists(pools))
      /\ mg' = [mg EXCEPT !.at = "flushdone"]
      /\ UNCHANGED <<exited, mtx, user, ioctl_arg, call, board, inUse, flush>>
  BY DEF Refill
<1>1. mg'.at = "flushdone" /\ mg'.i = mg.i /\ mg' \in [at : Stages, i : 1 .. 6]
  BY <1>0 DEF HostTypeOK, Stages
<1>2. List' = List /\ Doing' = Doing /\ Doing.st = "idle"
  BY <1>0, <1>1 DEF List, Doing
<1>3. pools' = [l \in ListNames |-> pools'[l]] /\ pools'["0"] = SmallOf("0")
  <2> DEFINE c == ClearedLists(pools)
  <2>1. DOMAIN c = ListNames /\ c["0"] = << >> /\ "0" \in ListNames
    BY DEF ClearedLists, HostTypeOK, ListNames
  <2>2. pools' = [l \in DOMAIN c |-> c[l] \o (IF l \in DOMAIN Slots0 THEN Slots0[l] ELSE Slots1[l])]
    BY <1>0 DEF fillPools
  <2>3. "0" \in DOMAIN Slots0 /\ Slots0["0"] = SmallOf("0")
    BY DEF Slots0
  <2> HIDE DEF c
  <2>4. pools'["0"] = << >> \o SmallOf("0")
    BY <2>1, <2>2, <2>3
  <2>5. << >> \o SmallOf("0") = SmallOf("0")
    BY SmallOnce
  <2> QED
    BY <2>1, <2>2, <2>4, <2>5
<1>4. flush.st = "idle" => board.free1 = << >> /\ board.del = << >> /\ inUse = {}
  BY <1>0 DEF FlushInv
<1>5. HostTypeOK'
  BY <1>0, <1>1, <1>3, SmallOnce DEF HostTypeOK, Access, FirstPool, IsCalls
<1>6. CallsInv'
  <2>1. ASSUME NEW u \in Threads
        PROVE  (/\ call[u].st \in {"idle", "locked", "copied", "accessed"}
                /\ mtx = u <=> call[u].st # "idle"
                /\ call[u].st = "locked" => user = Access(call[u].reg, call[u].val)
                /\ call[u].st = "copied" => ioctl_arg = Access(call[u].reg, call[u].val))'
    BY <1>0 DEF CallsInv, Access
  <2> QED
    BY <1>0, <1>2, <2>1 DEF CallsInv
<1>7. KnownInv'
  BY <1>0, <1>1, <1>2 DEF KnownInv, FirstPool
<1>8. FlushInv'
  <2>1. SmallOf("0")' = SmallOf("0")
    BY DEF SmallOf
  <2> QED
    BY <1>0, <1>1, <1>2, <1>3, <1>4, <2>1 DEF FlushInv
<1>9. OwnedInv'
  <2>1. \A a : ~InHand(a)'
    BY <1>0, <1>1 DEF InHand
  <2>2. FirstPool' = FirstPool
    BY DEF FirstPool
  <2>3. pools["0"]' = SmallOf("0") /\ board' = board /\ flush' = flush /\ inUse' = inUse
    BY <1>0, <1>3
  <2>4. (Once(pools["0"]) /\ Once(board.free1) /\ Once(board.del))'
    BY <2>3, SmallOnce DEF OwnedInv
  <2>5. board.free1 = << >> /\ board.del = << >> /\ (~flush.req => inUse = {})
    BY <1>4 DEF FlushInv
  <2>6. ASSUME NEW a \in FirstPool
        PROVE  /\ Among(pools["0"], a)'
               /\ ~Among(board.del, a)'
               /\ ~Among(board.free1, a)'
    BY <2>3, <2>5, SmallOnce, EmptyOnce
  <2> QED
    BY <2>1, <2>2, <2>3, <2>4, <2>5, <2>6 DEF OwnedInv
<1> QED
  BY <1>5, <1>6, <1>7, <1>8, <1>9

-----------------------------------------------------------------------------
(* An access returns, and the manager goes on with what it has read.       *)

\* What every return does.
Returns(t) ==
  /\ call[t].st = "accessed" /\ user' = ioctl_arg /\ mtx' = "none"
  /\ call' = [call EXCEPT ![t] = NoCall]
  /\ UNCHANGED <<ioctl_arg, board, inUse, flush>>

LEMMA ReturnedCalls ==
  ASSUME HostGood, NEW t \in Threads, Returns(t)
  PROVE  /\ IsCalls(call') /\ CallsInv' /\ user' = Access(user'.reg, user'.val)
         /\ \A u \in Threads : call'[u].st = "idle"
<1> USE DEF HostGood
<1>1. "stats" \in Threads /\ "manager" \in Threads /\ Threads = {"stats", "manager"}
  BY DEF Threads
<1>2. IsCalls(call)
  BY DEF HostTypeOK
<1>3. call' = [call EXCEPT ![t] = [op |-> "none", reg |-> "none", val |-> 0, st |-> "idle"]]
  BY DEF Returns, NoCall
<1>4. CallIs(call, call', t, "none", "none", 0, "idle")
  BY <1>2, <1>3, CallReplaced
<1>5. /\ IsCalls(call') /\ call'[t].st = "idle"
      /\ \A u \in Threads : u # t => call'[u] = call[u]
  BY <1>4 DEF CallIs
<1>6. \A u \in Threads : u # t => call[u].st = "idle"
  BY DEF CallsInv, Returns
<1>7. \A u \in Threads : call'[u].st = "idle"
  BY <1>5, <1>6
<1>8. mtx' = "none" /\ "none" \notin Threads
  BY <1>1 DEF Returns
<1>9. CallsInv'
  BY <1>1, <1>7, <1>8 DEF CallsInv, Doing
<1>10. user' = Access(user'.reg, user'.val)
  BY DEF HostTypeOK, Returns, Access
<1> QED
  BY <1>5, <1>7, <1>9, <1>10

LEMMA StatsReturns ==
  ASSUME HostGood, Returns("stats"), UNCHANGED <<pools, mg, exited>>
  PROVE  HostGood'
<1> USE DEF HostGood
<1>1. "stats" \in Threads /\ "manager" \in Threads
  BY DEF Threads
<1>2. /\ IsCalls(call') /\ CallsInv' /\ user' = Access(user'.reg, user'.val)
      /\ \A u \in Threads : call'[u].st = "idle"
  BY <1>1, ReturnedCalls
<1>3. call["manager"].st = "idle" /\ UNCHANGED <<ioctl_arg, board, inUse, flush>> /\ mtx' = "none"
  BY <1>1 DEF Returns, CallsInv
<1>4. Doing'.st = "idle" /\ Doing.st = "idle" /\ List' = List
  BY <1>1, <1>2, <1>3 DEF Doing, List
<1>5. HostTypeOK'
  BY <1>2, <1>3 DEF HostTypeOK, FirstPool, Access
<1>6. KnownInv'
  BY <1>3, <1>4 DEF KnownInv, FirstPool
<1>7. FlushInv'
  <2>1. SmallOf("0")' = SmallOf("0")
    BY DEF SmallOf
  <2> QED
    BY <1>3, <1>4, <2>1 DEF FlushInv
<1>8. OwnedInv'
  <2>1. \A a \in FirstPool : InHand(a)' <=> InHand(a)
    BY <1>4 DEF InHand, Doing
  <2>2. pools["0"]' = pools["0"] /\ board.free1' = board.free1 /\ board.del' = board.del /\ inUse' = inUse
        /\ flush.req' = flush.req /\ mg' = mg
    BY <1>3
  <2> QED
    BY <2>1, <2>2, OwnedSame
<1> QED
  BY <1>2, <1>5, <1>6, <1>7, <1>8

\* The manager goes from one place to another and changes no list.
LEMMA ManagerGoes ==
  ASSUME HostGood, Returns("manager"), UNCHANGED <<pools, exited>>,
         mg' \in [at : Stages, i : 1 .. 6],
         mg.at # "del" \/ ioctl_arg.val = 0,
         mg'.at = "put" => /\ mg.at = "free" /\ mg'.i = mg.i /\ ioctl_arg.val = 0 /\ pools[List] # << >>,
         mg'.at = "flushack" => mg.at = "flushreq" /\ ioctl_arg.val = 1,
         mg'.at = "refill" <=> mg.at = "flushack",
         mg.at = "flushdone" => mg'.at = "flushdone" \/ (mg'.at = "del" /\ ioctl_arg.val = 1),
         mg'.at = "flushdone" => mg.at = "flushdone"
  PROVE  HostGood'
<1> USE DEF HostGood
<1>1. "stats" \in Threads /\ "manager" \in Threads
  BY DEF Threads
<1>2. /\ IsCalls(call') /\ CallsInv' /\ user' = Access(user'.reg, user'.val)
      /\ \A u \in Threads : call'[u].st = "idle"
  BY <1>1, ReturnedCalls
<1>3. call["manager"].st = "accessed" /\ UNCHANGED <<ioctl_arg, board, inUse, flush>> /\ mtx' = "none"
  BY DEF Returns
<1>4. Doing'.st = "idle" /\ Doing.st = "accessed" /\ (mg'.i = mg.i => List' = List) /\ mg.at # "refill"
  <2>1. Doing'.st = "idle" /\ Doing.st = "accessed" /\ (mg'.i = mg.i => List' = List)
    BY <1>1, <1>2, <1>3 DEF Doing, List
  <2> QED
    BY <2>1 DEF CallsInv
<1>5. HostTypeOK'
  BY <1>2, <1>3 DEF HostTypeOK, FirstPool, Access
<1>6. KnownInv'
  <2>1. mg'.at = "put" => /\ List' = List /\ pools'[List'] # << >>
                          /\ ~flush.req /\ List = "0" => Len(board.free1) < HostDepth
    BY <1>4 DEF KnownInv
  <2>2. mg'.at = "flushack" => flush.st = "wait"
    BY <1>4 DEF KnownInv
  <2> QED
    BY <1>3, <1>4, <2>1, <2>2 DEF KnownInv
<1>7. FlushInv'
  <2>1. SmallOf("0")' = SmallOf("0")
    BY DEF SmallOf
  <2>2. flush.st = "run" => mg'.at \in {"refill", "flushdone"}
    BY <1>4 DEF FlushInv, KnownInv
  <2>3. mg'.at = "flushack" => flush.st = "wait"
    BY <1>4 DEF KnownInv
  <2>4. mg'.at \in {"flushack", "refill", "flushdone"} /\ flush.st = "idle" =>
          board.free1 = << >> /\ board.del = << >> /\ inUse = {}
    BY <2>3 DEF FlushInv
  <2> QED
    BY <1>3, <1>4, <2>1, <2>2, <2>4 DEF FlushInv
<1>8. OwnedInv'
  <2>0. 0 \notin FirstPool
    BY HostAssumption DEF FirstPool
  <2>1. \A a \in FirstPool : InHand(a)' <=> InHand(a)
    BY <1>4, <2>0 DEF InHand, Doing
  <2>2. pools["0"]' = pools["0"] /\ board.free1' = board.free1 /\ board.del' = board.del /\ inUse' = inUse
        /\ flush.req' = flush.req
    BY <1>3
  <2>3. mg.at \in {"flushack", "refill"} => mg'.at \in {"flushack", "refill"}
    BY <1>4
  <2> QED
    BY <2>1, <2>2, <2>3, OwnedSame
<1> QED
  BY <1>2, <1>5, <1>6, <1>7, <1>8

\* An address comes back to the list it was taken from.
LEMMA PutBackStep ==
  ASSUME HostGood, Returns("manager"), mg.at = "del", ioctl_arg.val # 0, PutBack(ioctl_arg.val), ~exited'
  PROVE  HostGood'
<1> USE DEF HostGood
<1> DEFINE v == ioctl_arg.val
           p == pools["0"]
<1>1. "stats" \in Threads /\ "manager" \in Threads
  BY DEF Threads
<1>2. /\ IsCalls(call') /\ CallsInv' /\ user' = Access(user'.reg, user'.val)
      /\ \A u \in Threads : call'[u].st = "idle"
  BY <1>1, ReturnedCalls
<1>3. call["manager"].st = "accessed" /\ UNCHANGED <<ioctl_arg, board, inUse, flush>> /\ mtx' = "none"
  BY DEF Returns
<1>4. Doing'.st = "idle" /\ Doing.st = "accessed"
  BY <1>1, <1>2, <1>3 DEF Doing
<1>5. v \in FirstPool
  BY <1>4 DEF KnownInv
<1>6. whereFrom(v) = {"0"}
  <2>1. v \in Nat /\ v >= PoolStart["0"] /\ v < PoolStart["0"] + PoolSize["0"]
    BY <1>5, HostAssumption DEF FirstPool
  <2> HIDE DEF v
  <2> QED
    BY <2>1, HostAssumption DEF whereFrom
<1>7. pools' = [pools EXCEPT !["0"] = Append(@, v)] /\ mg' = [at |-> "free", i |-> 1] /\ UNCHANGED exited
  BY <1>6 DEF PutBack
<1>8. \A a : InHand(a) <=> a = v
  BY <1>4 DEF InHand, Doing
<1>9. p \in Seq(FirstPool) /\ Once(p) /\ ~Among(p, v)
  BY <1>5, <1>8 DEF HostTypeOK, OwnedInv
<1>10. pools' = [l \in ListNames |-> pools'[l]] /\ pools'["0"] = Append(p, v)
  BY <1>7 DEF HostTypeOK, ListNames
<1> HIDE DEF v, p
<1>11. /\ Append(p, v) \in Seq(FirstPool) /\ Once(Append(p, v))
       /\ \A a : Among(Append(p, v), a) <=> Among(p, a) \/ a = v
  BY <1>5, <1>9, AppendOnce
<1>12. mg'.at = "free" /\ mg' \in [at : Stages, i : 1 .. 6]
  BY <1>7 DEF Stages
<1>13. flush.st # "run"
  BY DEF FlushInv
<1>14. HostTypeOK'
  BY <1>2, <1>3, <1>10, <1>11, <1>12 DEF HostTypeOK, FirstPool, Access
<1>15. KnownInv'
  BY <1>3, <1>4, <1>12 DEF KnownInv
<1>16. FlushInv'
  BY <1>3, <1>12, <1>13 DEF FlushInv
<1>17. OwnedInv'
  <2>1. \A a : ~InHand(a)'
    BY <1>12 DEF InHand
  <2>2. FirstPool' = FirstPool
    BY DEF FirstPool
  <2>3. board.free1' = board.free1 /\ board.del' = board.del /\ flush.req' = flush.req /\ inUse' = inUse
    BY <1>3
  <2>4. (Once(pools["0"]) /\ Once(board.free1) /\ Once(board.del))'
    BY <2>3, <1>10, <1>11 DEF OwnedInv
  <2>5. ASSUME NEW a \in FirstPool
        PROVE  /\ Among(pools["0"], a)' <=> Among(pools["0"], a) \/ a = v
               /\ Among(board.del, a)' <=> Among(board.del, a)
               /\ Among(board.free1, a)' <=> Among(board.free1, a)
    BY <2>3, <1>10, <1>11 DEF p
  <2> QED
    BY <1>8, <2>1, <2>2, <2>3, <2>4, <2>5 DEF OwnedInv
<1> QED
  BY <1>2, <1>14, <1>15, <1>16, <1>17

LEMMA ReturnStep ==
  ASSUME HostGood, NEW t \in Threads, Return(t), ~exited'
  PROVE  HostGood'
<1>0. Returns(t) /\ ~exited
  BY DEF Return, Returns
<1>1. CASE t = "stats"
  <2>1. UNCHANGED <<pools, mg, exited>>
    BY <1>1 DEF Return
  <2> QED
    BY <1>0, <1>1, <2>1, StatsReturns
<1>2. CASE t = "manager"
  <2> DEFINE v == ioctl_arg.val
  <2>0. Returns("manager") /\ ManagerGets(v)
    BY <1>0, <1>2 DEF Return
  <2>1. mg \in [at : Stages, i : 1 .. 6] /\ mg.at \in Stages /\ mg.i \in 1 .. 6
    BY DEF HostGood, HostTypeOK
  <2>2. Advanced \in [at : Stages, i : 1 .. 6] /\ Advanced.at \in {"free", "flushreq"}
    <3>1. Len(Lists) = 6
      BY DEF Lists
    <3>2. CASE mg.i < 6
      <4>1. mg.i + 1 \in 1 .. 6
        BY <2>1, <3>2
      <4> QED
        BY <3>1, <3>2, <4>1 DEF Advanced, Stages
    <3>3. CASE ~(mg.i < 6)
      BY <3>1, <3>3 DEF Advanced, Stages
    <3> QED
      BY <3>2, <3>3
  <2>3. ASSUME NEW s \in Stages PROVE [mg EXCEPT !.at = s] \in [at : Stages, i : 1 .. 6] /\ [mg EXCEPT !.at = s].at = s
                                       /\ [mg EXCEPT !.at = s].i = mg.i
    BY <2>1
  <2>4. ASSUME mg.at = "free", Goes(IF v = 0 /\ pools[List] # << >> THEN [mg EXCEPT !.at = "put"] ELSE Advanced) PROVE HostGood'
    <3>1. CASE v = 0 /\ pools[List] # << >>
      <4>1. mg' \in [at : Stages, i : 1 .. 6] /\ mg'.at = "put" /\ mg'.i = mg.i /\ UNCHANGED <<pools, exited>>
        BY <2>3, <2>4, <3>1 DEF Goes, Stages
      <4> QED
        BY <2>0, <2>4, <3>1, <4>1, ManagerGoes
    <3>2. CASE ~(v = 0 /\ pools[List] # << >>)
      <4>1. mg' = Advanced /\ UNCHANGED <<pools, exited>>
        BY <2>4, <3>2 DEF Goes
      <4>2. mg' \in [at : Stages, i : 1 .. 6] /\ mg'.at \in {"free", "flushreq"}
        BY <2>2, <4>1
      <4> QED
        BY <2>0, <2>4, <4>1, <4>2, ManagerGoes
    <3> QED
      BY <3>1, <3>2
  <2>5. ASSUME mg.at = "put", Goes(Advanced) PROVE HostGood'
    <3>1. mg' \in [at : Stages, i : 1 .. 6] /\ mg'.at \in {"free", "flushreq"} /\ UNCHANGED <<pools, exited>>
      BY <2>2, <2>5 DEF Goes
    <3> QED
      BY <2>0, <2>5, <3>1, ManagerGoes
  <2>6. ASSUME mg.at = "flushreq", Goes([mg EXCEPT !.at = IF v = 1 THEN "flushack" ELSE "del"]) PROVE HostGood'
    <3>1. mg' \in [at : Stages, i : 1 .. 6] /\ mg'.at = (IF v = 1 THEN "flushack" ELSE "del") /\ UNCHANGED <<pools, exited>>
      BY <2>3, <2>6 DEF Goes, Stages
    <3> QED
      BY <2>0, <2>6, <3>1, ManagerGoes
  <2>7. ASSUME mg.at = "flushack", Goes([mg EXCEPT !.at = "refill"]) PROVE HostGood'
    <3>1. mg' \in [at : Stages, i : 1 .. 6] /\ mg'.at = "refill" /\ UNCHANGED <<pools, exited>>
      BY <2>3, <2>7 DEF Goes, Stages
    <3> QED
      BY <2>0, <2>7, <3>1, ManagerGoes
  <2>8. ASSUME mg.at = "flushdone", Goes([mg EXCEPT !.at = IF v = 1 THEN "del" ELSE "flushdone"]) PROVE HostGood'
    <3>1. mg' \in [at : Stages, i : 1 .. 6] /\ mg'.at = (IF v = 1 THEN "del" ELSE "flushdone") /\ UNCHANGED <<pools, exited>>
      BY <2>3, <2>8 DEF Goes, Stages
    <3> QED
      BY <2>0, <2>8, <3>1, ManagerGoes
  <2>9. ASSUME mg.at = "del", v = 0, Goes([at |-> "free", i |-> 1]) PROVE HostGood'
    <3>1. mg' \in [at : Stages, i : 1 .. 6] /\ mg'.at = "free" /\ UNCHANGED <<pools, exited>>
      BY <2>9 DEF Goes, Stages
    <3> QED
      BY <2>0, <2>9, <3>1, ManagerGoes
  <2>10. ASSUME mg.at = "del", v # 0, PutBack(v) PROVE HostGood'
    BY <2>0, <2>10, PutBackStep
  <2> QED
    BY <2>0, <2>4, <2>5, <2>6, <2>7, <2>8, <2>9, <2>10 DEF ManagerGets
<1> QED
  BY <1>1, <1>2 DEF Threads

-----------------------------------------------------------------------------
(* The theorem.                                                            *)

LEMMA HostInit == InitHost => HostInv
<1> SUFFICES ASSUME InitHost PROVE HostInv
  OBVIOUS
<1> USE DEF HostGood
<1>0. /\ mg = [at |-> "free", i |-> 1] /\ exited = FALSE
      /\ mtx = "none" /\ user = NoAccess /\ ioctl_arg = NoAccess /\ call = [t \in Threads |-> NoCall]
      /\ board = [f \in {"free1", "free2", "del"} |-> << >>] /\ inUse = {}
      /\ flush = [req |-> FALSE, done |-> FALSE, st |-> "idle"]
  BY DEF InitHost
<1>1. pools = [l \in ListNames |-> pools[l]] /\ pools["0"] = SmallOf("0")
  <2> DEFINE c == [l \in {Lists[i] : i \in DOMAIN Lists} |-> << >>]
  <2>1. DOMAIN Lists = 1 .. 6
    BY DEF Lists
  <2>2. {Lists[i] : i \in DOMAIN Lists} = ListNames
    <3>1. \A i \in DOMAIN Lists : Lists[i] \in ListNames
      BY <2>1, ListRegisters
    <3>2. /\ Lists[1] = "0" /\ Lists[2] = "0M" /\ Lists[3] = "0L"
          /\ Lists[4] = "1" /\ Lists[5] = "1M" /\ Lists[6] = "1L"
      BY DEF Lists
    <3>3. \A l \in ListNames : \E i \in DOMAIN Lists : l = Lists[i]
      BY <2>1, <3>2 DEF ListNames
    <3> QED
      BY <3>1, <3>3
  <2>3. DOMAIN c = ListNames /\ c["0"] = << >> /\ "0" \in ListNames
    BY <2>2 DEF ListNames
  <2>4. pools = [l \in DOMAIN c |-> c[l] \o (IF l \in DOMAIN Slots0 THEN Slots0[l] ELSE Slots1[l])]
    BY DEF fillPools, InitHost
  <2>5. "0" \in DOMAIN Slots0 /\ Slots0["0"] = SmallOf("0")
    BY DEF Slots0
  <2> HIDE DEF c
  <2>6. pools["0"] = << >> \o SmallOf("0")
    BY <2>3, <2>4, <2>5
  <2>7. << >> \o SmallOf("0") = SmallOf("0")
    BY SmallOnce
  <2> QED
    BY <2>3, <2>4, <2>6, <2>7
<1>2. \A t \in Threads : call[t] = [op |-> "none", reg |-> "none", val |-> 0, st |-> "idle"]
  BY <1>0 DEF NoCall
<1>3. "stats" \in Threads /\ "manager" \in Threads /\ Doing.st = "idle" /\ "none" \notin Threads
  BY <1>2 DEF Threads, Doing
<1>4. board.free1 = << >> /\ board.del = << >>
  BY <1>0
<1>5. HostTypeOK
  <2>1. user = Access(user.reg, user.val) /\ ioctl_arg = Access(ioctl_arg.reg, ioctl_arg.val)
    BY <1>0 DEF NoAccess, Access
  <2>2. IsCalls(call)
    <3>1. \A t \in Threads : call[t] = [op |-> call[t].op, reg |-> call[t].reg, val |-> call[t].val, st |-> call[t].st]
      BY <1>2
    <3>2. call = [t \in Threads |-> call[t]]
      BY <1>0
    <3> QED
      BY <3>1, <3>2 DEF IsCalls
  <2>3. mg \in [at : Stages, i : 1 .. 6]
    BY <1>0 DEF Stages
  <2>4. flush \in [req : BOOLEAN, done : BOOLEAN, st : {"idle", "wait", "run"}]
    BY <1>0
  <2>5. board = [f \in {"free1", "free2", "del"} |-> board[f]]
    BY <1>0
  <2> QED
    BY <1>0, <1>1, <1>4, <2>1, <2>2, <2>3, <2>4, <2>5, SmallOnce, EmptyOnce DEF HostTypeOK
<1>6. CallsInv
  BY <1>0, <1>2, <1>3 DEF CallsInv
<1>7. KnownInv
  <2>1. Len(board.free1) <= HostDepth
    BY <1>4, HostAssumption
  <2> QED
    BY <1>0, <1>3, <2>1 DEF KnownInv
<1>8. FlushInv
  BY <1>0, <1>4 DEF FlushInv
<1>9. OwnedInv
  <2>1. \A a : ~InHand(a)
    BY <1>0 DEF InHand
  <2>2. Once(pools["0"]) /\ Once(board.free1) /\ Once(board.del)
    BY <1>1, <1>4, SmallOnce, EmptyOnce
  <2>3. \A a \in FirstPool : Among(pools["0"], a) /\ ~Among(board.free1, a) /\ ~Among(board.del, a) /\ a \notin inUse
    BY <1>0, <1>1, <1>4, SmallOnce, EmptyOnce
  <2> QED
    BY <2>1, <2>2, <2>3 DEF OwnedInv
<1> QED
  BY <1>0, <1>5, <1>6, <1>7, <1>8, <1>9 DEF HostInv

LEMMA HostStep ==
  ASSUME ReadyDelays = {0}, HostInv, [NextHost]_hvars
  PROVE  HostInv'
<1>1. CASE UNCHANGED hvars
  <2>1. UNCHANGED <<pools, mg, exited, mtx, user, ioctl_arg, call, board, inUse, flush>>
    BY <1>1 DEF hvars
  <2>2. HostTypeOK => HostTypeOK'
    BY <2>1 DEF HostTypeOK, IsCalls, Access, FirstPool
  <2>3. CallsInv => CallsInv'
    BY <2>1, CallsSame
  <2>4. KnownInv => KnownInv'
    BY <2>1 DEF KnownInv, Doing, List, FirstPool
  <2>5. FlushInv => FlushInv'
    BY <2>1 DEF FlushInv, Doing, SmallOf
  <2>6. OwnedInv => OwnedInv'
    <3>1. \A a \in FirstPool : InHand(a)' <=> InHand(a)
      BY <2>1 DEF InHand, List
    <3> QED
      BY <2>1, <3>1, OwnedSame
  <2> QED
    BY <2>1, <2>2, <2>3, <2>4, <2>5, <2>6 DEF HostInv, HostGood
<1>2. CASE NextHost
  <2>1. exited' \in BOOLEAN /\ (exited => exited')
    <3>1. ManagerCalls \/ Refill \/ FlushTable \/ ReadStats \/ TakeAddress \/ ReturnAddress \/ FlushRequest => exited' = exited
      BY DEF ManagerCalls, Refill, FlushTable, ReadStats, TakeAddress, ReturnAddress, FlushRequest
    <3>2. ASSUME NEW t \in Threads, copy_from_user(t) \/ readl(t) \/ writel(t) PROVE exited' = exited
      BY <3>2 DEF copy_from_user, readl, writel
    <3>3. ASSUME NEW t \in Threads, Return(t) PROVE ~exited /\ (exited' = exited \/ exited' = TRUE)
      BY <3>3 DEF Return, ManagerGets, Goes, PutBack
    <3>4. exited \in BOOLEAN
      BY DEF HostInv
    <3>5. exited' = exited \/ (~exited /\ exited' = TRUE)
      BY <1>2, <3>1, <3>2, <3>3 DEF NextHost, HostWork
    <3> QED
      BY <3>4, <3>5
  <2> SUFFICES ASSUME ~exited' PROVE HostGood'
    BY <2>1 DEF HostInv
  <2>2. HostGood
    BY <2>1 DEF HostInv
  <2>3. CASE ManagerCalls
    BY <2>2, <2>3, ManagerCallsStep
  <2>4. CASE Refill
    BY <2>2, <2>4, RefillStep
  <2>5. CASE FlushTable
    BY <2>2, <2>5, FlushTableStep
  <2>6. ASSUME NEW t \in Threads, copy_from_user(t) PROVE HostGood'
    BY <2>2, <2>6, CopyFromUserStep
  <2>7. ASSUME NEW t \in Threads, readl(t) PROVE HostGood'
    BY <2>2, <2>7, ReadStep
  <2>8. ASSUME NEW t \in Threads, writel(t) PROVE HostGood'
    BY <2>2, <2>8, WriteStep
  <2>9. ASSUME NEW t \in Threads, Return(t) PROVE HostGood'
    BY <2>2, <2>9, ReturnStep
  <2>10. CASE ReadStats
    BY <2>2, <2>10, ReadStatsStep
  <2>11. CASE TakeAddress
    BY <2>2, <2>11, TakeAddressStep
  <2>12. CASE ReturnAddress
    BY <2>2, <2>12, ReturnAddressStep
  <2>13. CASE FlushRequest
    BY <2>2, <2>13, FlushRequestStep
  <2> QED
    BY <1>2, <2>3, <2>4, <2>5, <2>6, <2>7, <2>8, <2>9, <2>10, <2>11, <2>12, <2>13 DEF NextHost, HostWork
<1> QED
  BY <1>1, <1>2

\* The invariant says of each address what AddressesOwned counts.
LEMMA HostOwns == HostInv => AddressesOwned
<1> SUFFICES ASSUME HostInv, ~flush.req, ~exited, NEW k \in 1 .. PoolSize["0"]
             PROVE  LET n == Owners(SmallOf("0")[k])
                    IN  n <= 1 /\ (mg.at \notin {"flushack", "refill"} => n = 1)
  BY DEF AddressesOwned
<1> DEFINE a == SmallOf("0")[k]
           p == Copies(pools["0"], a)
           f == Copies(board.free1, a)
           d == Copies(board.del, a)
           u == Boolean(a \in inUse)
           h == Boolean(InHand(a))
<1>1. OwnedInv
  BY DEF HostInv, HostGood
<1>2. a \in FirstPool
  BY SmallOnce
<1>3. /\ Once(pools["0"]) /\ Once(board.free1) /\ Once(board.del)
  BY <1>1 DEF OwnedInv
<1>4. /\ Among(pools["0"], a) => p = 1
      /\ ~Among(pools["0"], a) => p = 0
  BY <1>3, CopiesOnce
<1>5. /\ Among(board.free1, a) => f = 1
      /\ ~Among(board.free1, a) => f = 0
  BY <1>3, CopiesOnce
<1>6. /\ Among(board.del, a) => d = 1
      /\ ~Among(board.del, a) => d = 0
  BY <1>3, CopiesOnce
<1>7. /\ a \in inUse => u = 1
      /\ a \notin inUse => u = 0
      /\ InHand(a) => h = 1
      /\ ~InHand(a) => h = 0
  BY DEF Boolean
<1>8. Owners(a) = p + f + d + u + h
  BY DEF Owners
<1>9. /\ ~(Among(pools["0"], a) /\ Among(board.free1, a))
      /\ ~(Among(pools["0"], a) /\ Among(board.del, a))
      /\ ~(Among(pools["0"], a) /\ InHand(a))
      /\ ~(Among(board.free1, a) /\ Among(board.del, a))
      /\ ~(Among(board.free1, a) /\ InHand(a))
      /\ ~(Among(board.del, a) /\ InHand(a))
      /\ a \in inUse => ~Among(pools["0"], a) /\ ~Among(board.free1, a) /\ ~Among(board.del, a) /\ ~InHand(a)
      /\ mg.at \notin {"flushack", "refill"} =>
           Among(pools["0"], a) \/ Among(board.free1, a) \/ Among(board.del, a) \/ a \in inUse \/ InHand(a)
  BY <1>1, <1>2 DEF OwnedInv
<1> HIDE DEF a, p, f, d, u, h
<1>10. Owners(a) <= 1 /\ (mg.at \notin {"flushack", "refill"} => Owners(a) = 1)
  BY <1>4, <1>5, <1>6, <1>7, <1>8, <1>9
<1> QED
  BY <1>10 DEF a

\* A board whose register interface answers without delay, pools of any size, FIFOs of
\* any depth: a small address of the first pool is in exactly one place, and across a
\* flush never in two, until the manager gives up with exit(-1)
\* (memManager.cpp:374-430; pcie_mem_alloc.v:85).
THEOREM AddressesStayOwned ==
  ASSUME ReadyDelays = {0}
  PROVE  SpecHost => []AddressesOwned
<1>1. InitHost => HostInv
  BY HostInit
<1>2. HostInv /\ [NextHost]_hvars => HostInv'
  BY HostStep
<1>3. HostInv => AddressesOwned
  BY HostOwns
<1> QED
  BY <1>1, <1>2, <1>3, PTL DEF SpecHost

-----------------------------------------------------------------------------
(* The hash table. A request is in the filter from concurrencyControl's    *)
(* push to the pop that memWrite orders.                                   *)

KeysFit == \A k \in DOMAIN KeyLen : (KeyLen[k] + 15) \div 16 < Stride

OpNames == {"GET", "SET", "DELETE", "FLUSH"}
Reqs == [op : OpNames, key : DOMAIN KeyLen, vlen : Nat]
Cells == Nat \X Nat \X Nat
Rows == [1 .. Bins -> Cells]
Tags == [hash : Nat, op : OpNames]
TagOf(r) == [hash |-> HashOf(r), op |-> r.op]
KeyItems == [content : Cells, eop : BOOLEAN]
Bundles == [req : Reqs, free : SUBSET (1 .. Bins), match : SUBSET (1 .. Bins)]
MwStates == {"MW_IDLE", "MW_INIT_MEM", "MW_EVAL", "MW_SET_REST", "MW_CONSUME", "MW_FLUSH_WAIT", "MW_FLUSH",
             "MW_FLUSH_CONSUME_KEY"}

\* The board's memWrite is caught in MW_EVAL.
Wedged == mw.state = "MW_EVAL" /\ Unforeseen

\* The requests that hash2cc, memRead and ht_compare have passed on, and how concurrencyFilter
\* keeps them.
Compared == Len(fifo.comp2memWr)
ReqsOf(c) == [i \in 1 .. Len(c) |-> c[i].req]
TagsOf(s) == [i \in 1 .. Len(s) |-> TagOf(s[i])]

\* memWrite's request, while it is in the filter, while it is not answered; concurrencyControl's.
HeldReq == IF mw.state \in {"MW_EVAL", "MW_SET_REST", "MW_FLUSH_WAIT", "MW_FLUSH"} THEN <<mw.req>> ELSE << >>
OpenReq == IF mw.state \in {"MW_EVAL", "MW_FLUSH_WAIT", "MW_FLUSH"} THEN <<mw.req>> ELSE << >>
ParkedReq == IF cc.state = "CC_WAIT" THEN <<cc.req>> ELSE << >>

FifosNamed == fifo = [q \in Fifos |-> fifo[q]]
QueueTypes ==
  /\ fifo = [q \in Fifos |-> fifo[q]]
  /\ fifo.in2md \in Seq(Reqs) /\ fifo.in2cc \in Seq(Reqs) /\ fifo.memRd2comp \in Seq(Reqs)
  /\ fifo.comp2memWr \in Seq(Bundles) /\ fifo.comp2memWrKey \in Seq(KeyItems)
  /\ fifo.comp2memWrMemData \in Seq(Rows) /\ fifo.dec2cc \in Seq({1})
  /\ cc.state \in {"CC_IDLE", "CC_WAIT"} /\ (cc.state = "CC_WAIT" => cc.req \in Reqs)
  /\ filter \in Seq(Tags)

MwTypes ==
  /\ mw \in [state : MwStates, init : BOOLEAN, req : Reqs \cup {NoRequest}, free : SUBSET (1 .. Bins),
             match : SUBSET (1 .. Bins), loc : Nat, addr : Nat]
  /\ mw.state \notin {"MW_IDLE", "MW_INIT_MEM"} => mw.req \in Reqs
  /\ mw.state \in {"MW_EVAL", "MW_SET_REST", "MW_CONSUME"} => mw.req.op # "FLUSH"
  /\ mw.state = "MW_SET_REST" => mw.req.op = "SET" /\ mw.loc \in 1 .. Bins
  /\ mw.state \in {"MW_FLUSH_WAIT", "MW_FLUSH", "MW_FLUSH_CONSUME_KEY"} => mw.req.op = "FLUSH"
  /\ mw.state \in {"MW_EVAL", "MW_FLUSH_WAIT"} => mw.addr = 0
  /\ mw.state # "MW_IDLE" => mw.init
  /\ ~mw.init \/ mw.state = "MW_INIT_MEM" => \A a \in MemWords : mem[a] = [b \in 1 .. Bins |-> Zero]
  /\ mw.state = "MW_FLUSH" =>
       mw.addr <= TableWords - 2 /\ \A a \in 0 .. mw.addr - 1 : mem[a] = [b \in 1 .. Bins |-> Zero]
  /\ mw.state = "MW_SET_REST" => mw.addr \in Base(mw.req) + 1 .. Base(mw.req) + Words(mw.req)
  /\ mw.state = "MW_CONSUME" => mw.addr \in 0 .. Words(mw.req) - 1

Blocks(s, t) == s.op = "FLUSH" \/ (s.op \in {"SET", "DELETE"} /\ s.hash = t.hash)

\* Queue A holds what five stages in a row have, oldest first.
Cat(s, t) == s \o t
Put(s, x) == Append(s, x)
Chain(A, p, C, R, t, D) == A = Cat(p, Cat(C, Cat(R, Cat(t, D))))

\* The filter holds the requests between push and pop, behind those whose pop is under way, and
\* none that an earlier one blocks.
FilterHolds(P) ==
  /\ P \in Seq(Tags) /\ Len(P) = Len(fifo.dec2cc)
  /\ Chain(filter, P, TagsOf(HeldReq), TagsOf(ReqsOf(fifo.comp2memWr)), << >>, TagsOf(fifo.memRd2comp))
FilterInv ==
  /\ \A i, j \in DOMAIN filter : i < j => ~Blocks(filter[i], filter[j])
  /\ \E P : FilterHolds(P)

\* The metadata of the requests without an answer, in their order.
OrderInv == Chain(fifo.in2md, OpenReq, ReqsOf(fifo.comp2memWr), fifo.memRd2comp, ParkedReq, fifo.in2cc)

\* What ht_compare found still holds.
CopyInv(r, free, match) == r.op # "FLUSH" => free = FreeBins(MemRead(r)) /\ match = MatchBins(r, MemRead(r))
CompareInv ==
  /\ \A i \in 1 .. Compared : CopyInv(fifo.comp2memWr[i].req, fifo.comp2memWr[i].free, fifo.comp2memWr[i].match)
  /\ mw.state = "MW_EVAL" => CopyInv(mw.req, mw.free, mw.match)

\* Stream Q begins with what is left of a frame, cur, and goes on with the frames fr; off[i] is
\* where frame i ends.
FramesAt(Q, off, cur, fr) ==
  /\ off \in [0 .. Len(fr) -> Nat] /\ off[0] = Len(cur) /\ off[Len(fr)] = Len(Q)
  /\ \A i \in 1 .. Len(fr) : off[i] = off[i - 1] + Len(fr[i])
  /\ \A i, j \in 0 .. Len(fr) : i <= j => off[i] <= off[j]
  /\ \A p \in 1 .. Len(cur) : Q[p] = cur[p]
  /\ \A i \in 1 .. Len(fr) : \A w \in 1 .. Len(fr[i]) : Q[off[i - 1] + w] = fr[i][w]
Streams(Q, cur, fr) == \E off : FramesAt(Q, off, cur, fr)

\* The words of a request's key, and of its bucket.
KeyCount(r) == IF r.op = "FLUSH" THEN 1 ELSE Words(r)
KeyWord(r, w) ==
  IF r.op = "FLUSH" THEN [content |-> Zero, eop |-> TRUE] ELSE [content |-> <<r.key, w, 0>>, eop |-> w = Words(r)]
KeySeq(r) == [w \in 1 .. KeyCount(r) |-> KeyWord(r, w)]
DataSeq(r) == IF r.op = "FLUSH" THEN << >> ELSE MemRead(r)
KeysOf(c) == [i \in 1 .. Len(c) |-> KeySeq(c[i].req)]
DataOf(c) == [i \in 1 .. Len(c) |-> DataSeq(c[i].req)]

\* What memWrite has still to take for its request.
KeyLeft ==
  CASE mw.state \in {"MW_IDLE", "MW_INIT_MEM"} -> 0
    [] mw.state = "MW_EVAL" -> Words(mw.req)
    [] mw.state = "MW_SET_REST" -> Base(mw.req) + Words(mw.req) + 1 - mw.addr
    [] mw.state = "MW_CONSUME" -> Words(mw.req) - mw.addr
    [] OTHER -> 1
KeyNow == [p \in 1 .. KeyLeft |-> KeyWord(mw.req, KeyCount(mw.req) - KeyLeft + p)]
DataNow(cur) ==
  /\ cur \in Seq(Rows)
  /\ mw.state = "MW_EVAL" => cur = MemRead(mw.req)
  /\ mw.state \in {"MW_SET_REST", "MW_CONSUME"} => Len(cur) = KeyLeft
  /\ mw.state = "MW_SET_REST" => \A p \in 1 .. KeyLeft : cur[p] = mem[mw.addr + p - 1]
  /\ mw.state \notin {"MW_EVAL", "MW_SET_REST", "MW_CONSUME"} => cur = << >>
DataHolds(cur) == DataNow(cur) /\ Streams(fifo.comp2memWrMemData, cur, DataOf(fifo.comp2memWr))
StreamInv == Streams(fifo.comp2memWrKey, KeyNow, KeysOf(fifo.comp2memWr)) /\ \E cur : DataHolds(cur)

\* The table as it will be when the SET under way is written.
Settled(a) ==
  IF mw.state = "MW_SET_REST" /\ a \in mw.addr .. Base(mw.req) + Words(mw.req)
  THEN [mem[a] EXCEPT ![mw.loc] = <<mw.req.key, a - Base(mw.req), 0>>]
  ELSE mem[a]
HeadOf(k) == mem[Stride * Hash[k]]
KeyWordsOf(k) == (KeyLen[k] + 15) \div 16
Stores(k, b) ==
  /\ HeadOf(k)[b][1] = KeyLen[k]
  /\ \A w \in 1 .. KeyWordsOf(k) : Settled(Stride * Hash[k] + w)[b] = <<k, w, 0>>

\* The last change of a key so far.
Latest(k) == LastChange(Len(out) + 1, k)
KeyInv(k) ==
  LET j == Latest(k) IN
  /\ \A b, c \in 1 .. Bins : Stores(k, b) /\ Stores(k, c) => b = c
  /\ (\E b \in 1 .. Bins : Stores(k, b)) <=> (j # 0 /\ out[j].req.op = "SET")
  /\ \A b \in 1 .. Bins : Stores(k, b) => HeadOf(k)[b][2] = out[j].req.vlen /\ HeadOf(k)[b][3] = out[j].res.addr
ContentInv == mw.state # "MW_FLUSH" => \A k \in DOMAIN KeyLen : KeyInv(k)

\* What the requests under way rest on.
FlowInv == QueueTypes /\ MwTypes /\ FilterInv /\ OrderInv /\ CompareInv /\ StreamInv /\ ContentInv

Assigned == { fifo.addressAssign[i] : i \in DOMAIN fifo.addressAssign }
UnsharedInv ==
  /\ mem \in [MemWords -> Rows] /\ host \subseteq Nat /\ next \in Nat
  /\ fifo.addressAssign \in Seq(Nat)
  /\ \A i, j \in DOMAIN fifo.addressAssign : fifo.addressAssign[i] = fifo.addressAssign[j] => i = j
  /\ Assigned \cap host = {}
  /\ AddressesUnshared

AnswersInv == out \in Seq([req : Reqs, res : [op : OpNames, ok : BOOLEAN, addr : Nat, vlen : Nat]]) /\ AnswersSequential

TableInv ==
  /\ build \in [filters : BOOLEAN, alloc : {"dram", "buddy"}]
  /\ FifosNamed
  /\ build.filters => /\ UnsharedInv /\ AnswersInv
                      /\ ~Wedged => FlowInv

-----------------------------------------------------------------------------
(* Sizes and places.                                                       *)

\* The words of a key are between one and what its bucket has room for.
LEMMA KeyFits ==
  ASSUME KeysFit, NEW k \in DOMAIN KeyLen
  PROVE  /\ KeyWordsOf(k) \in Nat /\ 1 <= KeyWordsOf(k) /\ KeyWordsOf(k) < Stride
         /\ Hash[k] \in Nat /\ Hash[k] < Buckets
  BY TableAssumption DEF KeysFit, KeyWordsOf

\* Buckets do not meet.
LEMMA BucketsApart ==
  ASSUME NEW g \in Nat, NEW h \in Nat, g < h, NEW s \in Nat
  PROVE  s * g \in Nat /\ s * h \in Nat /\ s * g + s <= s * h
  <1>1. PICK d \in Nat : h = g + 1 + d
    <2>1. h - g - 1 \in Nat /\ h = g + 1 + (h - g - 1)
      OBVIOUS
    <2> QED  BY <2>1
  <1>2. s * h = s * g + s + s * d
    BY <1>1
  <1>3. s * d \in Nat /\ s * g \in Nat /\ s * h \in Nat
    OBVIOUS
  <1> QED  BY <1>2, <1>3

\* Where the bucket of a key lies.
LEMMA BucketFits ==
  ASSUME KeysFit, NEW k \in DOMAIN KeyLen
  PROVE  /\ Stride * Hash[k] \in Nat
         /\ Stride * Hash[k] + Stride <= TableWords
         /\ Stride * Hash[k] <= TableWords - 2
         /\ \A w \in 0 .. KeyWordsOf(k) : Stride * Hash[k] + w \in MemWords
  <1>1. Stride * Hash[k] \in Nat /\ Stride * Buckets \in Nat /\ Stride * Hash[k] + Stride <= Stride * Buckets
    BY KeyFits, BucketsApart, TableAssumption
  <1>2. Stride \in Nat /\ Stride >= 2
    BY KeyFits, TableAssumption
  <1> DEFINE h == Stride * Hash[k]
             t == Stride * Buckets
             n == KeyWordsOf(k)
  <1>3. h \in Nat /\ t \in Nat /\ h + Stride <= t /\ n \in Nat /\ n < Stride /\ TableWords = t /\ MemWords = 0 .. t + Stride
    BY <1>1, KeyFits DEF TableWords, MemWords
  <1> HIDE DEF h, t, n
  <1>4. h <= t - 2 /\ \A w \in 0 .. n : h + w \in 0 .. t + Stride
    BY <1>2, <1>3
  <1> QED  BY <1>3, <1>4 DEF h, n

\* Words of two buckets are two words.
LEMMA WordsApart ==
  ASSUME KeysFit, NEW k \in DOMAIN KeyLen, NEW l \in DOMAIN KeyLen, Hash[k] # Hash[l],
         NEW v \in 0 .. KeyWordsOf(k), NEW w \in 0 .. KeyWordsOf(l)
  PROVE  Stride * Hash[k] + v # Stride * Hash[l] + w
  <1> DEFINE g == Stride * Hash[k]
             h == Stride * Hash[l]
  <1>1. g \in Nat /\ h \in Nat /\ v \in Nat /\ w \in Nat /\ v < Stride /\ w < Stride /\ Stride \in Nat
    BY KeyFits, BucketFits, TableAssumption
  <1>2. Hash[k] < Hash[l] \/ Hash[l] < Hash[k]
    BY KeyFits
  <1>3. g + Stride <= h \/ h + Stride <= g
    BY <1>2, KeyFits, BucketsApart, TableAssumption
  <1> HIDE DEF g, h
  <1>4. g + v # h + w
    BY <1>1, <1>3
  <1> QED  BY <1>4 DEF g, h

\* The same about a request.
LEMMA RequestFits ==
  ASSUME KeysFit, NEW r \in Reqs
  PROVE  /\ r.key \in DOMAIN KeyLen /\ r.op \in OpNames
         /\ Words(r) = KeyWordsOf(r.key) /\ Words(r) \in Nat /\ 1 <= Words(r) /\ Words(r) < Stride
         /\ Base(r) = Stride * Hash[r.key] /\ Base(r) \in Nat
         /\ HashOf(r) \in Nat
         /\ \A w \in 0 .. Words(r) : Base(r) + w \in MemWords
  <1>1. r.key \in DOMAIN KeyLen /\ r.op \in OpNames
    BY DEF Reqs
  <1>2. HashOf(r) \in Nat
    BY <1>1, KeyFits DEF HashOf
  <1> QED  BY <1>1, <1>2, KeyFits, BucketFits DEF Words, Base, KeyWordsOf

\* The smallest and the largest number of a set.
LEMMA LowestIn ==
  ASSUME NEW S \in SUBSET Nat, S # {}
  PROVE  Lowest(S) \in S /\ \A y \in S : Lowest(S) <= y
  BY LeastElement DEF Lowest

LEMMA HighestIs ==
  ASSUME NEW S \in SUBSET Nat, NEW m \in S, \A y \in S : y <= m
  PROVE  Highest(S) = m
  <1>1. Highest(S) \in S /\ \A y \in S : Highest(S) >= y
    <2>1. \E x \in S : \A y \in S : x >= y
      <3>1. \A y \in S : m >= y
        OBVIOUS
      <3> QED  BY <3>1
    <2> QED  BY <2>1 DEF Highest
  <1>2. Highest(S) >= m /\ Highest(S) <= m /\ m \in Nat /\ Highest(S) \in Nat
    BY <1>1
  <1> QED  BY <1>2

LEMMA HighestIn ==
  ASSUME NEW S \in SUBSET Nat, S # {}, NEW n \in Nat, \A y \in S : y <= n
  PROVE  Highest(S) \in S
  <1> DEFINE D == { n - y : y \in S }
  <1>0. \A y \in S : n - y \in Nat
    OBVIOUS
  <1>1. D \in SUBSET Nat /\ D # {}
    <2>1. PICK y \in S : TRUE
      OBVIOUS
    <2>2. n - y \in D
      BY <2>1
    <2> QED  BY <1>0, <2>2
  <1>2. PICK d \in D : \A e \in D : d <= e
    BY <1>1, LeastElement
  <1>3. PICK m \in S : d = n - m
    BY <1>2
  <1>4. ASSUME NEW y \in S
        PROVE  y <= m
    <2>1. n - y \in D
      OBVIOUS
    <2>2. n - m <= n - y /\ y \in Nat /\ m \in Nat
      BY <1>2, <1>3, <2>1
    <2> QED  BY <2>2
  <1> QED  BY <1>4, HighestIs

-----------------------------------------------------------------------------
(* Queues and frames in streams.                                           *)

\* What is left behind the first entry.
LEMMA RestIs ==
  ASSUME NEW S, NEW s \in Seq(S), s # << >>
  PROVE  /\ Head(s) = s[1] /\ Head(s) \in S /\ s[1] \in S
         /\ Tail(s) \in Seq(S) /\ Len(s) \in Nat /\ Len(s) >= 1 /\ Len(Tail(s)) = Len(s) - 1
         /\ \A i \in 1 .. Len(s) - 1 : Tail(s)[i] = s[i + 1]
  BY HeadTailProperties, ElementOfSeq

LEMMA LongerIs ==
  ASSUME NEW S, NEW s \in Seq(S), NEW x \in S
  PROVE  /\ Append(s, x) \in Seq(S) /\ Len(s) \in Nat /\ Len(Append(s, x)) = Len(s) + 1
         /\ \A i \in 1 .. Len(s) : Append(s, x)[i] = s[i]
         /\ Append(s, x)[Len(s) + 1] = x
  BY AppendProperties

LEMMA JoinIs ==
  ASSUME NEW S, NEW s \in Seq(S), NEW t \in Seq(S)
  PROVE  /\ s \o t \in Seq(S) /\ Len(s) \in Nat /\ Len(t) \in Nat /\ Len(s \o t) = Len(s) + Len(t)
         /\ \A i \in 1 .. Len(s) : (s \o t)[i] = s[i]
         /\ \A i \in 1 .. Len(t) : (s \o t)[Len(s) + i] = t[i]
  BY ConcatProperties

\* A frame joins a stream at its end.
LEMMA StreamJoins ==
  ASSUME NEW S, NEW Q \in Seq(S), NEW cur \in Seq(S), NEW fr \in Seq(Seq(S)), Streams(Q, cur, fr), NEW f \in Seq(S),
         NEW Q2, Q2 = Q \o f, NEW fr2, fr2 = Append(fr, f)
  PROVE  Streams(Q2, cur, fr2)
  <1>1. PICK off : FramesAt(Q, off, cur, fr)
    BY DEF Streams
  <1> DEFINE n == Len(fr)
             q == Len(Q)
             x == Len(f)
             c == Len(cur)
             off2 == [i \in 0 .. n + 1 |-> IF i = n + 1 THEN q + x ELSE off[i]]
  <1>2. n \in Nat /\ q \in Nat /\ x \in Nat /\ c \in Nat
    OBVIOUS
  <1>3. /\ off \in [0 .. n -> Nat] /\ off[0] = c /\ off[n] = q
        /\ \A i \in 1 .. n : off[i] = off[i - 1] + Len(fr[i])
        /\ \A i, j \in 0 .. n : i <= j => off[i] <= off[j]
        /\ \A p \in 1 .. c : Q[p] = cur[p]
        /\ \A i \in 1 .. n : \A w \in 1 .. Len(fr[i]) : Q[off[i - 1] + w] = fr[i][w]
    BY <1>1 DEF FramesAt
  <1>4. /\ Len(fr2) = n + 1 /\ (\A i \in 1 .. n : fr2[i] = fr[i]) /\ fr2[n + 1] = f
    BY LongerIs
  <1>5. /\ Len(Q2) = q + x /\ (\A i \in 1 .. q : Q2[i] = Q[i]) /\ (\A i \in 1 .. x : Q2[q + i] = f[i])
    BY JoinIs
  <1>6. \A i \in 1 .. n : fr[i] \in Seq(S) /\ Len(fr[i]) \in Nat
    BY ElementOfSeq
  <1>7. off2 \in [0 .. n + 1 -> Nat] /\ off2[n + 1] = q + x /\ \A i \in 0 .. n : off2[i] = off[i]
    BY <1>2, <1>3
  <1> HIDE DEF n, off2, q, x, c
  <1>8. \A i \in 1 .. n + 1 : off2[i] = off2[i - 1] + Len(fr2[i])
    <2> SUFFICES ASSUME NEW i \in 1 .. n + 1
                 PROVE  off2[i] = off2[i - 1] + Len(fr2[i])
      OBVIOUS
    <2>1. CASE i = n + 1
      <3>1. i - 1 = n /\ n \in 0 .. n
        BY <2>1, <1>2
      <3> QED  BY <2>1, <3>1, <1>3, <1>4, <1>7 DEF x
    <2>2. CASE i # n + 1
      <3>1. i \in 1 .. n /\ i - 1 \in 0 .. n /\ i \in 0 .. n
        BY <2>2, <1>2
      <3> QED  BY <3>1, <1>3, <1>4, <1>7
    <2> QED  BY <2>1, <2>2
  <1>9. \A i, j \in 0 .. n + 1 : i <= j => off2[i] <= off2[j]
    <2> SUFFICES ASSUME NEW i \in 0 .. n + 1, NEW j \in 0 .. n + 1, i <= j
                 PROVE  off2[i] <= off2[j]
      OBVIOUS
    <2>1. CASE j = n + 1
      <3>1. off2[j] = q + x
        BY <1>7, <2>1
      <3>2. CASE i = n + 1
        BY <3>1, <1>2, <1>7, <3>2
      <3>3. CASE i # n + 1
        <4>1. i \in 0 .. n /\ n \in 0 .. n /\ i <= n
          BY <3>3, <1>2
        <4>2. off[i] <= q /\ off[i] \in Nat /\ off2[i] = off[i]
          BY <4>1, <1>3, <1>7
        <4> QED  BY <3>1, <4>2, <1>2
      <3> QED  BY <3>2, <3>3
    <2>2. CASE j # n + 1
      <3>1. i \in 0 .. n /\ j \in 0 .. n
        BY <2>2, <1>2
      <3> QED  BY <3>1, <1>3, <1>7
    <2> QED  BY <2>1, <2>2
  <1>10. \A p \in 1 .. c : Q2[p] = cur[p]
    <2> SUFFICES ASSUME NEW p \in 1 .. c
                 PROVE  Q2[p] = cur[p]
      OBVIOUS
    <2>1. 0 \in 0 .. n /\ n \in 0 .. n /\ 0 <= n
      BY <1>2
    <2>2. c <= q
      BY <2>1, <1>3
    <2>3. p \in 1 .. q
      BY <2>2, <1>2
    <2> QED  BY <2>3, <1>3, <1>5
  <1>11. ASSUME NEW i \in 1 .. n + 1, NEW w \in 1 .. Len(fr2[i])
         PROVE  Q2[off2[i - 1] + w] = fr2[i][w]
    <2>1. CASE i = n + 1
      <3>1. i - 1 = n /\ n \in 0 .. n /\ w \in 1 .. x
        BY <2>1, <1>2, <1>4 DEF x
      <3>2. off2[i - 1] = q /\ fr2[i] = f
        BY <2>1, <3>1, <1>3, <1>4, <1>7
      <3> QED  BY <3>1, <3>2, <1>5
    <2>2. CASE i # n + 1
      <3>1. i \in 1 .. n /\ i - 1 \in 0 .. n /\ i \in 0 .. n /\ n \in 0 .. n /\ i <= n
        BY <2>2, <1>2
      <3>2. off[i - 1] \in Nat /\ off[i] \in Nat /\ off[i] = off[i - 1] + Len(fr[i]) /\ off[i] <= q /\ Len(fr[i]) \in Nat /\ w \in 1 .. Len(fr[i])
        BY <3>1, <1>3, <1>4, <1>6
      <3>3. off[i - 1] + w \in 1 .. q
        <4>1. PICK a \in Nat, l \in Nat : a = off[i - 1] /\ l = Len(fr[i])
          BY <3>2
        <4>2. a + l <= q /\ w \in 1 .. l
          BY <3>2, <4>1
        <4>3. a + w \in 1 .. q
          BY <4>2, <1>2
        <4> QED  BY <4>1, <4>3
      <3>4. Q2[off[i - 1] + w] = Q[off[i - 1] + w] /\ Q[off[i - 1] + w] = fr[i][w]
        BY <3>1, <3>2, <3>3, <1>3, <1>5
      <3> QED  BY <3>1, <3>4, <1>4, <1>7
    <2> QED  BY <2>1, <2>2
  <1>12. off2[0] = c
    BY <1>2, <1>3, <1>7
  <1>13. FramesAt(Q2, off2, cur, fr2)
    BY <1>4, <1>5, <1>7, <1>8, <1>9, <1>10, <1>11, <1>12 DEF FramesAt, c
  <1> QED  BY <1>13 DEF Streams

\* Its first frame is the one to take from next.
LEMMA StreamOpens ==
  ASSUME NEW S, NEW Q \in Seq(S), NEW fr \in Seq(Seq(S)), NEW cur, Len(cur) = 0, Streams(Q, cur, fr), fr # << >>
  PROVE  Streams(Q, Head(fr), Tail(fr))
  <1>1. PICK off : FramesAt(Q, off, cur, fr)
    BY DEF Streams
  <1> DEFINE n == Len(fr)
             q == Len(Q)
             f == Head(fr)
             g == Tail(fr)
             off2 == [i \in 0 .. n - 1 |-> off[i + 1]]
  <1>2. q \in Nat /\ f = fr[1] /\ f \in Seq(S) /\ g \in Seq(Seq(S)) /\ n \in Nat /\ n >= 1 /\ Len(g) = n - 1
        /\ \A i \in 1 .. n - 1 : g[i] = fr[i + 1]
    BY RestIs
  <1>3. /\ off \in [0 .. n -> Nat] /\ off[0] = 0 /\ off[n] = q
        /\ \A i \in 1 .. n : off[i] = off[i - 1] + Len(fr[i])
        /\ \A i, j \in 0 .. n : i <= j => off[i] <= off[j]
        /\ \A i \in 1 .. n : \A w \in 1 .. Len(fr[i]) : Q[off[i - 1] + w] = fr[i][w]
    BY <1>1 DEF FramesAt
  <1>4. off2 \in [0 .. n - 1 -> Nat] /\ \A i \in 0 .. n - 1 : off2[i] = off[i + 1]
    BY <1>2, <1>3
  <1> HIDE DEF n, off2, q, f, g
  <1>5. off2[0] = Len(f)
    <2>1. 0 \in 0 .. n - 1 /\ 1 \in 1 .. n /\ Len(f) \in Nat /\ 0 + 1 = 1 /\ 1 - 1 = 0
      BY <1>2
    <2>2. off2[0] = off[1] /\ off[1] = off[0] + Len(fr[1])
      BY <2>1, <1>3, <1>4
    <2> QED  BY <2>1, <2>2, <1>2, <1>3
  <1>6. off2[n - 1] = q
    <2>1. n - 1 \in 0 .. n - 1 /\ (n - 1) + 1 = n
      BY <1>2
    <2> QED  BY <2>1, <1>3, <1>4
  <1>7. \A i \in 1 .. n - 1 : off2[i] = off2[i - 1] + Len(g[i])
    <2> SUFFICES ASSUME NEW i \in 1 .. n - 1
                 PROVE  off2[i] = off2[i - 1] + Len(g[i])
      OBVIOUS
    <2>1. i \in 0 .. n - 1 /\ i - 1 \in 0 .. n - 1 /\ i + 1 \in 1 .. n /\ (i + 1) - 1 = i /\ (i - 1) + 1 = i
      BY <1>2
    <2>2. off2[i] = off[i + 1] /\ off2[i - 1] = off[i] /\ g[i] = fr[i + 1]
      BY <2>1, <1>2, <1>4
    <2> QED  BY <2>1, <2>2, <1>3
  <1>8. \A i, j \in 0 .. n - 1 : i <= j => off2[i] <= off2[j]
    <2> SUFFICES ASSUME NEW i \in 0 .. n - 1, NEW j \in 0 .. n - 1, i <= j
                 PROVE  off2[i] <= off2[j]
      OBVIOUS
    <2>1. i + 1 \in 0 .. n /\ j + 1 \in 0 .. n /\ i + 1 <= j + 1
      BY <1>2
    <2> QED  BY <2>1, <1>3, <1>4
  <1>9. \A p \in 1 .. Len(f) : Q[p] = f[p]
    <2> SUFFICES ASSUME NEW p \in 1 .. Len(f)
                 PROVE  Q[p] = f[p]
      OBVIOUS
    <2>1. 1 \in 1 .. n /\ 1 - 1 = 0 /\ p \in 1 .. Len(fr[1])
      BY <1>2
    <2>2. Q[off[0] + p] = fr[1][p]
      BY <2>1, <1>3
    <2>3. off[0] + p = p
      BY <1>2, <1>3
    <2> QED  BY <2>2, <2>3, <1>2
  <1>10. ASSUME NEW i \in 1 .. n - 1, NEW w \in 1 .. Len(g[i])
         PROVE  Q[off2[i - 1] + w] = g[i][w]
    <2>1. i - 1 \in 0 .. n - 1 /\ i + 1 \in 1 .. n /\ (i + 1) - 1 = i /\ (i - 1) + 1 = i
      BY <1>2
    <2>2. off2[i - 1] = off[i] /\ g[i] = fr[i + 1]
      BY <2>1, <1>2, <1>4
    <2>3. Q[off[(i + 1) - 1] + w] = fr[i + 1][w]
      BY <2>1, <2>2, <1>3
    <2> QED  BY <2>1, <2>2, <2>3
  <1>11. FramesAt(Q, off2, f, g)
    BY <1>2, <1>4, <1>5, <1>6, <1>7, <1>8, <1>9, <1>10 DEF FramesAt, q
  <1> QED  BY <1>11 DEF Streams, f, g

\* One word is taken.
LEMMA StreamShrinks ==
  ASSUME NEW S, NEW Q \in Seq(S), NEW cur \in Seq(S), NEW fr \in Seq(Seq(S)), Streams(Q, cur, fr), cur # << >>
  PROVE  Q # << >> /\ Head(Q) = cur[1] /\ Streams(Tail(Q), Tail(cur), fr)
  <1>1. PICK off : FramesAt(Q, off, cur, fr)
    BY DEF Streams
  <1> DEFINE n == Len(fr)
             q == Len(Q)
             c == Len(cur)
             d == Tail(cur)
             T == Tail(Q)
             off2 == [i \in 0 .. n |-> off[i] - 1]
  <1>2. d \in Seq(S) /\ c \in Nat /\ c >= 1 /\ Len(d) = c - 1 /\ (\A i \in 1 .. c - 1 : d[i] = cur[i + 1]) /\ n \in Nat /\ q \in Nat
    BY RestIs
  <1>3. /\ off \in [0 .. n -> Nat] /\ off[0] = c /\ off[n] = q
        /\ \A i \in 1 .. n : off[i] = off[i - 1] + Len(fr[i])
        /\ \A i, j \in 0 .. n : i <= j => off[i] <= off[j]
        /\ \A p \in 1 .. c : Q[p] = cur[p]
        /\ \A i \in 1 .. n : \A w \in 1 .. Len(fr[i]) : Q[off[i - 1] + w] = fr[i][w]
    BY <1>1 DEF FramesAt
  <1>4. \A i \in 1 .. n : fr[i] \in Seq(S) /\ Len(fr[i]) \in Nat
    BY ElementOfSeq
  <1> HIDE DEF n, q, c, d
  <1>5. \A i \in 0 .. n : off[i] \in Nat /\ off[i] >= 1 /\ off[i] <= q
    <2> SUFFICES ASSUME NEW i \in 0 .. n
                 PROVE  off[i] \in Nat /\ off[i] >= 1 /\ off[i] <= q
      OBVIOUS
    <2>1. 0 \in 0 .. n /\ 0 <= i /\ n \in 0 .. n /\ i <= n
      BY <1>2
    <2>2. off[0] <= off[i] /\ off[0] \in Nat /\ off[i] \in Nat /\ off[i] <= off[n]
      BY <2>1, <1>3
    <2> QED  BY <2>2, <1>2, <1>3
  <1>6. off2 \in [0 .. n -> Nat] /\ \A i \in 0 .. n : off2[i] = off[i] - 1
    BY <1>5
  <1> HIDE DEF off2
  <1>7. q >= 1 /\ 0 \in 0 .. n /\ n \in 0 .. n
    BY <1>2, <1>3, <1>5
  <1>8. Q # << >>
    BY <1>7 DEF q
  <1>9. Head(Q) = Q[1] /\ Len(T) = q - 1 /\ \A i \in 1 .. q - 1 : T[i] = Q[i + 1]
    BY <1>8, RestIs DEF q
  <1> HIDE DEF T
  <1>10. \A i \in 1 .. n : off2[i] = off2[i - 1] + Len(fr[i])
    <2> SUFFICES ASSUME NEW i \in 1 .. n
                 PROVE  off2[i] = off2[i - 1] + Len(fr[i])
      OBVIOUS
    <2>1. i \in 0 .. n /\ i - 1 \in 0 .. n
      BY <1>2
    <2>2. off[i] \in Nat /\ off[i - 1] \in Nat /\ off[i] = off[i - 1] + Len(fr[i]) /\ off2[i] = off[i] - 1 /\ off2[i - 1] = off[i - 1] - 1
      BY <2>1, <1>3, <1>6
    <2>3. PICK a \in Nat, b \in Nat, l \in Nat : a = off[i - 1] /\ b = off[i] /\ l = Len(fr[i])
      BY <2>2, <1>4
    <2>4. b = a + l /\ off2[i] = b - 1 /\ off2[i - 1] = a - 1
      BY <2>2, <2>3
    <2>5. b - 1 = (a - 1) + l
      BY <2>4
    <2> QED  BY <2>3, <2>4, <2>5
  <1>11. \A i, j \in 0 .. n : i <= j => off2[i] <= off2[j]
    BY <1>3, <1>5, <1>6
  <1>12. off2[0] = c - 1 /\ off2[n] = q - 1
    BY <1>3, <1>6, <1>7
  <1>13. \A p \in 1 .. c - 1 : T[p] = d[p]
    <2> SUFFICES ASSUME NEW p \in 1 .. c - 1
                 PROVE  T[p] = d[p]
      OBVIOUS
    <2>1. c <= q
      BY <1>3, <1>5, <1>7
    <2>2. p \in 1 .. q - 1 /\ p + 1 \in 1 .. c
      BY <2>1, <1>2
    <2> QED  BY <2>2, <1>2, <1>3, <1>9
  <1>14. ASSUME NEW i \in 1 .. n, NEW w \in 1 .. Len(fr[i])
         PROVE  T[off2[i - 1] + w] = fr[i][w]
    <2>1. i \in 0 .. n /\ i - 1 \in 0 .. n
      BY <1>2
    <2>2. off[i] \in Nat /\ off[i - 1] \in Nat /\ off[i - 1] >= 1 /\ off[i] = off[i - 1] + Len(fr[i]) /\ off2[i - 1] = off[i - 1] - 1 /\ off[i] <= q
      BY <2>1, <1>3, <1>5, <1>6
    <2>3. off2[i - 1] + w \in 1 .. q - 1 /\ (off2[i - 1] + w) + 1 = off[i - 1] + w
      <3>1. PICK a \in Nat, l \in Nat : a = off[i - 1] /\ l = Len(fr[i])
        BY <2>2, <1>4
      <3>2. a >= 1 /\ a + l <= q /\ off2[i - 1] = a - 1 /\ w \in 1 .. l
        BY <2>2, <3>1
      <3>3. (a - 1) + w \in 1 .. q - 1 /\ ((a - 1) + w) + 1 = a + w
        BY <3>2, <1>2
      <3> QED  BY <3>1, <3>2, <3>3
    <2>4. T[off2[i - 1] + w] = Q[off[i - 1] + w]
      BY <2>3, <1>9
    <2> QED  BY <2>4, <1>3
  <1>15. FramesAt(T, off2, d, fr)
    BY <1>2, <1>6, <1>9, <1>10, <1>11, <1>12, <1>13, <1>14 DEF FramesAt, n
  <1>16. Head(Q) = cur[1]
    <2>1. 1 \in 1 .. c
      BY <1>2
    <2> QED  BY <2>1, <1>3, <1>9
  <1> QED  BY <1>8, <1>15, <1>16 DEF Streams, T, d

\* One entry moves from the front of a queue to the end of the one before it.
LEMMA MoveOne ==
  ASSUME NEW S, NEW X \in Seq(S), NEW Y \in Seq(S), Y # << >>
  PROVE  X \o Y = Append(X, Head(Y)) \o Tail(Y)
  <1> DEFINE x == Head(Y)
             L == Append(X, x)
             T == Tail(Y)
             m == Len(X)
             n == Len(Y)
  <1>1. x \in S /\ x = Y[1] /\ T \in Seq(S) /\ n \in Nat /\ n >= 1 /\ Len(T) = n - 1 /\ \A i \in 1 .. n - 1 : T[i] = Y[i + 1]
    BY RestIs
  <1>2. L \in Seq(S) /\ m \in Nat /\ Len(L) = m + 1 /\ (\A i \in 1 .. m : L[i] = X[i]) /\ L[m + 1] = x
    BY <1>1, LongerIs
  <1> HIDE DEF x, L, T, m, n
  <1>3. /\ L \o T \in Seq(S) /\ Len(L \o T) = (m + 1) + (n - 1)
        /\ \A i \in 1 .. m + 1 : (L \o T)[i] = L[i]
        /\ \A i \in 1 .. n - 1 : (L \o T)[m + 1 + i] = T[i]
    <2>1. /\ L \o T \in Seq(S) /\ Len(L \o T) = Len(L) + Len(T)
          /\ \A i \in 1 .. Len(L) : (L \o T)[i] = L[i]
          /\ \A i \in 1 .. Len(T) : (L \o T)[Len(L) + i] = T[i]
      <3>1. \A U, V \in Seq(S) : /\ U \o V \in Seq(S) /\ Len(U \o V) = Len(U) + Len(V)
                                 /\ \A i \in 1 .. Len(U) : (U \o V)[i] = U[i]
                                 /\ \A i \in 1 .. Len(V) : (U \o V)[Len(U) + i] = V[i]
        BY JoinIs
      <3> QED  BY <3>1, <1>1, <1>2, Zenon
    <2> QED  BY <2>1, <1>1, <1>2
  <1>4. /\ X \o Y \in Seq(S) /\ Len(X \o Y) = m + n
        /\ \A i \in 1 .. m : (X \o Y)[i] = X[i]
        /\ \A i \in 1 .. n : (X \o Y)[m + i] = Y[i]
    BY JoinIs DEF m, n
  <1>5. Len(L \o T) = Len(X \o Y)
    BY <1>1, <1>2, <1>3, <1>4
  <1>6. \A i \in 1 .. Len(X \o Y) : (L \o T)[i] = (X \o Y)[i]
    <2> SUFFICES ASSUME NEW i \in 1 .. m + n
                 PROVE  (L \o T)[i] = (X \o Y)[i]
      BY <1>4
    <2>1. CASE i <= m
      BY <2>1, <1>1, <1>2, <1>3, <1>4
    <2>2. CASE i = m + 1
      <3>1. 1 \in 1 .. n /\ i \in 1 .. m + 1
        BY <2>2, <1>1, <1>2
      <3> QED  BY <3>1, <2>2, <1>1, <1>2, <1>3, <1>4
    <2>3. CASE i > m + 1
      <3> DEFINE j == i - m - 1
      <3>1. j \in 1 .. n - 1 /\ i = m + 1 + j /\ j + 1 \in 1 .. n /\ i = m + (j + 1)
        BY <2>3, <1>1, <1>2
      <3> HIDE DEF j
      <3>2. (L \o T)[i] = T[j] /\ T[j] = Y[j + 1]
        BY <3>1, <1>1, <1>3
      <3>3. (X \o Y)[i] = Y[j + 1]
        BY <3>1, <1>4
      <3> QED  BY <3>2, <3>3
    <2>4. i <= m \/ i = m + 1 \/ i > m + 1
      BY <1>1, <1>2
    <2> QED  BY <2>1, <2>2, <2>3, <2>4
  <1>7. X \o Y = L \o T
    BY <1>3, <1>4, <1>5, <1>6, SeqEqual
  <1> QED  BY <1>7 DEF L, T, x

\* The same, with the operators under names of their own for the provers.
LEMMA MovesOne ==
  ASSUME NEW S, NEW X \in Seq(S), NEW Y \in Seq(S), Y # << >>
  PROVE  Cat(X, Y) = Cat(Put(X, Head(Y)), Tail(Y))
  BY MoveOne DEF Cat, Put

LEMMA CatTyped ==
  ASSUME NEW S, NEW X \in Seq(S), NEW Y \in Seq(S)
  PROVE  Cat(X, Y) \in Seq(S)
  BY DEF Cat

LEMMA PutTyped ==
  ASSUME NEW S, NEW X \in Seq(S), NEW x \in S
  PROVE  Put(X, x) \in Seq(S)
  BY DEF Put

LEMMA CatAssociates ==
  ASSUME NEW S, NEW X \in Seq(S), NEW Y \in Seq(S), NEW Z \in Seq(S)
  PROVE  Cat(Cat(X, Y), Z) = Cat(X, Cat(Y, Z))
  BY ConcatAssociative DEF Cat

\* The last entry of two queues.
LEMMA GrowsJoined ==
  ASSUME NEW S, NEW X \in Seq(S), NEW Y \in Seq(S), NEW x \in S
  PROVE  Put(Cat(X, Y), x) = Cat(X, Put(Y, x))
  <1>1. <<x>> \in Seq(S) /\ X \o Y \in Seq(S)
    OBVIOUS
  <1>2. Append(X \o Y, x) = (X \o Y) \o <<x>>
    BY <1>1, AppendIsConcat
  <1>3. Append(Y, x) = Y \o <<x>>
    BY AppendIsConcat
  <1>4. (X \o Y) \o <<x>> = X \o (Y \o <<x>>)
    BY <1>1, ConcatAssociative
  <1> QED  BY <1>2, <1>3, <1>4 DEF Cat, Put

\* A request passes from a stage to the one before it.
LEMMA MovesAhead ==
  ASSUME NEW S, NEW X \in Seq(S), NEW Y \in Seq(S), NEW Z \in Seq(S), Y # << >>
  PROVE  Cat(X, Cat(Y, Z)) = Cat(Put(X, Head(Y)), Cat(Tail(Y), Z))
  <1>1. Cat(X, Cat(Y, Z)) = Cat(Cat(X, Y), Z)
    BY CatAssociates
  <1>2. Cat(X, Y) = Cat(Put(X, Head(Y)), Tail(Y))
    BY MovesOne
  <1>3. Put(X, Head(Y)) \in Seq(S) /\ Tail(Y) \in Seq(S)
    BY RestIs, PutTyped
  <1>4. ASSUME NEW U \in Seq(S), NEW V \in Seq(S)
        PROVE  Cat(Cat(U, V), Z) = Cat(U, Cat(V, Z))
    BY CatAssociates
  <1>5. Cat(Cat(Put(X, Head(Y)), Tail(Y)), Z) = Cat(Put(X, Head(Y)), Cat(Tail(Y), Z))
    BY <1>3, <1>4, Zenon
  <1> QED  BY <1>1, <1>2, <1>5

LEMMA ChainMoves ==
  ASSUME NEW S, NEW A, NEW p \in Seq(S), NEW C \in Seq(S), NEW R \in Seq(S), NEW t \in Seq(S), NEW D \in Seq(S),
         Chain(A, p, C, R, t, D)
  PROVE  /\ A \in Seq(S)
         /\ D # << >> => Chain(A, p, C, R, Put(t, Head(D)), Tail(D))
         /\ t # << >> => Chain(A, p, C, Put(R, Head(t)), Tail(t), D)
         /\ R # << >> => Chain(A, p, Put(C, Head(R)), Tail(R), t, D)
         /\ C # << >> => Chain(A, Put(p, Head(C)), Tail(C), R, t, D)
  <1>1. Cat(t, D) \in Seq(S)
    BY CatTyped
  <1>2. Cat(R, Cat(t, D)) \in Seq(S)
    BY <1>1, CatTyped
  <1>3. Cat(C, Cat(R, Cat(t, D))) \in Seq(S)
    BY <1>2, CatTyped
  <1>4. A = Cat(p, Cat(C, Cat(R, Cat(t, D))))
    BY DEF Chain
  <1>5. A \in Seq(S)
    BY <1>3, <1>4, CatTyped
  <1>6. D # << >> => Cat(t, D) = Cat(Put(t, Head(D)), Tail(D))
    BY MovesOne
  <1>7. t # << >> => Cat(R, Cat(t, D)) = Cat(Put(R, Head(t)), Cat(Tail(t), D))
    BY MovesAhead
  <1>8. R # << >> => Cat(C, Cat(R, Cat(t, D))) = Cat(Put(C, Head(R)), Cat(Tail(R), Cat(t, D)))
    BY <1>1, MovesAhead
  <1>9. C # << >> => A = Cat(Put(p, Head(C)), Cat(Tail(C), Cat(R, Cat(t, D))))
    BY <1>2, <1>4, MovesAhead
  <1> QED  BY <1>4, <1>5, <1>6, <1>7, <1>8, <1>9 DEF Chain

LEMMA ChainGrows ==
  ASSUME NEW S, NEW A, NEW p \in Seq(S), NEW C \in Seq(S), NEW R \in Seq(S), NEW t \in Seq(S), NEW D \in Seq(S),
         Chain(A, p, C, R, t, D), NEW x \in S
  PROVE  Chain(Put(A, x), p, C, R, t, Put(D, x))
  <1>1. Cat(t, D) \in Seq(S)
    BY CatTyped
  <1>2. Cat(R, Cat(t, D)) \in Seq(S)
    BY <1>1, CatTyped
  <1>3. Cat(C, Cat(R, Cat(t, D))) \in Seq(S)
    BY <1>2, CatTyped
  <1>4. A = Cat(p, Cat(C, Cat(R, Cat(t, D))))
    BY DEF Chain
  <1>5. Put(Cat(t, D), x) = Cat(t, Put(D, x))
    BY GrowsJoined
  <1>6. Put(Cat(R, Cat(t, D)), x) = Cat(R, Put(Cat(t, D), x))
    BY <1>1, GrowsJoined
  <1>7. Put(Cat(C, Cat(R, Cat(t, D))), x) = Cat(C, Put(Cat(R, Cat(t, D)), x))
    BY <1>2, GrowsJoined
  <1>8. Put(A, x) = Cat(p, Put(Cat(C, Cat(R, Cat(t, D))), x))
    BY <1>3, <1>4, GrowsJoined
  <1> QED  BY <1>5, <1>6, <1>7, <1>8 DEF Chain

LEMMA ChainPops ==
  ASSUME NEW S, NEW A, NEW p \in Seq(S), NEW C \in Seq(S), NEW R \in Seq(S), NEW t \in Seq(S), NEW D \in Seq(S),
         Chain(A, p, C, R, t, D), p # << >>
  PROVE  A # << >> /\ Head(A) = Head(p) /\ Chain(Tail(A), Tail(p), C, R, t, D)
  <1> DEFINE X == Cat(C, Cat(R, Cat(t, D)))
  <1>1. Cat(t, D) \in Seq(S)
    BY CatTyped
  <1>2. Cat(R, Cat(t, D)) \in Seq(S)
    BY <1>1, CatTyped
  <1>3. X \in Seq(S)
    BY <1>2, CatTyped
  <1>4. A = p \o X
    BY DEF Chain, Cat
  <1> HIDE DEF X
  <1>5. A \in Seq(S) /\ Len(A) = Len(p) + Len(X) /\ (\A i \in 1 .. Len(p) : A[i] = p[i]) /\ (\A i \in 1 .. Len(X) : A[Len(p) + i] = X[i])
    BY <1>3, <1>4, JoinIs
  <1>6. Len(p) \in Nat /\ Len(X) \in Nat /\ Len(p) >= 1 /\ Head(p) = p[1] /\ Tail(p) \in Seq(S) /\ Len(Tail(p)) = Len(p) - 1 /\ \A i \in 1 .. Len(p) - 1 : Tail(p)[i] = p[i + 1]
    BY <1>3, RestIs
  <1>7. A # << >> /\ Len(A) >= 1
    BY <1>5, <1>6
  <1>8. Head(A) = A[1] /\ Tail(A) \in Seq(S) /\ Len(Tail(A)) = Len(A) - 1 /\ \A i \in 1 .. Len(A) - 1 : Tail(A)[i] = A[i + 1]
    BY <1>5, <1>7, RestIs
  <1>9. /\ Tail(p) \o X \in Seq(S) /\ Len(Tail(p) \o X) = (Len(p) - 1) + Len(X)
        /\ \A i \in 1 .. Len(p) - 1 : (Tail(p) \o X)[i] = Tail(p)[i]
        /\ \A i \in 1 .. Len(X) : (Tail(p) \o X)[Len(p) - 1 + i] = X[i]
    BY <1>3, <1>6, JoinIs
  <1> DEFINE m == Len(p)
             n == Len(X)
             B == Tail(A)
             E == Tail(p) \o X
  <1>10. /\ m \in Nat /\ n \in Nat /\ m >= 1 /\ Len(A) = m + n /\ Len(B) = m + n - 1 /\ Len(E) = m - 1 + n
         /\ \A i \in 1 .. m + n - 1 : B[i] = A[i + 1]
         /\ \A i \in 1 .. m : A[i] = p[i]
         /\ \A i \in 1 .. n : A[m + i] = X[i]
         /\ \A i \in 1 .. m - 1 : E[i] = p[i + 1]
         /\ \A i \in 1 .. n : E[m - 1 + i] = X[i]
    BY <1>5, <1>6, <1>8, <1>9
  <1> HIDE DEF m, n, B, E
  <1>11. \A i \in 1 .. m + n - 1 : B[i] = E[i]
    <2> SUFFICES ASSUME NEW i \in 1 .. m + n - 1
                 PROVE  B[i] = E[i]
      OBVIOUS
    <2>1. CASE i <= m - 1
      <3>1. i \in 1 .. m - 1 /\ i + 1 \in 1 .. m
        BY <2>1, <1>10
      <3> QED  BY <3>1, <1>10
    <2>2. CASE i > m - 1
      <3>1. PICK j \in 1 .. n : i = m - 1 + j /\ i + 1 = m + j
        <4>1. i - (m - 1) \in 1 .. n /\ i = m - 1 + (i - (m - 1)) /\ i + 1 = m + (i - (m - 1))
          BY <2>2, <1>10
        <4> QED  BY <4>1
      <3> QED  BY <3>1, <1>10
    <2> QED  BY <2>1, <2>2, <1>10
  <1>12. B \in Seq(S) /\ E \in Seq(S) /\ Len(B) = Len(E) /\ Len(B) = m + n - 1
    BY <1>8, <1>9, <1>10 DEF B, E
  <1>13. B = E
    BY <1>11, <1>12, SeqEqual
  <1>14. Head(A) = Head(p)
    <2>1. 1 \in 1 .. m
      BY <1>10
    <2>2. A[1] = p[1]
      BY <1>10, <2>1
    <2> QED  BY <1>6, <1>8, <2>2
  <1>15. Tail(A) = Cat(Tail(p), X)
    BY <1>13 DEF B, E, Cat
  <1> QED  BY <1>7, <1>14, <1>15 DEF Chain, X

\* The entries of two queues in a row.
IsCat(S, a, s, t) ==
  /\ a \in Seq(S) /\ Len(a) = Len(s) + Len(t)
  /\ \A i \in 1 .. Len(s) : a[i] = s[i]
  /\ \A i \in 1 .. Len(t) : a[Len(s) + i] = t[i]

LEMMA CatIs ==
  ASSUME NEW S, NEW s \in Seq(S), NEW t \in Seq(S), NEW a, a = Cat(s, t)
  PROVE  IsCat(S, a, s, t)
  BY JoinIs DEF Cat, IsCat

\* Where the second and the third part of a chain lie.
Precedes(A, x, R) == \A i \in 1 .. Len(R) : \E j, k \in DOMAIN A : j < k /\ A[j] = x /\ A[k] = R[i]

LEMMA ChainPlaces ==
  ASSUME NEW S, NEW A, NEW p \in Seq(S), NEW C \in Seq(S), Len(C) = 1, NEW R \in Seq(S), NEW t \in Seq(S), NEW D \in Seq(S),
         Chain(A, p, C, R, t, D)
  PROVE  Precedes(A, C[1], R)
  <1>1. PICK Y : Y = Cat(t, D)
    OBVIOUS
  <1>2. PICK Z : Z = Cat(R, Y)
    OBVIOUS
  <1>3. PICK X : X = Cat(C, Z)
    OBVIOUS
  <1>12. A = Cat(p, X)
    BY <1>1, <1>2, <1>3 DEF Chain
  <1> DEFINE x == C[1]
  <1>13. Y \in Seq(S)
    BY <1>1, CatTyped
  <1>14. Z \in Seq(S) /\ Len(Z) = Len(R) + Len(Y) /\ \A i \in 1 .. Len(R) : Z[i] = R[i]
    <2>1. IsCat(S, Z, R, Y)
      BY <1>2, <1>13, CatIs
    <2> QED  BY <2>1 DEF IsCat
  <1>4. /\ X \in Seq(S) /\ Len(X) = Len(C) + Len(Z)
        /\ \A i \in 1 .. Len(C) : X[i] = C[i]
        /\ \A i \in 1 .. Len(Z) : X[Len(C) + i] = Z[i]
    <2>1. IsCat(S, X, C, Z)
      BY <1>3, <1>14, CatIs
    <2> QED  BY <2>1 DEF IsCat
  <1>5. X \in Seq(S) /\ Len(X) = 1 + Len(Z) /\ X[1] = x /\ \A i \in 1 .. Len(Z) : X[1 + i] = Z[i]
    BY <1>4
  <1> HIDE DEF x
  <1>6. /\ A \in Seq(S) /\ Len(A) = Len(p) + Len(X)
        /\ \A i \in 1 .. Len(p) : A[i] = p[i]
        /\ \A i \in 1 .. Len(X) : A[Len(p) + i] = X[i]
    <2>1. IsCat(S, A, p, X)
      BY <1>5, <1>12, CatIs
    <2> QED  BY <2>1 DEF IsCat
  <1> SUFFICES ASSUME NEW i \in 1 .. Len(R)
               PROVE  \E j, k \in DOMAIN A : j < k /\ A[j] = x /\ A[k] = R[i]
    BY DEF Precedes, x
  <1> DEFINE a == Len(p)
             b == Len(R)
             c == Len(Y)
             z == Len(Z)
             e == Len(X)
             f == Len(A)
  <1>7. a \in Nat /\ b \in Nat /\ c \in Nat /\ z = b + c /\ e = 1 + z /\ f = a + e /\ i \in 1 .. b /\ DOMAIN A = 1 .. f
    BY <1>13, <1>14, <1>5, <1>6
  <1>8. /\ \A n \in 1 .. b : Z[n] = R[n]
        /\ \A n \in 1 .. z : X[1 + n] = Z[n]
        /\ \A n \in 1 .. e : A[a + n] = X[n]
    BY <1>14, <1>5, <1>6
  <1> HIDE DEF a, b, c, z, e, f
  <1>9. i \in 1 .. z /\ 1 + i \in 1 .. e /\ 1 \in 1 .. e /\ a + 1 \in 1 .. f /\ a + (1 + i) \in 1 .. f /\ a + 1 < a + (1 + i)
    BY <1>7
  <1>10. A[a + 1] = x /\ A[a + (1 + i)] = R[i]
    BY <1>5, <1>7, <1>8, <1>9
  <1> QED  BY <1>7, <1>9, <1>10

\* The requests of a queue of ht_compare's results.
LEMMA ReqsIs ==
  ASSUME NEW c \in Seq(Bundles)
  PROVE  /\ ReqsOf(c) \in Seq(Reqs) /\ Len(ReqsOf(c)) = Len(c)
         /\ \A i \in 1 .. Len(c) : ReqsOf(c)[i] = c[i].req /\ c[i].req \in Reqs
  <1>1. Len(c) \in Nat /\ \A i \in 1 .. Len(c) : c[i] \in Bundles
    BY ElementOfSeq
  <1>2. \A i \in 1 .. Len(c) : c[i].req \in Reqs
    BY <1>1 DEF Bundles
  <1> QED  BY <1>1, <1>2 DEF ReqsOf

LEMMA ReqsGrow ==
  ASSUME NEW c \in Seq(Bundles), NEW x \in Bundles
  PROVE  ReqsOf(Append(c, x)) = Put(ReqsOf(c), x.req)
  <1>1. Append(c, x) \in Seq(Bundles) /\ Len(c) \in Nat /\ Len(Append(c, x)) = Len(c) + 1
        /\ (\A i \in 1 .. Len(c) : Append(c, x)[i] = c[i]) /\ Append(c, x)[Len(c) + 1] = x
    BY LongerIs
  <1>2. x.req \in Reqs
    BY DEF Bundles
  <1>3. /\ ReqsOf(c) \in Seq(Reqs) /\ Len(ReqsOf(c)) = Len(c)
        /\ \A i \in 1 .. Len(c) : ReqsOf(c)[i] = c[i].req
    BY ReqsIs
  <1> DEFINE u == ReqsOf(Append(c, x))
             v == Append(ReqsOf(c), x.req)
             n == Len(c)
             d == Append(c, x)
  <1>4. u \in Seq(Reqs) /\ Len(u) = n + 1 /\ \A i \in 1 .. n + 1 : u[i] = d[i].req
    BY <1>1, ReqsIs
  <1>5. v \in Seq(Reqs) /\ Len(v) = n + 1 /\ (\A i \in 1 .. n : v[i] = ReqsOf(c)[i]) /\ v[n + 1] = x.req
    BY <1>2, <1>3, LongerIs
  <1>6. n \in Nat /\ (\A i \in 1 .. n : d[i] = c[i]) /\ d[n + 1] = x /\ \A i \in 1 .. n : ReqsOf(c)[i] = c[i].req
    BY <1>1, <1>3
  <1> HIDE DEF u, v, n, d
  <1>7. \A i \in 1 .. n + 1 : u[i] = v[i]
    <2> SUFFICES ASSUME NEW i \in 1 .. n + 1 PROVE u[i] = v[i]
      OBVIOUS
    <2>1. CASE i = n + 1
      BY <2>1, <1>4, <1>5, <1>6
    <2>2. CASE i # n + 1
      <3>1. i \in 1 .. n
        BY <2>2, <1>6
      <3> QED  BY <3>1, <1>4, <1>5, <1>6
    <2> QED  BY <2>1, <2>2
  <1>8. u = v
    BY <1>4, <1>5, <1>6, <1>7, SeqEqual
  <1> QED  BY <1>8 DEF u, v, Put

LEMMA ReqsShrink ==
  ASSUME NEW c \in Seq(Bundles), c # << >>
  PROVE  /\ ReqsOf(c) # << >> /\ Head(ReqsOf(c)) = Head(c).req /\ Tail(ReqsOf(c)) = ReqsOf(Tail(c))
  <1> DEFINE s == ReqsOf(c)
             n == Len(c)
             u == Tail(s)
             d == Tail(c)
             v == ReqsOf(d)
  <1>1. s \in Seq(Reqs) /\ Len(s) = n /\ \A i \in 1 .. n : s[i] = c[i].req
    BY ReqsIs
  <1>2. Head(c) = c[1] /\ d \in Seq(Bundles) /\ n \in Nat /\ n >= 1 /\ Len(d) = n - 1 /\ \A i \in 1 .. n - 1 : d[i] = c[i + 1]
    BY RestIs
  <1> HIDE DEF s
  <1>3. s # << >>
    BY <1>1, <1>2
  <1>4. Head(s) = s[1] /\ u \in Seq(Reqs) /\ Len(u) = n - 1 /\ \A i \in 1 .. n - 1 : u[i] = s[i + 1]
    BY <1>1, <1>3, RestIs
  <1> HIDE DEF d
  <1>5. v \in Seq(Reqs) /\ Len(v) = n - 1 /\ \A i \in 1 .. n - 1 : v[i] = d[i].req
    BY <1>2, ReqsIs
  <1> HIDE DEF n, u, v
  <1>6. \A i \in 1 .. n - 1 : u[i] = v[i]
    <2> SUFFICES ASSUME NEW i \in 1 .. n - 1 PROVE u[i] = v[i]
      OBVIOUS
    <2>1. i + 1 \in 1 .. n
      BY <1>2
    <2> QED  BY <2>1, <1>1, <1>2, <1>4, <1>5
  <1>7. u = v
    BY <1>4, <1>5, <1>6, <1>2, SeqEqual
  <1>8. Head(s) = Head(c).req
    BY <1>1, <1>2, <1>4
  <1> QED  BY <1>3, <1>7, <1>8 DEF s, u, v, d

\* The same about what the filter keeps.
LEMMA TagTyped ==
  ASSUME KeysFit, NEW r \in Reqs
  PROVE  TagOf(r) \in Tags /\ TagOf(r).op = r.op /\ TagOf(r).hash = HashOf(r)
  BY RequestFits DEF TagOf, Tags

LEMMA TagsIs ==
  ASSUME KeysFit, NEW c \in Seq(Reqs)
  PROVE  /\ TagsOf(c) \in Seq(Tags) /\ Len(TagsOf(c)) = Len(c)
         /\ \A i \in 1 .. Len(c) : TagsOf(c)[i] = TagOf(c[i])
  <1>1. Len(c) \in Nat /\ \A i \in 1 .. Len(c) : c[i] \in Reqs
    BY ElementOfSeq
  <1>2. \A i \in 1 .. Len(c) : TagOf(c[i]) \in Tags
    BY <1>1, TagTyped
  <1> QED  BY <1>1, <1>2 DEF TagsOf

LEMMA TagsGrow ==
  ASSUME KeysFit, NEW c \in Seq(Reqs), NEW x \in Reqs
  PROVE  TagsOf(Put(c, x)) = Put(TagsOf(c), TagOf(x))
  <1>1. Append(c, x) \in Seq(Reqs) /\ Len(c) \in Nat /\ Len(Append(c, x)) = Len(c) + 1
        /\ (\A i \in 1 .. Len(c) : Append(c, x)[i] = c[i]) /\ Append(c, x)[Len(c) + 1] = x
    BY LongerIs
  <1>2. TagOf(x) \in Tags
    BY TagTyped
  <1>3. /\ TagsOf(c) \in Seq(Tags) /\ Len(TagsOf(c)) = Len(c)
        /\ \A i \in 1 .. Len(c) : TagsOf(c)[i] = TagOf(c[i])
    BY TagsIs
  <1> DEFINE u == TagsOf(Append(c, x))
             v == Append(TagsOf(c), TagOf(x))
             n == Len(c)
             d == Append(c, x)
  <1>4. u \in Seq(Tags) /\ Len(u) = n + 1 /\ \A i \in 1 .. n + 1 : u[i] = TagOf(d[i])
    BY <1>1, TagsIs
  <1>5. v \in Seq(Tags) /\ Len(v) = n + 1 /\ (\A i \in 1 .. n : v[i] = TagsOf(c)[i]) /\ v[n + 1] = TagOf(x)
    BY <1>2, <1>3, LongerIs
  <1>6. n \in Nat /\ (\A i \in 1 .. n : d[i] = c[i]) /\ d[n + 1] = x /\ \A i \in 1 .. n : TagsOf(c)[i] = TagOf(c[i])
    BY <1>1, <1>3
  <1> HIDE DEF u, v, n, d
  <1>7. \A i \in 1 .. n + 1 : u[i] = v[i]
    <2> SUFFICES ASSUME NEW i \in 1 .. n + 1 PROVE u[i] = v[i]
      OBVIOUS
    <2>1. CASE i = n + 1
      BY <2>1, <1>4, <1>5, <1>6
    <2>2. CASE i # n + 1
      <3>1. i \in 1 .. n
        BY <2>2, <1>6
      <3> QED  BY <3>1, <1>4, <1>5, <1>6
    <2> QED  BY <2>1, <2>2
  <1>8. u = v
    BY <1>4, <1>5, <1>6, <1>7, SeqEqual
  <1> QED  BY <1>8 DEF u, v, Put

LEMMA TagsShrink ==
  ASSUME KeysFit, NEW c \in Seq(Reqs), c # << >>
  PROVE  /\ TagsOf(c) # << >> /\ Head(TagsOf(c)) = TagOf(Head(c)) /\ Tail(TagsOf(c)) = TagsOf(Tail(c))
  <1> DEFINE s == TagsOf(c)
             n == Len(c)
             u == Tail(s)
             d == Tail(c)
             v == TagsOf(d)
  <1>1. s \in Seq(Tags) /\ Len(s) = n /\ \A i \in 1 .. n : s[i] = TagOf(c[i])
    BY TagsIs
  <1>2. Head(c) = c[1] /\ d \in Seq(Reqs) /\ n \in Nat /\ n >= 1 /\ Len(d) = n - 1 /\ \A i \in 1 .. n - 1 : d[i] = c[i + 1]
    BY RestIs
  <1> HIDE DEF s
  <1>3. s # << >>
    BY <1>1, <1>2
  <1>4. Head(s) = s[1] /\ u \in Seq(Tags) /\ Len(u) = n - 1 /\ \A i \in 1 .. n - 1 : u[i] = s[i + 1]
    BY <1>1, <1>3, RestIs
  <1> HIDE DEF d
  <1>5. v \in Seq(Tags) /\ Len(v) = n - 1 /\ \A i \in 1 .. n - 1 : v[i] = TagOf(d[i])
    BY <1>2, TagsIs
  <1> HIDE DEF n, u, v
  <1>6. \A i \in 1 .. n - 1 : u[i] = v[i]
    <2> SUFFICES ASSUME NEW i \in 1 .. n - 1 PROVE u[i] = v[i]
      OBVIOUS
    <2>1. i + 1 \in 1 .. n
      BY <1>2
    <2> QED  BY <2>1, <1>1, <1>2, <1>4, <1>5
  <1>7. u = v
    BY <1>4, <1>5, <1>6, <1>2, SeqEqual
  <1>8. Head(s) = TagOf(Head(c))
    BY <1>1, <1>2, <1>4
  <1> QED  BY <1>3, <1>7, <1>8 DEF s, u, v, d

LEMMA OneTag ==
  ASSUME KeysFit, NEW r \in Reqs
  PROVE  TagsOf(<<r>>) = <<TagOf(r)>> /\ <<TagOf(r)>> \in Seq(Tags) /\ <<r>> \in Seq(Reqs)
  <1>1. TagOf(r) \in Tags /\ <<r>> \in Seq(Reqs)
    BY TagTyped
  <1>0. PICK o : o = <<r>>
    OBVIOUS
  <1> DEFINE u == TagsOf(o)
             v == <<TagOf(r)>>
  <1>5. o \in Seq(Reqs) /\ Len(o) = 1 /\ o[1] = r
    BY <1>0, <1>1
  <1>2. u \in Seq(Tags) /\ Len(u) = 1 /\ u[1] = TagOf(r)
    BY <1>5, TagsIs
  <1>3. v \in Seq(Tags) /\ Len(v) = 1 /\ v[1] = TagOf(r)
    BY <1>1
  <1> HIDE DEF u, v
  <1>4. u = v
    BY <1>2, <1>3, SeqEqual
  <1> QED  BY <1>0, <1>1, <1>3, <1>4 DEF u, v

LEMMA NoTags == TagsOf(<< >>) = << >> /\ ReqsOf(<< >>) = << >>
  BY DEF TagsOf, ReqsOf

\* The types of the three held requests.
LEMMA HeldTyped ==
  ASSUME MwTypes, QueueTypes
  PROVE  HeldReq \in Seq(Reqs) /\ OpenReq \in Seq(Reqs) /\ ParkedReq \in Seq(Reqs)
  BY DEF MwTypes, QueueTypes, HeldReq, OpenReq, ParkedReq

\* Nothing that memWrite's request blocks has been read by ht_compare.
LEMMA NoneBlocked ==
  ASSUME KeysFit, QueueTypes, MwTypes, FilterInv, HeldReq = <<mw.req>>, mw.req \in Reqs
  PROVE  \A i \in 1 .. Compared : fifo.comp2memWr[i].req \in Reqs /\ ~Blocks(TagOf(mw.req), TagOf(fifo.comp2memWr[i].req))
  <1>1. PICK P : FilterHolds(P)
    BY DEF FilterInv
  <1> DEFINE c == fifo.comp2memWr
             R == TagsOf(ReqsOf(c))
             D == TagsOf(fifo.memRd2comp)
             x == TagOf(mw.req)
  <1>2. c \in Seq(Bundles) /\ fifo.memRd2comp \in Seq(Reqs)
    BY DEF QueueTypes
  <1>3. ReqsOf(c) \in Seq(Reqs) /\ Len(ReqsOf(c)) = Len(c) /\ \A i \in 1 .. Len(c) : ReqsOf(c)[i] = c[i].req /\ c[i].req \in Reqs
    BY <1>2, ReqsIs
  <1>4. R \in Seq(Tags) /\ Len(R) = Len(c) /\ \A i \in 1 .. Len(c) : R[i] = TagOf(ReqsOf(c)[i])
    BY <1>3, TagsIs
  <1>5. D \in Seq(Tags)
    BY <1>2, TagsIs
  <1>6. x \in Tags /\ TagsOf(HeldReq) = <<x>>
    BY TagTyped, OneTag
  <1>7. PICK C : C = TagsOf(HeldReq)
    OBVIOUS
  <1> HIDE DEF R, D, x
  <1>8. C \in Seq(Tags) /\ Len(C) = 1 /\ C[1] = x
    BY <1>6, <1>7
  <1>9. P \in Seq(Tags) /\ Chain(filter, P, C, R, << >>, D) /\ << >> \in Seq(Tags)
    BY <1>1, <1>7 DEF FilterHolds, R, D
  <1>11. Precedes(filter, C[1], R)
    BY <1>4, <1>5, <1>8, <1>9, ChainPlaces
  <1>10. \A i \in 1 .. Len(c) : ~Blocks(x, R[i])
    BY <1>4, <1>8, <1>11 DEF FilterInv, Precedes
  <1> QED  BY <1>3, <1>4, <1>10 DEF Compared, x

-----------------------------------------------------------------------------
(* Parts of the invariant that a step leaves alone.                        *)

LEMMA FilterFrame ==
  ASSUME FilterInv, filter' = filter, fifo'.dec2cc = fifo.dec2cc, fifo'.comp2memWr = fifo.comp2memWr,
         fifo'.memRd2comp = fifo.memRd2comp, HeldReq' = HeldReq
  PROVE  FilterInv'
  <1>1. PICK P : FilterHolds(P)
    BY DEF FilterInv
  <1>2. FilterHolds(P)'
    BY <1>1 DEF FilterHolds
  <1> QED  BY <1>2 DEF FilterInv

LEMMA OrderFrame ==
  ASSUME OrderInv, fifo'.in2md = fifo.in2md, fifo'.in2cc = fifo.in2cc, fifo'.comp2memWr = fifo.comp2memWr,
         fifo'.memRd2comp = fifo.memRd2comp, cc' = cc, OpenReq' = OpenReq
  PROVE  OrderInv'
  BY DEF OrderInv, ParkedReq

\* A bucket that is not written.
Untouched(r) == \A w \in 0 .. Words(r) : mem'[Base(r) + w] = mem[Base(r) + w]

LEMMA CopyStays ==
  ASSUME KeysFit, NEW r \in Reqs, Untouched(r), NEW F, NEW M, CopyInv(r, F, M)
  PROVE  CopyInv(r, F, M)' /\ MemRead(r)' = MemRead(r)
  <1>1. Words(r) \in Nat /\ Base(r) \in Nat
    BY RequestFits
  <1>2. \A i \in 1 .. Words(r) + 1 : mem'[Base(r) + i - 1] = mem[Base(r) + i - 1]
    <2> SUFFICES ASSUME NEW i \in 1 .. Words(r) + 1
                 PROVE  mem'[Base(r) + i - 1] = mem[Base(r) + i - 1]
      OBVIOUS
    <2>1. i - 1 \in 0 .. Words(r) /\ Base(r) + (i - 1) = Base(r) + i - 1
      BY <1>1
    <2> QED  BY <2>1 DEF Untouched
  <1>3. MemRead(r)' = MemRead(r)
    BY <1>2 DEF MemRead, Words, Base
  <1>4. FreeBins(MemRead(r))' = FreeBins(MemRead(r)) /\ MatchBins(r, MemRead(r))' = MatchBins(r, MemRead(r))
    BY <1>3 DEF FreeBins, MatchBins, Words
  <1> QED  BY <1>3, <1>4 DEF CopyInv

LEMMA CompareFrame ==
  ASSUME CompareInv, fifo'.comp2memWr = fifo.comp2memWr, mem' = mem,
         mw'.state = "MW_EVAL" => mw' = mw
  PROVE  CompareInv'
  <1>1. \A r, F, M : CopyInv(r, F, M)' <=> CopyInv(r, F, M)
    BY DEF CopyInv, FreeBins, MatchBins, MemRead, Words, Base
  <1> QED  BY <1>1 DEF CompareInv, Compared

LEMMA StreamFrame ==
  ASSUME StreamInv, fifo'.comp2memWrKey = fifo.comp2memWrKey, fifo'.comp2memWrMemData = fifo.comp2memWrMemData,
         fifo'.comp2memWr = fifo.comp2memWr, mw' = mw, mem' = mem
  PROVE  StreamInv'
  <1>1. KeyLeft' = KeyLeft
    BY DEF KeyLeft
  <1>2. KeyNow' = KeyNow
    BY <1>1 DEF KeyNow
  <1>3. PICK cur : DataHolds(cur)
    BY DEF StreamInv
  <1>4. DataNow(cur)'
    BY <1>1, <1>3 DEF DataHolds, DataNow, MemRead
  <1>5. DataOf(fifo.comp2memWr)' = DataOf(fifo.comp2memWr)
    BY DEF DataOf, DataSeq, MemRead
  <1>6. DataHolds(cur)'
    BY <1>3, <1>4, <1>5 DEF DataHolds
  <1> QED  BY <1>2, <1>6 DEF StreamInv

LEMMA ContentFrame ==
  ASSUME ContentInv, mw' = mw, mem' = mem, out' = out
  PROVE  ContentInv'
  <1>1. \A k, b : Stores(k, b)' <=> Stores(k, b)
    BY DEF Stores, HeadOf, Settled, KeyWordsOf, Words, Base
  <1>2. \A k : Latest(k)' = Latest(k)
    BY DEF Latest, LastChange, Changes
  <1>3. \A k : HeadOf(k)' = HeadOf(k)
    BY DEF HeadOf
  <1>4. \A k : KeyInv(k)' <=> KeyInv(k)
    BY <1>1, <1>2, <1>3 DEF KeyInv
  <1> QED  BY <1>4 DEF ContentInv

LEMMA MwFrame ==
  ASSUME MwTypes, mw' = mw, mem' = mem
  PROVE  MwTypes'
  BY DEF MwTypes, Words, Base

\* A step of the stages in front of memWrite.
LEMMA FrontFrame ==
  ASSUME FlowInv, mw' = mw, mem' = mem, out' = out, fifo'.comp2memWrKey = fifo.comp2memWrKey,
         fifo'.comp2memWrMemData = fifo.comp2memWrMemData, fifo'.comp2memWr = fifo.comp2memWr
  PROVE  MwTypes' /\ CompareInv' /\ StreamInv' /\ ContentInv' /\ HeldReq' = HeldReq /\ OpenReq' = OpenReq
  BY MwFrame, CompareFrame, StreamFrame, ContentFrame DEF FlowInv, HeldReq, OpenReq

-----------------------------------------------------------------------------
(* The stages in front of memWrite.                                        *)

LEMMA DeliverFlow ==
  ASSUME KeysFit, FlowInv, Deliver
  PROVE  FlowInv'
  <1>1. PICK r \in Reqs : InputLogic(r)
    BY TableAssumption DEF Deliver, Reqs, OpNames
  <1>2. QueueTypes /\ OrderInv /\ FilterInv /\ MwTypes
    BY DEF FlowInv
  <1>3. /\ fifo' = [q \in Fifos |-> fifo'[q]]
        /\ fifo'.in2md = Append(fifo.in2md, r) /\ fifo'.in2cc = Append(fifo.in2cc, r)
        /\ fifo'.memRd2comp = fifo.memRd2comp /\ fifo'.comp2memWr = fifo.comp2memWr
        /\ fifo'.comp2memWrKey = fifo.comp2memWrKey /\ fifo'.comp2memWrMemData = fifo.comp2memWrMemData
        /\ fifo'.dec2cc = fifo.dec2cc
    BY <1>1, <1>2 DEF InputLogic, QueueTypes, Fifos
  <1>4. mw' = mw /\ mem' = mem /\ out' = out /\ cc' = cc /\ filter' = filter
    BY DEF Deliver
  <1>5. MwTypes' /\ CompareInv' /\ StreamInv' /\ ContentInv' /\ HeldReq' = HeldReq /\ OpenReq' = OpenReq
    BY <1>3, <1>4, FrontFrame
  <1>6. FilterInv'
    BY <1>2, <1>3, <1>4, <1>5, FilterFrame
  <1>7. QueueTypes'
    BY <1>2, <1>3, <1>4, LongerIs DEF QueueTypes
  <1>8. OrderInv'
    <2>1. OpenReq \in Seq(Reqs) /\ ParkedReq \in Seq(Reqs) /\ fifo.memRd2comp \in Seq(Reqs) /\ fifo.in2cc \in Seq(Reqs)
          /\ ReqsOf(fifo.comp2memWr) \in Seq(Reqs)
      BY <1>2, HeldTyped, ReqsIs DEF QueueTypes
    <2>2. Chain(Put(fifo.in2md, r), OpenReq, ReqsOf(fifo.comp2memWr), fifo.memRd2comp, ParkedReq, Put(fifo.in2cc, r))
      BY <1>2, <2>1, ChainGrows DEF OrderInv
    <2>3. ParkedReq' = ParkedReq
      BY <1>4 DEF ParkedReq
    <2> QED  BY <1>3, <1>5, <2>2, <2>3 DEF OrderInv, Put
  <1> QED  BY <1>5, <1>6, <1>7, <1>8 DEF FlowInv

\* A pop.
LEMMA PopFlow ==
  ASSUME KeysFit, FlowInv, build.filters, Ready("dec2cc"), filter' = FilterPop, fifo' = [fifo EXCEPT !.dec2cc = Tail(@)],
         cc' = cc, mw' = mw, mem' = mem, out' = out
  PROVE  FlowInv'
  <1>2. QueueTypes /\ OrderInv /\ FilterInv /\ MwTypes
    BY DEF FlowInv
  <1>3. /\ fifo' = [q \in Fifos |-> fifo'[q]]
        /\ fifo'.in2md = fifo.in2md /\ fifo'.in2cc = fifo.in2cc
        /\ fifo'.memRd2comp = fifo.memRd2comp /\ fifo'.comp2memWr = fifo.comp2memWr
        /\ fifo'.comp2memWrKey = fifo.comp2memWrKey /\ fifo'.comp2memWrMemData = fifo.comp2memWrMemData
        /\ fifo'.dec2cc = Tail(fifo.dec2cc)
    BY <1>2 DEF QueueTypes, Fifos
  <1>5. MwTypes' /\ CompareInv' /\ StreamInv' /\ ContentInv' /\ HeldReq' = HeldReq /\ OpenReq' = OpenReq
    BY <1>3, FrontFrame
  <1>6. OrderInv'
    BY <1>2, <1>3, <1>5, OrderFrame
  <1>7. PICK P : FilterHolds(P)
    BY <1>2 DEF FilterInv
  <1>8. fifo.dec2cc \in Seq({1}) /\ fifo.dec2cc # << >> /\ filter \in Seq(Tags) /\ filter' = Tail(filter)
    BY <1>2 DEF QueueTypes, Ready, FilterPop
  <1>9. P \in Seq(Tags) /\ Len(P) = Len(fifo.dec2cc) /\ P # << >>
    <2>1. Len(fifo.dec2cc) # 0
      BY <1>8, EmptySeq
    <2> QED  BY <1>7, <2>1 DEF FilterHolds
  <1> DEFINE C == TagsOf(HeldReq)
             R == TagsOf(ReqsOf(fifo.comp2memWr))
             D == TagsOf(fifo.memRd2comp)
  <1>10. C \in Seq(Tags) /\ R \in Seq(Tags) /\ D \in Seq(Tags) /\ << >> \in Seq(Tags)
    BY <1>2, HeldTyped, ReqsIs, TagsIs DEF QueueTypes
  <1>11. Chain(filter, P, C, R, << >>, D)
    BY <1>7 DEF FilterHolds
  <1> HIDE DEF C, R, D
  <1>12. filter # << >> /\ Chain(Tail(filter), Tail(P), C, R, << >>, D)
    BY <1>9, <1>10, <1>11, ChainPops
  <1>13. Tail(P) \in Seq(Tags) /\ Len(Tail(P)) = Len(Tail(fifo.dec2cc)) /\ Tail(fifo.dec2cc) \in Seq({1})
    BY <1>8, <1>9, RestIs
  <1>14. FilterHolds(Tail(P))'
    BY <1>3, <1>5, <1>8, <1>12, <1>13 DEF FilterHolds, C, R, D
  <1>15. filter' \in Seq(Tags) /\ Len(filter) \in Nat /\ Len(filter') = Len(filter) - 1 /\ \A i \in 1 .. Len(filter) - 1 : filter'[i] = filter[i + 1]
    BY <1>8, <1>12, RestIs
  <1>16. \A i, j \in DOMAIN filter' : i < j => ~Blocks(filter'[i], filter'[j])
    <2> SUFFICES ASSUME NEW i \in DOMAIN filter', NEW j \in DOMAIN filter', i < j
                 PROVE  ~Blocks(filter'[i], filter'[j])
      OBVIOUS
    <2>1. i \in 1 .. Len(filter) - 1 /\ j \in 1 .. Len(filter) - 1 /\ DOMAIN filter = 1 .. Len(filter)
      BY <1>8, <1>15
    <2>2. i + 1 \in DOMAIN filter /\ j + 1 \in DOMAIN filter /\ i + 1 < j + 1
      BY <2>1, <1>15
    <2> QED  BY <2>1, <2>2, <1>2, <1>15 DEF FilterInv
  <1>17. FilterInv'
    BY <1>14, <1>16 DEF FilterInv, Blocks
  <1>18. QueueTypes'
    BY <1>2, <1>3, <1>13, <1>15 DEF QueueTypes
  <1> QED  BY <1>5, <1>6, <1>17, <1>18 DEF FlowInv

\* A push.
LEMMA PushFilter ==
  ASSUME KeysFit, build.filters, QueueTypes, MwTypes, FilterInv, NEW r \in Reqs, ~Compare(r), filter' = FilterPush(r),
         fifo'.dec2cc = fifo.dec2cc, fifo'.comp2memWr = fifo.comp2memWr, fifo'.memRd2comp = Append(fifo.memRd2comp, r),
         HeldReq' = HeldReq
  PROVE  FilterInv' /\ filter' \in Seq(Tags)
  <1>1. PICK P : FilterHolds(P)
    BY DEF FilterInv
  <1>2. filter \in Seq(Tags) /\ TagOf(r) \in Tags /\ filter' = Append(filter, TagOf(r))
    BY TagTyped DEF QueueTypes, FilterPush, TagOf
  <1> DEFINE C == TagsOf(HeldReq)
             R == TagsOf(ReqsOf(fifo.comp2memWr))
             D == TagsOf(fifo.memRd2comp)
  <1>3. C \in Seq(Tags) /\ R \in Seq(Tags) /\ D \in Seq(Tags) /\ << >> \in Seq(Tags)
    BY HeldTyped, ReqsIs, TagsIs DEF QueueTypes
  <1>4. TagsOf(Put(fifo.memRd2comp, r)) = Put(D, TagOf(r))
    BY TagsGrow DEF QueueTypes
  <1>5. P \in Seq(Tags) /\ Chain(filter, P, C, R, << >>, D)
    BY <1>1 DEF FilterHolds
  <1> HIDE DEF C, R, D
  <1>6. Chain(Put(filter, TagOf(r)), P, C, R, << >>, Put(D, TagOf(r)))
    BY <1>2, <1>3, <1>5, ChainGrows
  <1>7. Chain(filter', P, C, R, << >>, TagsOf(fifo'.memRd2comp))
    BY <1>2, <1>4, <1>6 DEF Put
  <1>8. FilterHolds(P)'
    BY <1>1, <1>7 DEF FilterHolds, C, R
  <1>9. filter' \in Seq(Tags) /\ Len(filter) \in Nat /\ Len(filter') = Len(filter) + 1
        /\ (\A i \in 1 .. Len(filter) : filter'[i] = filter[i]) /\ filter'[Len(filter) + 1] = TagOf(r)
    BY <1>2, LongerIs
  <1>10. \A i \in 1 .. Len(filter) : ~Blocks(filter[i], TagOf(r))
    BY <1>2, TagTyped DEF Compare, Blocks
  <1>11. \A i, j \in DOMAIN filter' : i < j => ~Blocks(filter'[i], filter'[j])
    <2> SUFFICES ASSUME NEW i \in DOMAIN filter', NEW j \in DOMAIN filter', i < j
                 PROVE  ~Blocks(filter'[i], filter'[j])
      OBVIOUS
    <2>1. i \in 1 .. Len(filter) + 1 /\ j \in 1 .. Len(filter) + 1 /\ DOMAIN filter = 1 .. Len(filter)
      BY <1>2, <1>9
    <2>2. i \in 1 .. Len(filter)
      BY <2>1, <1>9
    <2>3. CASE j = Len(filter) + 1
      BY <2>2, <2>3, <1>9, <1>10
    <2>4. CASE j # Len(filter) + 1
      <3>1. j \in 1 .. Len(filter)
        BY <2>1, <2>4, <1>9
      <3> QED  BY <3>1, <2>1, <2>2, <1>9 DEF FilterInv
    <2> QED  BY <2>3, <2>4
  <1> QED  BY <1>8, <1>9, <1>11 DEF FilterInv, Blocks

\* A request that must wait.
LEMMA ParkFlow ==
  ASSUME KeysFit, FlowInv, cc.state = "CC_IDLE", Ready("in2cc"), cc' = [state |-> "CC_WAIT", req |-> Head(fifo.in2cc)],
         fifo' = [fifo EXCEPT !.in2cc = Tail(@), !.hash2cc = Tail(@)], filter' = filter, mw' = mw, mem' = mem, out' = out
  PROVE  FlowInv'
  <1>2. QueueTypes /\ OrderInv /\ FilterInv /\ MwTypes
    BY DEF FlowInv
  <1>3. /\ fifo' = [q \in Fifos |-> fifo'[q]]
        /\ fifo'.in2md = fifo.in2md /\ fifo'.in2cc = Tail(fifo.in2cc)
        /\ fifo'.memRd2comp = fifo.memRd2comp /\ fifo'.comp2memWr = fifo.comp2memWr
        /\ fifo'.comp2memWrKey = fifo.comp2memWrKey /\ fifo'.comp2memWrMemData = fifo.comp2memWrMemData
        /\ fifo'.dec2cc = fifo.dec2cc
    BY <1>2 DEF QueueTypes, Fifos
  <1>5. MwTypes' /\ CompareInv' /\ StreamInv' /\ ContentInv' /\ HeldReq' = HeldReq /\ OpenReq' = OpenReq
    BY <1>3, FrontFrame
  <1>6. FilterInv'
    BY <1>2, <1>3, <1>5, FilterFrame
  <1>7. fifo.in2cc \in Seq(Reqs) /\ fifo.in2cc # << >> /\ Head(fifo.in2cc) \in Reqs /\ Tail(fifo.in2cc) \in Seq(Reqs)
    BY <1>2, RestIs DEF QueueTypes, Ready
  <1>8. QueueTypes'
    BY <1>2, <1>3, <1>7 DEF QueueTypes
  <1>9. OpenReq \in Seq(Reqs) /\ ParkedReq \in Seq(Reqs) /\ fifo.memRd2comp \in Seq(Reqs) /\ ReqsOf(fifo.comp2memWr) \in Seq(Reqs)
    BY <1>2, HeldTyped, ReqsIs DEF QueueTypes
  <1>10. Chain(fifo.in2md, OpenReq, ReqsOf(fifo.comp2memWr), fifo.memRd2comp, Put(ParkedReq, Head(fifo.in2cc)), Tail(fifo.in2cc))
    BY <1>2, <1>7, <1>9, ChainMoves DEF OrderInv
  <1>11. ParkedReq' = Put(ParkedReq, Head(fifo.in2cc))
    BY DEF ParkedReq, Put
  <1>12. OrderInv'
    BY <1>3, <1>5, <1>10, <1>11 DEF OrderInv
  <1> QED  BY <1>5, <1>6, <1>8, <1>12 DEF FlowInv

\* A request that need not wait.
LEMMA PassFlow ==
  ASSUME KeysFit, FlowInv, build.filters, cc.state = "CC_IDLE", Ready("in2cc"), ~Compare(Head(fifo.in2cc)), Push(Head(fifo.in2cc)),
         fifo' = [fifo EXCEPT !.in2cc = Tail(@), !.hash2cc = Tail(@), !.memRd2comp = Append(@, Head(fifo.in2cc))],
         mw' = mw, mem' = mem, out' = out
  PROVE  FlowInv'
  <1> DEFINE r == Head(fifo.in2cc)
  <1>2. QueueTypes /\ OrderInv /\ FilterInv /\ MwTypes
    BY DEF FlowInv
  <1>3. /\ fifo' = [q \in Fifos |-> fifo'[q]]
        /\ fifo'.in2md = fifo.in2md /\ fifo'.in2cc = Tail(fifo.in2cc)
        /\ fifo'.memRd2comp = Append(fifo.memRd2comp, r) /\ fifo'.comp2memWr = fifo.comp2memWr
        /\ fifo'.comp2memWrKey = fifo.comp2memWrKey /\ fifo'.comp2memWrMemData = fifo.comp2memWrMemData
        /\ fifo'.dec2cc = fifo.dec2cc
    BY <1>2 DEF QueueTypes, Fifos
  <1>4. filter' = FilterPush(r) /\ cc'.state = "CC_IDLE"
    BY DEF Push, Idle
  <1>5. MwTypes' /\ CompareInv' /\ StreamInv' /\ ContentInv' /\ HeldReq' = HeldReq /\ OpenReq' = OpenReq
    BY <1>3, FrontFrame
  <1>7. fifo.in2cc \in Seq(Reqs) /\ fifo.in2cc # << >> /\ r \in Reqs /\ Tail(fifo.in2cc) \in Seq(Reqs)
    BY <1>2, RestIs DEF QueueTypes, Ready
  <1>6. FilterInv' /\ filter' \in Seq(Tags)
    BY <1>2, <1>3, <1>4, <1>5, <1>7, PushFilter
  <1>8. QueueTypes'
    <2>1. Append(fifo.memRd2comp, r) \in Seq(Reqs)
      BY <1>2, <1>7, LongerIs DEF QueueTypes
    <2> HIDE DEF r
    <2> QED  BY <1>2, <1>3, <1>4, <1>6, <1>7, <2>1 DEF QueueTypes
  <1>9. OpenReq \in Seq(Reqs) /\ ParkedReq = << >> /\ fifo.memRd2comp \in Seq(Reqs) /\ ReqsOf(fifo.comp2memWr) \in Seq(Reqs)
    BY <1>2, HeldTyped, ReqsIs DEF QueueTypes, ParkedReq
  <1>10. PICK t : t = Put(ParkedReq, r)
    OBVIOUS
  <1>11. t \in Seq(Reqs) /\ t # << >> /\ Head(t) = r /\ Tail(t) = << >> /\ ParkedReq \in Seq(Reqs)
    BY <1>7, <1>9, <1>10 DEF Put
  <1>12. Chain(fifo.in2md, OpenReq, ReqsOf(fifo.comp2memWr), fifo.memRd2comp, t, Tail(fifo.in2cc))
    BY <1>2, <1>7, <1>9, <1>10, <1>11, ChainMoves DEF OrderInv
  <1>13. Chain(fifo.in2md, OpenReq, ReqsOf(fifo.comp2memWr), Put(fifo.memRd2comp, r), << >>, Tail(fifo.in2cc))
    <2>1. Chain(fifo.in2md, OpenReq, ReqsOf(fifo.comp2memWr), Put(fifo.memRd2comp, Head(t)), Tail(t), Tail(fifo.in2cc))
      BY <1>7, <1>9, <1>11, <1>12, ChainMoves
    <2> QED  BY <1>11, <2>1
  <1>14. ParkedReq' = << >>
    BY <1>4 DEF ParkedReq
  <1>15. OrderInv'
    BY <1>3, <1>5, <1>13, <1>14 DEF OrderInv, Put
  <1> QED  BY <1>5, <1>6, <1>8, <1>15 DEF FlowInv

\* A request that has waited.
LEMMA UnparkFlow ==
  ASSUME KeysFit, FlowInv, build.filters, cc.state = "CC_WAIT", ~Compare(cc.req), Push(cc.req),
         fifo' = [fifo EXCEPT !.memRd2comp = Append(@, cc.req)], mw' = mw, mem' = mem, out' = out
  PROVE  FlowInv'
  <1> DEFINE r == cc.req
  <1>2. QueueTypes /\ OrderInv /\ FilterInv /\ MwTypes
    BY DEF FlowInv
  <1>3. /\ fifo' = [q \in Fifos |-> fifo'[q]]
        /\ fifo'.in2md = fifo.in2md /\ fifo'.in2cc = fifo.in2cc
        /\ fifo'.memRd2comp = Append(fifo.memRd2comp, r) /\ fifo'.comp2memWr = fifo.comp2memWr
        /\ fifo'.comp2memWrKey = fifo.comp2memWrKey /\ fifo'.comp2memWrMemData = fifo.comp2memWrMemData
        /\ fifo'.dec2cc = fifo.dec2cc
    BY <1>2 DEF QueueTypes, Fifos
  <1>4. filter' = FilterPush(r) /\ cc'.state = "CC_IDLE"
    BY DEF Push, Idle
  <1>5. MwTypes' /\ CompareInv' /\ StreamInv' /\ ContentInv' /\ HeldReq' = HeldReq /\ OpenReq' = OpenReq
    BY <1>3, FrontFrame
  <1>7. fifo.in2cc \in Seq(Reqs) /\ r \in Reqs
    BY <1>2 DEF QueueTypes
  <1>6. FilterInv' /\ filter' \in Seq(Tags)
    BY <1>2, <1>3, <1>4, <1>5, <1>7, PushFilter
  <1>8. QueueTypes'
    <2>1. Append(fifo.memRd2comp, r) \in Seq(Reqs)
      BY <1>2, <1>7, LongerIs DEF QueueTypes
    <2> HIDE DEF r
    <2> QED  BY <1>2, <1>3, <1>4, <1>6, <1>7, <2>1 DEF QueueTypes
  <1>9. OpenReq \in Seq(Reqs) /\ ParkedReq = <<r>> /\ fifo.memRd2comp \in Seq(Reqs) /\ ReqsOf(fifo.comp2memWr) \in Seq(Reqs)
    BY <1>2, HeldTyped, ReqsIs DEF QueueTypes, ParkedReq
  <1>10. PICK t : t = ParkedReq
    OBVIOUS
  <1>11. t \in Seq(Reqs) /\ t # << >> /\ Head(t) = r /\ Tail(t) = << >>
    BY <1>7, <1>9, <1>10
  <1>12. Chain(fifo.in2md, OpenReq, ReqsOf(fifo.comp2memWr), fifo.memRd2comp, t, fifo.in2cc)
    BY <1>2, <1>10 DEF OrderInv
  <1>13. Chain(fifo.in2md, OpenReq, ReqsOf(fifo.comp2memWr), Put(fifo.memRd2comp, r), << >>, fifo.in2cc)
    <2>1. Chain(fifo.in2md, OpenReq, ReqsOf(fifo.comp2memWr), Put(fifo.memRd2comp, Head(t)), Tail(t), fifo.in2cc)
      BY <1>7, <1>9, <1>11, <1>12, ChainMoves
    <2> QED  BY <1>11, <2>1
  <1>14. ParkedReq' = << >>
    BY <1>4 DEF ParkedReq
  <1>15. OrderInv'
    BY <1>3, <1>5, <1>13, <1>14 DEF OrderInv, Put
  <1> QED  BY <1>5, <1>6, <1>8, <1>15 DEF FlowInv

LEMMA ControlFlow ==
  ASSUME KeysFit, FlowInv, build.filters, ConcurrencyControl
  PROVE  FlowInv'
  <1>1. mw' = mw /\ mem' = mem /\ out' = out
    BY DEF ConcurrencyControl
  <1> DEFINE r == Head(fifo.in2cc)
  <1>2. CASE /\ Ready("dec2cc") /\ filter' = FilterPop /\ fifo' = [fifo EXCEPT !.dec2cc = Tail(@)] /\ cc' = cc
    BY <1>1, <1>2, PopFlow
  <1>3. CASE /\ cc.state = "CC_IDLE" /\ Ready("in2cc")
             /\ cc' = [state |-> "CC_WAIT", req |-> r]
             /\ fifo' = [fifo EXCEPT !.in2cc = Tail(@), !.hash2cc = Tail(@)] /\ filter' = filter
    BY <1>1, <1>3, ParkFlow
  <1>4. CASE /\ cc.state = "CC_IDLE" /\ Ready("in2cc") /\ ~Compare(r) /\ Push(r)
             /\ fifo' = [fifo EXCEPT !.in2cc = Tail(@), !.hash2cc = Tail(@), !.memRd2comp = Append(@, r)]
    BY <1>1, <1>4, PassFlow
  <1>5. CASE /\ cc.state = "CC_WAIT" /\ ~Compare(cc.req) /\ Push(cc.req)
             /\ fifo' = [fifo EXCEPT !.memRd2comp = Append(@, cc.req)]
    BY <1>1, <1>5, UnparkFlow
  <1> QED  BY <1>2, <1>3, <1>4, <1>5, Zenon DEF ConcurrencyControl

-----------------------------------------------------------------------------
(* What the streams to memWrite carry.                                     *)

LEMMA SeqGrows ==
  ASSUME NEW S, NEW s \in Seq(S), NEW x \in S, NEW u \in Seq(S), Len(u) = Len(s) + 1,
         \A i \in 1 .. Len(s) : u[i] = s[i], u[Len(s) + 1] = x
  PROVE  u = Append(s, x)
  <1> DEFINE v == Append(s, x)
             n == Len(s)
  <1>1. v \in Seq(S) /\ n \in Nat /\ Len(v) = n + 1 /\ (\A i \in 1 .. n : v[i] = s[i]) /\ v[n + 1] = x
    BY LongerIs
  <1>2. Len(u) = n + 1 /\ (\A i \in 1 .. n : u[i] = s[i]) /\ u[n + 1] = x
    OBVIOUS
  <1> HIDE DEF v, n
  <1>3. \A i \in 1 .. n + 1 : u[i] = v[i]
    <2> SUFFICES ASSUME NEW i \in 1 .. n + 1 PROVE u[i] = v[i]
      OBVIOUS
    <2>1. i = n + 1 \/ i \in 1 .. n
      BY <1>1
    <2> QED  BY <2>1, <1>1, <1>2
  <1>4. u = v
    BY <1>1, <1>2, <1>3, SeqEqual
  <1> QED  BY <1>4 DEF v

LEMMA SeqShrinks ==
  ASSUME NEW S, NEW s \in Seq(S), s # << >>, NEW u \in Seq(S), Len(u) = Len(s) - 1,
         \A i \in 1 .. Len(s) - 1 : u[i] = s[i + 1]
  PROVE  u = Tail(s)
  <1> DEFINE v == Tail(s)
             n == Len(s)
  <1>1. v \in Seq(S) /\ n \in Nat /\ Len(v) = n - 1 /\ (\A i \in 1 .. n - 1 : v[i] = s[i + 1])
    BY RestIs
  <1>2. Len(u) = n - 1 /\ (\A i \in 1 .. n - 1 : u[i] = s[i + 1])
    OBVIOUS
  <1> HIDE DEF v, n
  <1>3. \A i \in 1 .. n - 1 : u[i] = v[i]
    BY <1>1, <1>2
  <1>4. u = v
    BY <1>1, <1>2, <1>3, SeqEqual
  <1> QED  BY <1>4 DEF v

MemTyped == mem \in [MemWords -> Rows]

LEMMA KeyWordTyped ==
  ASSUME KeysFit, NEW r \in Reqs, NEW w \in Nat
  PROVE  KeyWord(r, w) \in KeyItems
  <1>1. r.key \in Nat
    BY RequestFits, TableAssumption
  <1> QED  BY <1>1 DEF KeyWord, KeyItems, Cells, Zero

LEMMA KeySeqIs ==
  ASSUME KeysFit, NEW r \in Reqs
  PROVE  /\ KeySeq(r) \in Seq(KeyItems) /\ Len(KeySeq(r)) = KeyCount(r) /\ KeyCount(r) \in Nat /\ KeyCount(r) >= 1
         /\ \A w \in 1 .. KeyCount(r) : KeySeq(r)[w] = KeyWord(r, w)
  <1>1. KeyCount(r) \in Nat /\ KeyCount(r) >= 1
    BY RequestFits DEF KeyCount
  <1>2. \A w \in 1 .. KeyCount(r) : KeyWord(r, w) \in KeyItems
    BY <1>1, KeyWordTyped
  <1> QED  BY <1>1, <1>2 DEF KeySeq

LEMMA MemReadIs ==
  ASSUME KeysFit, MemTyped, NEW r \in Reqs
  PROVE  /\ MemRead(r) \in Seq(Rows) /\ Len(MemRead(r)) = Words(r) + 1
         /\ MemRead(r)[1] = mem[Base(r)] /\ mem[Base(r)] \in Rows
         /\ \A i \in 1 .. Words(r) + 1 : MemRead(r)[i] = mem[Base(r) + i - 1] /\ mem[Base(r) + i - 1] \in Rows
  <1>1. Words(r) \in Nat /\ Base(r) \in Nat /\ \A w \in 0 .. Words(r) : Base(r) + w \in MemWords
    BY RequestFits
  <1>2. \A i \in 1 .. Words(r) + 1 : mem[Base(r) + i - 1] \in Rows
    <2> SUFFICES ASSUME NEW i \in 1 .. Words(r) + 1
                 PROVE  mem[Base(r) + i - 1] \in Rows
      OBVIOUS
    <2>1. i - 1 \in 0 .. Words(r) /\ Base(r) + (i - 1) = Base(r) + i - 1
      BY <1>1
    <2> QED  BY <2>1, <1>1 DEF MemTyped
  <1>3. 1 \in 1 .. Words(r) + 1 /\ Base(r) + 1 - 1 = Base(r)
    BY <1>1
  <1>4. MemRead(r) \in Seq(Rows) /\ Len(MemRead(r)) = Words(r) + 1 /\ \A i \in 1 .. Words(r) + 1 : MemRead(r)[i] = mem[Base(r) + i - 1]
    BY <1>1, <1>2, SMTT(20) DEF MemRead
  <1> QED  BY <1>2, <1>3, <1>4

LEMMA DataSeqTyped ==
  ASSUME KeysFit, MemTyped, NEW r \in Reqs
  PROVE  DataSeq(r) \in Seq(Rows)
  BY MemReadIs DEF DataSeq

LEMMA KeysIs ==
  ASSUME KeysFit, NEW c \in Seq(Bundles)
  PROVE  /\ KeysOf(c) \in Seq(Seq(KeyItems)) /\ Len(KeysOf(c)) = Len(c)
         /\ \A i \in 1 .. Len(c) : KeysOf(c)[i] = KeySeq(c[i].req)
  <1>1. Len(c) \in Nat /\ \A i \in 1 .. Len(c) : c[i].req \in Reqs
    BY ReqsIs
  <1>2. \A i \in 1 .. Len(c) : KeySeq(c[i].req) \in Seq(KeyItems)
    BY <1>1, KeySeqIs
  <1> QED  BY <1>1, <1>2 DEF KeysOf

LEMMA DataIs ==
  ASSUME KeysFit, MemTyped, NEW c \in Seq(Bundles)
  PROVE  /\ DataOf(c) \in Seq(Seq(Rows)) /\ Len(DataOf(c)) = Len(c)
         /\ \A i \in 1 .. Len(c) : DataOf(c)[i] = DataSeq(c[i].req)
  <1>1. Len(c) \in Nat /\ \A i \in 1 .. Len(c) : c[i].req \in Reqs
    BY ReqsIs
  <1>2. \A i \in 1 .. Len(c) : DataSeq(c[i].req) \in Seq(Rows)
    BY <1>1, DataSeqTyped
  <1> QED  BY <1>1, <1>2 DEF DataOf

LEMMA FramesGrow ==
  ASSUME KeysFit, MemTyped, NEW c \in Seq(Bundles), NEW x \in Bundles, NEW d, d = Append(c, x)
  PROVE  KeysOf(d) = Append(KeysOf(c), KeySeq(x.req)) /\ DataOf(d) = Append(DataOf(c), DataSeq(x.req))
  <1> DEFINE n == Len(c)
             ku == KeysOf(d)
             ks0 == KeysOf(c)
             du == DataOf(d)
             ds0 == DataOf(c)
             kx == KeySeq(x.req)
             dx == DataSeq(x.req)
  <1>1. d \in Seq(Bundles) /\ n \in Nat /\ Len(d) = n + 1 /\ (\A i \in 1 .. n : d[i] = c[i]) /\ d[n + 1] = x
    BY LongerIs
  <1>2. x.req \in Reqs
    BY DEF Bundles
  <1>3. kx \in Seq(KeyItems) /\ dx \in Seq(Rows)
    BY <1>2, KeySeqIs, DataSeqTyped
  <1>4. ku \in Seq(Seq(KeyItems)) /\ Len(ku) = n + 1 /\ \A i \in 1 .. n + 1 : ku[i] = KeySeq(d[i].req)
    BY <1>1, KeysIs
  <1>5. ks0 \in Seq(Seq(KeyItems)) /\ Len(ks0) = n /\ \A i \in 1 .. n : ks0[i] = KeySeq(c[i].req)
    BY KeysIs
  <1>6. du \in Seq(Seq(Rows)) /\ Len(du) = n + 1 /\ \A i \in 1 .. n + 1 : du[i] = DataSeq(d[i].req)
    BY <1>1, DataIs
  <1>7. ds0 \in Seq(Seq(Rows)) /\ Len(ds0) = n /\ \A i \in 1 .. n : ds0[i] = DataSeq(c[i].req)
    BY DataIs
  <1> HIDE DEF n, ku, ks0, du, ds0
  <1>8. (\A i \in 1 .. n : ku[i] = ks0[i] /\ du[i] = ds0[i]) /\ ku[n + 1] = kx /\ du[n + 1] = dx
    BY <1>1, <1>4, <1>5, <1>6, <1>7
  <1> HIDE DEF kx, dx
  <1>9. ku = Append(ks0, kx)
    BY <1>3, <1>4, <1>5, <1>8, SeqGrows
  <1>10. du = Append(ds0, dx)
    BY <1>3, <1>6, <1>7, <1>8, SeqGrows
  <1> QED  BY <1>9, <1>10 DEF ku, ks0, du, ds0, kx, dx

LEMMA FramesShrink ==
  ASSUME KeysFit, MemTyped, NEW c \in Seq(Bundles), c # << >>, NEW d, d = Tail(c)
  PROVE  /\ KeysOf(c) # << >> /\ Head(KeysOf(c)) = KeySeq(Head(c).req) /\ KeysOf(d) = Tail(KeysOf(c))
         /\ DataOf(c) # << >> /\ Head(DataOf(c)) = DataSeq(Head(c).req) /\ DataOf(d) = Tail(DataOf(c))
  <1> DEFINE n == Len(c)
             ku == KeysOf(d)
             ks0 == KeysOf(c)
             du == DataOf(d)
             ds0 == DataOf(c)
  <1>1. Head(c) = c[1] /\ d \in Seq(Bundles) /\ n \in Nat /\ n >= 1 /\ Len(d) = n - 1 /\ \A i \in 1 .. n - 1 : d[i] = c[i + 1]
    BY RestIs
  <1>4. ku \in Seq(Seq(KeyItems)) /\ Len(ku) = n - 1 /\ \A i \in 1 .. n - 1 : ku[i] = KeySeq(d[i].req)
    BY <1>1, KeysIs
  <1>5. ks0 \in Seq(Seq(KeyItems)) /\ Len(ks0) = n /\ \A i \in 1 .. n : ks0[i] = KeySeq(c[i].req)
    BY KeysIs
  <1>6. du \in Seq(Seq(Rows)) /\ Len(du) = n - 1 /\ \A i \in 1 .. n - 1 : du[i] = DataSeq(d[i].req)
    BY <1>1, DataIs
  <1>7. ds0 \in Seq(Seq(Rows)) /\ Len(ds0) = n /\ \A i \in 1 .. n : ds0[i] = DataSeq(c[i].req)
    BY DataIs
  <1> HIDE DEF n, ku, ks0, du, ds0
  <1>8. \A i \in 1 .. n - 1 : ku[i] = ks0[i + 1] /\ du[i] = ds0[i + 1]
    <2> SUFFICES ASSUME NEW i \in 1 .. n - 1
                 PROVE  ku[i] = ks0[i + 1] /\ du[i] = ds0[i + 1]
      OBVIOUS
    <2>1. i + 1 \in 1 .. n
      BY <1>1
    <2>2. d[i] = c[i + 1]
      BY <1>1
    <2>3. ku[i] = ks0[i + 1]
      BY <2>1, <2>2, <1>4, <1>5
    <2>4. du[i] = ds0[i + 1]
      BY <2>1, <2>2, <1>6, <1>7
    <2> QED  BY <2>3, <2>4
  <1>9. ks0 # << >> /\ ds0 # << >> /\ 1 \in 1 .. n
    BY <1>1, <1>5, <1>7
  <1>10. Head(ks0) = ks0[1] /\ Head(ds0) = ds0[1]
    BY <1>5, <1>7, <1>9, RestIs
  <1>11. ku = Tail(ks0)
    BY <1>4, <1>5, <1>8, <1>9, SeqShrinks
  <1>12. du = Tail(ds0)
    BY <1>6, <1>7, <1>8, <1>9, SeqShrinks
  <1> QED  BY <1>1, <1>5, <1>7, <1>9, <1>10, <1>11, <1>12 DEF ku, ks0, du, ds0

\* What memWrite has left of a key is a piece of the key's end.
LEMMA KeyNowIs ==
  ASSUME KeysFit, MwTypes
  PROVE  /\ KeyLeft \in Nat /\ KeyNow \in Seq(KeyItems) /\ Len(KeyNow) = KeyLeft
         /\ \A p \in 1 .. KeyLeft : KeyNow[p] = KeyWord(mw.req, KeyCount(mw.req) - KeyLeft + p)
         /\ mw.state \notin {"MW_IDLE", "MW_INIT_MEM"} => KeyLeft >= 1 /\ KeyLeft <= KeyCount(mw.req) /\ KeyCount(mw.req) \in Nat
  <1> DEFINE r == mw.req
             n == KeyCount(r)
             l == KeyLeft
  <1>1. CASE mw.state \in {"MW_IDLE", "MW_INIT_MEM"}
    <2>1. KeyLeft = 0
      BY <1>1 DEF KeyLeft
    <2> QED  BY <1>1, <2>1 DEF KeyNow
  <1>2. CASE mw.state \notin {"MW_IDLE", "MW_INIT_MEM"}
    <2>1. r \in Reqs
      BY <1>2 DEF MwTypes
    <2>2. Words(r) \in Nat /\ 1 <= Words(r) /\ Base(r) \in Nat
      BY <2>1, RequestFits
    <2>3. l \in Nat /\ l >= 1 /\ l <= n /\ n \in Nat
      <3>1. mw.addr \in Nat /\ mw.state \in MwStates
        BY DEF MwTypes
      <3>2. CASE mw.state = "MW_EVAL"
        BY <2>2, <3>2 DEF KeyLeft, KeyCount, MwTypes
      <3>3. CASE mw.state = "MW_SET_REST"
        <4>1. mw.addr \in Base(r) + 1 .. Base(r) + Words(r) /\ n = Words(r) /\ l = Base(r) + Words(r) + 1 - mw.addr
          BY <3>3 DEF KeyLeft, KeyCount, MwTypes
        <4> QED  BY <4>1, <2>2
      <3>4. CASE mw.state = "MW_CONSUME"
        <4>1. mw.addr \in 0 .. Words(r) - 1 /\ n = Words(r) /\ l = Words(r) - mw.addr
          BY <3>4 DEF KeyLeft, KeyCount, MwTypes
        <4> QED  BY <4>1, <2>2
      <3>5. CASE mw.state \in {"MW_FLUSH_WAIT", "MW_FLUSH", "MW_FLUSH_CONSUME_KEY"}
        BY <2>2, <3>5 DEF KeyLeft, KeyCount, MwTypes
      <3> QED  BY <1>2, <3>1, <3>2, <3>3, <3>4, <3>5 DEF MwStates
    <2>4. \A p \in 1 .. l : KeyWord(r, n - l + p) \in KeyItems
      <3> SUFFICES ASSUME NEW p \in 1 .. l PROVE KeyWord(r, n - l + p) \in KeyItems
        OBVIOUS
      <3>1. n - l + p \in Nat
        BY <2>3
      <3> QED  BY <3>1, <2>1, KeyWordTyped
    <2> QED  BY <1>2, <2>3, <2>4 DEF KeyNow
  <1> QED  BY <1>1, <1>2

-----------------------------------------------------------------------------
(* ht_compare.                                                             *)

\* What a step of ht_compare adds to its queues.
LEMMA CompareSteps ==
  ASSUME KeysFit, MemTyped, QueueTypes, HtCompare, NEW r, r = Head(fifo.memRd2comp)
  PROVE  /\ r \in Reqs /\ fifo.memRd2comp # << >>
         /\ fifo' = [q \in Fifos |-> fifo'[q]]
         /\ fifo'.in2md = fifo.in2md /\ fifo'.in2cc = fifo.in2cc /\ fifo'.dec2cc = fifo.dec2cc
         /\ fifo'.memRd2comp = Tail(fifo.memRd2comp)
         /\ fifo'.comp2memWrKey = fifo.comp2memWrKey \o KeySeq(r)
         /\ fifo'.comp2memWrMemData = fifo.comp2memWrMemData \o DataSeq(r)
         /\ \E x \in Bundles : /\ x.req = r /\ CopyInv(r, x.free, x.match)
                               /\ fifo'.comp2memWr = Append(fifo.comp2memWr, x)
  <1>1. fifo.memRd2comp # << >> /\ r \in Reqs
    BY RestIs DEF HtCompare, Ready, QueueTypes
  <1>2. fifo.comp2memWrKey \in Seq(KeyItems) /\ fifo.comp2memWrMemData \in Seq(Rows) /\ fifo = [q \in Fifos |-> fifo[q]]
    BY DEF QueueTypes
  <1>3. CASE r.op = "FLUSH"
    <2> DEFINE x == [req |-> r, free |-> {}, match |-> {}]
               k == [content |-> Zero, eop |-> TRUE]
    <2>1. fifo' = [fifo EXCEPT !.memRd2comp = Tail(@), !.comp2memWr = Append(@, x), !.comp2memWrKey = Append(@, k)]
      BY <1>3 DEF HtCompare
    <2>2. x \in Bundles /\ x.req = r /\ CopyInv(r, x.free, x.match)
      BY <1>1, <1>3 DEF Bundles, CopyInv
    <2>3. KeySeq(r) = <<k>>
      <3>1. KeySeq(r) = [w \in 1 .. 1 |-> k]
        BY <1>3 DEF KeySeq, KeyCount, KeyWord
      <3> HIDE DEF k
      <3> QED  BY <3>1
    <2>4. k \in KeyItems
      BY DEF KeyItems, Cells, Zero
    <2> HIDE DEF k, x
    <2>5. Append(fifo.comp2memWrKey, k) = fifo.comp2memWrKey \o KeySeq(r)
      BY <1>2, <2>3, <2>4, AppendIsConcat
    <2>6. fifo.comp2memWrMemData = fifo.comp2memWrMemData \o DataSeq(r)
      <3>1. DataSeq(r) = << >>
        BY <1>3 DEF DataSeq
      <3> QED  BY <3>1, <1>2, ConcatEmptySeq
    <2>7. /\ fifo' = [q \in Fifos |-> fifo'[q]]
          /\ fifo'.in2md = fifo.in2md /\ fifo'.in2cc = fifo.in2cc /\ fifo'.dec2cc = fifo.dec2cc
          /\ fifo'.memRd2comp = Tail(fifo.memRd2comp)
          /\ fifo'.comp2memWrKey = Append(fifo.comp2memWrKey, k)
          /\ fifo'.comp2memWrMemData = fifo.comp2memWrMemData
          /\ fifo'.comp2memWr = Append(fifo.comp2memWr, x)
      BY <1>2, <2>1 DEF Fifos
    <2> QED  BY <1>1, <2>2, <2>5, <2>6, <2>7
  <1>4. CASE r.op # "FLUSH"
    <2> DEFINE F == FreeBins(MemRead(r))
               M == MatchBins(r, MemRead(r))
               x == [req |-> r, free |-> F, match |-> M]
    <2>1. fifo' = [fifo EXCEPT !.memRd2comp = Tail(@), !.comp2memWr = Append(@, x),
                               !.comp2memWrKey = @ \o KeyWords(r), !.comp2memWrMemData = @ \o MemRead(r)]
      BY <1>4 DEF HtCompare
    <2>2. x \in Bundles /\ x.req = r /\ CopyInv(r, x.free, x.match)
      BY <1>1 DEF Bundles, CopyInv, FreeBins, MatchBins
    <2>3. KeyWords(r) = KeySeq(r) /\ MemRead(r) = DataSeq(r)
      BY <1>4 DEF KeyWords, KeySeq, KeyCount, KeyWord, DataSeq
    <2> HIDE DEF F, M, x
    <2>4. /\ fifo' = [q \in Fifos |-> fifo'[q]]
          /\ fifo'.in2md = fifo.in2md /\ fifo'.in2cc = fifo.in2cc /\ fifo'.dec2cc = fifo.dec2cc
          /\ fifo'.memRd2comp = Tail(fifo.memRd2comp)
          /\ fifo'.comp2memWrKey = fifo.comp2memWrKey \o KeyWords(r)
          /\ fifo'.comp2memWrMemData = fifo.comp2memWrMemData \o MemRead(r)
          /\ fifo'.comp2memWr = Append(fifo.comp2memWr, x)
      BY <1>2, <2>1 DEF Fifos
    <2> QED  BY <1>1, <2>2, <2>3, <2>4
  <1> QED  BY <1>3, <1>4

LEMMA HtCompareFlow ==
  ASSUME KeysFit, MemTyped, FlowInv, HtCompare
  PROVE  FlowInv'
  <1>1. QueueTypes /\ OrderInv /\ FilterInv /\ MwTypes /\ CompareInv /\ StreamInv /\ ContentInv
    BY DEF FlowInv
  <1>2. mw' = mw /\ mem' = mem /\ out' = out /\ cc' = cc /\ filter' = filter
    BY DEF HtCompare
  <1> DEFINE rd == fifo.memRd2comp
             c == fifo.comp2memWr
  <1>3. PICK r : r = Head(rd)
    OBVIOUS
  <1>4. /\ r \in Reqs /\ rd # << >>
        /\ fifo' = [q \in Fifos |-> fifo'[q]]
        /\ fifo'.in2md = fifo.in2md /\ fifo'.in2cc = fifo.in2cc /\ fifo'.dec2cc = fifo.dec2cc
        /\ fifo'.memRd2comp = Tail(rd)
        /\ fifo'.comp2memWrKey = fifo.comp2memWrKey \o KeySeq(r)
        /\ fifo'.comp2memWrMemData = fifo.comp2memWrMemData \o DataSeq(r)
        /\ \E x \in Bundles : /\ x.req = r /\ CopyInv(r, x.free, x.match)
                              /\ fifo'.comp2memWr = Append(c, x)
    BY <1>1, <1>3, CompareSteps
  <1>5. PICK x \in Bundles : x.req = r /\ CopyInv(r, x.free, x.match) /\ fifo'.comp2memWr = Append(c, x)
    BY <1>4
  <1>6. rd \in Seq(Reqs) /\ c \in Seq(Bundles) /\ fifo.in2cc \in Seq(Reqs) /\ fifo.in2md \in Seq(Reqs)
    BY <1>1 DEF QueueTypes
  <1>7. Tail(rd) \in Seq(Reqs) /\ Append(c, x) \in Seq(Bundles) /\ Len(c) \in Nat /\ Len(Append(c, x)) = Len(c) + 1
        /\ (\A i \in 1 .. Len(c) : Append(c, x)[i] = c[i]) /\ Append(c, x)[Len(c) + 1] = x
    BY <1>4, <1>6, RestIs, LongerIs
  <1>8. HeldReq' = HeldReq /\ OpenReq' = OpenReq /\ ParkedReq' = ParkedReq
    BY <1>2 DEF HeldReq, OpenReq, ParkedReq
  <1>9. KeySeq(r) \in Seq(KeyItems) /\ DataSeq(r) \in Seq(Rows)
    BY <1>4, KeySeqIs, DataSeqTyped
  <1>10. QueueTypes'
    <2>1. fifo'.comp2memWrKey \in Seq(KeyItems) /\ fifo'.comp2memWrMemData \in Seq(Rows)
      BY <1>1, <1>4, <1>9, JoinIs DEF QueueTypes
    <2> QED  BY <1>1, <1>2, <1>4, <1>5, <1>7, <2>1 DEF QueueTypes
  <1>11. MwTypes'
    BY <1>1, <1>2, MwFrame
  <1>12. ContentInv'
    BY <1>1, <1>2, ContentFrame
  <1>13. CompareInv'
    <2>1. \A q, F, M : CopyInv(q, F, M)' <=> CopyInv(q, F, M)
      BY <1>2 DEF CopyInv, FreeBins, MatchBins, MemRead, Words, Base
    <2>2. ASSUME NEW i \in 1 .. Len(c) + 1
          PROVE  CopyInv(Append(c, x)[i].req, Append(c, x)[i].free, Append(c, x)[i].match)
      <3>1. CASE i = Len(c) + 1
        BY <3>1, <1>5, <1>7
      <3>2. CASE i \in 1 .. Len(c)
        <4>1. CopyInv(c[i].req, c[i].free, c[i].match)
          BY <3>2, <1>1 DEF CompareInv, Compared
        <4> QED  BY <3>2, <4>1, <1>7
      <3> QED  BY <3>1, <3>2, <1>7
    <2> QED  BY <2>1, <2>2, <1>1, <1>2, <1>5, <1>7 DEF CompareInv, Compared
  <1>14. OrderInv'
    <2>1. OpenReq \in Seq(Reqs) /\ ParkedReq \in Seq(Reqs) /\ ReqsOf(c) \in Seq(Reqs)
      BY <1>1, <1>6, HeldTyped, ReqsIs
    <2>2. Chain(fifo.in2md, OpenReq, Put(ReqsOf(c), Head(rd)), Tail(rd), ParkedReq, fifo.in2cc)
      BY <1>1, <1>4, <1>6, <2>1, ChainMoves DEF OrderInv
    <2>3. ReqsOf(Append(c, x)) = Put(ReqsOf(c), r)
      BY <1>5, <1>6, ReqsGrow
    <2> QED  BY <1>3, <1>4, <1>5, <1>8, <2>2, <2>3 DEF OrderInv
  <1>15. FilterInv'
    <2>1. PICK P : FilterHolds(P)
      BY <1>1 DEF FilterInv
    <2> DEFINE H == TagsOf(HeldReq)
               C == TagsOf(ReqsOf(c))
               D == TagsOf(rd)
    <2>2. H \in Seq(Tags) /\ C \in Seq(Tags) /\ D \in Seq(Tags) /\ << >> \in Seq(Tags) /\ ReqsOf(c) \in Seq(Reqs)
      BY <1>1, <1>6, HeldTyped, ReqsIs, TagsIs
    <2>3. P \in Seq(Tags) /\ Chain(filter, P, H, C, << >>, D)
      BY <2>1 DEF FilterHolds
    <2>4. D # << >> /\ Head(D) = TagOf(r) /\ Tail(D) = TagsOf(Tail(rd))
      BY <1>3, <1>4, <1>6, TagsShrink
    <2>5. ReqsOf(Append(c, x)) = Put(ReqsOf(c), r)
      BY <1>5, <1>6, ReqsGrow
    <2>6. TagsOf(Put(ReqsOf(c), r)) = Put(C, TagOf(r))
      BY <1>4, <2>2, TagsGrow
    <2> HIDE DEF H, C, D
    <2>7. PICK t : t = Put(<< >>, TagOf(r))
      OBVIOUS
    <2>8. TagOf(r) \in Tags
      BY <1>4, TagTyped
    <2>9. t \in Seq(Tags) /\ t # << >> /\ Head(t) = TagOf(r) /\ Tail(t) = << >>
      BY <2>7, <2>8 DEF Put
    <2>10. Chain(filter, P, H, C, t, Tail(D))
      BY <2>2, <2>3, <2>4, <2>7, ChainMoves
    <2>11. Tail(D) \in Seq(Tags)
      BY <2>2, <2>4, RestIs
    <2>12. Chain(filter, P, H, Put(C, Head(t)), Tail(t), Tail(D))
      BY <2>2, <2>3, <2>9, <2>10, <2>11, ChainMoves
    <2>13. Chain(filter, P, H, TagsOf(ReqsOf(Append(c, x))), << >>, TagsOf(Tail(rd)))
      BY <2>4, <2>5, <2>6, <2>9, <2>12
    <2>14. FilterHolds(P)'
      BY <1>2, <1>4, <1>5, <1>8, <2>1, <2>13 DEF FilterHolds, H
    <2> QED  BY <1>1, <1>2, <2>14 DEF FilterInv
  <1>16. StreamInv'
    <2>1. KeyNow' = KeyNow
      BY <1>2 DEF KeyNow, KeyLeft
    <2>2. PICK cur : DataHolds(cur)
      BY <1>1 DEF StreamInv
    <2>3. DataNow(cur)' /\ cur \in Seq(Rows)
      BY <1>2, <2>2 DEF DataHolds, DataNow, MemRead, KeyLeft
    <2>4. KeyNow \in Seq(KeyItems)
      BY <1>1, KeyNowIs
    <2>5. KeysOf(c) \in Seq(Seq(KeyItems)) /\ DataOf(c) \in Seq(Seq(Rows))
      BY <1>6, KeysIs, DataIs
    <2>6. PICK d : d = Append(c, x)
      OBVIOUS
    <2>7. KeysOf(d) = Append(KeysOf(c), KeySeq(r)) /\ DataOf(d) = Append(DataOf(c), DataSeq(r))
      BY <1>5, <1>6, <2>6, FramesGrow
    <2>8. fifo.comp2memWrKey \in Seq(KeyItems) /\ fifo.comp2memWrMemData \in Seq(Rows)
      BY <1>1 DEF QueueTypes
    <2>9. Streams(fifo'.comp2memWrKey, KeyNow, KeysOf(d))
      BY <1>1, <1>4, <1>9, <2>4, <2>5, <2>7, <2>8, StreamJoins DEF StreamInv
    <2>10. Streams(fifo'.comp2memWrMemData, cur, DataOf(d))
      BY <1>4, <1>9, <2>2, <2>3, <2>5, <2>7, <2>8, StreamJoins DEF DataHolds
    <2>11. DataOf(d)' = DataOf(d)
      BY <1>2 DEF DataOf, DataSeq, MemRead
    <2>12. DataHolds(cur)'
      BY <1>2, <1>5, <2>3, <2>6, <2>10 DEF DataHolds, DataOf, DataSeq, MemRead
    <2> QED  BY <1>5, <2>1, <2>6, <2>9, <2>12 DEF StreamInv
  <1> QED  BY <1>10, <1>11, <1>12, <1>13, <1>14, <1>15, <1>16 DEF FlowInv

-----------------------------------------------------------------------------
(* memWrite: how a request passes through it.                              *)

LEMMA FilterTakes ==
  ASSUME KeysFit, QueueTypes, MwTypes, FilterInv, fifo.comp2memWr # << >>, HeldReq = << >>, filter' = filter,
         fifo'.dec2cc = fifo.dec2cc, fifo'.memRd2comp = fifo.memRd2comp, fifo'.comp2memWr = Tail(fifo.comp2memWr),
         HeldReq' = <<Head(fifo.comp2memWr).req>>
  PROVE  FilterInv'
  <1> DEFINE c == fifo.comp2memWr
             C == TagsOf(ReqsOf(c))
             D == TagsOf(fifo.memRd2comp)
             r == Head(c).req
  <1>1. PICK P : FilterHolds(P)
    BY DEF FilterInv
  <1>2. c \in Seq(Bundles) /\ fifo.memRd2comp \in Seq(Reqs)
    BY DEF QueueTypes
  <1>3. ReqsOf(c) # << >> /\ Head(ReqsOf(c)) = r /\ Tail(ReqsOf(c)) = ReqsOf(Tail(c)) /\ ReqsOf(c) \in Seq(Reqs)
    BY <1>2, ReqsShrink, ReqsIs
  <1>4. r \in Reqs
    BY <1>3, RestIs
  <1>5. C # << >> /\ Head(C) = TagOf(r) /\ Tail(C) = TagsOf(ReqsOf(Tail(c))) /\ C \in Seq(Tags) /\ D \in Seq(Tags)
    BY <1>2, <1>3, TagsShrink, TagsIs
  <1>6. PICK H : H = TagsOf(HeldReq)
    OBVIOUS
  <1>7. H = << >> /\ H \in Seq(Tags)
    <2>1. PICK h : h = HeldReq
      OBVIOUS
    <2>2. h = << >>
      BY <2>1
    <2>3. H = TagsOf(h)
      BY <1>6, <2>1, Zenon
    <2> QED  BY <2>2, <2>3 DEF TagsOf
  <1>8. P \in Seq(Tags) /\ Chain(filter, P, H, C, << >>, D) /\ << >> \in Seq(Tags)
    BY <1>1, <1>6 DEF FilterHolds
  <1> HIDE DEF C, D, c
  <1>9. Chain(filter, P, Put(H, Head(C)), Tail(C), << >>, D)
    BY <1>5, <1>7, <1>8, ChainMoves
  <1>10. Put(H, TagOf(r)) = TagsOf(<<r>>)
    BY <1>4, <1>7, OneTag, TagTyped DEF Put
  <1>11. Chain(filter, P, TagsOf(<<r>>), TagsOf(ReqsOf(Tail(c))), << >>, D)
    BY <1>5, <1>9, <1>10
  <1>12. FilterHolds(P)'
    BY <1>1, <1>11 DEF FilterHolds, c, D
  <1> QED  BY <1>12 DEF FilterInv

LEMMA FilterReleases ==
  ASSUME KeysFit, QueueTypes, MwTypes, FilterInv, mw.req \in Reqs, HeldReq = <<mw.req>>, filter' = filter,
         fifo'.dec2cc = Append(fifo.dec2cc, 1), fifo'.memRd2comp = fifo.memRd2comp, fifo'.comp2memWr = fifo.comp2memWr,
         HeldReq' = << >>
  PROVE  FilterInv'
  <1> DEFINE C == TagsOf(ReqsOf(fifo.comp2memWr))
             D == TagsOf(fifo.memRd2comp)
             x == TagOf(mw.req)
  <1>1. PICK P : FilterHolds(P)
    BY DEF FilterInv
  <1>2. C \in Seq(Tags) /\ D \in Seq(Tags) /\ << >> \in Seq(Tags)
    BY ReqsIs, TagsIs DEF QueueTypes
  <1>3. x \in Tags /\ TagsOf(<<mw.req>>) = <<x>>
    BY OneTag, TagTyped
  <1>4. PICK H : H = TagsOf(HeldReq)
    OBVIOUS
  <1>5. H \in Seq(Tags) /\ H # << >> /\ Head(H) = x /\ Tail(H) = << >>
    <2>1. TagsOf(HeldReq) = TagsOf(<<mw.req>>)
      BY Zenon
    <2>2. H = <<x>>
      BY <1>3, <1>4, <2>1
    <2> HIDE DEF x
    <2> QED  BY <1>3, <2>2
  <1>6. P \in Seq(Tags) /\ Chain(filter, P, H, C, << >>, D) /\ Len(P) = Len(fifo.dec2cc)
    BY <1>1, <1>4 DEF FilterHolds
  <1> HIDE DEF C, D, x
  <1>7. Chain(filter, Put(P, Head(H)), Tail(H), C, << >>, D)
    BY <1>2, <1>5, <1>6, ChainMoves
  <1>8. Chain(filter, Put(P, x), << >>, C, << >>, D)
    BY <1>5, <1>7
  <1>9. Put(P, x) \in Seq(Tags) /\ Len(Put(P, x)) = Len(P) + 1
    BY <1>3, <1>6, LongerIs DEF Put
  <1>10. Len(Append(fifo.dec2cc, 1)) = Len(fifo.dec2cc) + 1
    BY LongerIs DEF QueueTypes
  <1>11. TagsOf(HeldReq') = << >>
    BY NoTags
  <1>12. Chain(filter, Put(P, x), TagsOf(HeldReq'), C, << >>, D)
    BY <1>8, <1>11
  <1>14. PICK N : N = Put(P, x)
    OBVIOUS
  <1>13. FilterHolds(N)'
    BY <1>6, <1>9, <1>10, <1>12, <1>14 DEF FilterHolds, C, D
  <1> QED  BY <1>13 DEF FilterInv

LEMMA OrderTakes ==
  ASSUME KeysFit, QueueTypes, MwTypes, OrderInv, fifo.comp2memWr # << >>, OpenReq = << >>, cc' = cc,
         fifo'.in2md = fifo.in2md, fifo'.in2cc = fifo.in2cc, fifo'.memRd2comp = fifo.memRd2comp,
         fifo'.comp2memWr = Tail(fifo.comp2memWr), OpenReq' = <<Head(fifo.comp2memWr).req>>
  PROVE  OrderInv'
  <1> DEFINE c == fifo.comp2memWr
             r == Head(c).req
  <1>1. c \in Seq(Bundles) /\ fifo.memRd2comp \in Seq(Reqs) /\ fifo.in2cc \in Seq(Reqs) /\ ParkedReq \in Seq(Reqs)
    BY HeldTyped DEF QueueTypes
  <1>2. ReqsOf(c) # << >> /\ Head(ReqsOf(c)) = r /\ Tail(ReqsOf(c)) = ReqsOf(Tail(c)) /\ ReqsOf(c) \in Seq(Reqs)
    BY <1>1, ReqsShrink, ReqsIs
  <1>3. PICK p : p = OpenReq
    OBVIOUS
  <1>4. p = << >> /\ p \in Seq(Reqs)
    BY <1>3
  <1>5. Chain(fifo.in2md, p, ReqsOf(c), fifo.memRd2comp, ParkedReq, fifo.in2cc)
    BY <1>3 DEF OrderInv
  <1> HIDE DEF c
  <1>6. Chain(fifo.in2md, Put(p, Head(ReqsOf(c))), Tail(ReqsOf(c)), fifo.memRd2comp, ParkedReq, fifo.in2cc)
    BY <1>1, <1>2, <1>4, <1>5, ChainMoves
  <1>7. Put(p, r) = <<r>>
    BY <1>4 DEF Put
  <1>8. Chain(fifo.in2md, <<r>>, ReqsOf(Tail(c)), fifo.memRd2comp, ParkedReq, fifo.in2cc)
    BY <1>2, <1>6, <1>7
  <1> QED  BY <1>8 DEF OrderInv, ParkedReq, c

LEMMA OrderAnswers ==
  ASSUME KeysFit, QueueTypes, MwTypes, OrderInv, mw.req \in Reqs, OpenReq = <<mw.req>>, cc' = cc,
         fifo'.in2md = Tail(fifo.in2md), fifo'.in2cc = fifo.in2cc, fifo'.memRd2comp = fifo.memRd2comp,
         fifo'.comp2memWr = fifo.comp2memWr, OpenReq' = << >>
  PROVE  OrderInv' /\ Head(fifo.in2md) = mw.req /\ fifo'.in2md \in Seq(Reqs)
  <1> DEFINE C == ReqsOf(fifo.comp2memWr)
  <1>1. C \in Seq(Reqs) /\ fifo.memRd2comp \in Seq(Reqs) /\ fifo.in2cc \in Seq(Reqs) /\ ParkedReq \in Seq(Reqs) /\ fifo.in2md \in Seq(Reqs)
    BY HeldTyped, ReqsIs DEF QueueTypes
  <1>2. PICK p : p = OpenReq
    OBVIOUS
  <1>3. p \in Seq(Reqs) /\ p # << >> /\ Head(p) = mw.req /\ Tail(p) = << >>
    BY <1>2
  <1>4. Chain(fifo.in2md, p, C, fifo.memRd2comp, ParkedReq, fifo.in2cc)
    BY <1>2 DEF OrderInv
  <1> HIDE DEF C
  <1>5. fifo.in2md # << >> /\ Head(fifo.in2md) = Head(p) /\ Chain(Tail(fifo.in2md), Tail(p), C, fifo.memRd2comp, ParkedReq, fifo.in2cc)
    BY <1>1, <1>3, <1>4, ChainPops
  <1>6. fifo'.in2md \in Seq(Reqs)
    BY <1>1, <1>5, RestIs
  <1> QED  BY <1>3, <1>5, <1>6 DEF OrderInv, ParkedReq, C

\* While memWrite has a request, what is written at most is the request's bucket, and nothing
\* that ht_compare has passed on is about it.
WritesBucket(r) == \A a \in MemWords : a \notin Base(r) .. Base(r) + Words(r) => mem'[a] = mem[a]

LEMMA OthersKeep ==
  ASSUME KeysFit, QueueTypes, MwTypes, FilterInv, CompareInv, mw.req \in Reqs, HeldReq = <<mw.req>>,
         fifo'.comp2memWr = fifo.comp2memWr,
         \/ mem' = mem
         \/ mw.req.op = "FLUSH"
         \/ mw.req.op \in {"SET", "DELETE"} /\ WritesBucket(mw.req)
  PROVE  /\ \A i \in 1 .. Compared : CopyInv(fifo.comp2memWr[i].req, fifo.comp2memWr[i].free, fifo.comp2memWr[i].match)'
         /\ DataOf(fifo.comp2memWr)' = DataOf(fifo.comp2memWr)
         /\ Compared' = Compared
  <1> DEFINE c == fifo.comp2memWr
  <1>1. c \in Seq(Bundles) /\ Compared' = Compared /\ Compared = Len(c) /\ Len(c) \in Nat
    BY DEF QueueTypes, Compared
  <1>2. \A i \in 1 .. Len(c) : c[i].req \in Reqs /\ ~Blocks(TagOf(mw.req), TagOf(c[i].req))
    BY NoneBlocked DEF Compared
  <1>3. ASSUME NEW i \in 1 .. Len(c)
        PROVE  CopyInv(c[i].req, c[i].free, c[i].match)' /\ DataSeq(c[i].req)' = DataSeq(c[i].req)
    <2>0. PICK r, F, M : r = c[i].req /\ F = c[i].free /\ M = c[i].match
      OBVIOUS
    <2>1. r \in Reqs /\ ~Blocks(TagOf(mw.req), TagOf(r)) /\ CopyInv(r, F, M)
      BY <1>1, <1>2, <2>0 DEF CompareInv
    <2>2. c' = c
      OBVIOUS
    <2> SUFFICES CopyInv(r, F, M)' /\ DataSeq(r)' = DataSeq(r)
      BY <2>0, <2>2 DEF CopyInv, DataSeq, MemRead
    <2>3. CASE r.op = "FLUSH"
      BY <2>3 DEF CopyInv, DataSeq
    <2>4. CASE r.op # "FLUSH" /\ mem' = mem
      <3>1. MemRead(r)' = MemRead(r)
        BY <2>4 DEF MemRead, Words, Base
      <3>2. FreeBins(MemRead(r))' = FreeBins(MemRead(r)) /\ MatchBins(r, MemRead(r))' = MatchBins(r, MemRead(r))
        BY <3>1 DEF FreeBins, MatchBins, Words
      <3> QED  BY <2>1, <3>1, <3>2 DEF CopyInv, DataSeq
    <2>5. CASE r.op # "FLUSH" /\ mem' # mem
      <3>1. TagOf(r).op = r.op /\ TagOf(r).hash = Hash[r.key] /\ TagOf(mw.req).op = mw.req.op
        BY <2>1, <2>5, TagTyped DEF HashOf
      <3>2. mw.req.op # "FLUSH"
        BY <3>1, <2>1 DEF Blocks
      <3>3. mw.req.op \in {"SET", "DELETE"} /\ WritesBucket(mw.req)
        BY <2>5, <3>2
      <3>4. TagOf(mw.req).hash = Hash[mw.req.key]
        BY <3>2, TagTyped DEF HashOf
      <3>5. Hash[mw.req.key] # Hash[r.key]
        BY <2>1, <3>1, <3>3, <3>4 DEF Blocks
      <3>6. /\ r.key \in DOMAIN KeyLen /\ Base(r) = Stride * Hash[r.key] /\ Words(r) = KeyWordsOf(r.key) /\ Words(r) \in Nat /\ Base(r) \in Nat
            /\ \A w \in 0 .. Words(r) : Base(r) + w \in MemWords
        BY <2>1, RequestFits
      <3>7. /\ mw.req.key \in DOMAIN KeyLen /\ Base(mw.req) = Stride * Hash[mw.req.key] /\ Words(mw.req) = KeyWordsOf(mw.req.key)
            /\ Words(mw.req) \in Nat /\ Base(mw.req) \in Nat
        BY RequestFits
      <3>8. ASSUME NEW w \in 0 .. Words(r)
            PROVE  Base(r) + w \notin Base(mw.req) .. Base(mw.req) + Words(mw.req)
        <4>1. SUFFICES ASSUME Base(r) + w \in Base(mw.req) .. Base(mw.req) + Words(mw.req)
                       PROVE  FALSE
          OBVIOUS
        <4>2. PICK v \in 0 .. Words(mw.req) : Base(mw.req) + v = Base(r) + w
          <5>1. PICK x \in Nat, y \in Nat, n \in Nat : x = Base(r) /\ y = Base(mw.req) /\ n = Words(mw.req)
            BY <3>6, <3>7
          <5>2. w \in Nat /\ x + w \in y .. y + n
            BY <4>1, <3>6, <5>1
          <5>3. (x + w) - y \in 0 .. n /\ y + ((x + w) - y) = x + w
            BY <5>1, <5>2
          <5> QED  BY <5>1, <5>3
        <4> QED  BY <4>2, <3>5, <3>6, <3>7, WordsApart
      <3>9. Untouched(r)
        BY <3>3, <3>6, <3>8 DEF WritesBucket, Untouched
      <3>10. CopyInv(r, F, M)' /\ MemRead(r)' = MemRead(r)
        BY <2>1, <3>9, CopyStays
      <3> QED  BY <3>10 DEF DataSeq
    <2> QED  BY <2>3, <2>4, <2>5
  <1>4. \A i \in 1 .. Compared : CopyInv(c[i].req, c[i].free, c[i].match)'
    BY <1>1, <1>3
  <1>5. DataOf(c)' = DataOf(c)
    BY <1>3 DEF DataOf
  <1> QED  BY <1>1, <1>4, <1>5

\* All but the table's content.
PipeInv == QueueTypes /\ MwTypes /\ FilterInv /\ OrderInv /\ CompareInv /\ StreamInv

\* The word that MW_EVAL takes is the head of the bucket, as it is in the memory.
LEMMA EvalWord ==
  ASSUME KeysFit, MemTyped, QueueTypes, MwTypes, StreamInv, mw.state = "MW_EVAL"
  PROVE  /\ mw.req \in Reqs /\ mw.req.op # "FLUSH"
         /\ fifo.comp2memWrMemData # << >> /\ Head(fifo.comp2memWrMemData) = mem[Base(mw.req)]
         /\ Tail(fifo.comp2memWrMemData) \in Seq(Rows)
         /\ Streams(Tail(fifo.comp2memWrMemData), Tail(MemRead(mw.req)), DataOf(fifo.comp2memWr))
  <1> DEFINE Q == fifo.comp2memWrMemData
             c == fifo.comp2memWr
  <1>1. mw.req \in Reqs /\ mw.req.op # "FLUSH"
    BY DEF MwTypes
  <1>2. PICK cur : DataHolds(cur)
    BY DEF StreamInv
  <1>3. cur = MemRead(mw.req) /\ Streams(Q, cur, DataOf(c))
    BY <1>2 DEF DataHolds, DataNow
  <1>4. cur \in Seq(Rows) /\ Len(cur) = Words(mw.req) + 1 /\ cur[1] = mem[Base(mw.req)] /\ Words(mw.req) \in Nat
    BY <1>1, <1>3, MemReadIs, RequestFits
  <1>5. cur # << >>
    BY <1>4
  <1>6. DataOf(c) \in Seq(Seq(Rows)) /\ Q \in Seq(Rows)
    BY DataIs DEF QueueTypes
  <1>7. Q # << >> /\ Head(Q) = cur[1] /\ Streams(Tail(Q), Tail(cur), DataOf(c))
    BY <1>3, <1>4, <1>5, <1>6, StreamShrinks
  <1>8. Tail(Q) \in Seq(Rows)
    BY <1>6, <1>7, RestIs
  <1> QED  BY <1>1, <1>3, <1>4, <1>7, <1>8

\* A GET, a DELETE and a refused SET are answered and leave the filter.
LEMMA ReleasePipe ==
  ASSUME KeysFit, MemTyped, PipeInv, mw.state = "MW_EVAL", cc' = cc, filter' = filter,
         mw' = [mw EXCEPT !.state = "MW_CONSUME"],
         fifo' = [fifo EXCEPT !.comp2memWrMemData = Tail(@), !.dec2cc = Append(@, 1), !.in2md = Tail(@)],
         mem' = mem \/ (mw.req.op \in {"SET", "DELETE"} /\ WritesBucket(mw.req))
  PROVE  PipeInv' /\ Head(fifo.in2md) = mw.req
  <1> DEFINE r == mw.req
             Q == fifo.comp2memWrMemData
  <1>1. QueueTypes /\ MwTypes /\ FilterInv /\ OrderInv /\ CompareInv /\ StreamInv
    BY DEF PipeInv
  <1>2. r \in Reqs /\ r.op # "FLUSH" /\ Tail(Q) \in Seq(Rows) /\ Streams(Tail(Q), Tail(MemRead(r)), DataOf(fifo.comp2memWr))
    BY <1>1, EvalWord
  <1>3. /\ fifo' = [q \in Fifos |-> fifo'[q]]
        /\ fifo'.in2md = Tail(fifo.in2md) /\ fifo'.in2cc = fifo.in2cc
        /\ fifo'.memRd2comp = fifo.memRd2comp /\ fifo'.comp2memWr = fifo.comp2memWr
        /\ fifo'.comp2memWrKey = fifo.comp2memWrKey /\ fifo'.comp2memWrMemData = Tail(Q)
        /\ fifo'.dec2cc = Append(fifo.dec2cc, 1)
    BY <1>1 DEF QueueTypes, Fifos
  <1>4. /\ mw \in [state : MwStates, init : BOOLEAN, req : Reqs \cup {NoRequest}, free : SUBSET (1 .. Bins),
                   match : SUBSET (1 .. Bins), loc : Nat, addr : Nat]
        /\ mw.init /\ mw.addr = 0
    BY <1>1 DEF MwTypes
  <1>5. mw'.state = "MW_CONSUME" /\ mw'.req = r /\ mw'.addr = 0 /\ mw'.init
    BY <1>4
  <1>6. HeldReq = <<r>> /\ OpenReq = <<r>> /\ HeldReq' = << >> /\ OpenReq' = << >>
    BY <1>5 DEF HeldReq, OpenReq
  <1>7. FilterInv'
    BY <1>1, <1>2, <1>3, <1>6, FilterReleases
  <1>8. OrderInv' /\ Head(fifo.in2md) = r /\ fifo'.in2md \in Seq(Reqs)
    BY <1>1, <1>2, <1>3, <1>6, OrderAnswers
  <1>9. QueueTypes'
    <2>1. fifo'.dec2cc \in Seq({1})
      <3>1. fifo.dec2cc \in Seq({1}) /\ 1 \in {1}
        BY <1>1 DEF QueueTypes
      <3> QED  BY <3>1, <1>3, AppendProperties
    <2> QED  BY <1>1, <1>2, <1>3, <1>8, <2>1 DEF QueueTypes
  <1>10. MwTypes'
    <2>1. Words(r) \in Nat /\ Words(r) >= 1
      BY <1>2, RequestFits
    <2>2. mw' \in [state : MwStates, init : BOOLEAN, req : Reqs \cup {NoRequest}, free : SUBSET (1 .. Bins),
                   match : SUBSET (1 .. Bins), loc : Nat, addr : Nat]
      BY <1>4 DEF MwStates
    <2>3. mw'.addr \in 0 .. Words(r) - 1
      BY <2>1, <1>5
    <2> QED  BY <1>2, <1>5, <2>2, <2>3 DEF MwTypes, Words
  <1>11. /\ \A i \in 1 .. Compared : CopyInv(fifo.comp2memWr[i].req, fifo.comp2memWr[i].free, fifo.comp2memWr[i].match)'
         /\ DataOf(fifo.comp2memWr)' = DataOf(fifo.comp2memWr)
         /\ Compared' = Compared
    BY <1>1, <1>2, <1>3, <1>6, OthersKeep
  <1>12. CompareInv'
    BY <1>5, <1>11 DEF CompareInv
  <1>13. StreamInv'
    <2>1. PICK cur : cur = Tail(MemRead(r))
      OBVIOUS
    <2>2. cur \in Seq(Rows) /\ Len(cur) = Words(r)
      <3>1. MemRead(r) \in Seq(Rows) /\ Len(MemRead(r)) = Words(r) + 1 /\ Words(r) \in Nat
        BY <1>2, MemReadIs, RequestFits
      <3> QED  BY <2>1, <3>1, RestIs
    <2>3. KeyLeft = Words(r) /\ KeyLeft' = Words(r)
      <3>1. Words(r) \in Nat
        BY <1>2, RequestFits
      <3> QED  BY <3>1, <1>5 DEF KeyLeft, Words
    <2>4. KeyNow' = KeyNow
      BY <2>3, <1>5 DEF KeyNow, KeyWord, KeyCount, Words
    <2>5. DataNow(cur)'
      BY <2>2, <2>3, <1>5 DEF DataNow
    <2>6. DataHolds(cur)'
      BY <2>1, <2>5, <1>2, <1>3, <1>11 DEF DataHolds
    <2> QED  BY <1>1, <1>3, <2>4, <2>6 DEF StreamInv
  <1> QED  BY <1>7, <1>8, <1>9, <1>10, <1>12, <1>13 DEF PipeInv

\* A SET writes the head of its bucket and is answered.
LEMMA StorePipe ==
  ASSUME KeysFit, MemTyped, PipeInv, mw.state = "MW_EVAL", mw.req.op = "SET", cc' = cc, filter' = filter,
         NEW b \in 1 .. Bins, NEW row,
         mw' = [mw EXCEPT !.state = "MW_SET_REST", !.loc = b, !.addr = Base(mw.req) + 1],
         mem' = [mem EXCEPT ![Base(mw.req)] = row],
         fifo' = [q \in Fifos |-> fifo'[q]],
         fifo'.in2md = Tail(fifo.in2md), fifo'.in2cc = fifo.in2cc, fifo'.memRd2comp = fifo.memRd2comp,
         fifo'.comp2memWr = fifo.comp2memWr, fifo'.comp2memWrKey = fifo.comp2memWrKey,
         fifo'.comp2memWrMemData = Tail(fifo.comp2memWrMemData), fifo'.dec2cc = fifo.dec2cc
  PROVE  PipeInv' /\ Head(fifo.in2md) = mw.req
  <1> DEFINE r == mw.req
             Q == fifo.comp2memWrMemData
  <1>1. QueueTypes /\ MwTypes /\ FilterInv /\ OrderInv /\ CompareInv /\ StreamInv
    BY DEF PipeInv
  <1>2. r \in Reqs /\ r.op # "FLUSH" /\ Tail(Q) \in Seq(Rows) /\ Streams(Tail(Q), Tail(MemRead(r)), DataOf(fifo.comp2memWr))
    BY <1>1, EvalWord
  <1>14. Words(r) \in Nat /\ Words(r) >= 1 /\ Base(r) \in Nat /\ \A w \in 0 .. Words(r) : Base(r) + w \in MemWords
    BY <1>2, RequestFits
  <1>4. /\ mw \in [state : MwStates, init : BOOLEAN, req : Reqs \cup {NoRequest}, free : SUBSET (1 .. Bins),
                   match : SUBSET (1 .. Bins), loc : Nat, addr : Nat]
        /\ mw.init /\ mw.addr = 0
    BY <1>1 DEF MwTypes
  <1>5. mw'.state = "MW_SET_REST" /\ mw'.req = r /\ mw'.addr = Base(r) + 1 /\ mw'.init /\ mw'.loc = b
    BY <1>4
  <1>6. HeldReq = <<r>> /\ OpenReq = <<r>> /\ HeldReq' = <<r>> /\ OpenReq' = << >>
    BY <1>5 DEF HeldReq, OpenReq
  <1>7. FilterInv'
    BY <1>1, <1>2, <1>6, FilterFrame
  <1>8. OrderInv' /\ Head(fifo.in2md) = r /\ fifo'.in2md \in Seq(Reqs)
    BY <1>1, <1>2, <1>6, OrderAnswers
  <1>9. QueueTypes'
    BY <1>1, <1>2, <1>8 DEF QueueTypes
  <1>10. MwTypes'
    <2>1. b \in Nat /\ Base(r) + 1 \in Nat /\ "MW_SET_REST" \in MwStates
      BY <1>14, TableAssumption DEF MwStates
    <2>2. mw' \in [state : MwStates, init : BOOLEAN, req : Reqs \cup {NoRequest}, free : SUBSET (1 .. Bins),
                   match : SUBSET (1 .. Bins), loc : Nat, addr : Nat]
      <3>1. PICK n \in Nat : n = Base(r) + 1
        BY <2>1
      <3>2. mw' = [mw EXCEPT !.state = "MW_SET_REST", !.loc = b, !.addr = n]
        BY <3>1
      <3> QED  BY <1>4, <2>1, <3>1, <3>2
    <2>3. mw'.addr \in Base(r) + 1 .. Base(r) + Words(r)
      BY <1>14, <1>5
    <2> QED  BY <1>2, <1>5, <2>2, <2>3 DEF MwTypes, Words, Base
  <1>15. \A a \in MemWords : a # Base(r) => mem'[a] = mem[a]
    BY DEF MemTyped
  <1>16. WritesBucket(r)
    <2>1. Base(r) \in Base(r) .. Base(r) + Words(r)
      BY <1>14
    <2> QED  BY <2>1, <1>15 DEF WritesBucket
  <1>11. /\ \A i \in 1 .. Compared : CopyInv(fifo.comp2memWr[i].req, fifo.comp2memWr[i].free, fifo.comp2memWr[i].match)'
         /\ DataOf(fifo.comp2memWr)' = DataOf(fifo.comp2memWr)
         /\ Compared' = Compared
    BY <1>1, <1>2, <1>6, <1>16, OthersKeep
  <1>12. CompareInv'
    BY <1>5, <1>11 DEF CompareInv
  <1>13. StreamInv'
    <2>1. PICK cur : cur = Tail(MemRead(r))
      OBVIOUS
    <2>2. cur \in Seq(Rows) /\ Len(cur) = Words(r) /\ \A p \in 1 .. Words(r) : cur[p] = MemRead(r)[p + 1]
      <3>1. MemRead(r) \in Seq(Rows) /\ Len(MemRead(r)) = Words(r) + 1 /\ Words(r) \in Nat
        BY <1>2, MemReadIs, RequestFits
      <3> QED  BY <2>1, <3>1, RestIs
    <2>3. KeyLeft = Words(r) /\ KeyLeft' = Words(r)
      <3>1. KeyLeft' = Base(r) + Words(r) + 1 - (Base(r) + 1)
        BY <1>5 DEF KeyLeft, Words, Base
      <3> QED  BY <3>1, <1>14 DEF KeyLeft
    <2>4. KeyNow' = KeyNow
      BY <2>3, <1>5 DEF KeyNow, KeyWord, KeyCount, Words
    <2>7. \A p \in 1 .. Words(r) : cur[p] = mem'[mw'.addr + p - 1]
      <3> SUFFICES ASSUME NEW p \in 1 .. Words(r) PROVE cur[p] = mem'[mw'.addr + p - 1]
        OBVIOUS
      <3>1. p + 1 \in 1 .. Words(r) + 1 /\ Base(r) + (p + 1) - 1 = Base(r) + p /\ (Base(r) + 1) + p - 1 = Base(r) + p
            /\ p \in 0 .. Words(r) /\ Base(r) + p # Base(r)
        BY <1>14
      <3>2. MemRead(r)[p + 1] = mem[Base(r) + p]
        BY <1>2, <3>1, MemReadIs
      <3> QED  BY <2>2, <3>1, <3>2, <1>5, <1>14, <1>15
    <2>5. DataNow(cur)'
      BY <2>2, <2>3, <2>7, <1>5 DEF DataNow
    <2>6. DataHolds(cur)'
      BY <2>1, <2>5, <1>2, <1>11 DEF DataHolds
    <2> QED  BY <1>1, <2>4, <2>6 DEF StreamInv
  <1> QED  BY <1>7, <1>8, <1>9, <1>10, <1>12, <1>13 DEF PipeInv

\* memWrite takes the next request.
LEMMA TakePipe ==
  ASSUME KeysFit, MemTyped, PipeInv, mw.state = "MW_IDLE", mw.init, fifo.comp2memWr # << >>, cc' = cc, filter' = filter,
         mem' = mem, NEW s, s = Head(fifo.comp2memWr),
         mw' = [mw EXCEPT !.req = s.req, !.free = s.free, !.match = s.match, !.addr = 0,
                          !.state = IF s.req.op = "FLUSH" /\ build.alloc = "dram" THEN "MW_FLUSH_WAIT" ELSE "MW_EVAL"],
         fifo' = [fifo EXCEPT !.comp2memWr = Tail(@)], ~(mw'.state = "MW_EVAL" /\ mw'.req.op = "FLUSH")
  PROVE  PipeInv'
  <1> DEFINE c == fifo.comp2memWr
             st == IF s.req.op = "FLUSH" /\ build.alloc = "dram" THEN "MW_FLUSH_WAIT" ELSE "MW_EVAL"
  <1>1. QueueTypes /\ MwTypes /\ FilterInv /\ OrderInv /\ CompareInv /\ StreamInv
    BY DEF PipeInv
  <1>2. c \in Seq(Bundles) /\ s \in Bundles /\ s = c[1] /\ Tail(c) \in Seq(Bundles) /\ Len(c) \in Nat /\ Len(c) >= 1
        /\ Len(Tail(c)) = Len(c) - 1 /\ \A i \in 1 .. Len(c) - 1 : Tail(c)[i] = c[i + 1]
    BY <1>1, RestIs DEF QueueTypes
  <1>3. PICK r : r = s.req
    OBVIOUS
  <1>4. r \in Reqs /\ s.free \in SUBSET (1 .. Bins) /\ s.match \in SUBSET (1 .. Bins)
    BY <1>2, <1>3 DEF Bundles
  <1>5. /\ mw \in [state : MwStates, init : BOOLEAN, req : Reqs \cup {NoRequest}, free : SUBSET (1 .. Bins),
                   match : SUBSET (1 .. Bins), loc : Nat, addr : Nat]
    BY <1>1 DEF MwTypes
  <1>6. mw'.state = st /\ mw'.req = r /\ mw'.addr = 0 /\ mw'.init /\ mw'.free = s.free /\ mw'.match = s.match
    BY <1>3, <1>5
  <1>7. /\ fifo' = [q \in Fifos |-> fifo'[q]]
        /\ fifo'.in2md = fifo.in2md /\ fifo'.in2cc = fifo.in2cc
        /\ fifo'.memRd2comp = fifo.memRd2comp /\ fifo'.comp2memWr = Tail(c)
        /\ fifo'.comp2memWrKey = fifo.comp2memWrKey /\ fifo'.comp2memWrMemData = fifo.comp2memWrMemData
        /\ fifo'.dec2cc = fifo.dec2cc
    BY <1>1 DEF QueueTypes, Fifos
  <1>8. (mw'.state = "MW_FLUSH_WAIT" /\ r.op = "FLUSH") \/ (mw'.state = "MW_EVAL" /\ r.op # "FLUSH")
    <2>1. CASE r.op = "FLUSH" /\ build.alloc = "dram"
      <3>1. st = "MW_FLUSH_WAIT"
        BY <1>3, <2>1
      <3> QED  BY <1>6, <2>1, <3>1
    <2>2. CASE ~(r.op = "FLUSH" /\ build.alloc = "dram")
      <3>1. st = "MW_EVAL"
        BY <1>3, <2>2
      <3>2. mw'.state = "MW_EVAL" /\ mw'.req = r
        BY <1>6, <3>1
      <3> QED  BY <3>2
    <2> QED  BY <2>1, <2>2
  <1>9. HeldReq = << >> /\ OpenReq = << >> /\ HeldReq' = <<r>> /\ OpenReq' = <<r>>
    BY <1>6, <1>8 DEF HeldReq, OpenReq
  <1>10. FilterInv'
    BY <1>1, <1>3, <1>7, <1>9, FilterTakes
  <1>11. OrderInv'
    BY <1>1, <1>3, <1>7, <1>9, OrderTakes
  <1>12. QueueTypes'
    BY <1>1, <1>2, <1>7 DEF QueueTypes
  <1>13. MwTypes'
    <2>1. st \in MwStates /\ 0 \in Nat
      BY DEF MwStates
    <2> HIDE DEF st
    <2>2. mw' \in [state : MwStates, init : BOOLEAN, req : Reqs \cup {NoRequest}, free : SUBSET (1 .. Bins),
                   match : SUBSET (1 .. Bins), loc : Nat, addr : Nat]
      <3>1. mw' = [mw EXCEPT !.req = r, !.free = s.free, !.match = s.match, !.addr = 0, !.state = st]
        BY <1>3 DEF st
      <3> QED  BY <1>4, <1>5, <2>1, <3>1
    <2> QED  BY <2>2, <1>4, <1>6, <1>8 DEF MwTypes
  <1>14. CompareInv'
    <2>1. \A q, F, M : CopyInv(q, F, M)' <=> CopyInv(q, F, M)
      BY DEF CopyInv, FreeBins, MatchBins, MemRead, Words, Base
    <2>2. ASSUME NEW i \in 1 .. Len(c) - 1
          PROVE  CopyInv(Tail(c)[i].req, Tail(c)[i].free, Tail(c)[i].match)
      <3>1. i + 1 \in 1 .. Len(c) /\ Tail(c)[i] = c[i + 1]
        BY <1>2
      <3> QED  BY <3>1, <1>1 DEF CompareInv, Compared
    <2>3. CopyInv(r, s.free, s.match)
      <3>1. 1 \in 1 .. Len(c)
        BY <1>2
      <3> QED  BY <3>1, <1>1, <1>2, <1>3 DEF CompareInv, Compared
    <2> QED  BY <2>1, <2>2, <2>3, <1>2, <1>6, <1>7 DEF CompareInv, Compared
  <1>15. StreamInv'
    <2>1. KeyLeft = 0
      BY DEF KeyLeft
    <2>2. KeyNow \in Seq(KeyItems) /\ Len(KeyNow) = 0
      BY <1>1, <2>1, KeyNowIs
    <2>3. PICK cur : DataHolds(cur)
      BY <1>1 DEF StreamInv
    <2>4. cur = << >> /\ cur \in Seq(Rows) /\ Len(cur) = 0
      BY <2>3 DEF DataHolds, DataNow
    <2>5. PICK d : d = Tail(c)
      OBVIOUS
    <2>6. /\ KeysOf(c) # << >> /\ Head(KeysOf(c)) = KeySeq(r) /\ KeysOf(d) = Tail(KeysOf(c))
          /\ DataOf(c) # << >> /\ Head(DataOf(c)) = DataSeq(r) /\ DataOf(d) = Tail(DataOf(c))
      BY <1>2, <1>3, <2>5, FramesShrink
    <2>7. KeysOf(c) \in Seq(Seq(KeyItems)) /\ DataOf(c) \in Seq(Seq(Rows))
      BY <1>2, KeysIs, DataIs
    <2>8. fifo.comp2memWrKey \in Seq(KeyItems) /\ fifo.comp2memWrMemData \in Seq(Rows)
      BY <1>1 DEF QueueTypes
    <2>9. Streams(fifo.comp2memWrKey, KeySeq(r), KeysOf(d))
      BY <1>1, <2>2, <2>6, <2>7, <2>8, StreamOpens DEF StreamInv
    <2>10. Streams(fifo.comp2memWrMemData, DataSeq(r), DataOf(d))
      BY <2>3, <2>4, <2>6, <2>7, <2>8, StreamOpens DEF DataHolds
    <2>11. KeyNow' = KeySeq(r)
      <3>1. PICK n \in Nat : n = KeyCount(r)
        BY <1>4, KeySeqIs
      <3>2. KeyLeft' = n /\ KeyCount(mw.req)' = n
        BY <3>1, <1>6, <1>8 DEF KeyLeft, KeyCount, Words
      <3>3. \A p \in 1 .. n : n - n + p = p
        OBVIOUS
      <3>4. KeyNow' = [p \in 1 .. n |-> KeyWord(r, n - n + p)]
        BY <3>2, <1>6 DEF KeyNow, KeyWord, Words
      <3>5. KeySeq(r) = [p \in 1 .. n |-> KeyWord(r, p)]
        BY <3>1 DEF KeySeq
      <3> QED  BY <3>3, <3>4, <3>5
    <2>12. PICK new : new = DataSeq(r)
      OBVIOUS
    <2>13. DataNow(new)'
      <3>1. new \in Seq(Rows)
        BY <1>4, <2>12, DataSeqTyped
      <3>2. r.op # "FLUSH" => new = MemRead(r)
        BY <2>12 DEF DataSeq
      <3>3. r.op = "FLUSH" => new = << >>
        BY <2>12 DEF DataSeq
      <3>4. MemRead(mw.req)' = MemRead(r)
        BY <1>6 DEF MemRead, Words, Base
      <3> QED  BY <3>1, <3>2, <3>3, <3>4, <1>6, <1>8 DEF DataNow
    <2>14. DataHolds(new)'
      <3>1. DataOf(d)' = DataOf(d)
        BY DEF DataOf, DataSeq, MemRead
      <3>2. DataOf(fifo.comp2memWr)' = DataOf(d)
        BY <1>7, <2>5, <3>1
      <3> QED  BY <1>7, <2>10, <2>12, <2>13, <3>2 DEF DataHolds
    <2> QED  BY <1>7, <2>5, <2>9, <2>11, <2>14 DEF StreamInv
  <1> QED  BY <1>10, <1>11, <1>12, <1>13, <1>14, <1>15 DEF PipeInv

\* A step of memWrite between two of its states in which it has no request, or in which it is
\* about to wait for the host or to clear the table.
LEMMA QuietPipe ==
  ASSUME KeysFit, PipeInv, cc' = cc, filter' = filter, mem' = mem, fifo' = fifo, MwTypes', mw'.state # "MW_EVAL",
         \/ {mw.state, mw'.state} \subseteq {"MW_IDLE", "MW_INIT_MEM"}
         \/ mw'.req = mw.req /\ {mw.state, mw'.state} \subseteq {"MW_FLUSH_WAIT", "MW_FLUSH"}
  PROVE  PipeInv'
  <1>1. QueueTypes /\ MwTypes /\ FilterInv /\ OrderInv /\ CompareInv /\ StreamInv
    BY DEF PipeInv
  <1>2. HeldReq' = HeldReq /\ OpenReq' = OpenReq
    BY DEF HeldReq, OpenReq
  <1>3. FilterInv' /\ OrderInv' /\ CompareInv'
    BY <1>1, <1>2, FilterFrame, OrderFrame, CompareFrame
  <1>4. QueueTypes'
    BY <1>1 DEF QueueTypes
  <1>5. KeyLeft' = KeyLeft /\ (KeyLeft = 0 \/ mw'.req = mw.req)
    BY DEF KeyLeft
  <1>6. KeyNow' = KeyNow
    <2>1. CASE mw'.req = mw.req
      BY <1>5, <2>1 DEF KeyNow, KeyWord, KeyCount, Words
    <2>2. CASE KeyLeft = 0
      <3>1. KeyNow = [p \in {} |-> 0] /\ KeyNow' = [p \in {} |-> 0]
        BY <1>5, <2>2 DEF KeyNow
      <3> QED  BY <3>1
    <2> QED  BY <1>5, <2>1, <2>2
  <1>7. PICK cur : DataHolds(cur)
    BY <1>1 DEF StreamInv
  <1>8. DataNow(cur)'
    BY <1>7 DEF DataHolds, DataNow
  <1>9. DataOf(fifo.comp2memWr)' = DataOf(fifo.comp2memWr)
    BY DEF DataOf, DataSeq, MemRead
  <1>10. DataHolds(cur)'
    BY <1>7, <1>8, <1>9 DEF DataHolds
  <1>11. StreamInv'
    BY <1>1, <1>6, <1>10 DEF StreamInv
  <1> QED  BY <1>3, <1>4, <1>11 DEF PipeInv

\* The words that MW_SET_REST and MW_CONSUME take.
RestTakes(cur) ==
  /\ cur \in Seq(Rows) /\ Len(cur) = KeyLeft /\ cur # << >>
  /\ mw.state = "MW_SET_REST" => \A p \in 1 .. KeyLeft : cur[p] = mem[mw.addr + p - 1]
  /\ Head(fifo.comp2memWrMemData) = cur[1]
  /\ Streams(Tail(fifo.comp2memWrMemData), Tail(cur), DataOf(fifo.comp2memWr))

LEMMA RestWords ==
  ASSUME KeysFit, MemTyped, QueueTypes, MwTypes, StreamInv, mw.state \in {"MW_SET_REST", "MW_CONSUME"}
  PROVE  /\ Head(fifo.comp2memWrKey) = KeyWord(mw.req, Words(mw.req) - KeyLeft + 1)
         /\ Streams(Tail(fifo.comp2memWrKey), Tail(KeyNow), KeysOf(fifo.comp2memWr))
         /\ Tail(fifo.comp2memWrKey) \in Seq(KeyItems) /\ Tail(fifo.comp2memWrMemData) \in Seq(Rows)
         /\ \E cur : RestTakes(cur)
  <1> DEFINE c == fifo.comp2memWr
             K == fifo.comp2memWrKey
             Q == fifo.comp2memWrMemData
  <1>1. /\ KeyLeft \in Nat /\ KeyNow \in Seq(KeyItems) /\ Len(KeyNow) = KeyLeft /\ KeyLeft >= 1
        /\ \A p \in 1 .. KeyLeft : KeyNow[p] = KeyWord(mw.req, KeyCount(mw.req) - KeyLeft + p)
    BY KeyNowIs
  <1>2. KeyNow # << >> /\ KeyNow[1] = KeyWord(mw.req, Words(mw.req) - KeyLeft + 1)
    <2>1. 1 \in 1 .. KeyLeft /\ KeyCount(mw.req) = Words(mw.req)
      BY <1>1 DEF MwTypes, KeyCount
    <2>2. KeyNow[1] = KeyWord(mw.req, Words(mw.req) - KeyLeft + 1)
      BY <1>1, <2>1
    <2>3. KeyNow # << >>
      BY <1>1
    <2> QED  BY <2>2, <2>3
  <1>3. KeysOf(c) \in Seq(Seq(KeyItems)) /\ DataOf(c) \in Seq(Seq(Rows)) /\ K \in Seq(KeyItems) /\ Q \in Seq(Rows)
    BY KeysIs, DataIs DEF QueueTypes
  <1>4. K # << >> /\ Head(K) = KeyNow[1] /\ Streams(Tail(K), Tail(KeyNow), KeysOf(c))
    BY <1>1, <1>2, <1>3, StreamShrinks DEF StreamInv
  <1>5. PICK cur : DataHolds(cur)
    BY DEF StreamInv
  <1>6. /\ cur \in Seq(Rows) /\ Len(cur) = KeyLeft
        /\ mw.state = "MW_SET_REST" => \A p \in 1 .. KeyLeft : cur[p] = mem[mw.addr + p - 1]
    BY <1>5 DEF DataHolds, DataNow
  <1>7. cur # << >>
    BY <1>1, <1>6
  <1>8. Q # << >> /\ Head(Q) = cur[1] /\ Streams(Tail(Q), Tail(cur), DataOf(c))
    BY <1>3, <1>5, <1>6, <1>7, StreamShrinks DEF DataHolds
  <1>9. RestTakes(cur)
    BY <1>6, <1>7, <1>8 DEF RestTakes
  <1>10. Tail(K) \in Seq(KeyItems) /\ Tail(Q) \in Seq(Rows)
    BY <1>3, <1>4, <1>8, RestIs
  <1> QED  BY <1>2, <1>4, <1>9, <1>10

\* Which word it is, and what becomes of what is left.
LEMMA RestCounts ==
  ASSUME KeysFit, MwTypes, mw.state \in {"MW_SET_REST", "MW_CONSUME"}
  PROVE  /\ mw.req \in Reqs /\ mw.req.op # "FLUSH" /\ KeyLeft \in Nat /\ KeyLeft >= 1 /\ KeyLeft <= Words(mw.req)
         /\ Words(mw.req) \in Nat /\ Base(mw.req) \in Nat /\ mw.addr \in Nat /\ mw.init
         /\ mw.state = "MW_SET_REST" => /\ mw.req.op = "SET" /\ mw.loc \in 1 .. Bins
                                        /\ KeyLeft = Base(mw.req) + Words(mw.req) + 1 - mw.addr
                                        /\ mw.addr \in Base(mw.req) + 1 .. Base(mw.req) + Words(mw.req)
         /\ mw.state = "MW_CONSUME" => KeyLeft = Words(mw.req) - mw.addr
  <1>1. mw.req \in Reqs /\ mw.req.op # "FLUSH" /\ mw.init /\ mw.addr \in Nat
    BY DEF MwTypes
  <1>2. KeyCount(mw.req) = Words(mw.req)
    BY <1>1 DEF KeyCount
  <1>3. KeyLeft \in Nat /\ KeyLeft >= 1 /\ KeyLeft <= Words(mw.req)
    BY <1>2, KeyNowIs
  <1>4. Words(mw.req) \in Nat /\ Base(mw.req) \in Nat
    BY <1>1, RequestFits
  <1> QED  BY <1>1, <1>3, <1>4 DEF MwTypes, KeyLeft

LEMMA RestPipe ==
  ASSUME KeysFit, MemTyped, PipeInv, mw.state \in {"MW_SET_REST", "MW_CONSUME"}, cc' = cc, filter' = filter,
         NEW last \in BOOLEAN, last = (KeyLeft = 1), NEW row,
         mem' = IF mw.state = "MW_CONSUME" THEN mem ELSE [mem EXCEPT ![mw.addr] = row],
         mw' = [mw EXCEPT !.addr = @ + 1, !.state = IF last THEN "MW_IDLE" ELSE @],
         fifo' = [fifo EXCEPT !.comp2memWrKey = Tail(@), !.comp2memWrMemData = Tail(@),
                    !.dec2cc = IF last /\ mw.state = "MW_SET_REST" THEN Append(@, 1) ELSE @]
  PROVE  PipeInv'
  <1> DEFINE c == fifo.comp2memWr
             K == fifo.comp2memWrKey
             Q == fifo.comp2memWrMemData
  <1>1. QueueTypes /\ MwTypes /\ FilterInv /\ OrderInv /\ CompareInv /\ StreamInv
    BY DEF PipeInv
  <1>2. PICK r : r = mw.req
    OBVIOUS
  <1>3. PICK n \in Nat, l \in Nat, a \in Nat, g \in Nat : n = Words(r) /\ l = KeyLeft /\ a = mw.addr /\ g = Base(r)
    BY <1>1, <1>2, RestCounts
  <1>4. /\ r \in Reqs /\ r.op # "FLUSH" /\ l >= 1 /\ l <= n /\ mw.init
        /\ mw.state = "MW_SET_REST" => r.op = "SET" /\ mw.loc \in 1 .. Bins /\ l = g + n + 1 - a /\ a \in g + 1 .. g + n
        /\ mw.state = "MW_CONSUME" => l = n - a
    BY <1>1, <1>2, <1>3, RestCounts
  <1>5. /\ fifo' = [q \in Fifos |-> fifo'[q]]
        /\ fifo'.in2md = fifo.in2md /\ fifo'.in2cc = fifo.in2cc
        /\ fifo'.memRd2comp = fifo.memRd2comp /\ fifo'.comp2memWr = c
        /\ fifo'.comp2memWrKey = Tail(K) /\ fifo'.comp2memWrMemData = Tail(Q)
        /\ fifo'.dec2cc = IF last /\ mw.state = "MW_SET_REST" THEN Append(fifo.dec2cc, 1) ELSE fifo.dec2cc
    BY <1>1 DEF QueueTypes, Fifos
  <1>6. /\ mw \in [state : MwStates, init : BOOLEAN, req : Reqs \cup {NoRequest}, free : SUBSET (1 .. Bins),
                   match : SUBSET (1 .. Bins), loc : Nat, addr : Nat]
    BY <1>1 DEF MwTypes
  <1> DEFINE st == IF last THEN "MW_IDLE" ELSE mw.state
  <1>7. mw'.state = st /\ mw'.req = r /\ mw'.addr = a + 1 /\ mw'.init /\ mw'.loc = mw.loc
    BY <1>2, <1>3, <1>4, <1>6
  <1>8. last <=> l = 1
    BY <1>3
  <1>9. st = "MW_IDLE" \/ (st = mw.state /\ l > 1)
    BY <1>4, <1>8
  <1>10. /\ Streams(Tail(K), Tail(KeyNow), KeysOf(c)) /\ Tail(K) \in Seq(KeyItems) /\ Tail(Q) \in Seq(Rows)
         /\ \E cur : RestTakes(cur)
    BY <1>1, RestWords
  <1>11. QueueTypes'
    <2>1. fifo'.dec2cc \in Seq({1})
      <3>1. fifo.dec2cc \in Seq({1}) /\ 1 \in {1}
        BY <1>1 DEF QueueTypes
      <3>2. Append(fifo.dec2cc, 1) \in Seq({1})
        BY <3>1, AppendProperties
      <3> QED  BY <3>1, <3>2, <1>5
    <2> QED  BY <1>1, <1>5, <1>10, <2>1 DEF QueueTypes
  <1>12. MwTypes'
    <2>1. st \in MwStates /\ a + 1 \in Nat
      BY <1>6 DEF MwStates
    <2>2. mw' \in [state : MwStates, init : BOOLEAN, req : Reqs \cup {NoRequest}, free : SUBSET (1 .. Bins),
                   match : SUBSET (1 .. Bins), loc : Nat, addr : Nat]
      <3>1. mw' = [mw EXCEPT !.addr = a + 1, !.state = st]
        BY <1>3, <1>6
      <3> HIDE DEF st
      <3> QED  BY <1>6, <2>1, <3>1
    <2>3. Words(mw.req)' = n /\ Base(mw.req)' = g
      BY <1>3, <1>7 DEF Words, Base
    <2>4. st = "MW_SET_REST" => r.op = "SET" /\ mw.loc \in 1 .. Bins /\ a + 1 \in g + 1 .. g + n
      BY <1>4, <1>9
    <2>5. st = "MW_CONSUME" => a + 1 \in 0 .. n - 1
      BY <1>4, <1>9
    <2>6. st \in {"MW_IDLE", "MW_SET_REST", "MW_CONSUME"}
      BY <1>9
    <2> HIDE DEF st
    <2> QED  BY <1>4, <1>7, <2>2, <2>3, <2>4, <2>5, <2>6 DEF MwTypes
  <1>13. OrderInv'
    <2>1. OpenReq' = OpenReq
      BY <1>7, <1>9 DEF OpenReq
    <2> QED  BY <1>1, <1>5, <2>1, OrderFrame
  <1>14. FilterInv'
    <2>1. CASE last /\ mw.state = "MW_SET_REST"
      <3>1. HeldReq = <<mw.req>> /\ HeldReq' = << >> /\ mw.req \in Reqs
        BY <1>2, <1>4, <1>7, <2>1 DEF HeldReq
      <3> QED  BY <1>1, <1>5, <2>1, <3>1, FilterReleases
    <2>2. CASE ~(last /\ mw.state = "MW_SET_REST")
      <3>1. HeldReq' = HeldReq
        BY <1>2, <1>7, <2>2 DEF HeldReq
      <3> QED  BY <1>1, <1>5, <2>2, <3>1, FilterFrame
    <2> QED  BY <2>1, <2>2
  <1>15. CompareInv' /\ DataOf(c)' = DataOf(c)
    <2>1. CASE mw.state = "MW_CONSUME"
      <3>1. mem' = mem
        BY <2>1
      <3>2. mw'.state # "MW_EVAL"
        BY <2>1, <1>7, <1>9
      <3>3. CompareInv'
        BY <1>1, <1>5, <3>1, <3>2, CompareFrame
      <3>4. DataOf(c)' = DataOf(c)
        <4>1. PICK d : d = c
          OBVIOUS
        <4>2. DataOf(d)' = DataOf(d)
          BY <3>1 DEF DataOf, DataSeq, MemRead
        <4> QED  BY <1>5, <4>1, <4>2
      <3> QED  BY <3>3, <3>4
    <2>2. CASE mw.state = "MW_SET_REST"
      <3>1. mem' = [mem EXCEPT ![a] = row] /\ mw.req \in Reqs /\ mw.req.op = "SET" /\ HeldReq = <<mw.req>>
        BY <2>2, <1>2, <1>3, <1>4 DEF HeldReq
      <3>2. a \in Base(mw.req) .. Base(mw.req) + Words(mw.req)
        BY <2>2, <1>2, <1>3, <1>4
      <3>3. WritesBucket(mw.req)
        BY <3>1, <3>2 DEF WritesBucket, MemTyped
      <3>4. /\ \A i \in 1 .. Compared : CopyInv(c[i].req, c[i].free, c[i].match)'
            /\ DataOf(c)' = DataOf(c) /\ Compared' = Compared
        BY <1>1, <1>5, <3>1, <3>3, OthersKeep
      <3>5. mw'.state # "MW_EVAL"
        BY <2>2, <1>7, <1>9
      <3> QED  BY <3>4, <3>5 DEF CompareInv
    <2> QED  BY <2>1, <2>2
  <1>16. KeyLeft' = l - 1
    <2>1. Words(mw.req)' = n /\ Base(mw.req)' = g
      BY <1>3, <1>7 DEF Words, Base
    <2>2. CASE last
      <3>1. mw'.state = "MW_IDLE"
        BY <1>7, <2>2
      <3>2. KeyLeft' = 0
        BY <3>1 DEF KeyLeft
      <3> QED  BY <3>2, <2>2, <1>8
    <2>3. CASE ~last /\ mw.state = "MW_SET_REST"
      <3>1. mw'.state = "MW_SET_REST"
        BY <1>7, <2>3
      <3>2. KeyLeft' = g + n + 1 - (a + 1)
        BY <3>1, <2>1, <1>7 DEF KeyLeft
      <3> QED  BY <3>2, <2>3, <1>4
    <2>4. CASE ~last /\ mw.state = "MW_CONSUME"
      <3>1. mw'.state = "MW_CONSUME"
        BY <1>7, <2>4
      <3>2. KeyLeft' = n - (a + 1)
        BY <3>1, <2>1, <1>7 DEF KeyLeft
      <3> QED  BY <3>2, <2>4, <1>4
    <2> QED  BY <2>2, <2>3, <2>4
  <1>17. KeyNow' = Tail(KeyNow)
    <2> DEFINE s == [p \in 1 .. l |-> KeyWord(r, n - l + p)]
               u == [p \in 1 .. l - 1 |-> KeyWord(r, n - (l - 1) + p)]
    <2>1. KeyCount(r) = n /\ KeyCount(mw.req)' = n
      BY <1>3, <1>4, <1>7 DEF KeyCount, Words
    <2>2. KeyNow = s
      BY <2>1, <1>2, <1>3 DEF KeyNow
    <2>3. KeyNow' = u
      BY <2>1, <1>7, <1>16 DEF KeyNow, KeyWord, Words
    <2>4. \A p \in 1 .. l : KeyWord(r, n - l + p) \in KeyItems
      <3> SUFFICES ASSUME NEW p \in 1 .. l PROVE KeyWord(r, n - l + p) \in KeyItems
        OBVIOUS
      <3>1. n - l + p \in Nat
        BY <1>4
      <3> QED  BY <3>1, <1>4, KeyWordTyped
    <2>5. \A p \in 1 .. l - 1 : p + 1 \in 1 .. l /\ n - (l - 1) + p = n - l + (p + 1)
      BY <1>4
    <2>6. s \in Seq(KeyItems) /\ Len(s) = l /\ \A p \in 1 .. l : s[p] = KeyWord(r, n - l + p)
      BY <2>4
    <2>7. u \in Seq(KeyItems) /\ Len(u) = l - 1 /\ \A p \in 1 .. l - 1 : u[p] = KeyWord(r, n - (l - 1) + p)
      <3>1. \A p \in 1 .. l - 1 : KeyWord(r, n - (l - 1) + p) \in KeyItems
        BY <2>4, <2>5
      <3>2. PICK m \in Nat : m = l - 1
        BY <1>4
      <3>3. u = [p \in 1 .. m |-> KeyWord(r, n - m + p)] /\ \A p \in 1 .. m : KeyWord(r, n - m + p) \in KeyItems
        BY <3>1, <3>2
      <3> HIDE DEF u
      <3>4. u \in Seq(KeyItems) /\ Len(u) = m /\ \A p \in 1 .. m : u[p] = KeyWord(r, n - m + p)
        BY <3>3
      <3> QED  BY <3>2, <3>4
    <2> HIDE DEF s, u
    <2>8. s # << >> /\ \A p \in 1 .. l - 1 : u[p] = s[p + 1]
      BY <2>5, <2>6, <2>7, <1>4
    <2>9. u = Tail(s)
      BY <2>6, <2>7, <2>8, SeqShrinks
    <2> QED  BY <2>2, <2>3, <2>9
  <1>18. PICK cur : RestTakes(cur)
    BY <1>10
  <1>19. PICK new : new = Tail(cur)
    OBVIOUS
  <1>20. cur \in Seq(Rows) /\ Len(cur) = l /\ cur # << >> /\ Streams(Tail(Q), new, DataOf(c))
         /\ (mw.state = "MW_SET_REST" => \A p \in 1 .. l : cur[p] = mem[a + p - 1])
    BY <1>3, <1>18, <1>19 DEF RestTakes
  <1>21. new \in Seq(Rows) /\ Len(new) = l - 1 /\ \A p \in 1 .. l - 1 : new[p] = cur[p + 1]
    BY <1>19, <1>20, RestIs
  <1>22. DataNow(new)'
    <2>1. CASE last
      <3>1. new = << >>
        BY <2>1, <1>8, <1>21, EmptySeq
      <3>2. mw'.state = "MW_IDLE"
        BY <1>7, <2>1
      <3> QED  BY <1>21, <3>1, <3>2 DEF DataNow
    <2>2. CASE ~last /\ mw.state = "MW_CONSUME"
      <3>1. mw'.state = "MW_CONSUME"
        BY <1>7, <2>2
      <3> QED  BY <1>16, <1>21, <3>1 DEF DataNow
    <2>3. CASE ~last /\ mw.state = "MW_SET_REST"
      <3>1. mw'.state = "MW_SET_REST"
        BY <1>7, <2>3
      <3>2. mem' = [mem EXCEPT ![a] = row]
        BY <1>3, <2>3
      <3>3. ASSUME NEW p \in 1 .. l - 1
            PROVE  new[p] = mem'[(a + 1) + p - 1]
        <4>1. p + 1 \in 1 .. l /\ a + (p + 1) - 1 = (a + 1) + p - 1 /\ (a + 1) + p - 1 # a
          BY <1>4
        <4>2. new[p] = mem[(a + 1) + p - 1]
          BY <4>1, <2>3, <1>20, <1>21
        <4>3. mem'[(a + 1) + p - 1] = mem[(a + 1) + p - 1]
          <5>1. (a + 1) + p - 1 \in MemWords
            <6>1. PICK w \in 0 .. n : (a + 1) + p - 1 = g + w
              <7>1. (a + 1) + p - 1 - g \in 0 .. n /\ (a + 1) + p - 1 = g + ((a + 1) + p - 1 - g)
                BY <1>4, <2>3
              <7> QED  BY <7>1
            <6> QED  BY <6>1, <1>3, <1>4, RequestFits
          <5> QED  BY <5>1, <4>1, <3>2 DEF MemTyped
        <4> QED  BY <4>2, <4>3
      <3> QED  BY <1>7, <1>16, <1>21, <3>1, <3>3 DEF DataNow
    <2> QED  BY <2>1, <2>2, <2>3
  <1>23. DataHolds(new)'
    BY <1>5, <1>15, <1>20, <1>22 DEF DataHolds
  <1>24. StreamInv'
    BY <1>5, <1>10, <1>17, <1>23 DEF StreamInv
  <1> QED  BY <1>11, <1>12, <1>13, <1>14, <1>15, <1>24 DEF PipeInv

\* A FLUSH clears the table word by word; nothing else is under way behind concurrencyControl.
LEMMA FlushPipe ==
  ASSUME KeysFit, MemTyped, PipeInv, mw.state = "MW_FLUSH", cc' = cc, filter' = filter,
         NEW last \in BOOLEAN, last = (mw.addr + 1 = TableWords - 1),
         mem' = [mem EXCEPT ![mw.addr] = [b \in 1 .. Bins |-> Zero]],
         mw' = [mw EXCEPT !.addr = @ + 1, !.state = IF last THEN "MW_FLUSH_CONSUME_KEY" ELSE @],
         fifo' = IF last THEN [fifo EXCEPT !.dec2cc = Append(@, 1), !.in2md = Tail(@)] ELSE fifo
  PROVE  PipeInv' /\ (last => Head(fifo.in2md) = mw.req)
  <1> DEFINE r == mw.req
             c == fifo.comp2memWr
             st == IF last THEN "MW_FLUSH_CONSUME_KEY" ELSE "MW_FLUSH"
  <1>1. QueueTypes /\ MwTypes /\ FilterInv /\ OrderInv /\ CompareInv /\ StreamInv
    BY DEF PipeInv
  <1>2. r \in Reqs /\ r.op = "FLUSH" /\ mw.init
    BY <1>1 DEF MwTypes
  <1>3. /\ fifo' = [q \in Fifos |-> fifo'[q]]
        /\ fifo'.in2md = (IF last THEN Tail(fifo.in2md) ELSE fifo.in2md) /\ fifo'.in2cc = fifo.in2cc
        /\ fifo'.memRd2comp = fifo.memRd2comp /\ fifo'.comp2memWr = c
        /\ fifo'.comp2memWrKey = fifo.comp2memWrKey /\ fifo'.comp2memWrMemData = fifo.comp2memWrMemData
        /\ fifo'.dec2cc = (IF last THEN Append(fifo.dec2cc, 1) ELSE fifo.dec2cc)
    BY <1>1 DEF QueueTypes, Fifos
  <1>4. mw \in [state : MwStates, init : BOOLEAN, req : Reqs \cup {NoRequest}, free : SUBSET (1 .. Bins),
                match : SUBSET (1 .. Bins), loc : Nat, addr : Nat]
    BY <1>1 DEF MwTypes
  <1>5. PICK a \in Nat : a = mw.addr
    BY <1>4
  <1>6. mw'.state = st /\ mw'.req = r /\ mw'.addr = a + 1 /\ mw'.init
    BY <1>2, <1>4, <1>5
  <1>7. HeldReq = <<r>> /\ OpenReq = <<r>>
    BY DEF HeldReq, OpenReq
  <1>8. (last => HeldReq' = << >> /\ OpenReq' = << >>) /\ (~last => HeldReq' = <<r>> /\ OpenReq' = <<r>>)
    BY <1>6 DEF HeldReq, OpenReq
  <1>9. FilterInv'
    <2>1. CASE last
      BY <1>1, <1>2, <1>3, <1>7, <1>8, <2>1, FilterReleases
    <2>2. CASE ~last
      BY <1>1, <1>3, <1>7, <1>8, <2>2, FilterFrame
    <2> QED  BY <2>1, <2>2
  <1>10. OrderInv' /\ fifo'.in2md \in Seq(Reqs) /\ (last => Head(fifo.in2md) = r)
    <2>1. CASE last
      BY <1>1, <1>2, <1>3, <1>7, <1>8, <2>1, OrderAnswers
    <2>2. CASE ~last
      <3>1. OrderInv'
        BY <1>1, <1>3, <1>7, <1>8, <2>2, OrderFrame
      <3> QED  BY <2>2, <3>1, <1>1, <1>3 DEF QueueTypes
    <2> QED  BY <2>1, <2>2
  <1>11. QueueTypes'
    <2>1. fifo'.dec2cc \in Seq({1})
      <3>1. fifo.dec2cc \in Seq({1}) /\ 1 \in {1}
        BY <1>1 DEF QueueTypes
      <3>2. Append(fifo.dec2cc, 1) \in Seq({1})
        BY <3>1, AppendProperties
      <3> QED  BY <3>1, <3>2, <1>3
    <2> QED  BY <1>1, <1>3, <1>10, <2>1 DEF QueueTypes
  <1>12. /\ \A i \in 1 .. Compared : CopyInv(c[i].req, c[i].free, c[i].match)'
         /\ DataOf(c)' = DataOf(c) /\ Compared' = Compared
    BY <1>1, <1>2, <1>3, <1>7, OthersKeep
  <1>13. CompareInv'
    <2>1. mw'.state # "MW_EVAL"
      BY <1>6
    <2> QED  BY <2>1, <1>12 DEF CompareInv
  <1>14. MwTypes'
    <2>1. st \in MwStates /\ a + 1 \in Nat /\ st \in {"MW_FLUSH_CONSUME_KEY", "MW_FLUSH"}
      BY DEF MwStates
    <2>2. mw' \in [state : MwStates, init : BOOLEAN, req : Reqs \cup {NoRequest}, free : SUBSET (1 .. Bins),
                   match : SUBSET (1 .. Bins), loc : Nat, addr : Nat]
      <3>1. mw' = [mw EXCEPT !.addr = a + 1, !.state = st]
        BY <1>4, <1>5
      <3> HIDE DEF st
      <3> QED  BY <1>4, <2>1, <3>1
    <2>3. st = "MW_FLUSH" => a + 1 <= TableWords - 2 /\ \A b \in 0 .. (a + 1) - 1 : mem'[b] = [i \in 1 .. Bins |-> Zero]
      <3> SUFFICES ASSUME st = "MW_FLUSH"
                   PROVE  a + 1 <= TableWords - 2 /\ \A b \in 0 .. (a + 1) - 1 : mem'[b] = [i \in 1 .. Bins |-> Zero]
        OBVIOUS
      <3>1. TableWords \in Nat
        BY TableAssumption DEF TableWords
      <3>2. a <= TableWords - 2 /\ a + 1 # TableWords - 1 /\ \A b \in 0 .. a - 1 : mem[b] = [i \in 1 .. Bins |-> Zero]
        BY <1>1, <1>5 DEF MwTypes
      <3>3. a + 1 <= TableWords - 2
        BY <3>1, <3>2
      <3>4. ASSUME NEW b \in 0 .. (a + 1) - 1
            PROVE  mem'[b] = [i \in 1 .. Bins |-> Zero]
        <4>1. b \in 0 .. TableWords + Stride /\ (b = a \/ b \in 0 .. a - 1)
          BY <3>1, <3>2, TableAssumption
        <4>2. b \in MemWords
          BY <4>1 DEF MemWords
        <4> QED  BY <4>1, <4>2, <3>2, <1>5 DEF MemTyped
      <3> QED  BY <3>3, <3>4
    <2> HIDE DEF st
    <2> QED  BY <1>2, <1>6, <2>1, <2>2, <2>3 DEF MwTypes
  <1>15. StreamInv'
    <2>1. KeyLeft = 1 /\ KeyLeft' = 1
      BY <1>6 DEF KeyLeft
    <2>2. KeyNow' = KeyNow
      BY <2>1, <1>6 DEF KeyNow, KeyWord, KeyCount, Words
    <2>3. PICK cur : DataHolds(cur)
      BY <1>1 DEF StreamInv
    <2>4. DataNow(cur)'
      BY <1>6, <2>3 DEF DataHolds, DataNow
    <2>5. DataHolds(cur)'
      BY <1>3, <1>12, <2>3, <2>4 DEF DataHolds
    <2> QED  BY <1>1, <1>3, <2>2, <2>5 DEF StreamInv
  <1> QED  BY <1>9, <1>10, <1>11, <1>13, <1>14, <1>15 DEF PipeInv

\* The FLUSH's word in the stream of keys is taken.
LEMMA FlushedPipe ==
  ASSUME KeysFit, MemTyped, PipeInv, mw.state = "MW_FLUSH_CONSUME_KEY", cc' = cc, filter' = filter, mem' = mem,
         mw' = [mw EXCEPT !.state = "MW_IDLE"], fifo' = [fifo EXCEPT !.comp2memWrKey = Tail(@)]
  PROVE  PipeInv'
  <1> DEFINE c == fifo.comp2memWr
             K == fifo.comp2memWrKey
  <1>1. QueueTypes /\ MwTypes /\ FilterInv /\ OrderInv /\ CompareInv /\ StreamInv
    BY DEF PipeInv
  <1>2. /\ fifo' = [q \in Fifos |-> fifo'[q]]
        /\ fifo'.in2md = fifo.in2md /\ fifo'.in2cc = fifo.in2cc
        /\ fifo'.memRd2comp = fifo.memRd2comp /\ fifo'.comp2memWr = c
        /\ fifo'.comp2memWrKey = Tail(K) /\ fifo'.comp2memWrMemData = fifo.comp2memWrMemData
        /\ fifo'.dec2cc = fifo.dec2cc
    BY <1>1 DEF QueueTypes, Fifos
  <1>3. /\ mw \in [state : MwStates, init : BOOLEAN, req : Reqs \cup {NoRequest}, free : SUBSET (1 .. Bins),
                   match : SUBSET (1 .. Bins), loc : Nat, addr : Nat]
        /\ mw.init
    BY <1>1 DEF MwTypes
  <1>4. mw'.state = "MW_IDLE" /\ mw'.init
    BY <1>3
  <1>5. HeldReq' = HeldReq /\ OpenReq' = OpenReq
    BY <1>4 DEF HeldReq, OpenReq
  <1>6. FilterInv' /\ OrderInv' /\ CompareInv'
    BY <1>1, <1>2, <1>4, <1>5, FilterFrame, OrderFrame, CompareFrame
  <1>7. MwTypes'
    <2>1. "MW_IDLE" \in MwStates
      BY DEF MwStates
    <2>2. mw' \in [state : MwStates, init : BOOLEAN, req : Reqs \cup {NoRequest}, free : SUBSET (1 .. Bins),
                   match : SUBSET (1 .. Bins), loc : Nat, addr : Nat]
      BY <1>3, <2>1
    <2> QED  BY <2>2, <1>4 DEF MwTypes
  <1>8. KeyNow \in Seq(KeyItems) /\ KeyLeft = 1 /\ Len(KeyNow) = 1
    <2>1. KeyLeft = 1
      BY DEF KeyLeft
    <2> QED  BY <1>1, <2>1, KeyNowIs
  <1>9. KeyNow # << >> /\ Tail(KeyNow) = << >>
    <2>1. KeyNow # << >>
      <3>1. PICK k \in Seq(KeyItems) : k = KeyNow
        BY <1>8
      <3>2. Len(k) = 1
        BY <1>8, <3>1
      <3>3. k # << >>
        BY <3>2
      <3> QED  BY <3>1, <3>3
    <2>2. Len(Tail(KeyNow)) = 0 /\ Tail(KeyNow) \in Seq(KeyItems)
      BY <1>8, <2>1, RestIs
    <2> QED  BY <2>1, <2>2, EmptySeq
  <1>10. KeysOf(c) \in Seq(Seq(KeyItems)) /\ K \in Seq(KeyItems)
    BY <1>1, KeysIs DEF QueueTypes
  <1>11. K # << >> /\ Streams(Tail(K), Tail(KeyNow), KeysOf(c))
    BY <1>1, <1>8, <1>9, <1>10, StreamShrinks DEF StreamInv
  <1>12. Tail(K) \in Seq(KeyItems)
    BY <1>10, <1>11, RestIs
  <1>13. QueueTypes'
    BY <1>1, <1>2, <1>12 DEF QueueTypes
  <1>14. KeyNow' = << >>
    <2>1. KeyLeft' = 0
      BY <1>4 DEF KeyLeft
    <2> QED  BY <2>1 DEF KeyNow
  <1>15. PICK cur : DataHolds(cur)
    BY <1>1 DEF StreamInv
  <1>16. DataNow(cur)'
    BY <1>4, <1>15 DEF DataHolds, DataNow
  <1>17. DataOf(c)' = DataOf(c)
    <2>1. PICK d : d = c
      OBVIOUS
    <2>2. DataOf(d)' = DataOf(d)
      BY DEF DataOf, DataSeq, MemRead
    <2> QED  BY <1>2, <2>1, <2>2
  <1>18. DataHolds(cur)'
    BY <1>2, <1>15, <1>16, <1>17 DEF DataHolds
  <1>19. StreamInv'
    BY <1>2, <1>9, <1>11, <1>14, <1>18 DEF StreamInv
  <1> QED  BY <1>6, <1>7, <1>13, <1>19 DEF PipeInv

\* Clearing a table that is clear.
LEMMA ClearsNothing ==
  ASSUME MemTyped, NEW a, NEW row, \A d \in MemWords : mem[d] = row, mem' = [mem EXCEPT ![a] = row]
  PROVE  mem' = mem
  <1>1. mem = [d \in MemWords |-> mem[d]] /\ mem' = [d \in MemWords |-> IF d = a THEN row ELSE mem[d]]
    BY DEF MemTyped
  <1>2. \A d \in MemWords : (IF d = a THEN row ELSE mem[d]) = mem[d]
    OBVIOUS
  <1> QED  BY <1>1, <1>2

LEMMA InitMemPipe ==
  ASSUME KeysFit, MemTyped, PipeInv, MwInitMem, cc' = cc, filter' = filter
  PROVE  PipeInv' /\ mem' = mem /\ fifo' = fifo /\ out' = out /\ {mw.state, mw'.state} \subseteq {"MW_IDLE", "MW_INIT_MEM"}
  <1> DEFINE st == IF build.alloc = "buddy" \/ mw.addr + 1 = TableWords - 1 THEN "MW_IDLE" ELSE "MW_INIT_MEM"
             n == IF build.alloc = "buddy" THEN mw.addr ELSE mw.addr + 1
  <1>1. MwTypes /\ mw.state = "MW_INIT_MEM" /\ fifo' = fifo /\ out' = out
    BY DEF PipeInv, MwInitMem
  <1>2. /\ mw \in [state : MwStates, init : BOOLEAN, req : Reqs \cup {NoRequest}, free : SUBSET (1 .. Bins),
                   match : SUBSET (1 .. Bins), loc : Nat, addr : Nat]
        /\ mw.init /\ \A a \in MemWords : mem[a] = [b \in 1 .. Bins |-> Zero]
    BY <1>1 DEF MwTypes
  <1>3. mw' = [mw EXCEPT !.addr = n, !.state = st]
    BY <1>1, <1>2 DEF MwInitMem, Cleared
  <1>4. mem' = mem
    <2>1. CASE build.alloc = "buddy"
      BY <2>1 DEF MwInitMem
    <2>2. CASE build.alloc # "buddy"
      <3>1. mem' = [mem EXCEPT ![mw.addr] = [b \in 1 .. Bins |-> Zero]]
        BY <2>2 DEF MwInitMem, Cleared
      <3>2. PICK row : row = [b \in 1 .. Bins |-> Zero]
        OBVIOUS
      <3>3. (\A d \in MemWords : mem[d] = row) /\ mem' = [mem EXCEPT ![mw.addr] = row]
        BY <1>2, <3>1, <3>2
      <3> QED  BY <3>3, ClearsNothing
    <2> QED  BY <2>1, <2>2
  <1>5. n \in Nat /\ st \in MwStates /\ st \in {"MW_IDLE", "MW_INIT_MEM"}
    BY <1>2 DEF MwStates
  <1> HIDE DEF n, st
  <1>6. mw'.state = st /\ mw'.init
    BY <1>2, <1>3
  <1>7. MwTypes'
    <2>1. mw' \in [state : MwStates, init : BOOLEAN, req : Reqs \cup {NoRequest}, free : SUBSET (1 .. Bins),
                   match : SUBSET (1 .. Bins), loc : Nat, addr : Nat]
      BY <1>2, <1>3, <1>5
    <2> QED  BY <2>1, <1>2, <1>4, <1>5, <1>6 DEF MwTypes
  <1>8. mw'.state # "MW_EVAL" /\ {mw.state, mw'.state} \subseteq {"MW_IDLE", "MW_INIT_MEM"}
    BY <1>1, <1>5, <1>6
  <1> QED  BY <1>1, <1>4, <1>7, <1>8, QuietPipe

LEMMA StartPipe ==
  ASSUME KeysFit, PipeInv, mw.state = "MW_IDLE", ~mw.init, mw' = [mw EXCEPT !.init = TRUE, !.state = "MW_INIT_MEM"],
         fifo' = fifo, mem' = mem, cc' = cc, filter' = filter
  PROVE  PipeInv' /\ mw'.state = "MW_INIT_MEM"
  <1>2. /\ mw \in [state : MwStates, init : BOOLEAN, req : Reqs \cup {NoRequest}, free : SUBSET (1 .. Bins),
                   match : SUBSET (1 .. Bins), loc : Nat, addr : Nat]
        /\ \A a \in MemWords : mem[a] = [b \in 1 .. Bins |-> Zero]
    BY DEF PipeInv, MwTypes
  <1>3. "MW_INIT_MEM" \in MwStates
    BY DEF MwStates
  <1>6. mw'.state = "MW_INIT_MEM" /\ mw'.init
    BY <1>2
  <1>7. MwTypes'
    <2>1. mw' \in [state : MwStates, init : BOOLEAN, req : Reqs \cup {NoRequest}, free : SUBSET (1 .. Bins),
                   match : SUBSET (1 .. Bins), loc : Nat, addr : Nat]
      BY <1>2, <1>3
    <2> QED  BY <2>1, <1>2, <1>6 DEF MwTypes
  <1>8. mw'.state # "MW_EVAL" /\ {mw.state, mw'.state} \subseteq {"MW_IDLE", "MW_INIT_MEM"}
    BY <1>6
  <1> QED  BY <1>6, <1>7, <1>8, QuietPipe

LEMMA FlushWaitPipe ==
  ASSUME KeysFit, PipeInv, mw.state = "MW_FLUSH_WAIT", mw' = [mw EXCEPT !.state = "MW_FLUSH"],
         fifo' = fifo, mem' = mem, cc' = cc, filter' = filter
  PROVE  PipeInv'
  <1>2. /\ mw \in [state : MwStates, init : BOOLEAN, req : Reqs \cup {NoRequest}, free : SUBSET (1 .. Bins),
                   match : SUBSET (1 .. Bins), loc : Nat, addr : Nat]
        /\ mw.init /\ mw.req \in Reqs /\ mw.req.op = "FLUSH" /\ mw.addr = 0
    BY DEF PipeInv, MwTypes
  <1>3. "MW_FLUSH" \in MwStates
    BY DEF MwStates
  <1>4. 0 <= TableWords - 2
    <2>1. mw.req.key \in DOMAIN KeyLen
      BY <1>2, RequestFits
    <2>2. Stride * Hash[mw.req.key] \in Nat /\ Stride * Hash[mw.req.key] <= TableWords - 2
      BY <2>1, BucketFits
    <2>3. TableWords \in Nat
      BY TableAssumption DEF TableWords
    <2> QED  BY <2>2, <2>3
  <1>6. mw'.state = "MW_FLUSH" /\ mw'.init /\ mw'.req = mw.req /\ mw'.addr = 0
    BY <1>2
  <1>7. MwTypes'
    <2>1. mw' \in [state : MwStates, init : BOOLEAN, req : Reqs \cup {NoRequest}, free : SUBSET (1 .. Bins),
                   match : SUBSET (1 .. Bins), loc : Nat, addr : Nat]
      BY <1>2, <1>3
    <2> QED  BY <2>1, <1>2, <1>4, <1>6 DEF MwTypes
  <1>8. mw'.state # "MW_EVAL" /\ {mw.state, mw'.state} \subseteq {"MW_FLUSH_WAIT", "MW_FLUSH"}
    BY <1>6
  <1> QED  BY <1>6, <1>7, <1>8, QuietPipe

-----------------------------------------------------------------------------
(* The answers.                                                            *)

Answers == [req : Reqs, res : [op : OpNames, ok : BOOLEAN, addr : Nat, vlen : Nat]]

\* Answer x changes key k.
ChangedBy(x, k) == x.res.ok /\ (x.req.op = "FLUSH" \/ (x.req.op \in {"SET", "DELETE"} /\ x.req.key = k))

LEMMA LatestIs ==
  ASSUME NEW k, out \in Seq(Answers)
  PROVE  /\ Latest(k) \in 0 .. Len(out)
         /\ Latest(k) # 0 => Changes(Latest(k), k)
  <1> DEFINE n == Len(out)
             S == { j \in 1 .. n : Changes(j, k) }
  <1>1. n \in Nat
    OBVIOUS
  <1>2. 1 .. (n + 1) - 1 = 1 .. n
    BY <1>1
  <1>3. Latest(k) = IF S = {} THEN 0 ELSE Highest(S)
    BY <1>2 DEF Latest, LastChange
  <1>4. S # {} => Highest(S) \in S
    <2>1. S \in SUBSET Nat /\ \A y \in S : y <= n
      BY <1>1
    <2> HIDE DEF S, n
    <2> QED  BY <1>1, <2>1, HighestIn
  <1> QED  BY <1>1, <1>3, <1>4

\* An answer is added: what came before is as it was.
LEMMA LastChangeStays ==
  ASSUME NEW k, out \in Seq(Answers), NEW x \in Answers, out' = Append(out, x)
  PROVE  /\ Len(out) \in Nat /\ Len(out') = Len(out) + 1 /\ out' \in Seq(Answers) /\ out'[Len(out) + 1] = x
         /\ \A j \in 1 .. Len(out) : out'[j] = out[j]
         /\ \A i \in 1 .. Len(out) + 1 : LastChange(i, k)' = LastChange(i, k)
         /\ ~ChangedBy(x, k) => Latest(k)' = Latest(k)
         /\ ChangedBy(x, k) => Latest(k)' = Len(out) + 1
  <1>1. /\ Len(out) \in Nat /\ Len(out') = Len(out) + 1 /\ out' \in Seq(Answers) /\ out'[Len(out) + 1] = x
        /\ \A j \in 1 .. Len(out) : out'[j] = out[j]
    BY LongerIs
  <1>0. PICK n \in Nat : n = Len(out)
    BY <1>1
  <1>12. Len(out') = n + 1 /\ out'[n + 1] = x /\ \A j \in 1 .. n : out'[j] = out[j]
    BY <1>0, <1>1
  <1>2. \A j \in 1 .. n : Changes(j, k)' <=> Changes(j, k)
    BY <1>12 DEF Changes
  <1>3. Changes(n + 1, k)' <=> ChangedBy(x, k)
    BY <1>12 DEF Changes, ChangedBy
  <1>4. ASSUME NEW i \in 1 .. n + 1
        PROVE  LastChange(i, k)' = LastChange(i, k)
    <2>1. \A j \in 1 .. i - 1 : j \in 1 .. n
      OBVIOUS
    <2>2. { j \in 1 .. i - 1 : Changes(j, k)' } = { j \in 1 .. i - 1 : Changes(j, k) }
      BY <2>1, <1>2
    <2> QED  BY <2>2 DEF LastChange
  <1> DEFINE S == { j \in 1 .. n : Changes(j, k) }
             T == { j \in 1 .. n + 1 : Changes(j, k)' }
  <1>5. 1 .. (n + 1) - 1 = 1 .. n /\ 1 .. (n + 2) - 1 = 1 .. n + 1 /\ Len(out') + 1 = n + 2
    BY <1>0, <1>1
  <1>6. Latest(k) = IF S = {} THEN 0 ELSE Highest(S)
    BY <1>0, <1>5 DEF Latest, LastChange
  <1>7. Latest(k)' = IF T = {} THEN 0 ELSE Highest(T)
    BY <1>0, <1>5 DEF Latest, LastChange
  <1>8. ~ChangedBy(x, k) => T = S
    <2> SUFFICES ASSUME ~ChangedBy(x, k) PROVE T = S
      OBVIOUS
    <2>1. \A j \in T : j \in 1 .. n
      <3> SUFFICES ASSUME NEW j \in T PROVE j \in 1 .. n
        OBVIOUS
      <3>1. j \in 1 .. n + 1 /\ j # n + 1
        BY <1>3
      <3> QED  BY <3>1
    <2>2. \A j \in 1 .. n : j \in 1 .. n + 1
      OBVIOUS
    <2> QED  BY <2>1, <2>2, <1>2
  <1>9. ChangedBy(x, k) => T # {} /\ Highest(T) = n + 1
    <2> SUFFICES ASSUME ChangedBy(x, k) PROVE T # {} /\ Highest(T) = n + 1
      OBVIOUS
    <2>1. n + 1 \in T /\ T \in SUBSET Nat /\ \A y \in T : y <= n + 1
      BY <1>1, <1>3
    <2> HIDE DEF T
    <2> QED  BY <2>1, HighestIs
  <1> HIDE DEF T, S
  <1>10. ~ChangedBy(x, k) => Latest(k)' = Latest(k)
    BY <1>6, <1>7, <1>8
  <1>11. ChangedBy(x, k) => Latest(k)' = n + 1
    BY <1>7, <1>9
  <1> QED  BY <1>0, <1>1, <1>4, <1>10, <1>11

\* The right answer to a request, after those before it.
AnswerRight(x) ==
  LET j == Latest(x.req.key)
      present == j # 0 /\ out[j].req.op = "SET"
  IN /\ x.res.op = x.req.op
     /\ x.req.op \in {"GET", "DELETE"} => x.res.ok = present
     /\ x.req.op = "GET" /\ x.res.ok => x.res.addr = out[j].res.addr /\ x.res.vlen = out[j].req.vlen

\* What AnswersSequential says of answer i.
AnswerFits(i) ==
  LET r == out[i].req
      s == out[i].res
      j == LastChange(i, r.key)
      present == j # 0 /\ out[j].req.op = "SET"
  IN /\ s.op = r.op
     /\ r.op \in {"GET", "DELETE"} => s.ok = present
     /\ r.op = "GET" /\ s.ok => s.addr = out[j].res.addr /\ s.vlen = out[j].req.vlen

LEMMA ChangeBefore ==
  ASSUME out \in Seq(Answers), NEW i \in 1 .. Len(out) + 1, NEW k
  PROVE  LastChange(i, k) \in 0 .. i - 1
  <1> DEFINE S == { j \in 1 .. i - 1 : Changes(j, k) }
  <1>1. Len(out) \in Nat /\ i \in Nat /\ i - 1 \in Nat
    OBVIOUS
  <1>2. S # {} => Highest(S) \in S
    <2>1. S \in SUBSET Nat /\ \A y \in S : y <= i - 1
      BY <1>1
    <2> HIDE DEF S
    <2> QED  BY <1>1, <2>1, HighestIn
  <1>3. LastChange(i, k) = IF S = {} THEN 0 ELSE Highest(S)
    BY DEF LastChange
  <1> QED  BY <1>1, <1>2, <1>3

LEMMA AnswersGrow ==
  ASSUME build.filters, build' = build, AnswersInv, NEW x \in Answers, out' = Append(out, x), AnswerRight(x)
  PROVE  AnswersInv'
  <1>1. out \in Seq(Answers)
    BY DEF AnswersInv, Answers
  <1>0. PICK n \in Nat : n = Len(out)
    BY <1>1
  <1>2. /\ n \in Nat /\ Len(out') = n + 1 /\ out' \in Seq(Answers) /\ out'[n + 1] = x
        /\ \A j \in 1 .. n : out'[j] = out[j]
    BY <1>0, <1>1, LongerIs
  <1>3. \A k : \A i \in 1 .. n + 1 : LastChange(i, k)' = LastChange(i, k)
    BY <1>0, <1>1, LastChangeStays
  <1>4. \A i \in 1 .. n : AnswerFits(i)
    <2>1. DOMAIN out = 1 .. n
      BY <1>0, <1>1
    <2>2. \A i \in DOMAIN out : AnswerFits(i)
      BY DEF AnswersInv, AnswersSequential, AnswerFits
    <2> QED  BY <2>1, <2>2
  <1>5. ASSUME NEW i \in 1 .. n
        PROVE  AnswerFits(i)'
    <2>1. PICK j : j = LastChange(i, out[i].req.key)
      OBVIOUS
    <2>2. i \in 1 .. n + 1 /\ out'[i] = out[i]
      BY <1>2
    <2>3. LastChange(i, out[i].req.key)' = j
      <3>1. PICK k : k = out[i].req.key
        OBVIOUS
      <3>2. LastChange(i, k)' = j
        BY <1>3, <2>1, <2>2, <3>1
      <3> QED  BY <2>2, <3>1, <3>2 DEF LastChange, Changes
    <2>4. j \in 0 .. i - 1
      BY <1>0, <1>1, <2>1, <2>2, ChangeBefore
    <2>5. j # 0 => out'[j] = out[j]
      BY <1>2, <2>4
    <2>6. AnswerFits(i)
      BY <1>4
    <2> QED  BY <2>1, <2>2, <2>3, <2>5, <2>6 DEF AnswerFits
  <1>6. AnswerFits(n + 1)'
    <2>0. PICK m \in Nat : m = n + 1
      BY <1>2
    <2>1. PICK j : j = Latest(x.req.key)
      OBVIOUS
    <2>2. LastChange(m, x.req.key)' = j
      <3>1. PICK k : k = x.req.key
        OBVIOUS
      <3>2. LastChange(m, k) = j
        BY <1>0, <2>0, <2>1, <3>1 DEF Latest
      <3>3. m \in 1 .. n + 1
        BY <2>0, <1>2
      <3>4. LastChange(m, k)' = j
        BY <1>3, <3>2, <3>3
      <3> QED  BY <3>1, <3>4
    <2>4. j \in 0 .. n
      BY <1>0, <1>1, <2>1, LatestIs
    <2>5. j # 0 => out'[j] = out[j]
      BY <1>2, <2>4
    <2>6. AnswerFits(m)'
      <3>1. out'[m] = x
        BY <1>2, <2>0
      <3>2. LastChange(m, out[m].req.key)' = j
        <4>1. PICK k : k = x.req.key
          OBVIOUS
        <4> QED  BY <2>2, <3>1, <4>1
      <3>3. /\ x.res.op = x.req.op
            /\ x.req.op \in {"GET", "DELETE"} => x.res.ok = (j # 0 /\ out[j].req.op = "SET")
            /\ x.req.op = "GET" /\ x.res.ok => x.res.addr = out[j].res.addr /\ x.res.vlen = out[j].req.vlen
        BY <2>1 DEF AnswerRight
      <3>4. (j # 0 /\ out[j].req.op = "SET") = (j # 0 /\ out'[j].req.op = "SET")
        BY <2>5
      <3>5. x.req.op = "GET" /\ x.res.ok => j # 0
        BY <3>3
      <3>6. /\ x.res.op = x.req.op
            /\ x.req.op \in {"GET", "DELETE"} => x.res.ok = (j # 0 /\ out'[j].req.op = "SET")
            /\ x.req.op = "GET" /\ x.res.ok => x.res.addr = out'[j].res.addr /\ x.res.vlen = out'[j].req.vlen
        BY <2>5, <3>3, <3>4, <3>5
      <3> QED  BY <3>1, <3>2, <3>6 DEF AnswerFits
    <2> QED  BY <2>0, <2>6
  <1>7. \A i \in DOMAIN out' : AnswerFits(i)'
    <2> SUFFICES ASSUME NEW i \in DOMAIN out' PROVE AnswerFits(i)'
      OBVIOUS
    <2>1. i \in 1 .. n \/ i = n + 1
      BY <1>2
    <2> QED  BY <2>1, <1>5, <1>6
  <1> QED  BY <1>2, <1>7 DEF AnswersInv, AnswersSequential, AnswerFits, Answers

-----------------------------------------------------------------------------
(* The table's content.                                                    *)

\* A key whose bins are as they were.
LEMMA KeyInvStays ==
  ASSUME NEW k, KeyInv(k), \A c \in 1 .. Bins : Stores(k, c)' <=> Stores(k, c),
         \A c \in 1 .. Bins : Stores(k, c) => HeadOf(k)'[c] = HeadOf(k)[c],
         Latest(k)' = Latest(k), Latest(k) # 0 => out'[Latest(k)] = out[Latest(k)]
  PROVE  KeyInv(k)'
  <1>1. PICK j : j = Latest(k)
    OBVIOUS
  <1>2. /\ \A b, c \in 1 .. Bins : Stores(k, b) /\ Stores(k, c) => b = c
        /\ (\E b \in 1 .. Bins : Stores(k, b)) <=> (j # 0 /\ out[j].req.op = "SET")
        /\ \A b \in 1 .. Bins : Stores(k, b) => HeadOf(k)[b][2] = out[j].req.vlen /\ HeadOf(k)[b][3] = out[j].res.addr
    BY <1>1 DEF KeyInv
  <1>3. j # 0 => out'[j] = out[j]
    BY <1>1
  <1>4. /\ \A b, c \in 1 .. Bins : Stores(k, b)' /\ Stores(k, c)' => b = c
        /\ (\E b \in 1 .. Bins : Stores(k, b)') <=> (j # 0 /\ out'[j].req.op = "SET")
    BY <1>2, <1>3
  <1>5. \A b \in 1 .. Bins : Stores(k, b)' => HeadOf(k)'[b][2] = out'[j].req.vlen /\ HeadOf(k)'[b][3] = out'[j].res.addr
    BY <1>2, <1>3
  <1>6. Latest(k)' = j
    BY <1>1
  <1> QED  BY <1>4, <1>5, <1>6 DEF KeyInv

\* Nothing of the table changes, and no key.
LEMMA ContentStays ==
  ASSUME KeysFit, ContentInv, mw.state # "MW_FLUSH",
         \A k \in DOMAIN KeyLen : HeadOf(k)' = HeadOf(k),
         \A k \in DOMAIN KeyLen : \A w \in 1 .. KeyWordsOf(k) : Settled(Stride * Hash[k] + w)' = Settled(Stride * Hash[k] + w),
         out \in Seq(Answers),
         \/ out' = out
         \/ \E x \in Answers : out' = Append(out, x) /\ \A k : ~ChangedBy(x, k)
  PROVE  ContentInv'
  <1> SUFFICES ASSUME NEW k \in DOMAIN KeyLen
               PROVE  KeyInv(k)'
    BY DEF ContentInv
  <1>1. KeyInv(k)
    BY DEF ContentInv
  <1>2. \A c : Stores(k, c)' <=> Stores(k, c)
    BY DEF Stores, KeyWordsOf
  <1>3. Latest(k)' = Latest(k) /\ (Latest(k) # 0 => out'[Latest(k)] = out[Latest(k)])
    <2>1. CASE out' = out
      BY <2>1 DEF Latest, LastChange, Changes
    <2>2. CASE \E x \in Answers : out' = Append(out, x) /\ \A l : ~ChangedBy(x, l)
      <3>1. PICK x \in Answers : out' = Append(out, x) /\ \A l : ~ChangedBy(x, l)
        BY <2>2
      <3>2. Latest(k)' = Latest(k) /\ \A j \in 1 .. Len(out) : out'[j] = out[j]
        BY <3>1, LastChangeStays
      <3>3. Latest(k) \in 0 .. Len(out)
        BY LatestIs
      <3> QED  BY <3>2, <3>3
    <2> QED  BY <2>1, <2>2
  <1> QED  BY <1>1, <1>2, <1>3, KeyInvStays

\* The same when memWrite is not writing the words of a key.
LEMMA ContentQuiet ==
  ASSUME KeysFit, ContentInv, mw.state \notin {"MW_FLUSH", "MW_SET_REST"}, mw'.state # "MW_SET_REST", mem' = mem,
         out \in Seq(Answers),
         \/ out' = out
         \/ \E x \in Answers : out' = Append(out, x) /\ \A k : ~ChangedBy(x, k)
  PROVE  ContentInv'
  <1>1. \A k \in DOMAIN KeyLen : HeadOf(k)' = HeadOf(k)
    BY DEF HeadOf
  <1>2. \A a : Settled(a)' = Settled(a)
    BY DEF Settled
  <1> QED  BY <1>1, <1>2, ContentStays

\* What MW_EVAL goes by is what the table has.
LEMMA EvalMatches ==
  ASSUME KeysFit, MemTyped, MwTypes, CompareInv, mw.state = "MW_EVAL"
  PROVE  /\ mw.req \in Reqs /\ mw.req.op # "FLUSH" /\ mw.req.key \in DOMAIN KeyLen
         /\ mw.match = { b \in 1 .. Bins : Stores(mw.req.key, b) }
         /\ mw.free = { b \in 1 .. Bins : HeadOf(mw.req.key)[b][1] = 0 }
  <1> DEFINE r == mw.req
             d == MemRead(r)
  <1>1. r \in Reqs /\ r.op # "FLUSH"
    BY DEF MwTypes
  <1>2. /\ r.key \in DOMAIN KeyLen /\ Base(r) = Stride * Hash[r.key] /\ Words(r) = KeyWordsOf(r.key)
        /\ Words(r) \in Nat /\ Base(r) \in Nat
    BY <1>1, RequestFits
  <1>3. d[1] = HeadOf(r.key) /\ \A i \in 1 .. Words(r) + 1 : d[i] = mem[Base(r) + i - 1]
    BY <1>1, <1>2, MemReadIs DEF HeadOf
  <1>4. \A w \in 1 .. Words(r) : d[w + 1] = Settled(Stride * Hash[r.key] + w)
    <2> SUFFICES ASSUME NEW w \in 1 .. Words(r) PROVE d[w + 1] = Settled(Stride * Hash[r.key] + w)
      OBVIOUS
    <2>1. w + 1 \in 1 .. Words(r) + 1 /\ Base(r) + (w + 1) - 1 = Base(r) + w
      BY <1>2
    <2>2. d[w + 1] = mem[Base(r) + w]
      BY <2>1, <1>3
    <2> QED  BY <2>2, <1>2 DEF Settled
  <1>5. mw.free = FreeBins(d) /\ mw.match = MatchBins(r, d)
    BY <1>1 DEF CompareInv, CopyInv
  <1> HIDE DEF d
  <1>6. mw.free = { b \in 1 .. Bins : HeadOf(r.key)[b][1] = 0 }
    BY <1>3, <1>5 DEF FreeBins
  <1>7. MatchBins(r, d) = { b \in 1 .. Bins : Stores(r.key, b) }
    BY <1>2, <1>3, <1>4 DEF MatchBins, Stores
  <1> QED  BY <1>1, <1>2, <1>5, <1>6, <1>7

\* A bin stores one key.
LEMMA StoresOne ==
  ASSUME KeysFit, NEW k \in DOMAIN KeyLen, NEW l \in DOMAIN KeyLen, k # l, Hash[k] = Hash[l], NEW b, Stores(k, b)
  PROVE  ~Stores(l, b)
  <1>1. 1 \in 1 .. KeyWordsOf(k) /\ 1 \in 1 .. KeyWordsOf(l)
    BY KeyFits
  <1>2. Settled(Stride * Hash[k] + 1)[b] = <<k, 1, 0>>
    BY <1>1 DEF Stores
  <1>3. Stores(l, b) => Settled(Stride * Hash[k] + 1)[b] = <<l, 1, 0>>
    BY <1>1 DEF Stores
  <1> QED  BY <1>2, <1>3

\* MW_EVAL writes bin b of the head of its bucket: this is all that changes.
BinWrites(r, b, row) ==
  /\ \A c \in 1 .. Bins : c # b => row[c] = mem[Base(r)][c]
  /\ mem' = [mem EXCEPT ![Base(r)] = row]
  /\ \/ mw'.state = "MW_CONSUME"
     \/ mw'.state = "MW_SET_REST" /\ mw'.loc = b /\ mw'.addr = Base(r) + 1 /\ mw'.req = r

LEMMA OtherBins ==
  ASSUME KeysFit, MemTyped, mw.state = "MW_EVAL", NEW r \in Reqs, NEW b \in 1 .. Bins, NEW row \in Rows,
         BinWrites(r, b, row), NEW k \in DOMAIN KeyLen, NEW c \in 1 .. Bins, ~(Hash[k] = Hash[r.key] /\ c = b)
  PROVE  /\ HeadOf(k)'[c] = HeadOf(k)[c]
         /\ \A w \in 1 .. KeyWordsOf(k) : Settled(Stride * Hash[k] + w)'[c] = Settled(Stride * Hash[k] + w)[c]
         /\ Stores(k, c)' <=> Stores(k, c)
  <1> USE DEF BinWrites
  <1>0. PICK g \in Nat, n \in Nat, h \in Nat, m \in Nat : g = Base(r) /\ n = Words(r) /\ h = Stride * Hash[k] /\ m = KeyWordsOf(k)
    BY RequestFits, BucketFits, KeyFits
  <1>1. /\ r.key \in DOMAIN KeyLen /\ g = Stride * Hash[r.key] /\ n = KeyWordsOf(r.key)
        /\ (\A w \in 0 .. n : g + w \in MemWords) /\ (\A w \in 0 .. m : h + w \in MemWords)
    BY <1>0, RequestFits, BucketFits
  <1>2. Hash[k] # Hash[r.key] => \A v \in 0 .. m, w \in 0 .. n : h + v # g + w
    BY <1>0, <1>1, WordsApart
  <1>3. g \in MemWords /\ h \in MemWords
    <2>1. 0 \in 0 .. n /\ 0 \in 0 .. m /\ g + 0 = g /\ h + 0 = h
      OBVIOUS
    <2> QED  BY <2>1, <1>1
  <1>4. mem'[g] = row /\ \A a \in MemWords : a # g => mem'[a] = mem[a]
    BY <1>0, <1>3 DEF MemTyped
  <1>5. mem'[h][c] = mem[h][c]
    <2>1. CASE Hash[k] = Hash[r.key]
      <3>1. h = g /\ c # b
        BY <2>1, <1>0, <1>1
      <3> QED  BY <3>1, <1>0, <1>4
    <2>2. CASE Hash[k] # Hash[r.key]
      <3>1. 0 \in 0 .. n /\ 0 \in 0 .. m /\ g + 0 = g /\ h + 0 = h
        OBVIOUS
      <3>2. h # g
        BY <2>2, <3>1, <1>2
      <3> QED  BY <3>2, <1>3, <1>4
    <2> QED  BY <2>1, <2>2
  <1>6. HeadOf(k)'[c] = HeadOf(k)[c]
    BY <1>0, <1>5 DEF HeadOf
  <1>7. ASSUME NEW w \in 1 .. m
        PROVE  Settled(h + w)'[c] = Settled(h + w)[c]
    <2>1. PICK a : a = h + w
      OBVIOUS
    <2>2. w \in 0 .. m
      OBVIOUS
    <2>3. a \in MemWords
      BY <2>1, <2>2, <1>1
    <2>4. a # g
      <3>1. CASE Hash[k] = Hash[r.key]
        <4>1. h = g
          BY <3>1, <1>0, <1>1
        <4> QED  BY <4>1, <2>1
      <3>2. CASE Hash[k] # Hash[r.key]
        <4>1. 0 \in 0 .. n /\ g + 0 = g
          OBVIOUS
        <4> QED  BY <2>1, <2>2, <3>2, <4>1, <1>2
      <3> QED  BY <3>1, <3>2
    <2>5. mem'[a] = mem[a] /\ mem[a] \in Rows
      BY <2>3, <2>4, <1>4 DEF MemTyped
    <2>6. Settled(a) = mem[a]
      BY DEF Settled
    <2>7. Settled(a)'[c] = mem'[a][c]
      <3>1. CASE mw'.state = "MW_CONSUME"
        BY <3>1 DEF Settled
      <3>2. CASE /\ mw'.state = "MW_SET_REST" /\ mw'.loc = b /\ mw'.addr = Base(r) + 1 /\ mw'.req = r
        <4>1. Settled(a)' = IF a \in g + 1 .. g + n THEN [mem'[a] EXCEPT ![b] = <<r.key, a - g, 0>>] ELSE mem'[a]
          BY <3>2, <1>0 DEF Settled, Words, Base
        <4>2. a \in g + 1 .. g + n => c # b
          <5> SUFFICES ASSUME a \in g + 1 .. g + n, c = b PROVE FALSE
            OBVIOUS
          <5>1. Hash[k] # Hash[r.key]
            OBVIOUS
          <5>2. PICK v \in 0 .. n : a = g + v
            <6>1. a - g \in 0 .. n /\ a = g + (a - g)
              OBVIOUS
            <6> QED  BY <6>1
          <5> QED  BY <5>1, <5>2, <2>1, <2>2, <1>2
        <4>3. mem'[a] \in Rows
          BY <2>5
        <4> QED  BY <4>1, <4>2, <4>3 DEF Rows
      <3> QED  BY <3>1, <3>2
    <2>8. Settled(a)'[c] = Settled(a)[c]
      BY <2>5, <2>6, <2>7
    <2> QED  BY <2>1, <2>8
  <1>8. \A w \in 1 .. KeyWordsOf(k) : Settled(Stride * Hash[k] + w)'[c] = Settled(Stride * Hash[k] + w)[c]
    BY <1>0, <1>7
  <1>9. Stores(k, c)' <=> Stores(k, c)
    BY <1>6, <1>8 DEF Stores, KeyWordsOf
  <1> QED  BY <1>6, <1>8, <1>9

\* A SET that is done, or a DELETE.
Deleted(x, row, b) == x.req.op = "DELETE" /\ mw'.state = "MW_CONSUME" /\ row[b][1] = 0
Stored(x, row, b) ==
  /\ x.req.op = "SET" /\ mw'.state = "MW_SET_REST" /\ mw'.loc = b /\ mw'.addr = Base(x.req) + 1 /\ mw'.req = x.req
  /\ row[b] = <<KeyLen[x.req.key], x.req.vlen, x.res.addr>>

BinChanges(x, b, row) ==
  /\ x.req = mw.req /\ x.res.ok /\ out' = Append(out, x)
  /\ \A c \in 1 .. Bins : c # b => row[c] = mem[Base(mw.req)][c]
  /\ mem' = [mem EXCEPT ![Base(mw.req)] = row]
  /\ Deleted(x, row, b) \/ Stored(x, row, b)
  /\ Stores(mw.req.key, b) \/ HeadOf(mw.req.key)[b][1] = 0
  /\ \A c \in 1 .. Bins : Stores(mw.req.key, c) => c = b

LEMMA BinWritten ==
  ASSUME KeysFit, MemTyped, out \in Seq(Answers), ContentInv, mw.state = "MW_EVAL",
         NEW x \in Answers, NEW b \in 1 .. Bins, NEW row \in Rows, BinChanges(x, b, row)
  PROVE  ContentInv'
  <1> USE DEF BinChanges
  <1>1. PICK r : r = x.req
    OBVIOUS
  <1>2. r \in Reqs /\ r = mw.req /\ r.op \in {"SET", "DELETE"}
    BY <1>1 DEF Answers, Deleted, Stored
  <1>3. r.key \in DOMAIN KeyLen /\ Base(r) = Stride * Hash[r.key] /\ Words(r) = KeyWordsOf(r.key)
        /\ Words(r) \in Nat /\ Words(r) >= 1 /\ Base(r) \in Nat /\ \A w \in 0 .. Words(r) : Base(r) + w \in MemWords
    BY <1>2, RequestFits
  <1>4. /\ \A c \in 1 .. Bins : c # b => row[c] = mem[Base(r)][c]
        /\ mem' = [mem EXCEPT ![Base(r)] = row]
        /\ Stores(r.key, b) \/ HeadOf(r.key)[b][1] = 0
        /\ \A c \in 1 .. Bins : Stores(r.key, c) => c = b
    BY <1>2
  <1>5. \/ mw'.state = "MW_CONSUME"
        \/ mw'.state = "MW_SET_REST" /\ mw'.loc = b /\ mw'.addr = Base(r) + 1 /\ mw'.req = r
    BY <1>1 DEF Deleted, Stored
  <1>6. ASSUME NEW k \in DOMAIN KeyLen, NEW c \in 1 .. Bins, ~(Hash[k] = Hash[r.key] /\ c = b)
        PROVE  HeadOf(k)'[c] = HeadOf(k)[c] /\ (Stores(k, c)' <=> Stores(k, c))
    <2>1. \A d \in 1 .. Bins : d # b => row[d] = mem[Base(r)][d]
      BY <1>4
    <2>2. mem' = [mem EXCEPT ![Base(r)] = row]
      BY <1>4
    <2>3. r \in Reqs
      BY <1>2
    <2>4. ~(Hash[k] = Hash[r.key] /\ c = b)
      BY <1>6
    <2>5. /\ HeadOf(k)'[c] = HeadOf(k)[c]
          /\ \A w \in 1 .. KeyWordsOf(k) : Settled(Stride * Hash[k] + w)'[c] = Settled(Stride * Hash[k] + w)[c]
          /\ Stores(k, c)' <=> Stores(k, c)
      <3>1. BinWrites(r, b, row)
        BY <1>5, <2>1, <2>2 DEF BinWrites
      <3> QED  BY <3>1, <2>3, <2>4, OtherBins
    <2> QED  BY <2>5
  <1>7. \A k : /\ ~ChangedBy(x, k) => Latest(k)' = Latest(k)
               /\ ChangedBy(x, k) => Latest(k)' = Len(out) + 1
    BY LastChangeStays
  <1>8. /\ \A j \in 1 .. Len(out) : out'[j] = out[j]
        /\ out'[Len(out) + 1] = x /\ Len(out) \in Nat
    BY LongerIs
  <1>9. Base(r) \in MemWords
    <2>1. 0 \in 0 .. Words(r) /\ Base(r) + 0 = Base(r)
      BY <1>3
    <2> QED  BY <2>1, <1>3
  <1>10. HeadOf(r.key)' = row
    BY <1>3, <1>4, <1>9 DEF HeadOf, MemTyped
  <1>11. ASSUME Stored(x, row, b), NEW w \in 1 .. Words(r)
         PROVE  Settled(Base(r) + w)'[b] = <<r.key, w, 0>>
    <2>0. PICK g \in Nat, n \in Nat : g = Base(r) /\ n = Words(r)
      BY <1>3
    <2>1. PICK a : a = g + w /\ g = Base(r) /\ n = Words(r)
      BY <2>0
    <2>2. a \in g + 1 .. g + n /\ a - g = w /\ a \in MemWords /\ a # g
      <3>1. w \in 0 .. n /\ w \in 1 .. n
        BY <2>1
      <3>2. g + w \in MemWords
        BY <2>1, <3>1, <1>3
      <3> QED  BY <2>1, <3>1, <3>2
    <2>3. mw'.state = "MW_SET_REST" /\ mw'.loc = b /\ mw'.addr = g + 1 /\ mw'.req = r
      BY <1>1, <1>11, <2>1 DEF Stored
    <2>4. Settled(a)' = [mem'[a] EXCEPT ![b] = <<r.key, a - g, 0>>]
      BY <2>1, <2>2, <2>3 DEF Settled, Words, Base
    <2>5. mem'[a] \in Rows
      BY <1>4, <2>1, <2>2 DEF MemTyped
    <2>6. Settled(a)'[b] = <<r.key, w, 0>>
      BY <2>2, <2>4, <2>5 DEF Rows
    <2> QED  BY <2>1, <2>6
  <1>12. KeyInv(r.key)'
    <2>1. ChangedBy(x, r.key)
      BY <1>1, <1>2 DEF ChangedBy
    <2>0. PICK j \in Nat : j = Len(out) + 1
      BY <1>8
    <2>2. PICK k : j = Len(out) + 1 /\ k = r.key
      BY <2>0
    <2>3. Latest(k)' = j /\ j # 0 /\ out'[j] = x
      BY <1>7, <1>8, <2>1, <2>2
    <2>4. \A c \in 1 .. Bins : c # b => ~Stores(k, c)'
      BY <1>3, <1>4, <1>6, <2>2
    <2>5. CASE Deleted(x, row, b)
      <3>1. row[b][1] = 0 /\ KeyLen[k] # 0 /\ x.req.op # "SET"
        BY <2>2, <2>5, <1>3, TableAssumption DEF Deleted
      <3>4. HeadOf(k)'[b][1] = 0
        BY <3>1, <1>10, <2>2
      <3>2. ~Stores(k, b)'
        BY <3>1, <3>4 DEF Stores
      <3>3. \A c \in 1 .. Bins : ~Stores(k, c)'
        BY <3>2, <2>4
      <3> QED  BY <3>1, <3>3, <2>2, <2>3 DEF KeyInv
    <2>6. CASE Stored(x, row, b)
      <3>1. row[b] = <<KeyLen[k], x.req.vlen, x.res.addr>> /\ x.req.op = "SET"
        BY <1>1, <2>2, <2>6 DEF Stored
      <3>2. HeadOf(k)'[b] = <<KeyLen[k], x.req.vlen, x.res.addr>>
        BY <3>1, <1>10, <2>2
      <3>3. Stores(k, b)'
        <4>1. \A w \in 1 .. KeyWordsOf(k) : Settled(Stride * Hash[k] + w)'[b] = <<k, w, 0>>
          BY <1>3, <1>11, <2>2, <2>6
        <4>2. HeadOf(k)'[b][1] = KeyLen[k]
          BY <3>2
        <4> QED  BY <4>1, <4>2 DEF Stores, KeyWordsOf
      <3>4. \A c \in 1 .. Bins : Stores(k, c)' <=> c = b
        BY <3>3, <2>4
      <3>5. HeadOf(k)'[b][2] = x.req.vlen /\ HeadOf(k)'[b][3] = x.res.addr
        BY <3>2
      <3>6. KeyInv(k)'
        BY <3>1, <3>4, <3>5, <2>3 DEF KeyInv
      <3> QED  BY <3>6, <2>2
    <2> QED  BY <2>5, <2>6
  <1>13. ASSUME NEW k \in DOMAIN KeyLen, k # r.key
         PROVE  KeyInv(k)'
    <2>1. ~ChangedBy(x, k)
      BY <1>1, <1>2, <1>13 DEF ChangedBy
    <2>2. Latest(k)' = Latest(k)
      BY <1>7, <2>1
    <2>3. Latest(k) \in 0 .. Len(out)
      BY LatestIs
    <2>4. Latest(k) # 0 => out'[Latest(k)] = out[Latest(k)]
      BY <1>8, <2>3
    <2>5. KeyInv(k)
      BY DEF ContentInv
    <2>6. Hash[k] = Hash[r.key] => ~Stores(k, b)
      <3> SUFFICES ASSUME Hash[k] = Hash[r.key] PROVE ~Stores(k, b)
        OBVIOUS
      <3>1. CASE Stores(r.key, b)
        BY <3>1, <1>3, <1>13, StoresOne
      <3>2. CASE HeadOf(r.key)[b][1] = 0
        <4>1. HeadOf(k)[b][1] = 0 /\ KeyLen[k] # 0
          BY <3>2, TableAssumption DEF HeadOf
        <4> QED  BY <4>1 DEF Stores
      <3> QED  BY <3>1, <3>2, <1>4
    <2>7. Hash[k] = Hash[r.key] => ~Stores(k, b)'
      <3> SUFFICES ASSUME Hash[k] = Hash[r.key] PROVE ~Stores(k, b)'
        OBVIOUS
      <3>0. HeadOf(k)' = row
        BY <1>10 DEF HeadOf
      <3>1. CASE Deleted(x, row, b)
        <4>1. HeadOf(k)'[b][1] = 0 /\ KeyLen[k] # 0
          BY <3>0, <3>1, TableAssumption DEF Deleted
        <4> QED  BY <4>1 DEF Stores
      <3>2. CASE Stored(x, row, b)
        <4>1. 1 \in 1 .. Words(r) /\ 1 \in 1 .. KeyWordsOf(k)
          BY <1>3, KeyFits
        <4>2. Settled(Base(r) + 1)'[b] = <<r.key, 1, 0>>
          BY <1>11, <3>2, <4>1
        <4>3. Settled(Stride * Hash[k] + 1)'[b] = <<r.key, 1, 0>>
          BY <4>2, <1>3
        <4>4. <<r.key, 1, 0>> # <<k, 1, 0>>
          BY <1>13
        <4>5. Settled(Stride * Hash[k] + 1)'[b] # <<k, 1, 0>>
          BY <4>3, <4>4
        <4>6. Stores(k, b)' => \A w \in 1 .. KeyWordsOf(k) : Settled(Stride * Hash[k] + w)'[b] = <<k, w, 0>>
          BY DEF Stores, KeyWordsOf
        <4> QED  BY <4>1, <4>5, <4>6
      <3> QED  BY <3>1, <3>2
    <2>8. \A c \in 1 .. Bins : Stores(k, c)' <=> Stores(k, c)
      BY <1>6, <2>6, <2>7
    <2>9. \A c \in 1 .. Bins : Stores(k, c) => HeadOf(k)'[c] = HeadOf(k)[c]
      BY <1>6, <2>6
    <2> QED  BY <2>2, <2>4, <2>5, <2>8, <2>9, KeyInvStays
  <1> QED  BY <1>2, <1>12, <1>13 DEF ContentInv

\* The words of a SET's key: the settled table is as it was.
LEMMA RestContent ==
  ASSUME KeysFit, MemTyped, MwTypes, ContentInv, out \in Seq(Answers), out' = out, mw.state = "MW_SET_REST",
         mem' = [mem EXCEPT ![mw.addr] = [mem[mw.addr] EXCEPT ![mw.loc] = <<mw.req.key, mw.addr - Base(mw.req), 0>>]],
         mw'.req = mw.req, mw'.loc = mw.loc, mw'.addr = mw.addr + 1,
         mw'.state = IF mw.addr = Base(mw.req) + Words(mw.req) THEN "MW_IDLE" ELSE "MW_SET_REST"
  PROVE  ContentInv'
  <1>1. PICK r \in Reqs, a \in Nat, g \in Nat, n \in Nat, b \in 1 .. Bins :
          r = mw.req /\ a = mw.addr /\ g = Base(r) /\ n = Words(r) /\ b = mw.loc
    BY RestCounts
  <1>2. a \in g + 1 .. g + n
    BY <1>1, RestCounts
  <1>3. /\ r.key \in DOMAIN KeyLen /\ g = Stride * Hash[r.key] /\ n = KeyWordsOf(r.key)
        /\ \A w \in 0 .. n : g + w \in MemWords
    BY <1>1, RequestFits
  <1>4. PICK v \in 1 .. n : a = g + v
    <2>1. a - g \in 1 .. n /\ a = g + (a - g)
      BY <1>2
    <2> QED  BY <2>1
  <1>5. a \in MemWords
    <2>1. v \in 0 .. n
      OBVIOUS
    <2> QED  BY <2>1, <1>3, <1>4
  <1>6. mem'[a] = [mem[a] EXCEPT ![b] = <<r.key, a - g, 0>>] /\ \A d \in MemWords : d # a => mem'[d] = mem[d]
    BY <1>1, <1>5 DEF MemTyped
  <1>7. ASSUME NEW k \in DOMAIN KeyLen
        PROVE  HeadOf(k)' = HeadOf(k)
    <2>1. PICK h \in Nat, m \in Nat : h = Stride * Hash[k] /\ m = KeyWordsOf(k) /\ h \in MemWords
      <3>1. Stride * Hash[k] \in Nat /\ KeyWordsOf(k) \in Nat /\ \A w \in 0 .. KeyWordsOf(k) : Stride * Hash[k] + w \in MemWords
        BY BucketFits, KeyFits
      <3>2. 0 \in 0 .. KeyWordsOf(k) /\ Stride * Hash[k] + 0 = Stride * Hash[k]
        BY <3>1
      <3> QED  BY <3>1, <3>2
    <2>2. h # a
      <3>1. CASE Hash[k] = Hash[r.key]
        <4>1. h = g
          BY <2>1, <3>1, <1>3
        <4> QED  BY <4>1, <1>4
      <3>2. CASE Hash[k] # Hash[r.key]
        <4>1. 0 \in 0 .. m /\ v \in 0 .. n /\ h + 0 = h
          OBVIOUS
        <4>2. h + 0 # g + v
          BY <2>1, <3>2, <4>1, <1>3, WordsApart
        <4> QED  BY <4>1, <4>2, <1>4
      <3> QED  BY <3>1, <3>2
    <2> QED  BY <2>1, <2>2, <1>6 DEF HeadOf
  <1>8. ASSUME NEW k \in DOMAIN KeyLen, NEW w \in 1 .. KeyWordsOf(k)
        PROVE  Settled(Stride * Hash[k] + w)' = Settled(Stride * Hash[k] + w)
    <2>1. PICK d \in MemWords : d = Stride * Hash[k] + w
      <3>1. w \in 0 .. KeyWordsOf(k)
        BY KeyFits
      <3> QED  BY <3>1, BucketFits
    <2>2. Settled(d) = IF d \in a .. g + n THEN [mem[d] EXCEPT ![b] = <<r.key, d - g, 0>>] ELSE mem[d]
      BY <1>1 DEF Settled, Words, Base
    <2>3. Settled(d)' = IF a # g + n /\ d \in a + 1 .. g + n THEN [mem'[d] EXCEPT ![b] = <<r.key, d - g, 0>>] ELSE mem'[d]
      <3>1. mw'.state = "MW_SET_REST" <=> a # g + n
        BY <1>1
      <3>2. mw'.addr = a + 1 /\ mw'.req = r /\ mw'.loc = b
        BY <1>1
      <3> QED  BY <3>1, <3>2, <1>1 DEF Settled, Words, Base
    <2>4. d \in Nat
      BY <2>1, TableAssumption DEF MemWords, TableWords
    <2>5. CASE d = a
      <3>1. d \in a .. g + n /\ d \notin a + 1 .. g + n
        BY <2>4, <2>5, <1>2
      <3> QED  BY <3>1, <2>1, <2>2, <2>3, <2>5, <1>6
    <2>6. CASE d # a
      <3>1. d \in a .. g + n <=> (a # g + n /\ d \in a + 1 .. g + n)
        BY <2>4, <2>6, <1>2
      <3> QED  BY <3>1, <2>1, <2>2, <2>3, <2>6, <1>6
    <2> QED  BY <2>5, <2>6
  <1> QED  BY <1>7, <1>8, ContentStays

\* A FLUSH leaves no key.
LEMMA FlushContent ==
  ASSUME KeysFit, MemTyped, MwTypes, out \in Seq(Answers), mw.state = "MW_FLUSH", mw.addr + 1 = TableWords - 1,
         mem' = [mem EXCEPT ![mw.addr] = [b \in 1 .. Bins |-> Zero]],
         NEW x \in Answers, out' = Append(out, x), x.req.op = "FLUSH", x.res.ok
  PROVE  ContentInv'
  <1> SUFFICES ASSUME NEW k \in DOMAIN KeyLen
               PROVE  KeyInv(k)'
    BY DEF ContentInv
  <1>1. Latest(k)' = Len(out) + 1 /\ out'[Len(out) + 1] = x
    BY LastChangeStays DEF ChangedBy
  <1>2. HeadOf(k)' = [b \in 1 .. Bins |-> Zero]
    <2>1. PICK a \in Nat, h \in Nat : a = mw.addr /\ h = Stride * Hash[k]
      BY BucketFits DEF MwTypes
    <2>2. h <= TableWords - 2 /\ TableWords \in Nat
      BY <2>1, BucketFits, TableAssumption DEF TableWords
    <2>3. h = a \/ h \in 0 .. a - 1
      BY <2>1, <2>2
    <2>4. h \in MemWords
      BY <2>2, TableAssumption DEF MemWords
    <2>5. mem'[h] = [b \in 1 .. Bins |-> Zero]
      BY <2>1, <2>3, <2>4 DEF MemTyped, MwTypes
    <2> QED  BY <2>1, <2>5 DEF HeadOf
  <1>3. \A b \in 1 .. Bins : ~Stores(k, b)'
    <2> SUFFICES ASSUME NEW b \in 1 .. Bins PROVE ~Stores(k, b)'
      OBVIOUS
    <2>1. HeadOf(k)'[b][1] = 0 /\ KeyLen[k] # 0
      BY <1>2, TableAssumption DEF Zero
    <2> QED  BY <2>1 DEF Stores
  <1>4. out'[Latest(k)'].req.op # "SET"
    BY <1>1
  <1> QED  BY <1>3, <1>4 DEF KeyInv

-----------------------------------------------------------------------------
(* Value addresses.                                                        *)

\* What may be assigned, and the types of it.
PoolTyped ==
  /\ host \subseteq Nat /\ next \in Nat /\ fifo.addressAssign \in Seq(Nat)
  /\ \A i, j \in DOMAIN fifo.addressAssign : fifo.addressAssign[i] = fifo.addressAssign[j] => i = j
  /\ Assigned \cap host = {}

LEMMA UnsharedParts ==
  ASSUME build.filters, UnsharedInv
  PROVE  /\ MemTyped /\ PoolTyped
         /\ \A d, e \in Entries : d # e => AddressOf(d) # AddressOf(e)
         /\ \A e \in Entries : ~Assignable(AddressOf(e))
  BY DEF UnsharedInv, AddressesUnshared, MemTyped, PoolTyped

LEMMA UnsharedMade ==
  ASSUME MemTyped', PoolTyped',
         \A d, e \in Entries' : d # e => AddressOf(d)' # AddressOf(e)',
         \A e \in Entries' : \A a : a = AddressOf(e)' => ~Assignable(a)'
  PROVE  UnsharedInv'
  <1>1. \A e \in Entries' : ~Assignable(AddressOf(e))'
    BY DEF Assignable
  <1> QED  BY <1>1 DEF UnsharedInv, AddressesUnshared, MemTyped, PoolTyped

LEMMA EntryTyped ==
  ASSUME MemTyped, NEW g \in 0 .. Buckets - 1, NEW b \in 1 .. Bins
  PROVE  /\ Stride * g \in MemWords /\ Stride * g \in Nat /\ Stride * g + Stride <= TableWords
         /\ mem[Stride * g] \in Rows /\ mem[Stride * g][b] \in Cells /\ mem[Stride * g][b][3] \in Nat
  <1>1. Stride \in Nat /\ Buckets \in Nat /\ g \in Nat /\ g < Buckets
    BY TableAssumption
  <1>2. Stride * g \in Nat /\ Stride * Buckets \in Nat /\ Stride * g + Stride <= Stride * Buckets
    BY <1>1, BucketsApart
  <1>3. PICK h \in Nat, t \in Nat : h = Stride * g /\ t = Stride * Buckets
    BY <1>2
  <1>4. h \in 0 .. t + Stride
    BY <1>1, <1>2, <1>3
  <1>5. Stride * g \in MemWords
    BY <1>3, <1>4 DEF MemWords, TableWords
  <1> QED  BY <1>2, <1>5 DEF MemTyped, Rows, Cells, TableWords

LEMMA AddressTyped ==
  ASSUME MemTyped, NEW e \in Entries
  PROVE  AddressOf(e) \in Nat
  BY EntryTyped DEF Entries, AddressOf

\* Entries that stay keep their address.
Kept == \A e \in Entries' : e \in Entries /\ AddressOf(e)' = AddressOf(e)

LEMMA UnsharedKept ==
  ASSUME build.filters, build' = build, UnsharedInv, MemTyped', Kept,
         host' = host, next' = next, fifo'.addressAssign = fifo.addressAssign
  PROVE  UnsharedInv'
  <1>1. PoolTyped'
    BY UnsharedParts DEF PoolTyped, Assigned
  <1>2. \A a : Assignable(a)' <=> Assignable(a)
    BY DEF Assignable
  <1>3. \A d, e \in Entries' : d # e => AddressOf(d)' # AddressOf(e)'
    BY UnsharedParts DEF Kept
  <1>4. \A e \in Entries' : \A a : a = AddressOf(e)' => ~Assignable(a)'
    BY <1>2, UnsharedParts DEF Kept
  <1> QED  BY <1>1, <1>3, <1>4, UnsharedMade

\* An entry goes, and its address back to the host.
LEMMA UnsharedFreed ==
  ASSUME build.filters, build' = build, UnsharedInv, MemTyped', NEW d \in Entries, AddressOf(d) \in Nat,
         Kept, d \notin Entries',
         host' = (IF build.alloc = "dram" THEN host \cup {AddressOf(d)} ELSE host),
         next' = next, fifo'.addressAssign = fifo.addressAssign
  PROVE  UnsharedInv'
  <1>1. ~Assignable(AddressOf(d))
    BY UnsharedParts
  <1>2. build.alloc = "dram" => AddressOf(d) \notin Assigned
    BY <1>1 DEF Assignable, Assigned
  <1>3. PoolTyped'
    <2>1. Assigned' = Assigned
      BY DEF Assigned
    <2>2. PoolTyped
      BY UnsharedParts
    <2> QED  BY <1>2, <2>1, <2>2 DEF PoolTyped
  <1>4. \A a : Assignable(a)' => Assignable(a) \/ a = AddressOf(d)
    BY DEF Assignable
  <1>5. \A e, f \in Entries' : e # f => AddressOf(e)' # AddressOf(f)'
    BY UnsharedParts DEF Kept
  <1>6. \A e \in Entries' : \A a : a = AddressOf(e)' => ~Assignable(a)'
    <2> SUFFICES ASSUME NEW e \in Entries'
                 PROVE  \A a : a = AddressOf(e)' => ~Assignable(a)'
      OBVIOUS
    <2>1. e \in Entries /\ e # d /\ AddressOf(e)' = AddressOf(e)
      BY DEF Kept
    <2>2. ~Assignable(AddressOf(e)) /\ AddressOf(e) # AddressOf(d)
      BY <2>1, UnsharedParts
    <2> QED  BY <1>4, <2>1, <2>2
  <1> QED  BY <1>3, <1>5, <1>6, UnsharedMade

\* A new entry takes the address that is next.
LEMMA UnsharedTaken ==
  ASSUME build.filters, build' = build, build.alloc \in {"dram", "buddy"}, UnsharedInv, MemTyped',
         NEW d, d \notin Entries, NEW a,
         \A e \in Entries' : IF e = d THEN AddressOf(e)' = a ELSE e \in Entries /\ AddressOf(e)' = AddressOf(e),
         host' = host,
         \/ /\ build.alloc = "dram" /\ fifo.addressAssign # << >> /\ a = Head(fifo.addressAssign)
            /\ fifo'.addressAssign = Tail(fifo.addressAssign) /\ next' = next
         \/ /\ build.alloc = "buddy" /\ a = next /\ next' = next + 1 /\ fifo'.addressAssign = fifo.addressAssign
  PROVE  UnsharedInv'
  <1>0. PoolTyped
    BY UnsharedParts
  <1>1. PoolTyped' /\ Assignable(a) /\ ~Assignable(a)' /\ \A c \in Nat : Assignable(c)' => Assignable(c)
    <2>1. CASE /\ build.alloc = "dram" /\ fifo.addressAssign # << >> /\ a = Head(fifo.addressAssign)
               /\ fifo'.addressAssign = Tail(fifo.addressAssign) /\ next' = next
      <3> DEFINE q == fifo.addressAssign
      <3>1. PICK n \in Nat : n = Len(q) /\ n >= 1
        BY <1>0, <2>1, RestIs DEF PoolTyped
      <3>2. /\ q \in Seq(Nat) /\ a = q[1] /\ Tail(q) \in Seq(Nat) /\ Len(Tail(q)) = n - 1
            /\ \A i \in 1 .. n - 1 : Tail(q)[i] = q[i + 1]
        BY <1>0, <2>1, <3>1, RestIs DEF PoolTyped
      <3>3. DOMAIN q = 1 .. n /\ DOMAIN Tail(q) = 1 .. n - 1
        BY <3>1, <3>2
      <3>4. PICK t : t = Tail(q) /\ fifo'.addressAssign = t /\ DOMAIN t = 1 .. n - 1 /\ \A i \in 1 .. n - 1 : t[i] = q[i + 1]
        BY <2>1, <3>2, <3>3
      <3>5. \A i, j \in 1 .. n : q[i] = q[j] => i = j
        BY <1>0, <3>3 DEF PoolTyped
      <3>6. \A i \in 1 .. n - 1 : i + 1 \in 1 .. n /\ i + 1 # 1
        BY <3>1
      <3>7. \A i, j \in 1 .. n - 1 : t[i] = t[j] => i = j
        <4> SUFFICES ASSUME NEW i \in 1 .. n - 1, NEW j \in 1 .. n - 1, t[i] = t[j] PROVE i = j
          OBVIOUS
        <4>1. i + 1 = j + 1
          BY <3>4, <3>5, <3>6
        <4> QED  BY <4>1
      <3>8. Assigned' = { t[i] : i \in 1 .. n - 1 } /\ Assigned = { q[i] : i \in 1 .. n }
        BY <3>3, <3>4 DEF Assigned
      <3>9. Assigned' \subseteq Assigned /\ a \notin Assigned' /\ a \in Assigned
        <4>1. 1 \in 1 .. n
          BY <3>1
        <4>2. \A i \in 1 .. n - 1 : t[i] # a
          BY <3>2, <3>4, <3>5, <3>6, <4>1
        <4> QED  BY <3>2, <3>4, <3>6, <3>8, <4>1, <4>2
      <3>10. PoolTyped'
        <4>1. host' \subseteq Nat /\ next' \in Nat /\ Assigned' \cap host' = {}
          BY <1>0, <2>1, <3>9 DEF PoolTyped
        <4>2. fifo'.addressAssign \in Seq(Nat)
          BY <3>2, <3>4
        <4>3. \A i, j \in DOMAIN fifo'.addressAssign : fifo'.addressAssign[i] = fifo'.addressAssign[j] => i = j
          <5>1. \A i, j \in DOMAIN t : t[i] = t[j] => i = j
            BY <3>4, <3>7
          <5>2. fifo'.addressAssign = t
            BY <3>4
          <5> QED  BY <5>1, <5>2
        <4> QED  BY <4>1, <4>2, <4>3 DEF PoolTyped
      <3>11. /\ \A c : Assignable(c) <=> c \in host \cup Assigned
             /\ \A c : Assignable(c)' <=> c \in host \cup Assigned'
        BY <2>1 DEF Assignable, Assigned
      <3>12. a \notin host
        BY <1>0, <3>9 DEF PoolTyped
      <3> QED  BY <3>9, <3>10, <3>11, <3>12
    <2>2. CASE build.alloc = "buddy" /\ a = next /\ next' = next + 1 /\ fifo'.addressAssign = fifo.addressAssign
      <3>1. PoolTyped'
        BY <1>0, <2>2 DEF PoolTyped, Assigned
      <3>2. PICK n \in Nat : n = next
        BY <1>0 DEF PoolTyped
      <3>3. \A c : (Assignable(c) <=> c >= n) /\ (Assignable(c)' <=> c >= n + 1)
        BY <2>2, <3>2 DEF Assignable
      <3>4. \A c \in Nat : c >= n + 1 => c >= n
        OBVIOUS
      <3> QED  BY <2>2, <3>1, <3>2, <3>3, <3>4
    <2> QED  BY <2>1, <2>2
  <1>2. \A e \in Entries : AddressOf(e) # a
    BY <1>1, UnsharedParts
  <1>3. \A e, f \in Entries' : e # f => AddressOf(e)' # AddressOf(f)'
    BY <1>2, UnsharedParts
  <1>5. \A e \in Entries : AddressOf(e) \in Nat
    BY AddressTyped, UnsharedParts
  <1>4. \A e \in Entries' : \A c : c = AddressOf(e)' => ~Assignable(c)'
    BY <1>1, <1>5, UnsharedParts
  <1> QED  BY <1>1, <1>3, <1>4, UnsharedMade

\* The host hands an address over.
LEMMA UnsharedAssigned ==
  ASSUME build.filters, FifosNamed, UnsharedInv, HostAssign
  PROVE  UnsharedInv'
  <1> DEFINE q == fifo.addressAssign
  <1>0. PoolTyped
    BY UnsharedParts
  <1>1. PICK a \in host : a = Lowest(host)
    BY <1>0, LowestIn DEF HostAssign, PoolTyped
  <1>2. host' = host \ {a} /\ a \in Nat /\ next' = next /\ mem' = mem /\ build' = build
    BY <1>0, <1>1 DEF HostAssign, PoolTyped
  <1>3. fifo'.addressAssign = Append(q, a)
    <2>1. fifo' = [fifo EXCEPT !.addressAssign = Append(@, a)]
      BY <1>1 DEF HostAssign
    <2> QED  BY <2>1 DEF Fifos, FifosNamed
  <1>13. PICK n \in Nat : n = Len(q)
    BY <1>0 DEF PoolTyped
  <1>4. PICK s : n = Len(q) /\ s = Append(q, a)
    BY <1>13
  <1>5. s \in Seq(Nat) /\ DOMAIN s = 1 .. n + 1 /\ s[n + 1] = a /\ (\A i \in 1 .. n : s[i] = q[i]) /\ DOMAIN q = 1 .. n
    <2>1. q \in Seq(Nat) /\ a \in Nat
      BY <1>0, <1>2 DEF PoolTyped
    <2>2. /\ Append(q, a) \in Seq(Nat) /\ Len(Append(q, a)) = Len(q) + 1
          /\ \A i \in 1 .. Len(q) : Append(q, a)[i] = q[i]
          /\ Append(q, a)[Len(q) + 1] = a
      BY <2>1, LongerIs
    <2> QED  BY <1>4, <2>1, <2>2
  <1>6. Assigned' = Assigned \cup {a}
    <2>1. Assigned = { q[i] : i \in 1 .. n } /\ Assigned' = { s[i] : i \in 1 .. n + 1 }
      BY <1>3, <1>4, <1>5 DEF Assigned
    <2>2. \A i : i \in 1 .. n + 1 <=> i \in 1 .. n \/ i = n + 1
      BY <1>4
    <2> QED  BY <2>1, <2>2, <1>5
  <1>7. a \notin Assigned
    BY <1>0, <1>1 DEF PoolTyped
  <1>8. \A i, j \in 1 .. n + 1 : s[i] = s[j] => i = j
    <2>1. \A i \in 1 .. n : s[i] # a
      BY <1>5, <1>7 DEF Assigned
    <2>2. \A i \in 1 .. n + 1 : i \in 1 .. n \/ i = n + 1
      BY <1>4
    <2>3. \A i, j \in 1 .. n : q[i] = q[j] => i = j
      BY <1>0, <1>5 DEF PoolTyped
    <2> QED  BY <1>5, <2>1, <2>2, <2>3
  <1>9. PoolTyped'
    <2>1. host' \subseteq Nat /\ next' \in Nat /\ Assigned' \cap host' = {}
      BY <1>0, <1>2, <1>6, <1>7 DEF PoolTyped
    <2>2. fifo'.addressAssign \in Seq(Nat)
      BY <1>3, <1>4, <1>5
    <2>3. \A i, j \in DOMAIN fifo'.addressAssign : fifo'.addressAssign[i] = fifo'.addressAssign[j] => i = j
      <3>1. \A i, j \in DOMAIN s : s[i] = s[j] => i = j
        BY <1>5, <1>8
      <3>2. fifo'.addressAssign = s
        BY <1>3, <1>4
      <3> QED  BY <3>1, <3>2
    <2> QED  BY <2>1, <2>2, <2>3 DEF PoolTyped
  <1>10. \A c : Assignable(c)' <=> Assignable(c)
    <2>1. host' \cup Assigned' = host \cup Assigned
      BY <1>1, <1>2, <1>6
    <2>2. build.alloc = "dram" /\ build' = build
      BY DEF HostAssign
    <2>3. /\ \A c : Assignable(c) <=> c \in host \cup Assigned
          /\ \A c : Assignable(c)' <=> c \in host' \cup Assigned'
      BY <2>2 DEF Assignable, Assigned
    <2> QED  BY <2>1, <2>3
  <1>11. Entries' = Entries /\ \A e : AddressOf(e)' = AddressOf(e)
    BY <1>2 DEF Entries, AddressOf
  <1>12. MemTyped'
    BY <1>2, UnsharedParts DEF MemTyped
  <1> QED  BY <1>9, <1>10, <1>11, <1>12, UnsharedParts, UnsharedMade

\* The bins that may hold an entry.
Places == (0 .. Buckets - 1) \X (1 .. Bins)
Bin(e) == mem[Stride * e[1]][e[2]]

LEMMA EntriesAre == Entries = { e \in Places : Bin(e)[1] # 0 } /\ \A e : AddressOf(e) = Bin(e)[3]
  BY DEF Entries, AddressOf, Places, Bin

LEMMA EntriesBecome == Entries' = { e \in Places : Bin(e)'[1] # 0 } /\ \A e : AddressOf(e)' = Bin(e)'[3]
  BY DEF Entries, AddressOf, Places, Bin

\* Bin b of bucket g is written.
LEMMA BinBecomes ==
  ASSUME MemTyped, NEW g \in 0 .. Buckets - 1, NEW b \in 1 .. Bins, NEW row \in Rows,
         \A c \in 1 .. Bins : c # b => row[c] = mem[Stride * g][c],
         mem' = [mem EXCEPT ![Stride * g] = row]
  PROVE  /\ MemTyped' /\ Bin(<<g, b>>)' = row[b]
         /\ \A e \in Places : e # <<g, b>> => Bin(e)' = Bin(e)
  <1>1. Stride * g \in MemWords
    BY EntryTyped
  <1>2. mem'[Stride * g] = row /\ MemTyped'
    BY <1>1 DEF MemTyped
  <1>3. ASSUME NEW h \in 0 .. Buckets - 1, NEW c \in 1 .. Bins, <<h, c>> # <<g, b>>
        PROVE  mem'[Stride * h][c] = mem[Stride * h][c]
    <2>1. CASE h = g
      <3>1. c # b
        BY <1>3, <2>1
      <3> QED  BY <1>2, <2>1, <3>1
    <2>2. CASE h # g
      <3>1. Stride * h # Stride * g
        <4>1. h \in Nat /\ g \in Nat /\ Stride \in Nat /\ Stride > 0 /\ (h < g \/ g < h)
          BY <2>2, TableAssumption
        <4>2. /\ Stride * h \in Nat /\ Stride * g \in Nat
              /\ Stride * h + Stride <= Stride * g \/ Stride * g + Stride <= Stride * h
          BY <4>1, BucketsApart
        <4>3. PICK x \in Nat, y \in Nat : x = Stride * h /\ y = Stride * g
          BY <4>2
        <4>4. x # y
          BY <4>1, <4>2, <4>3
        <4> QED  BY <4>3, <4>4
      <3>2. Stride * h \in MemWords
        BY EntryTyped
      <3> QED  BY <3>1, <3>2 DEF MemTyped
    <2> QED  BY <2>1, <2>2
  <1>4. Bin(<<g, b>>)' = row[b]
    BY <1>2 DEF Bin
  <1>5. ASSUME NEW e \in Places, e # <<g, b>>
        PROVE  Bin(e)' = Bin(e)
    <2>1. e[1] \in 0 .. Buckets - 1 /\ e[2] \in 1 .. Bins /\ <<e[1], e[2]>> # <<g, b>>
      BY <1>5 DEF Places
    <2> QED  BY <1>3, <2>1 DEF Bin
  <1> QED  BY <1>2, <1>4, <1>5

\* A word within a bucket is no head of a bucket.
LEMMA RestIsNoHead ==
  ASSUME NEW g \in 0 .. Buckets - 1, NEW h \in 0 .. Buckets - 1, NEW w \in 1 .. Stride - 1
  PROVE  Stride * g + w # Stride * h
  <1>1. g \in Nat /\ h \in Nat /\ Stride \in Nat /\ w \in Nat /\ 0 < w /\ w < Stride
    BY TableAssumption
  <1>2. Stride * h \in Nat /\ Stride * g \in Nat
    BY <1>1
  <1>3. PICK x \in Nat, y \in Nat : x = Stride * g /\ y = Stride * h
    BY <1>2
  <1>4. CASE g = h
    BY <1>1, <1>2, <1>3, <1>4
  <1>5. CASE g < h
    <2>1. x + Stride <= y
      BY <1>1, <1>3, <1>5, BucketsApart
    <2>2. x + w # y
      BY <1>1, <2>1
    <2> QED  BY <1>3, <2>2
  <1>6. CASE h < g
    <2>1. y + Stride <= x
      BY <1>1, <1>3, <1>6, BucketsApart
    <2>2. x + w # y
      BY <1>1, <2>1
    <2> QED  BY <1>3, <2>2
  <1> QED  BY <1>1, <1>4, <1>5, <1>6

\* A write that leaves the heads of the buckets alone.
LEMMA KeptBeyond ==
  ASSUME MemTyped, NEW a, NEW row, mem' = [mem EXCEPT ![a] = row],
         \A h \in 0 .. Buckets - 1 : Stride * h # a
  PROVE  Kept
  <1>1. ASSUME NEW h \in 0 .. Buckets - 1
        PROVE  mem'[Stride * h] = mem[Stride * h]
    <2>1. 1 \in 1 .. Bins
      BY TableAssumption
    <2>2. Stride * h \in MemWords
      BY <2>1, EntryTyped
    <2> QED  BY <2>2 DEF MemTyped
  <1>2. \A e \in Places : Bin(e)' = Bin(e)
    BY <1>1 DEF Places, Bin
  <1> QED  BY <1>2, EntriesAre, EntriesBecome DEF Kept

\* A word is cleared.
LEMMA KeptCleared ==
  ASSUME MemTyped, NEW a, mem' = [mem EXCEPT ![a] = [b \in 1 .. Bins |-> Zero]]
  PROVE  Kept /\ MemTyped'
  <1>0. [b \in 1 .. Bins |-> Zero] \in Rows
    BY DEF Rows, Cells, Zero
  <1>1. MemTyped'
    BY <1>0 DEF MemTyped
  <1>2. ASSUME NEW h \in 0 .. Buckets - 1, NEW c \in 1 .. Bins
        PROVE  mem'[Stride * h][c] = mem[Stride * h][c] \/ mem'[Stride * h][c] = Zero
    <2>1. Stride * h \in MemWords
      BY EntryTyped
    <2> QED  BY <2>1 DEF MemTyped
  <1>3. \A e \in Places : Bin(e)' = Bin(e) \/ Bin(e)' = Zero
    BY <1>2 DEF Places, Bin
  <1>4. \A e \in Places : Bin(e)' = Zero => e \notin Entries'
    BY EntriesBecome DEF Zero
  <1>5. \A e \in Entries' : e \in Places /\ Bin(e)' = Bin(e)
    BY <1>3, <1>4, EntriesBecome
  <1> QED  BY <1>1, <1>5, EntriesAre, EntriesBecome DEF Kept

\* A write of one bin of a head, as seen by the entries.
LEMMA EntriesBut ==
  ASSUME NEW d \in Places, NEW cell, Bin(d)' = cell, \A e \in Places : e # d => Bin(e)' = Bin(e)
  PROVE  /\ \A e \in Entries' : e # d => e \in Entries /\ AddressOf(e)' = AddressOf(e)
         /\ d \in Entries' <=> cell[1] # 0
         /\ AddressOf(d)' = cell[3]
         /\ d \in Entries <=> Bin(d)[1] # 0
         /\ AddressOf(d) = Bin(d)[3]
  BY EntriesAre, EntriesBecome

-----------------------------------------------------------------------------
(* The steps of memWrite.                                                  *)

\* All of it, as long as memWrite is not caught.
BoardInv == UnsharedInv /\ AnswersInv /\ FlowInv
Board == UNCHANGED <<build, sent, ks, cc, filter>>

LEMMA FlowParts ==
  ASSUME FlowInv
  PROVE  PipeInv /\ ContentInv /\ QueueTypes /\ MwTypes /\ FilterInv /\ OrderInv /\ CompareInv /\ StreamInv
  BY DEF FlowInv, PipeInv

LEMMA FlowMade ==
  ASSUME PipeInv', ContentInv'
  PROVE  FlowInv'
  BY DEF FlowInv, PipeInv

\* What MW_EVAL knows.
EvalKnows(r, word) ==
  /\ r = mw.req /\ r \in Reqs /\ r.op # "FLUSH" /\ r.key \in DOMAIN KeyLen
  /\ word \in Rows /\ word = mem[Base(r)] /\ word = HeadOf(r.key) /\ Base(r) = Stride * Hash[r.key]
  /\ Hash[r.key] \in 0 .. Buckets - 1
  /\ mw.match = { b \in 1 .. Bins : Stores(r.key, b) }
  /\ mw.free = { b \in 1 .. Bins : word[b][1] = 0 }
  /\ KeyInv(r.key)

LEMMA EvalKnown ==
  ASSUME KeysFit, build.filters, BoardInv, mw.state = "MW_EVAL"
  PROVE  EvalKnows(mw.req, Head(fifo.comp2memWrMemData))
  <1>1. MemTyped /\ QueueTypes /\ MwTypes /\ StreamInv /\ CompareInv /\ ContentInv
    BY UnsharedParts, FlowParts DEF BoardInv
  <1>2. mw.req \in Reqs /\ mw.req.op # "FLUSH" /\ Head(fifo.comp2memWrMemData) = mem[Base(mw.req)]
    BY <1>1, EvalWord
  <1>3. /\ mw.req.key \in DOMAIN KeyLen
        /\ mw.match = { b \in 1 .. Bins : Stores(mw.req.key, b) }
        /\ mw.free = { b \in 1 .. Bins : HeadOf(mw.req.key)[b][1] = 0 }
    BY <1>1, EvalMatches
  <1>4. Base(mw.req) = Stride * Hash[mw.req.key]
    BY <1>2, RequestFits
  <1>5. Hash[mw.req.key] \in 0 .. Buckets - 1
    BY <1>3, TableAssumption
  <1>6. mem[Base(mw.req)] \in Rows
    <2>1. 1 \in 1 .. Bins
      BY TableAssumption
    <2> QED  BY <1>1, <1>4, <1>5, <2>1, EntryTyped
  <1>7. mem[Base(mw.req)] = HeadOf(mw.req.key)
    BY <1>4 DEF HeadOf
  <1>8. KeyInv(mw.req.key)
    BY <1>1, <1>3 DEF ContentInv
  <1> QED  BY <1>2, <1>3, <1>4, <1>5, <1>6, <1>7, <1>8 DEF EvalKnows

\* An answer and the invariant on the answers.
LEMMA AnswerGiven ==
  ASSUME build.filters, build' = build, AnswersInv, NEW r \in Reqs, Head(fifo.in2md) = r,
         NEW res \in [op : OpNames, ok : BOOLEAN, addr : Nat, vlen : Nat], OutputLogic(res),
         NEW x, x = [req |-> r, res |-> IF res.op = "SET" THEN [res EXCEPT !.vlen = r.vlen] ELSE res],
         AnswerRight(x)
  PROVE  x \in Answers /\ out' = Append(out, x) /\ AnswersInv' /\ out \in Seq(Answers)
  <1>1. r.vlen \in Nat
    BY DEF Reqs
  <1>2. x \in Answers
    BY <1>1 DEF Answers
  <1>3. out' = Append(out, x)
    BY DEF OutputLogic
  <1>4. out \in Seq(Answers)
    BY DEF AnswersInv, Answers
  <1> QED  BY <1>2, <1>3, <1>4, AnswersGrow

LEMMA GetStep ==
  ASSUME KeysFit, build.filters, Board, BoardInv, mw.state = "MW_EVAL", EvalGet(Head(fifo.comp2memWrMemData))
  PROVE  BoardInv'
  <1>1. PICK r, word : r = mw.req /\ word = Head(fifo.comp2memWrMemData) /\ EvalKnows(r, word)
    BY EvalKnown
  <1>2. MemTyped /\ PipeInv /\ ContentInv /\ AnswersInv /\ UnsharedInv /\ MwTypes /\ FifosNamed
    BY UnsharedParts, FlowParts DEF BoardInv, QueueTypes, FifosNamed
  <1>3. /\ r.op = "GET" /\ mw' = [mw EXCEPT !.state = "MW_CONSUME"] /\ mem' = mem /\ host' = host /\ next' = next
        /\ fifo' = [fifo EXCEPT !.comp2memWrMemData = Tail(@), !.dec2cc = Append(@, 1), !.in2md = Tail(@)]
    BY <1>1 DEF EvalGet
  <1>4. build' = build /\ cc' = cc /\ filter' = filter
    BY DEF Board
  <1>5. PipeInv' /\ Head(fifo.in2md) = r
    BY <1>1, <1>2, <1>3, <1>4, ReleasePipe
  <1> DEFINE b == Lowest(mw.match)
             res == IF mw.match = {} THEN Result("GET", FALSE, 0, 0) ELSE Result("GET", TRUE, word[b][3], word[b][2])
             x == [req |-> r, res |-> res]
             j == Latest(r.key)
  <1>6. mw.match # {} => b \in 1 .. Bins /\ Stores(r.key, b)
    <2>1. mw.match \subseteq 1 .. Bins /\ 1 .. Bins \subseteq Nat
      BY <1>1 DEF EvalKnows
    <2>2. mw.match # {} => b \in mw.match
      BY <2>1, LowestIn
    <2> QED  BY <1>1, <2>2 DEF EvalKnows
  <1>7. /\ mw.match # {} <=> (j # 0 /\ out[j].req.op = "SET")
        /\ mw.match # {} => word[b][2] = out[j].req.vlen /\ word[b][3] = out[j].res.addr
    BY <1>1, <1>6 DEF EvalKnows, KeyInv
  <1>8. mw.match # {} => word[b] \in Cells
    BY <1>1, <1>6 DEF EvalKnows, Rows
  <1>9. res \in [op : OpNames, ok : BOOLEAN, addr : Nat, vlen : Nat] /\ res.op = "GET"
    BY <1>8 DEF Result, OpNames, Cells
  <1>10. AnswerRight(x)
    <2>1. res.ok <=> mw.match # {}
      BY DEF Result
    <2>2. res.ok => res.addr = word[b][3] /\ res.vlen = word[b][2]
      BY DEF Result
    <2>3. res.ok = (j # 0 /\ out[j].req.op = "SET")
      BY <1>7, <1>9, <2>1
    <2> HIDE DEF res
    <2> QED  BY <1>3, <1>7, <1>9, <2>1, <2>2, <2>3 DEF AnswerRight
  <1>11. OutputLogic(res)
    BY <1>1 DEF EvalGet
  <1> HIDE DEF res
  <1>12. x = [req |-> r, res |-> IF res.op = "SET" THEN [res EXCEPT !.vlen = r.vlen] ELSE res]
    BY <1>9
  <1>13. r \in Reqs
    BY <1>1 DEF EvalKnows
  <1> HIDE DEF x
  <1>14. x \in Answers /\ out' = Append(out, x) /\ AnswersInv' /\ out \in Seq(Answers)
    BY <1>2, <1>4, <1>5, <1>9, <1>10, <1>11, <1>12, <1>13, AnswerGiven
  <1>15. ContentInv'
    <2>1. \A k : ~ChangedBy(x, k)
      BY <1>3 DEF ChangedBy, x
    <2>2. mw'.state = "MW_CONSUME"
      BY <1>2, <1>3 DEF MwTypes
    <2> QED  BY <1>2, <1>3, <1>14, <2>1, <2>2, ContentQuiet
  <1>16. UnsharedInv'
    <2>1. Kept /\ MemTyped'
      BY <1>2, <1>3, EntriesAre, EntriesBecome DEF Kept, Bin, MemTyped
    <2>2. fifo'.addressAssign = fifo.addressAssign
      BY <1>2, <1>3 DEF Fifos, FifosNamed
    <2> QED  BY <1>2, <1>3, <1>4, <2>1, <2>2, UnsharedKept
  <1> QED  BY <1>5, <1>14, <1>15, <1>16, FlowMade DEF BoardInv

\* A bin that stores the request's key is an entry.
LEMMA StoresEntry ==
  ASSUME NEW r, NEW word, EvalKnows(r, word), NEW b \in 1 .. Bins
  PROVE  /\ <<Hash[r.key], b>> \in Places /\ Bin(<<Hash[r.key], b>>) = word[b] /\ word[b] \in Cells
         /\ Stores(r.key, b) => word[b][1] # 0
  <1>1. Bin(<<Hash[r.key], b>>) = word[b] /\ word[b] \in Cells
    BY DEF EvalKnows, Bin, HeadOf, Rows
  <1>2. Stores(r.key, b) => word[b][1] # 0
    BY TableAssumption DEF EvalKnows, Stores
  <1> QED  BY <1>1, <1>2 DEF EvalKnows, Places

LEMMA HeadWritten ==
  ASSUME KeysFit, MemTyped, NEW r \in Reqs, NEW row, mem' = [mem EXCEPT ![Base(r)] = row]
  PROVE  WritesBucket(r)
  <1>1. PICK g \in Nat, n \in Nat : g = Base(r) /\ n = Words(r)
    BY RequestFits
  <1>2. g \in g .. g + n
    OBVIOUS
  <1>3. \A a \in MemWords : a # g => mem'[a] = mem[a]
    BY <1>1 DEF MemTyped
  <1> QED  BY <1>1, <1>2, <1>3 DEF WritesBucket

LEMMA DeleteStep ==
  ASSUME KeysFit, build.filters, Board, BoardInv, mw.state = "MW_EVAL", EvalDelete(Head(fifo.comp2memWrMemData))
  PROVE  BoardInv'
  <1>1. PICK r, word : r = mw.req /\ word = Head(fifo.comp2memWrMemData) /\ EvalKnows(r, word)
    BY EvalKnown
  <1>2. MemTyped /\ PipeInv /\ ContentInv /\ AnswersInv /\ UnsharedInv /\ MwTypes /\ FifosNamed
    BY UnsharedParts, FlowParts DEF BoardInv, QueueTypes, FifosNamed
  <1>3. /\ r.op = "DELETE" /\ mw' = [mw EXCEPT !.state = "MW_CONSUME"] /\ next' = next
        /\ fifo' = [fifo EXCEPT !.comp2memWrMemData = Tail(@), !.dec2cc = Append(@, 1), !.in2md = Tail(@)]
    BY <1>1 DEF EvalDelete
  <1>4. build' = build /\ cc' = cc /\ filter' = filter /\ fifo'.addressAssign = fifo.addressAssign
    BY <1>2, <1>3 DEF Board, Fifos, FifosNamed
  <1>20. PICK b : b = Highest(mw.match)
    OBVIOUS
  <1>21. PICK row : row = [word EXCEPT ![b] = <<0, 0, @[3]>>]
    OBVIOUS
  <1>22. PICK res : res = Result("DELETE", mw.match # {}, 0, 0)
    OBVIOUS
  <1>23. PICK x : x = [req |-> r, res |-> res]
    OBVIOUS
  <1> DEFINE j == Latest(r.key)
  <1>5. r \in Reqs /\ word \in Rows /\ word = mem[Base(r)] /\ word = HeadOf(r.key)
        /\ Base(r) = Stride * Hash[r.key] /\ Hash[r.key] \in 0 .. Buckets - 1
    BY <1>1 DEF EvalKnows
  <1>6. mw.match # {} => b \in 1 .. Bins /\ Stores(r.key, b) /\ \A c \in 1 .. Bins : Stores(r.key, c) => c = b
    <2>1. mw.match \subseteq 1 .. Bins /\ Bins \in Nat
      BY <1>1, TableAssumption DEF EvalKnows
    <2>2. mw.match \in SUBSET Nat /\ \A y \in mw.match : y <= Bins
      BY <2>1
    <2>3. mw.match # {} => b \in mw.match
      BY <1>20, <2>1, <2>2, HighestIn
    <2>4. mw.match # {} => b \in 1 .. Bins /\ Stores(r.key, b)
      BY <1>1, <2>3 DEF EvalKnows
    <2> QED  BY <1>1, <2>4 DEF EvalKnows, KeyInv
  <1>7. mw.match # {} <=> (j # 0 /\ out[j].req.op = "SET")
    BY <1>1 DEF EvalKnows, KeyInv
  <1>8. res \in [op : OpNames, ok : BOOLEAN, addr : Nat, vlen : Nat] /\ res.op = "DELETE" /\ (res.ok <=> mw.match # {})
    BY <1>22 DEF Result, OpNames
  <1>9. OutputLogic(res)
    BY <1>1, <1>22 DEF EvalDelete
  <1>10. mw.match # {} => row \in Rows /\ row[b][1] = 0 /\ \A c \in 1 .. Bins : c # b => row[c] = word[c]
    BY <1>5, <1>6, <1>21 DEF Rows, Cells
  <1>11. IF mw.match = {} THEN mem' = mem /\ host' = host
         ELSE mem' = [mem EXCEPT ![Base(r)] = row] /\ host' = IF build.alloc = "dram" THEN host \cup {word[b][3]} ELSE host
    BY <1>1, <1>20, <1>21 DEF EvalDelete
  <1>12. AnswerRight(x)
    <2>1. res.ok = (j # 0 /\ out[j].req.op = "SET")
      BY <1>7, <1>8
    <2> QED  BY <1>3, <1>8, <1>23, <2>1 DEF AnswerRight
  <1>13. PipeInv' /\ Head(fifo.in2md) = r
    <2>1. mem' = mem \/ (mw.req.op \in {"SET", "DELETE"} /\ WritesBucket(mw.req))
      <3>1. CASE mw.match = {}
        BY <3>1, <1>11
      <3>2. CASE mw.match # {}
        <4>1. mem' = [mem EXCEPT ![Base(r)] = row]
          BY <3>2, <1>11
        <4>3. WritesBucket(r)
          BY <4>1, <1>2, <1>5, HeadWritten
        <4> QED  BY <4>3, <1>1, <1>3
      <3> QED  BY <3>1, <3>2
    <2> QED  BY <1>1, <1>2, <1>3, <1>4, <2>1, ReleasePipe
  <1>14. x = [req |-> r, res |-> IF res.op = "SET" THEN [res EXCEPT !.vlen = r.vlen] ELSE res]
    BY <1>8, <1>23
  <1>15. x.req = r /\ x.res = res
    BY <1>23
  <1>16. x \in Answers /\ out' = Append(out, x) /\ AnswersInv' /\ out \in Seq(Answers)
    BY <1>2, <1>4, <1>5, <1>8, <1>9, <1>12, <1>13, <1>14, AnswerGiven
  <1>17. mw'.state = "MW_CONSUME"
    BY <1>2, <1>3 DEF MwTypes
  <1>18. CASE mw.match = {}
    <2>0. mem' = mem /\ host' = host
      BY <1>11, <1>18
    <2>1. \A k : ~ChangedBy(x, k)
      BY <1>8, <1>15, <1>18 DEF ChangedBy
    <2>2. ContentInv'
      BY <1>2, <1>16, <1>17, <2>0, <2>1, ContentQuiet
    <2>3. Kept /\ MemTyped'
      BY <1>2, <2>0, EntriesAre, EntriesBecome DEF Kept, Bin, MemTyped
    <2>4. UnsharedInv'
      BY <1>2, <1>3, <1>4, <2>0, <2>3, UnsharedKept
    <2> QED  BY <1>13, <1>16, <2>2, <2>4, FlowMade DEF BoardInv
  <1>19. CASE mw.match # {}
    <2>1. b \in 1 .. Bins /\ Stores(r.key, b) /\ (\A c \in 1 .. Bins : Stores(r.key, c) => c = b)
          /\ row \in Rows /\ row[b][1] = 0 /\ (\A c \in 1 .. Bins : c # b => row[c] = word[c])
          /\ mem' = [mem EXCEPT ![Base(r)] = row] /\ res.ok
      BY <1>6, <1>8, <1>10, <1>11, <1>19
    <2>2. ContentInv'
      <3>1. Deleted(x, row, b)
        BY <1>3, <1>15, <1>17, <2>1 DEF Deleted
      <3>2. x.req = mw.req /\ x.res.ok
        BY <1>1, <1>15, <2>1
      <3>3. \A c \in 1 .. Bins : c # b => row[c] = mem[Base(mw.req)][c]
        BY <1>1, <1>5, <2>1
      <3>4. mem' = [mem EXCEPT ![Base(mw.req)] = row]
        BY <1>1, <2>1
      <3>5. Stores(mw.req.key, b) /\ \A c \in 1 .. Bins : Stores(mw.req.key, c) => c = b
        BY <1>1, <2>1
      <3>6. BinChanges(x, b, row)
        BY <1>16, <3>1, <3>2, <3>3, <3>4, <3>5 DEF BinChanges
      <3> QED  BY <1>2, <1>16, <2>1, <3>6, BinWritten
    <2>3. UnsharedInv'
      <3>0. PICK d, g : g = Hash[r.key] /\ d = <<g, b>>
        OBVIOUS
      <3>1. d \in Places /\ Bin(d) = word[b] /\ word[b] \in Cells /\ word[b][1] # 0
        BY <1>1, <2>1, <3>0, StoresEntry
      <3>2. MemTyped' /\ Bin(d)' = row[b] /\ \A e \in Places : e # d => Bin(e)' = Bin(e)
        <4>1. \A c \in 1 .. Bins : c # b => row[c] = mem[Stride * g][c]
          BY <1>5, <2>1, <3>0
        <4>2. mem' = [mem EXCEPT ![Stride * g] = row] /\ g \in 0 .. Buckets - 1
          BY <1>5, <2>1, <3>0
        <4>3. /\ MemTyped' /\ Bin(<<g, b>>)' = row[b]
              /\ \A e \in Places : e # <<g, b>> => Bin(e)' = Bin(e)
          BY <1>2, <2>1, <4>1, <4>2, BinBecomes
        <4> QED  BY <3>0, <4>3
      <3>3. /\ \A e \in Entries' : e # d => e \in Entries /\ AddressOf(e)' = AddressOf(e)
            /\ d \in Entries' <=> row[b][1] # 0
            /\ AddressOf(d)' = row[b][3]
            /\ d \in Entries <=> Bin(d)[1] # 0
            /\ AddressOf(d) = Bin(d)[3]
        BY <3>1, <3>2, EntriesBut
      <3>4. d \in Entries /\ d \notin Entries' /\ AddressOf(d) = word[b][3] /\ AddressOf(d) \in Nat /\ Kept
        BY <2>1, <3>1, <3>3 DEF Kept, Cells
      <3>5. host' = (IF build.alloc = "dram" THEN host \cup {AddressOf(d)} ELSE host)
        BY <1>11, <1>19, <3>4
      <3> QED  BY <1>2, <1>3, <1>4, <3>2, <3>4, <3>5, UnsharedFreed
    <2> QED  BY <1>13, <1>16, <2>2, <2>3, FlowMade DEF BoardInv
  <1> QED  BY <1>18, <1>19

\* What holds of every SET.
SetRefusal ==
  /\ fifo' = [fifo EXCEPT !.comp2memWrMemData = Tail(@), !.dec2cc = Append(@, 1), !.in2md = Tail(@)]
  /\ OutputLogic(Result("SET", FALSE, 0, 0))
  /\ mw' = [mw EXCEPT !.state = "MW_CONSUME"]
  /\ mem' = mem /\ next' = next /\ host' = host
SetDone(word, b, a, row) ==
  /\ b = SetLocation /\ a = SetAddress(word, b) /\ row = [word EXCEPT ![b] = <<KeyLen[mw.req.key], mw.req.vlen, a>>]
  /\ ~SetRefused /\ SetFound # {}
  /\ mem' = [mem EXCEPT ![Base(mw.req)] = row]
  /\ OutputLogic(Result("SET", TRUE, a, 0))
  /\ fifo' = [fifo EXCEPT !.comp2memWrMemData = Tail(@), !.in2md = Tail(@),
                !.addressAssign = IF mw.match = {} /\ build.alloc = "dram" THEN Tail(@) ELSE @]
  /\ next' = IF mw.match = {} /\ build.alloc = "buddy" THEN next + 1 ELSE next
  /\ mw' = [mw EXCEPT !.state = "MW_SET_REST", !.loc = b, !.addr = Base(mw.req) + 1]
  /\ host' = host

LEMMA SetCases ==
  ASSUME NEW word, EvalSet(word)
  PROVE  mw.req.op = "SET" /\ (SetRefusal \/ \E b, a, row : SetDone(word, b, a, row))
  BY DEF EvalSet, SetRefusal, SetDone

LEMMA RefusalStep ==
  ASSUME KeysFit, build.filters, Board, BoardInv, mw.state = "MW_EVAL", mw.req.op = "SET", SetRefusal
  PROVE  BoardInv'
  <1>1. PICK r, word : r = mw.req /\ word = Head(fifo.comp2memWrMemData) /\ EvalKnows(r, word)
    BY EvalKnown
  <1>2. MemTyped /\ PipeInv /\ ContentInv /\ AnswersInv /\ UnsharedInv /\ MwTypes /\ FifosNamed
    BY UnsharedParts, FlowParts DEF BoardInv, QueueTypes, FifosNamed
  <1>3. /\ r.op = "SET" /\ mw' = [mw EXCEPT !.state = "MW_CONSUME"] /\ mem' = mem /\ host' = host /\ next' = next
        /\ fifo' = [fifo EXCEPT !.comp2memWrMemData = Tail(@), !.dec2cc = Append(@, 1), !.in2md = Tail(@)]
    BY <1>1 DEF SetRefusal
  <1>4. build' = build /\ cc' = cc /\ filter' = filter /\ fifo'.addressAssign = fifo.addressAssign
    BY <1>2, <1>3 DEF Board, Fifos, FifosNamed
  <1>5. PipeInv' /\ Head(fifo.in2md) = r
    BY <1>1, <1>2, <1>3, <1>4, ReleasePipe
  <1>6. PICK res : res = Result("SET", FALSE, 0, 0)
    OBVIOUS
  <1>7. res \in [op : OpNames, ok : BOOLEAN, addr : Nat, vlen : Nat] /\ res.op = "SET" /\ ~res.ok
    BY <1>6 DEF Result, OpNames
  <1>8. PICK x : x = [req |-> r, res |-> IF res.op = "SET" THEN [res EXCEPT !.vlen = r.vlen] ELSE res]
    OBVIOUS
  <1>9. x.req = r /\ x.res.op = "SET" /\ ~x.res.ok
    BY <1>7, <1>8
  <1>10. AnswerRight(x)
    BY <1>3, <1>9 DEF AnswerRight
  <1>11. OutputLogic(res) /\ r \in Reqs
    BY <1>1, <1>6 DEF SetRefusal, EvalKnows
  <1>12. x \in Answers /\ out' = Append(out, x) /\ AnswersInv' /\ out \in Seq(Answers)
    BY <1>2, <1>4, <1>5, <1>7, <1>8, <1>10, <1>11, AnswerGiven
  <1>13. ContentInv'
    <2>1. \A k : ~ChangedBy(x, k)
      BY <1>9 DEF ChangedBy
    <2>2. mw'.state = "MW_CONSUME"
      BY <1>2, <1>3 DEF MwTypes
    <2> QED  BY <1>2, <1>3, <1>12, <2>1, <2>2, ContentQuiet
  <1>14. UnsharedInv'
    <2>1. Kept /\ MemTyped'
      BY <1>2, <1>3, EntriesAre, EntriesBecome DEF Kept, Bin, MemTyped
    <2> QED  BY <1>2, <1>3, <1>4, <2>1, UnsharedKept
  <1> QED  BY <1>5, <1>12, <1>13, <1>14, FlowMade DEF BoardInv

\* Where a SET goes: to the bin that stores its key, or to a free one when none does.
LEMMA SetPlace ==
  ASSUME build.alloc \in {"dram", "buddy"}, NEW r, NEW word, EvalKnows(r, word), NEW b, b = SetLocation, SetFound # {}
  PROVE  /\ b \in 1 .. Bins
         /\ mw.match # {} => Stores(r.key, b)
         /\ mw.match = {} => word[b][1] = 0
         /\ \A c \in 1 .. Bins : Stores(r.key, c) => c = b
  <1>1. mw.match \in SUBSET Nat /\ mw.free \in SUBSET Nat /\ mw.match \subseteq 1 .. Bins /\ mw.free \subseteq 1 .. Bins
    BY DEF EvalKnows
  <1>2. mw.match # {} => b \in mw.match
    BY <1>1, LowestIn DEF SetLocation
  <1>3. mw.match = {} => SetFound = mw.free
    BY DEF SetFound
  <1>4. mw.match = {} => b \in mw.free
    BY <1>1, <1>3, LowestIn DEF SetLocation
  <1>5. \A c \in 1 .. Bins : Stores(r.key, c) => c = b
    <2> SUFFICES ASSUME NEW c \in 1 .. Bins, Stores(r.key, c) PROVE c = b
      OBVIOUS
    <2>1. c \in mw.match
      BY DEF EvalKnows
    <2>2. Stores(r.key, b) /\ b \in 1 .. Bins
      BY <1>2, <2>1 DEF EvalKnows
    <2> QED  BY <2>2 DEF EvalKnows, KeyInv
  <1> QED  BY <1>1, <1>2, <1>4, <1>5 DEF EvalKnows

LEMMA StoreStep ==
  ASSUME KeysFit, build.filters, build.alloc \in {"dram", "buddy"}, Board, BoardInv, mw.state = "MW_EVAL", mw.req.op = "SET",
         NEW b, NEW a, NEW row, SetDone(Head(fifo.comp2memWrMemData), b, a, row)
  PROVE  BoardInv'
  <1>1. PICK r, word : r = mw.req /\ word = Head(fifo.comp2memWrMemData) /\ EvalKnows(r, word)
    BY EvalKnown
  <1>2. MemTyped /\ PipeInv /\ ContentInv /\ AnswersInv /\ UnsharedInv /\ MwTypes /\ FifosNamed /\ PoolTyped
    BY UnsharedParts, FlowParts DEF BoardInv, QueueTypes, FifosNamed
  <1>3. /\ r.op = "SET" /\ mem' = [mem EXCEPT ![Base(r)] = row] /\ host' = host /\ ~SetRefused /\ SetFound # {}
        /\ b = SetLocation /\ a = SetAddress(word, b) /\ row = [word EXCEPT ![b] = <<KeyLen[r.key], r.vlen, a>>]
        /\ mw' = [mw EXCEPT !.state = "MW_SET_REST", !.loc = b, !.addr = Base(r) + 1]
        /\ next' = IF mw.match = {} /\ build.alloc = "buddy" THEN next + 1 ELSE next
        /\ OutputLogic(Result("SET", TRUE, a, 0))
    BY <1>1 DEF SetDone
  <1>4. build' = build /\ cc' = cc /\ filter' = filter
    BY DEF Board
  <1>5. /\ fifo' = [q \in Fifos |-> fifo'[q]]
        /\ fifo'.in2md = Tail(fifo.in2md) /\ fifo'.in2cc = fifo.in2cc /\ fifo'.memRd2comp = fifo.memRd2comp
        /\ fifo'.comp2memWr = fifo.comp2memWr /\ fifo'.comp2memWrKey = fifo.comp2memWrKey
        /\ fifo'.comp2memWrMemData = Tail(fifo.comp2memWrMemData) /\ fifo'.dec2cc = fifo.dec2cc
        /\ fifo'.addressAssign = IF mw.match = {} /\ build.alloc = "dram" THEN Tail(fifo.addressAssign) ELSE fifo.addressAssign
    BY <1>2 DEF SetDone, Fifos, FifosNamed
  <1>6. r \in Reqs /\ word \in Rows /\ word = mem[Base(r)] /\ word = HeadOf(r.key) /\ r.key \in DOMAIN KeyLen
        /\ Base(r) = Stride * Hash[r.key] /\ Hash[r.key] \in 0 .. Buckets - 1
    BY <1>1 DEF EvalKnows
  <1>7. /\ b \in 1 .. Bins
        /\ mw.match # {} => Stores(r.key, b)
        /\ mw.match = {} => word[b][1] = 0
        /\ \A c \in 1 .. Bins : Stores(r.key, c) => c = b
    BY <1>1, <1>3, SetPlace
  <1>8. word[b] \in Cells
    BY <1>6, <1>7 DEF Rows
  <1>9. (mw.match = {} /\ build.alloc = "dram") => fifo.addressAssign # << >> /\ a = Head(fifo.addressAssign) /\ a \in Nat
    <2>1. (mw.match = {} /\ build.alloc = "dram") => fifo.addressAssign # << >> /\ a = Head(fifo.addressAssign)
      BY <1>3 DEF SetRefused, Ready, SetAddress
    <2> QED  BY <1>2, <2>1, RestIs DEF PoolTyped
  <1>10. (mw.match = {} /\ build.alloc = "buddy") => a = next /\ a \in Nat
    BY <1>2, <1>3 DEF SetAddress, PoolTyped
  <1>11. mw.match # {} => a = word[b][3] /\ a \in Nat
    BY <1>3, <1>8 DEF SetAddress, Cells
  <1>12. a \in Nat
    BY <1>9, <1>10, <1>11
  <1>13. KeyLen[r.key] \in Nat \ {0} /\ r.vlen \in Nat
    BY <1>6, TableAssumption DEF Reqs
  <1>14. row \in Rows /\ row[b] = <<KeyLen[r.key], r.vlen, a>> /\ \A c \in 1 .. Bins : c # b => row[c] = word[c]
    BY <1>3, <1>6, <1>7, <1>12, <1>13 DEF Rows, Cells
  <1>15. PipeInv' /\ Head(fifo.in2md) = r
    <2>1. mw' = [mw EXCEPT !.state = "MW_SET_REST", !.loc = b, !.addr = Base(mw.req) + 1]
          /\ mem' = [mem EXCEPT ![Base(mw.req)] = row]
      BY <1>1, <1>3
    <2> QED  BY <1>1, <1>2, <1>4, <1>5, <1>7, <2>1, StorePipe
  <1>16. PICK res : res = Result("SET", TRUE, a, 0)
    OBVIOUS
  <1>17. res \in [op : OpNames, ok : BOOLEAN, addr : Nat, vlen : Nat] /\ res.op = "SET" /\ res.ok /\ res.addr = a
    BY <1>12, <1>16 DEF Result, OpNames
  <1>18. PICK x : x = [req |-> r, res |-> IF res.op = "SET" THEN [res EXCEPT !.vlen = r.vlen] ELSE res]
    OBVIOUS
  <1>19. x.req = r /\ x.res.op = "SET" /\ x.res.ok /\ x.res.addr = a
    BY <1>17, <1>18
  <1>20. AnswerRight(x)
    BY <1>3, <1>19 DEF AnswerRight
  <1>21. x \in Answers /\ out' = Append(out, x) /\ AnswersInv' /\ out \in Seq(Answers)
    <2>1. OutputLogic(res)
      BY <1>3, <1>16
    <2> QED  BY <1>2, <1>4, <1>6, <1>15, <1>17, <1>18, <1>20, <2>1, AnswerGiven
  <1>22. ContentInv'
    <2>1. mw'.state = "MW_SET_REST" /\ mw'.loc = b /\ mw'.addr = Base(r) + 1 /\ mw'.req = r
      BY <1>1, <1>2, <1>3 DEF MwTypes
    <2>2. Stored(x, row, b)
      BY <1>3, <1>14, <1>19, <2>1 DEF Stored
    <2>3. x.req = mw.req /\ x.res.ok
      BY <1>1, <1>19
    <2>4. \A c \in 1 .. Bins : c # b => row[c] = mem[Base(mw.req)][c]
      BY <1>1, <1>6, <1>14
    <2>5. mem' = [mem EXCEPT ![Base(mw.req)] = row]
      BY <1>1, <1>3
    <2>6. Stores(mw.req.key, b) \/ HeadOf(mw.req.key)[b][1] = 0
      BY <1>1, <1>6, <1>7
    <2>7. \A c \in 1 .. Bins : Stores(mw.req.key, c) => c = b
      BY <1>1, <1>7
    <2>8. BinChanges(x, b, row)
      BY <1>21, <2>2, <2>3, <2>4, <2>5, <2>6, <2>7 DEF BinChanges
    <2> QED  BY <1>2, <1>7, <1>14, <1>21, <2>8, BinWritten
  <1>23. UnsharedInv'
    <2>0. PICK d, g : g = Hash[r.key] /\ d = <<g, b>>
      OBVIOUS
    <2>1. d \in Places /\ Bin(d) = word[b] /\ (Stores(r.key, b) => word[b][1] # 0)
      BY <1>1, <1>7, <2>0, StoresEntry
    <2>2. MemTyped' /\ Bin(d)' = row[b] /\ \A e \in Places : e # d => Bin(e)' = Bin(e)
      <3>1. \A c \in 1 .. Bins : c # b => row[c] = mem[Stride * g][c]
        BY <1>6, <1>14, <2>0
      <3>2. mem' = [mem EXCEPT ![Stride * g] = row] /\ g \in 0 .. Buckets - 1
        BY <1>3, <1>6, <2>0
      <3>3. /\ MemTyped' /\ Bin(<<g, b>>)' = row[b]
            /\ \A e \in Places : e # <<g, b>> => Bin(e)' = Bin(e)
        BY <1>2, <1>7, <1>14, <3>1, <3>2, BinBecomes
      <3> QED  BY <2>0, <3>3
    <2>3. /\ \A e \in Entries' : e # d => e \in Entries /\ AddressOf(e)' = AddressOf(e)
          /\ d \in Entries' <=> row[b][1] # 0
          /\ AddressOf(d)' = row[b][3]
          /\ d \in Entries <=> Bin(d)[1] # 0
          /\ AddressOf(d) = Bin(d)[3]
      BY <2>1, <2>2, EntriesBut
    <2>4. AddressOf(d)' = a
      BY <1>14, <2>3
    <2>5. CASE mw.match # {}
      <3>1. d \in Entries /\ AddressOf(d) = a
        BY <1>7, <1>11, <2>1, <2>3, <2>5
      <3>2. Kept
        BY <2>3, <2>4, <3>1 DEF Kept
      <3>3. next' = next /\ fifo'.addressAssign = fifo.addressAssign
        BY <1>3, <1>5, <2>5
      <3> QED  BY <1>2, <1>3, <1>4, <2>2, <3>2, <3>3, UnsharedKept
    <2>6. CASE mw.match = {}
      <3>1. d \notin Entries
        BY <1>7, <2>1, <2>3, <2>6
      <3>2. \A e \in Entries' : IF e = d THEN AddressOf(e)' = a ELSE e \in Entries /\ AddressOf(e)' = AddressOf(e)
        BY <2>3, <2>4
      <3>3. \/ /\ build.alloc = "dram" /\ fifo.addressAssign # << >> /\ a = Head(fifo.addressAssign)
               /\ fifo'.addressAssign = Tail(fifo.addressAssign) /\ next' = next
            \/ /\ build.alloc = "buddy" /\ a = next /\ next' = next + 1 /\ fifo'.addressAssign = fifo.addressAssign
        BY <1>3, <1>5, <1>9, <1>10, <2>6
      <3> QED  BY <1>2, <1>3, <1>4, <2>2, <3>1, <3>2, <3>3, UnsharedTaken
    <2> QED  BY <2>5, <2>6
  <1> QED  BY <1>15, <1>21, <1>22, <1>23, FlowMade DEF BoardInv

\* No answer is given.
LEMMA AnswersStay ==
  ASSUME AnswersInv, out' = out, build' = build
  PROVE  AnswersInv' /\ out \in Seq(Answers)
  <1>1. \A i, k : LastChange(i, k)' = LastChange(i, k)
    BY DEF LastChange, Changes
  <1>2. \A i : AnswerFits(i)' <=> AnswerFits(i)
    BY <1>1 DEF AnswerFits
  <1>3. AnswersSequential <=> (build.filters => \A i \in DOMAIN out : AnswerFits(i))
    BY DEF AnswersSequential, AnswerFits
  <1>4. AnswersSequential' <=> (build'.filters => \A i \in DOMAIN out' : AnswerFits(i)')
    BY DEF AnswersSequential, AnswerFits
  <1>5. AnswersSequential' <=> AnswersSequential
    BY <1>2, <1>3, <1>4
  <1> QED  BY <1>5 DEF AnswersInv, Answers

LEMMA RestStep ==
  ASSUME KeysFit, build.filters, Board, BoardInv, MwRest
  PROVE  BoardInv'
  <1>1. MemTyped /\ PipeInv /\ ContentInv /\ AnswersInv /\ UnsharedInv /\ MwTypes /\ FifosNamed /\ QueueTypes /\ StreamInv
    BY UnsharedParts, FlowParts DEF BoardInv, QueueTypes, FifosNamed
  <1>2. build' = build /\ cc' = cc /\ filter' = filter /\ host' = host /\ next' = next /\ out' = out
        /\ mw.state \in {"MW_SET_REST", "MW_CONSUME"}
    BY DEF Board, MwRest
  <1>3. PICK r, word, k, n : r = mw.req /\ word = Head(fifo.comp2memWrMemData) /\ k = Head(fifo.comp2memWrKey) /\ n = KeyLeft
    OBVIOUS
  <1>4. /\ r \in Reqs /\ r.op # "FLUSH" /\ n \in Nat /\ n >= 1 /\ n <= Words(r)
        /\ Words(r) \in Nat /\ Base(r) \in Nat /\ mw.addr \in Nat /\ mw.init
        /\ mw.state = "MW_SET_REST" => /\ r.op = "SET" /\ mw.loc \in 1 .. Bins
                                       /\ n = Base(r) + Words(r) + 1 - mw.addr
                                       /\ mw.addr \in Base(r) + 1 .. Base(r) + Words(r)
        /\ mw.state = "MW_CONSUME" => n = Words(r) - mw.addr
    BY <1>1, <1>2, <1>3, RestCounts
  <1>5. k = KeyWord(r, Words(r) - n + 1)
    BY <1>1, <1>2, <1>3, RestWords
  <1>6. PICK m \in Nat : m = Words(r)
    BY <1>4
  <1>7. k.content = <<r.key, m - n + 1, 0>> /\ (k.eop <=> n = 1) /\ k.eop \in BOOLEAN
    <2>1. PICK v : v = m - n + 1
      OBVIOUS
    <2>2. v = m <=> n = 1
      BY <1>4, <1>6, <2>1
    <2>3. k = [content |-> <<r.key, v, 0>>, eop |-> v = m]
      BY <1>4, <1>5, <1>6, <2>1 DEF KeyWord
    <2>4. k.content = <<r.key, v, 0>>
      BY <2>3
    <2>5. k.eop = (v = m)
      BY <2>3
    <2> QED  BY <2>1, <2>2, <2>4, <2>5
  <1>8. PICK last \in BOOLEAN : last = k.eop
    BY <1>7
  <1>9. last = (KeyLeft = 1)
    BY <1>3, <1>7, <1>8
  <1>10. /\ mem' = IF mw.state = "MW_CONSUME" THEN mem ELSE [mem EXCEPT ![mw.addr] = [word EXCEPT ![mw.loc] = k.content]]
         /\ mw' = [mw EXCEPT !.addr = @ + 1, !.state = IF last THEN "MW_IDLE" ELSE @]
         /\ fifo' = [fifo EXCEPT !.comp2memWrKey = Tail(@), !.comp2memWrMemData = Tail(@),
                       !.dec2cc = IF last /\ mw.state = "MW_SET_REST" THEN Append(@, 1) ELSE @]
    BY <1>3, <1>8 DEF MwRest
  <1>11. PipeInv'
    <2>1. PICK row : row = [word EXCEPT ![mw.loc] = k.content]
      OBVIOUS
    <2>2. mem' = IF mw.state = "MW_CONSUME" THEN mem ELSE [mem EXCEPT ![mw.addr] = row]
      BY <1>10, <2>1
    <2> QED  BY <1>1, <1>2, <1>9, <1>10, <2>2, RestPipe
  <1>12. fifo'.addressAssign = fifo.addressAssign
    BY <1>1, <1>10 DEF Fifos, FifosNamed
  <1>13. AnswersInv' /\ out \in Seq(Answers)
    BY <1>1, <1>2, AnswersStay
  <1>14. CASE mw.state = "MW_CONSUME"
    <2>1. mem' = mem /\ mw'.state # "MW_SET_REST"
      BY <1>1, <1>10, <1>14 DEF MwTypes
    <2>2. ContentInv'
      BY <1>1, <1>2, <1>13, <1>14, <2>1, ContentQuiet
    <2>3. Kept /\ MemTyped'
      BY <1>1, <2>1, EntriesAre, EntriesBecome DEF Kept, Bin, MemTyped
    <2>4. UnsharedInv'
      BY <1>1, <1>2, <1>12, <2>3, UnsharedKept
    <2> QED  BY <1>11, <1>13, <2>2, <2>4, FlowMade DEF BoardInv
  <1>15. CASE mw.state = "MW_SET_REST"
    <2>1. PICK a \in Nat, g \in Nat, b \in 1 .. Bins : a = mw.addr /\ g = Base(r) /\ b = mw.loc
      BY <1>4, <1>15
    <2>2. n = g + m + 1 - a /\ a \in g + 1 .. g + m
      BY <1>4, <1>6, <1>15, <2>1
    <2>3. m - n + 1 = a - g /\ (n = 1 <=> a = g + m) /\ a - g \in 1 .. m /\ a - g \in Nat
      BY <1>4, <2>2
    <2>4. word = mem[a]
      <3>1. PICK cur : RestTakes(cur)
        BY <1>1, <1>2, RestWords
      <3> QED  BY <1>3, <1>15, <2>1, <3>1 DEF RestTakes
    <2>5. mem' = [mem EXCEPT ![mw.addr] = [mem[mw.addr] EXCEPT ![mw.loc] = <<mw.req.key, mw.addr - Base(mw.req), 0>>]]
      BY <1>3, <1>7, <1>10, <1>15, <2>1, <2>3, <2>4
    <2>6. mw'.req = mw.req /\ mw'.loc = mw.loc /\ mw'.addr = mw.addr + 1
      BY <1>1, <1>10 DEF MwTypes
    <2>7. mw'.state = IF mw.addr = Base(mw.req) + Words(mw.req) THEN "MW_IDLE" ELSE "MW_SET_REST"
      <3>1. last <=> mw.addr = Base(mw.req) + Words(mw.req)
        BY <1>3, <1>6, <1>7, <1>8, <2>1, <2>3
      <3>2. mw'.state = IF last THEN "MW_IDLE" ELSE "MW_SET_REST"
        BY <1>1, <1>10, <1>15 DEF MwTypes
      <3> QED  BY <3>1, <3>2
    <2>8. ContentInv'
      BY <1>1, <1>2, <1>13, <1>15, <2>5, <2>6, <2>7, RestContent
    <2>9. /\ r.key \in DOMAIN KeyLen /\ m < Stride /\ g = Stride * Hash[r.key] /\ Hash[r.key] \in 0 .. Buckets - 1
          /\ \A w \in 0 .. m : g + w \in MemWords
      BY <1>4, <1>6, <2>1, RequestFits, TableAssumption
    <2>10. PICK w \in 1 .. m : a = g + w /\ w \in 1 .. Stride - 1
      <3>1. a - g \in 1 .. m /\ a = g + (a - g) /\ a - g \in 1 .. Stride - 1
        BY <2>3, <2>9, TableAssumption
      <3> QED  BY <3>1
    <2>11. \A h \in 0 .. Buckets - 1 : Stride * h # a
      BY <2>9, <2>10, RestIsNoHead
    <2>12. Kept
      <3>1. PICK row : mem' = [mem EXCEPT ![a] = row]
        BY <2>1, <2>5
      <3> QED  BY <1>1, <2>11, <3>1, KeptBeyond
    <2>13. MemTyped'
      <3>1. a \in MemWords
        <4>1. w \in 0 .. m
          OBVIOUS
        <4> QED  BY <4>1, <2>9, <2>10
      <3>2. <<r.key, a - g, 0>> \in Cells
        BY <2>3, <2>9, TableAssumption DEF Cells
      <3>3. [mem[a] EXCEPT ![b] = <<r.key, a - g, 0>>] \in Rows
        BY <1>1, <3>1, <3>2 DEF MemTyped, Rows
      <3>4. mem' = [mem EXCEPT ![a] = [mem[a] EXCEPT ![b] = <<r.key, a - g, 0>>]]
        BY <1>3, <2>1, <2>5
      <3> QED  BY <1>1, <3>3, <3>4 DEF MemTyped
    <2>14. UnsharedInv'
      BY <1>1, <1>2, <1>12, <2>12, <2>13, UnsharedKept
    <2> QED  BY <1>11, <1>13, <2>8, <2>14, FlowMade DEF BoardInv
  <1> QED  BY <1>2, <1>14, <1>15

\* Nothing but memWrite's own state and the queues changes.
LEMMA CalmStep ==
  ASSUME build.filters, build' = build, UnsharedInv, AnswersInv, mem' = mem, host' = host, next' = next, out' = out,
         fifo'.addressAssign = fifo.addressAssign
  PROVE  UnsharedInv' /\ AnswersInv' /\ out \in Seq(Answers)
  <1>1. MemTyped /\ AnswersInv /\ UnsharedInv
    BY UnsharedParts
  <1>2. AnswersInv' /\ out \in Seq(Answers)
    BY <1>1, AnswersStay
  <1>3. Kept /\ MemTyped'
    BY <1>1, EntriesAre, EntriesBecome DEF Kept, Bin, MemTyped
  <1>4. UnsharedInv'
    BY <1>1, <1>3, UnsharedKept
  <1> QED  BY <1>2, <1>4

LEMMA FlushStep ==
  ASSUME KeysFit, build.filters, Board, BoardInv, MwFlush
  PROVE  BoardInv'
  <1>1. MemTyped /\ PipeInv /\ ContentInv /\ AnswersInv /\ UnsharedInv /\ MwTypes /\ FifosNamed
    BY UnsharedParts, FlowParts DEF BoardInv, QueueTypes, FifosNamed
  <1>2. build' = build /\ cc' = cc /\ filter' = filter /\ host' = host /\ next' = next
    BY DEF Board, MwFlush
  <1>3. CASE mw.state = "MW_FLUSH_WAIT"
    <2>1. mw' = [mw EXCEPT !.state = "MW_FLUSH"] /\ fifo' = fifo /\ mem' = mem /\ out' = out
      BY <1>3 DEF MwFlush
    <2>2. UnsharedInv' /\ AnswersInv'
      BY <1>1, <1>2, <2>1, CalmStep
    <2>3. PipeInv'
      BY <1>1, <1>2, <1>3, <2>1, FlushWaitPipe
    <2>4. ContentInv'
      BY <1>1, <2>1 DEF ContentInv, MwTypes
    <2> QED  BY <2>2, <2>3, <2>4, FlowMade DEF BoardInv
  <1>4. CASE mw.state = "MW_FLUSH_CONSUME_KEY"
    <2>1. /\ mw' = [mw EXCEPT !.state = "MW_IDLE"] /\ mem' = mem /\ out' = out
          /\ fifo' = [fifo EXCEPT !.comp2memWrKey = Tail(@)]
      BY <1>4 DEF MwFlush
    <2>2. UnsharedInv' /\ AnswersInv' /\ out \in Seq(Answers)
      <3>1. fifo'.addressAssign = fifo.addressAssign
        BY <1>1, <2>1 DEF Fifos, FifosNamed
      <3> QED  BY <1>1, <1>2, <2>1, <3>1, CalmStep
    <2>3. PipeInv'
      BY <1>1, <1>2, <1>4, <2>1, FlushedPipe
    <2>4. ContentInv'
      <3>1. mw'.state = "MW_IDLE"
        BY <1>1, <2>1 DEF MwTypes
      <3> QED  BY <1>1, <1>4, <2>1, <2>2, <3>1, ContentQuiet
    <2> QED  BY <2>2, <2>3, <2>4, FlowMade DEF BoardInv
  <1>5. CASE mw.state = "MW_FLUSH"
    <2>1. PICK last \in BOOLEAN : last = (mw.addr + 1 = TableWords - 1)
      OBVIOUS
    <2>2. /\ mem' = [mem EXCEPT ![mw.addr] = [b \in 1 .. Bins |-> Zero]]
          /\ mw' = [mw EXCEPT !.addr = @ + 1, !.state = IF last THEN "MW_FLUSH_CONSUME_KEY" ELSE @]
      BY <1>5, <2>1 DEF MwFlush, Cleared
    <2>3. mw'.state = IF last THEN "MW_FLUSH_CONSUME_KEY" ELSE "MW_FLUSH"
      BY <1>1, <1>5, <2>2 DEF MwTypes
    <2>4. /\ fifo' = IF last THEN [fifo EXCEPT !.dec2cc = Append(@, 1), !.in2md = Tail(@)] ELSE fifo
          /\ IF last THEN OutputLogic(Result("FLUSH", TRUE, 0, 0)) ELSE out' = out
      BY <1>5, <2>3 DEF MwFlush
    <2>5. PipeInv' /\ (last => Head(fifo.in2md) = mw.req)
      BY <1>1, <1>2, <1>5, <2>1, <2>2, <2>4, FlushPipe
    <2>6. UnsharedInv'
      <3>1. Kept /\ MemTyped'
        BY <1>1, <2>2, KeptCleared
      <3>2. fifo'.addressAssign = fifo.addressAssign
        BY <1>1, <2>4 DEF Fifos, FifosNamed
      <3> QED  BY <1>1, <1>2, <3>1, <3>2, UnsharedKept
    <2>7. CASE ~last
      <3>1. AnswersInv'
        <4>1. out' = out
          BY <2>4, <2>7
        <4> QED  BY <1>1, <1>2, <4>1, AnswersStay
      <3>2. ContentInv'
        BY <2>3, <2>7 DEF ContentInv
      <3> QED  BY <2>5, <2>6, <3>1, <3>2, FlowMade DEF BoardInv
    <2>8. CASE last
      <3>1. PICK r : r = mw.req /\ r \in Reqs /\ r.op = "FLUSH"
        BY <1>1, <1>5 DEF MwTypes
      <3>2. PICK res : res = Result("FLUSH", TRUE, 0, 0)
        OBVIOUS
      <3>3. res \in [op : OpNames, ok : BOOLEAN, addr : Nat, vlen : Nat] /\ res.op = "FLUSH" /\ res.ok
        BY <3>2 DEF Result, OpNames
      <3>4. PICK x : x = [req |-> r, res |-> IF res.op = "SET" THEN [res EXCEPT !.vlen = r.vlen] ELSE res]
        OBVIOUS
      <3>5. x.req = r /\ x.res.op = "FLUSH" /\ x.res.ok
        BY <3>3, <3>4
      <3>6. AnswerRight(x)
        BY <3>1, <3>5 DEF AnswerRight
      <3>7. OutputLogic(res) /\ Head(fifo.in2md) = r
        BY <2>4, <2>5, <2>8, <3>1, <3>2
      <3>8. x \in Answers /\ out' = Append(out, x) /\ AnswersInv' /\ out \in Seq(Answers)
        BY <1>1, <1>2, <3>1, <3>3, <3>4, <3>6, <3>7, AnswerGiven
      <3>9. ContentInv'
        <4>1. mw.addr + 1 = TableWords - 1
          BY <2>1, <2>8
        <4>2. x.req.op = "FLUSH"
          BY <3>1, <3>5
        <4> QED  BY <1>1, <1>5, <2>2, <3>5, <3>8, <4>1, <4>2, FlushContent
      <3> QED  BY <2>5, <2>6, <3>8, <3>9, FlowMade DEF BoardInv
    <2> QED  BY <2>7, <2>8
  <1> QED  BY <1>3, <1>4, <1>5 DEF MwFlush

LEMMA IdleStep ==
  ASSUME KeysFit, build.filters, Board, BoardInv, MwIdle
  PROVE  UnsharedInv' /\ AnswersInv' /\ (~Wedged' => FlowInv')
  <1>1. MemTyped /\ PipeInv /\ ContentInv /\ AnswersInv /\ UnsharedInv /\ MwTypes /\ FifosNamed
    BY UnsharedParts, FlowParts DEF BoardInv, QueueTypes, FifosNamed
  <1>2. /\ build' = build /\ cc' = cc /\ filter' = filter /\ host' = host /\ next' = next /\ mem' = mem /\ out' = out
        /\ mw.state = "MW_IDLE"
    BY DEF Board, MwIdle
  <1>3. CASE mw.init
    <2>1. PICK s : s = Head(fifo.comp2memWr)
      OBVIOUS
    <2>2. /\ fifo.comp2memWr # << >> /\ fifo' = [fifo EXCEPT !.comp2memWr = Tail(@)]
          /\ mw' = [mw EXCEPT !.req = s.req, !.free = s.free, !.match = s.match, !.addr = 0,
                              !.state = IF s.req.op = "FLUSH" /\ build.alloc = "dram" THEN "MW_FLUSH_WAIT" ELSE "MW_EVAL"]
      BY <1>3, <2>1 DEF MwIdle, Ready
    <2>3. fifo'.addressAssign = fifo.addressAssign
      BY <1>1, <2>2 DEF Fifos, FifosNamed
    <2>4. UnsharedInv' /\ AnswersInv' /\ out \in Seq(Answers)
      BY <1>1, <1>2, <2>3, CalmStep
    <2>5. ASSUME ~Wedged' PROVE FlowInv'
      <3>1. ~(mw'.state = "MW_EVAL" /\ mw'.req.op = "FLUSH")
        BY <2>5 DEF Wedged, Unforeseen
      <3>2. PipeInv'
        BY <1>1, <1>2, <1>3, <2>1, <2>2, <3>1, TakePipe
      <3>3. mw'.state \in {"MW_FLUSH_WAIT", "MW_EVAL"}
        BY <1>1, <2>2 DEF MwTypes
      <3>4. ContentInv'
        BY <1>1, <1>2, <2>4, <3>3, ContentQuiet
      <3> QED  BY <3>2, <3>4, FlowMade
    <2> QED  BY <2>4, <2>5
  <1>4. CASE ~mw.init
    <2>1. mw' = [mw EXCEPT !.init = TRUE, !.state = "MW_INIT_MEM"] /\ fifo' = fifo
      BY <1>4 DEF MwIdle
    <2>2. UnsharedInv' /\ AnswersInv' /\ out \in Seq(Answers)
      BY <1>1, <1>2, <2>1, CalmStep
    <2>3. PipeInv' /\ mw'.state = "MW_INIT_MEM"
      BY <1>1, <1>2, <1>4, <2>1, StartPipe
    <2>4. ContentInv'
      BY <1>1, <1>2, <2>2, <2>3, ContentQuiet
    <2> QED  BY <2>2, <2>3, <2>4, FlowMade
  <1> QED  BY <1>3, <1>4

LEMMA InitMemStep ==
  ASSUME KeysFit, build.filters, Board, BoardInv, MwInitMem
  PROVE  BoardInv'
  <1>1. MemTyped /\ PipeInv /\ ContentInv /\ AnswersInv /\ UnsharedInv
    BY UnsharedParts, FlowParts DEF BoardInv
  <1>2. build' = build /\ cc' = cc /\ filter' = filter /\ host' = host /\ next' = next
    BY DEF Board, MwInitMem
  <1>3. PipeInv' /\ mem' = mem /\ fifo' = fifo /\ out' = out /\ {mw.state, mw'.state} \subseteq {"MW_IDLE", "MW_INIT_MEM"}
    BY <1>1, <1>2, InitMemPipe
  <1>4. UnsharedInv' /\ AnswersInv' /\ out \in Seq(Answers)
    BY <1>1, <1>2, <1>3, CalmStep
  <1>5. ContentInv'
    BY <1>1, <1>3, <1>4, ContentQuiet
  <1> QED  BY <1>3, <1>4, <1>5, FlowMade DEF BoardInv

\* memWrite, when it is not caught.
LEMMA MemWriteStep ==
  ASSUME KeysFit, build.filters, build.alloc \in {"dram", "buddy"}, BoardInv, ~Wedged, MemWrite
  PROVE  UnsharedInv' /\ AnswersInv' /\ (~Wedged' => FlowInv')
  <1>1. Board
    BY DEF MemWrite, Board
  <1>2. CASE MwIdle
    BY <1>1, <1>2, IdleStep
  <1>3. CASE MwInitMem
    BY <1>1, <1>3, InitMemStep DEF BoardInv
  <1>4. CASE MwRest
    BY <1>1, <1>4, RestStep DEF BoardInv
  <1>5. CASE MwFlush
    BY <1>1, <1>5, FlushStep DEF BoardInv
  <1>6. CASE MwEval
    <2>1. mw.state = "MW_EVAL" /\ ~Unforeseen
      BY <1>6 DEF MwEval, Wedged
    <2>2. PICK word : word = Head(fifo.comp2memWrMemData)
      OBVIOUS
    <2>3. EvalGet(word) \/ EvalSet(word) \/ EvalDelete(word)
      BY <1>6, <2>1, <2>2 DEF MwEval
    <2>4. CASE EvalGet(word)
      BY <1>1, <2>1, <2>2, <2>4, GetStep DEF BoardInv
    <2>5. CASE EvalDelete(word)
      BY <1>1, <2>1, <2>2, <2>5, DeleteStep DEF BoardInv
    <2>6. CASE EvalSet(word)
      <3>1. mw.req.op = "SET" /\ (SetRefusal \/ \E b, a, row : SetDone(word, b, a, row))
        BY <2>6, SetCases
      <3>2. CASE SetRefusal
        BY <1>1, <2>1, <3>1, <3>2, RefusalStep DEF BoardInv
      <3>3. CASE \E b, a, row : SetDone(word, b, a, row)
        <4>1. PICK b, a, row : SetDone(word, b, a, row)
          BY <3>3
        <4>2. BoardInv'
          BY <1>1, <2>1, <2>2, <3>1, <4>1, StoreStep
        <4> QED  BY <4>2 DEF BoardInv
      <3> QED  BY <3>1, <3>2, <3>3
    <2> QED  BY <2>3, <2>4, <2>5, <2>6
  <1> QED  BY <1>2, <1>3, <1>4, <1>5, <1>6 DEF MemWrite

-----------------------------------------------------------------------------
(* All steps.                                                              *)

\* The names of the queues.
LEMMA FifosStay ==
  ASSUME FifosNamed, Next
  PROVE  FifosNamed'
  <1>1. CASE Deliver
    BY <1>1 DEF Deliver, InputLogic, FifosNamed
  <1>2. CASE ConcurrencyControl
    BY <1>2 DEF ConcurrencyControl, FifosNamed
  <1>3. CASE HtCompare
    BY <1>3 DEF HtCompare, FifosNamed
  <1>4. CASE HostAssign
    BY <1>4 DEF HostAssign, FifosNamed
  <1>5. CASE MemWrite
    <2>1. CASE MwIdle \/ MwInitMem
      BY <2>1 DEF MwIdle, MwInitMem, FifosNamed
    <2>2. CASE MwEval
      BY <2>2 DEF MwEval, EvalGet, EvalSet, EvalDelete, FifosNamed
    <2>3. CASE MwRest \/ MwFlush
      BY <2>3 DEF MwRest, MwFlush, FifosNamed
    <2> QED  BY <1>5, <2>1, <2>2, <2>3 DEF MemWrite
  <1> QED  BY <1>1, <1>2, <1>3, <1>4, <1>5 DEF Next

\* A step of the stages in front of memWrite leaves the rest alone.
LEMMA FrontStep ==
  ASSUME FifosNamed, Deliver \/ ConcurrencyControl \/ HtCompare
  PROVE  /\ build' = build /\ mw' = mw /\ mem' = mem /\ host' = host /\ next' = next /\ out' = out
         /\ fifo'.addressAssign = fifo.addressAssign
  <1>1. CASE Deliver
    BY <1>1 DEF Deliver, InputLogic, FifosNamed, Fifos
  <1>2. CASE ConcurrencyControl
    BY <1>2 DEF ConcurrencyControl, FifosNamed, Fifos
  <1>3. CASE HtCompare
    BY <1>3 DEF HtCompare, FifosNamed, Fifos
  <1> QED  BY <1>1, <1>2, <1>3

\* Once caught, memWrite stays so; it only takes words.
LEMMA WedgedStays ==
  ASSUME FifosNamed, Wedged, MemWrite
  PROVE  /\ build' = build /\ mw' = mw /\ mem' = mem /\ host' = host /\ next' = next /\ out' = out
         /\ fifo'.addressAssign = fifo.addressAssign
  <1>1. MwEval /\ build' = build
    BY DEF Wedged, MemWrite, MwIdle, MwInitMem, MwRest, MwFlush
  <1>2. \A word : ~EvalGet(word) /\ ~EvalDelete(word)
    BY DEF Wedged, Unforeseen, EvalGet, EvalDelete
  <1>3. \A word : ~EvalSet(word)
    BY DEF Wedged, Unforeseen, EvalSet
  <1>4. fifo' = [fifo EXCEPT !.comp2memWrMemData = Tail(@)] /\ UNCHANGED <<mw, mem, host, next, out>>
    BY <1>1, <1>2, <1>3 DEF MwEval
  <1> QED  BY <1>1, <1>4 DEF FifosNamed, Fifos

LEMMA WedgedSame ==
  ASSUME build' = build, mw' = mw, fifo'.addressAssign = fifo.addressAssign
  PROVE  Wedged' <=> Wedged
  <1>1. (Ready("addressAssign"))' <=> Ready("addressAssign")
    BY DEF Ready
  <1>2. SetFound' = SetFound
    BY DEF SetFound
  <1>3. SetRefused' <=> SetRefused
    BY <1>1, <1>2 DEF SetRefused
  <1> QED  BY <1>2, <1>3 DEF Wedged, Unforeseen

\* A step that leaves all but the queue of addresses.
LEMMA FlowFrame ==
  ASSUME FlowInv, mw' = mw, mem' = mem, out' = out, cc' = cc, filter' = filter,
         fifo' = [q \in Fifos |-> fifo'[q]], \A q \in Fifos \ {"addressAssign"} : fifo'[q] = fifo[q]
  PROVE  FlowInv'
  <1>1. /\ QueueTypes /\ FilterInv /\ OrderInv
    BY FlowParts
  <1>2. /\ fifo'.in2md = fifo.in2md /\ fifo'.in2cc = fifo.in2cc /\ fifo'.memRd2comp = fifo.memRd2comp
        /\ fifo'.comp2memWr = fifo.comp2memWr /\ fifo'.comp2memWrKey = fifo.comp2memWrKey
        /\ fifo'.comp2memWrMemData = fifo.comp2memWrMemData /\ fifo'.dec2cc = fifo.dec2cc
    BY DEF Fifos
  <1>3. MwTypes' /\ CompareInv' /\ StreamInv' /\ ContentInv' /\ HeldReq' = HeldReq /\ OpenReq' = OpenReq
    BY <1>2, FrontFrame
  <1>4. FilterInv' /\ OrderInv'
    BY <1>1, <1>2, <1>3, FilterFrame, OrderFrame
  <1>5. QueueTypes'
    BY <1>1, <1>2 DEF QueueTypes
  <1> QED  BY <1>3, <1>4, <1>5 DEF FlowInv

\* The host's step.
LEMMA HostFlow ==
  ASSUME FifosNamed, FlowInv, HostAssign
  PROVE  FlowInv'
  <1>1. mw' = mw /\ mem' = mem /\ out' = out /\ cc' = cc /\ filter' = filter
    BY DEF HostAssign
  <1>2. fifo' = [q \in Fifos |-> fifo'[q]] /\ \A q \in Fifos \ {"addressAssign"} : fifo'[q] = fifo[q]
    BY DEF HostAssign, FifosNamed
  <1> QED  BY <1>1, <1>2, FlowFrame

LEMMA HostWedged ==
  ASSUME FifosNamed, fifo.addressAssign \in Seq(Nat), host \subseteq Nat, Wedged, HostAssign
  PROVE  Wedged'
  <1>1. build' = build /\ build.alloc = "dram" /\ mw' = mw
    BY DEF HostAssign
  <1>2. fifo'.addressAssign = Append(fifo.addressAssign, Lowest(host))
    BY DEF HostAssign, FifosNamed, Fifos
  <1>3. Lowest(host) \in Nat
    BY LowestIn DEF HostAssign
  <1>4. fifo'.addressAssign # << >>
    <2>1. Len(fifo'.addressAssign) = Len(fifo.addressAssign) + 1 /\ Len(fifo.addressAssign) \in Nat
      BY <1>2, <1>3, LongerIs
    <2> QED  BY <2>1
  <1>5. SetFound' = SetFound
    BY <1>1 DEF SetFound
  <1>6. ~SetRefused => ~SetRefused'
    BY <1>1, <1>4, <1>5 DEF SetRefused, Ready
  <1> QED  BY <1>1, <1>5, <1>6 DEF Wedged, Unforeseen

LEMMA TableInit ==
  ASSUME Init
  PROVE  TableInv
  <1>0. build \in [filters : BOOLEAN, alloc : {"dram", "buddy"}] /\ FifosNamed
    BY TableAssumption DEF Init, FifosNamed
  <1>1. /\ \A q \in Fifos : fifo[q] = << >>
        /\ fifo.in2md = << >> /\ fifo.in2cc = << >> /\ fifo.memRd2comp = << >> /\ fifo.comp2memWr = << >>
        /\ fifo.comp2memWrKey = << >> /\ fifo.comp2memWrMemData = << >> /\ fifo.dec2cc = << >> /\ fifo.addressAssign = << >>
    BY DEF Init, Fifos
  <1>2. filter = << >> /\ cc.state = "CC_IDLE" /\ host = Addrs /\ next = 0 /\ out = << >>
    BY DEF Init, Idle
  <1>3. mw = [state |-> "MW_IDLE", init |-> FALSE, req |-> NoRequest, free |-> {}, match |-> {}, loc |-> 0, addr |-> 0]
    BY DEF Init
  <1>4. mem = [a \in MemWords |-> [b \in 1 .. Bins |-> Zero]]
    BY DEF Init
  <1>5. MemTyped
    BY <1>4 DEF MemTyped, Rows, Cells, Zero
  <1>6. QueueTypes
    <2>1. \A S : << >> \in Seq(S)
      OBVIOUS
    <2> QED  BY <1>0, <1>1, <1>2, <2>1 DEF QueueTypes, FifosNamed
  <1>7. MwTypes
    BY <1>3, <1>4 DEF MwTypes, MwStates
  <1>8. mw.state = "MW_IDLE" /\ HeldReq = << >> /\ OpenReq = << >> /\ ParkedReq = << >> /\ KeyLeft = 0
    BY <1>2, <1>3 DEF HeldReq, OpenReq, ParkedReq, KeyLeft
  <1>9. /\ \A s : s = << >> => TagsOf(s) = << >> /\ ReqsOf(s) = << >> /\ KeysOf(s) = << >> /\ DataOf(s) = << >>
        /\ Cat(<< >>, << >>) = << >>
    BY DEF TagsOf, ReqsOf, KeysOf, DataOf, Cat
  <1>10. FilterInv
    <2>1. << >> \in Seq(Tags) /\ Len(<< >>) = Len(fifo.dec2cc)
      BY <1>1
    <2>2. Chain(filter, << >>, TagsOf(HeldReq), TagsOf(ReqsOf(fifo.comp2memWr)), << >>, TagsOf(fifo.memRd2comp))
      BY <1>1, <1>2, <1>8, <1>9 DEF Chain
    <2>3. FilterHolds(<< >>)
      BY <2>1, <2>2 DEF FilterHolds
    <2>4. DOMAIN filter = {}
      BY <1>2
    <2> QED  BY <2>3, <2>4 DEF FilterInv
  <1>11. OrderInv
    BY <1>1, <1>8, <1>9 DEF OrderInv, Chain
  <1>12. CompareInv
    BY <1>1, <1>8 DEF CompareInv, Compared
  <1>13. StreamInv
    <2>1. FramesAt(<< >>, [i \in 0 .. 0 |-> 0], << >>, << >>)
      BY DEF FramesAt
    <2>2. Streams(<< >>, << >>, << >>)
      BY <2>1 DEF Streams
    <2>3. KeyNow = << >>
      BY <1>8 DEF KeyNow
    <2>4. DataNow(<< >>)
      BY <1>8 DEF DataNow
    <2>5. DataHolds(<< >>)
      BY <1>1, <1>9, <2>2, <2>4 DEF DataHolds
    <2> QED  BY <1>1, <1>9, <2>2, <2>3, <2>5 DEF StreamInv
  <1>14. ASSUME NEW h \in 0 .. Buckets - 1, NEW b \in 1 .. Bins
         PROVE  mem[Stride * h][b] = Zero
    BY <1>4, <1>5, EntryTyped
  <1>15. ContentInv
    <2> SUFFICES ASSUME NEW k \in DOMAIN KeyLen
                 PROVE  KeyInv(k)
      BY DEF ContentInv
    <2>1. \A b \in 1 .. Bins : ~Stores(k, b)
      <3> SUFFICES ASSUME NEW b \in 1 .. Bins PROVE ~Stores(k, b)
        OBVIOUS
      <3>1. Hash[k] \in 0 .. Buckets - 1 /\ KeyLen[k] # 0
        BY TableAssumption
      <3>2. HeadOf(k)[b] = Zero
        BY <1>14, <3>1 DEF HeadOf
      <3>3. HeadOf(k)[b][1] # KeyLen[k]
        BY <3>1, <3>2 DEF Zero
      <3> QED  BY <3>3 DEF Stores
    <2>2. Latest(k) = 0
      <3>1. 1 .. (0 + 1) - 1 = {} /\ Len(out) = 0
        BY <1>2
      <3>2. { j \in 1 .. (Len(out) + 1) - 1 : Changes(j, k) } = {}
        BY <3>1
      <3> QED  BY <3>2 DEF Latest, LastChange
    <2> QED  BY <2>1, <2>2 DEF KeyInv
  <1>16. UnsharedInv
    <2>1. Entries = {}
      <3>1. \A e \in Places : Bin(e) = Zero
        BY <1>14 DEF Places, Bin
      <3> QED  BY <3>1, EntriesAre DEF Zero
    <2>2. Assigned = {} /\ DOMAIN fifo.addressAssign = {} /\ fifo.addressAssign \in Seq(Nat)
      BY <1>1 DEF Assigned
    <2>3. host \subseteq Nat /\ next \in Nat
      BY <1>2, TableAssumption
    <2> QED  BY <1>5, <2>1, <2>2, <2>3 DEF UnsharedInv, AddressesUnshared, MemTyped
  <1>17. AnswersInv
    <2>1. DOMAIN out = {}
      BY <1>2
    <2>2. AnswersSequential
      BY <2>1 DEF AnswersSequential
    <2> QED  BY <1>2, <2>2 DEF AnswersInv
  <1> QED  BY <1>0, <1>6, <1>7, <1>10, <1>11, <1>12, <1>13, <1>15, <1>16, <1>17 DEF TableInv, FlowInv

LEMMA TableStep ==
  ASSUME KeysFit, TableInv, Next
  PROVE  TableInv'
  <1>1. FifosNamed /\ FifosNamed'
    BY FifosStay DEF TableInv
  <1>2. build' = build
    BY DEF Next, Deliver, ConcurrencyControl, HtCompare, MemWrite, HostAssign
  <1> SUFFICES ASSUME build.filters
               PROVE  UnsharedInv' /\ AnswersInv' /\ (~Wedged' => FlowInv')
    BY <1>1, <1>2 DEF TableInv
  <1>3. UnsharedInv /\ AnswersInv /\ (~Wedged => FlowInv) /\ build.alloc \in {"dram", "buddy"} /\ MemTyped /\ PoolTyped
    BY UnsharedParts DEF TableInv
  <1>4. ASSUME Deliver \/ ConcurrencyControl \/ HtCompare
        PROVE  UnsharedInv' /\ AnswersInv' /\ (~Wedged' => FlowInv')
    <2>1. /\ build' = build /\ mw' = mw /\ mem' = mem /\ host' = host /\ next' = next /\ out' = out
          /\ fifo'.addressAssign = fifo.addressAssign
      BY <1>1, <1>4, FrontStep
    <2>2. UnsharedInv' /\ AnswersInv'
      BY <1>3, <2>1, CalmStep
    <2>3. Wedged' <=> Wedged
      BY <2>1, WedgedSame
    <2>4. FlowInv => FlowInv'
      BY <1>3, <1>4, DeliverFlow, ControlFlow, HtCompareFlow
    <2> QED  BY <1>3, <2>2, <2>3, <2>4
  <1>5. ASSUME MemWrite
        PROVE  UnsharedInv' /\ AnswersInv' /\ (~Wedged' => FlowInv')
    <2>1. CASE Wedged
      <3>1. /\ build' = build /\ mw' = mw /\ mem' = mem /\ host' = host /\ next' = next /\ out' = out
            /\ fifo'.addressAssign = fifo.addressAssign
        BY <1>1, <1>5, <2>1, WedgedStays
      <3>2. UnsharedInv' /\ AnswersInv'
        BY <1>3, <3>1, CalmStep
      <3>3. Wedged' <=> Wedged
        BY <3>1, WedgedSame
      <3> QED  BY <2>1, <3>2, <3>3
    <2>2. CASE ~Wedged
      <3>1. BoardInv
        BY <1>3, <2>2 DEF BoardInv
      <3> QED  BY <1>3, <1>5, <2>2, <3>1, MemWriteStep
    <2> QED  BY <2>1, <2>2
  <1>6. ASSUME HostAssign
        PROVE  UnsharedInv' /\ AnswersInv' /\ (~Wedged' => FlowInv')
    <2>1. UnsharedInv'
      BY <1>1, <1>3, <1>6, UnsharedAssigned
    <2>2. AnswersInv'
      <3>1. out' = out
        BY <1>6 DEF HostAssign
      <3> QED  BY <1>2, <1>3, <3>1, AnswersStay
    <2>3. Wedged => Wedged'
      BY <1>1, <1>3, <1>6, HostWedged DEF PoolTyped
    <2>4. FlowInv => FlowInv'
      BY <1>1, <1>6, HostFlow
    <2> QED  BY <1>3, <2>1, <2>2, <2>3, <2>4
  <1> QED  BY <1>4, <1>5, <1>6 DEF Next

LEMMA TableStutters ==
  ASSUME TableInv, UNCHANGED vars
  PROVE  TableInv'
  <1>1. /\ build' = build /\ mw' = mw /\ mem' = mem /\ host' = host /\ next' = next /\ out' = out /\ cc' = cc
        /\ filter' = filter /\ fifo' = fifo
    BY DEF vars
  <1>2. FifosNamed'
    BY <1>1 DEF TableInv, FifosNamed
  <1>3. Wedged' <=> Wedged
    BY <1>1, WedgedSame
  <1>4. FlowInv => FlowInv'
    <2>1. FifosNamed
      BY DEF TableInv
    <2> QED  BY <1>1, <2>1, FlowFrame DEF FifosNamed
  <1>5. build.filters => UnsharedInv' /\ AnswersInv'
    BY <1>1, CalmStep DEF TableInv
  <1> QED  BY <1>1, <1>2, <1>3, <1>4, <1>5 DEF TableInv

-----------------------------------------------------------------------------
(* The theorems. KeysFit: the words of a key fit in the bucket behind its  *)
(* head; memRead.cpp does not check it, and a longer key is read and       *)
(* written into the bucket that follows.                                   *)

\* For any keys that fit, hash function, number of buckets and bins, either allocator and any
\* order of the stages' steps: the filter holds what is under way, what ht_compare has found
\* still holds when memWrite acts on it, and the table stores the last changes.
THEOREM TableInvariant == KeysFit => (Spec => []TableInv)
  <1> SUFFICES ASSUME KeysFit
               PROVE  Spec => []TableInv
    OBVIOUS
  <1>1. Init => TableInv
    BY TableInit
  <1>2. TableInv /\ [Next]_vars => TableInv'
    BY TableStep, TableStutters
  <1> QED  BY <1>1, <1>2, PTL DEF Spec

\* No two entries share a value address and none uses one that may still be assigned: memWrite
\* takes an address for a new entry, reuses that of the entry it replaces, and gives it back on
\* DELETE.
THEOREM TableUnshared == KeysFit => (Spec => []AddressesUnshared)
  <1>1. TableInv => AddressesUnshared
    BY DEF TableInv, UnsharedInv, AddressesUnshared
  <1> QED  BY <1>1, TableInvariant, PTL

\* Every answer of ht_outputLogic is that of the requests executed one after the other, although
\* memRead and ht_compare work on later requests before memWrite is done with earlier ones.
THEOREM TableSequential == KeysFit => (Spec => []AnswersSequential)
  <1>1. TableInv => AnswersSequential
    BY DEF TableInv, AnswersInv, AnswersSequential
  <1> QED  BY <1>1, TableInvariant, PTL
=============================================================================
