--------------------------- MODULE AddressManager ---------------------------
(***************************************************************************)
(* The host's address manager of memcached (PCIe_Driver/memMgmt): the      *)
(* thread memManager::manage keeps the free value addresses in lists,      *)
(* tops up the board's FREE FIFOs, takes back what the DEL FIFO returns,   *)
(* and starts anew when the board is flushed. It reaches the board through *)
(* register reads and writes (uDriver, the kernel module's ioctl, the      *)
(* register file of stats_and_management.v), which a second thread uses to *)
(* show statistics. The board's side of the FIFOs and of the flush is      *)
(* memWrite's.                                                             *)
(***************************************************************************)
EXTENDS Integers, Sequences, FiniteSets

CONSTANTS
  PoolStart,     \* POOL_0_START and POOL_1_START, a function on {"0", "1"}
  PoolSize,      \* pool0size and pool1size: addresses for small values
  PoolGran,      \* pool0gran and pool1gran: from one small address to the next
  MEDIUM, LARGE, \* small slots in a medium and in a large one
  NUM_MEDIUM, NUM_LARGE,  \* medium and large slots of a pool
  HostDepth,     \* entries of a memMgmt_async_fifo
  ReadyDelays    \* cycles RREADY may be late by

ASSUME HostAssumption ==
  /\ \A w \in {"0", "1"} : PoolStart[w] \in Nat /\ PoolSize[w] \in Nat \ {0} /\ PoolGran[w] \in Nat \ {0}
  /\ PoolStart["0"] > 0 /\ PoolGran["0"] = 1
  /\ {MEDIUM, LARGE, NUM_MEDIUM, NUM_LARGE, HostDepth} \subseteq Nat \ {0}
  /\ ReadyDelays \subseteq Nat

VARIABLES
  pools,      \* the lists of free addresses
  mg,         \* where manage() is, and at which list
  exited,     \* the process called exit(-1)
  mtx,        \* the thread that holds uDriver's mutex
  user,       \* *argpt, the ioctl argument that the threads share
  ioctl_arg,  \* the kernel module's copy of it
  call,       \* the register access of each thread
  board,      \* the FIFOs free1, free2 and del
  inUse,      \* the addresses that the hash table stores
  flush,      \* flushReq, flushDone, memWrite's state
  missed      \* a flush began before the manager saw the end of the one before

hvars == <<pools, mg, exited, mtx, user, ioctl_arg, call, board, inUse, flush, missed>>

\* The lists in the order in which manage() serves them; pools 2 and 3 are not used.
Lists == <<"0", "0M", "0L", "1", "1M", "1L">>
Threads == {"manager", "stats"}
NoAccess == [reg |-> "none", val |-> 0]
NoCall == [op |-> "none", reg |-> "none", val |-> 0, st |-> "idle"]

-----------------------------------------------------------------------------
(* The lists.                                                              *)

\* fillpool: a medium address is a multiple of a multiple of MEDIUM (pool0Mgran).
SmallOf(w) == [k \in 1 .. PoolSize[w] |-> PoolStart[w] + (k - 1) * PoolGran[w]]
MediumOf(w) == [k \in 1 .. NUM_MEDIUM |-> PoolStart[w] + (PoolSize[w] + (k - 1) * MEDIUM) * MEDIUM * PoolGran[w]]
LargeOf(w) == [k \in 1 .. NUM_LARGE |->
                 PoolStart[w] + (PoolSize[w] + MEDIUM * NUM_MEDIUM + (k - 1) * LARGE) * LARGE * PoolGran[w]]
Slots0 == [l \in {"0", "0M", "0L"} |->
             CASE l = "0" -> SmallOf("0") [] l = "0M" -> MediumOf("0") [] l = "0L" -> LargeOf("0")]
Slots1 == [l \in {"1", "1M", "1L"} |->
             CASE l = "1" -> SmallOf("1") [] l = "1M" -> MediumOf("1") [] l = "1L" -> LargeOf("1")]

fillPools(p) == [l \in DOMAIN p |-> p[l] \o (IF l \in DOMAIN Slots0 THEN Slots0[l] ELSE Slots1[l])]

\* Before a flush refills the lists, the small ones are cleared.
KeptLists(p) == p
ClearedLists(p) == [p EXCEPT !["0"] = << >>, !["1"] = << >>]

\* The lists that whereFrom may name for address a. pool1Msize and pool1Lsize are
\* never set, so behind the small addresses of pool 1 it may name any.
whereFrom(a) ==
  LET p0end == PoolStart["0"] + PoolSize["0"]
      p0mEnd == p0end + NUM_MEDIUM * MEDIUM
      p0lEnd == p0mEnd + NUM_LARGE * LARGE
  IN  IF a < PoolStart["0"] THEN {"illegal"}
      ELSE IF a < p0end THEN {"0"} ELSE IF a < p0mEnd THEN {"0M"} ELSE IF a < p0lEnd THEN {"0L"}
      ELSE IF a < PoolStart["1"] + PoolSize["1"] THEN {"1"} ELSE {"1M", "1L", "illegal"}

\* The free register of a list. Only free1 and free2 lead to a FIFO.
FreeReg(l) == CASE l = "0" -> "free1" [] l = "1" -> "free2" [] OTHER -> "unconnected"

InitHost ==
  /\ pools = fillPools([l \in {Lists[i] : i \in DOMAIN Lists} |-> << >>])
  /\ mg = [at |-> "free", i |-> 1] /\ exited = FALSE
  /\ mtx = "none" /\ user = NoAccess /\ ioctl_arg = NoAccess /\ call = [t \in Threads |-> NoCall]
  /\ board = [f \in {"free1", "free2", "del"} |-> << >>] /\ inUse = {}
  /\ flush = [req |-> FALSE, done |-> FALSE, st |-> "idle"] /\ missed = FALSE

-----------------------------------------------------------------------------
(* A register access: ReadReg and WriteReg of uDriver take the mutex and   *)
(* fill the shared argument, XPCIe_Ioctl copies it, accesses the register  *)
(* and copies it back.                                                     *)

Start(t, op, reg, val) ==
  /\ call[t].st = "idle" /\ mtx = "none" /\ ~exited
  /\ mtx' = t
  /\ user' = [reg |-> reg, val |-> val]
  /\ call' = [call EXCEPT ![t] = [op |-> op, reg |-> reg, val |-> val, st |-> "locked"]]

copy_from_user(t) ==
  /\ call[t].st = "locked" /\ ~exited
  /\ ioctl_arg' = user
  /\ call' = [call EXCEPT ![t].st = "copied"]
  /\ UNCHANGED <<pools, mg, exited, mtx, user, board, inUse, flush, missed>>

\* The FREE registers report a full FIFO; what a FIFO held in reset reports is open.
\* DEL returns the oldest entry, 0 if there is none. FLUSHREQ and FLUSHDONE pass
\* two flip-flops, less than a read takes.
Full(f) == IF flush.req THEN {0, 1} ELSE {IF Len(board[f]) = HostDepth THEN 1 ELSE 0}
Boolean(b) == IF b THEN 1 ELSE 0
DelEntry(d) == LET k == IF d <= 1 THEN 1 ELSE d
               IN  IF k <= Len(board.del) THEN board.del[k] ELSE 0
RegisterRead(reg, d) ==
  CASE reg \in {"free1", "free2"} -> Full(reg)
    [] reg = "flushreq" -> {Boolean(flush.req)}
    [] reg = "flushdone" -> {Boolean(flush.done)}
    [] reg = "del" -> {DelEntry(d)}
    [] OTHER -> {0}

\* del1_rd follows READ_RESPONSE by a cycle, and is set again in each cycle that
\* RREADY is late by: DEL loses an entry for each.
Popped(d) == SubSeq(board.del, d + 2, Len(board.del))

readl(t) ==
  /\ call[t].st = "copied" /\ call[t].op = "read" /\ ~exited
  /\ \E d \in ReadyDelays : \E v \in RegisterRead(ioctl_arg.reg, d) :
       /\ ioctl_arg' = [ioctl_arg EXCEPT !.val = v]
       /\ board' = IF ioctl_arg.reg = "del" THEN [board EXCEPT !.del = Popped(d)] ELSE board
  /\ call' = [call EXCEPT ![t].st = "accessed"]
  /\ UNCHANGED <<pools, mg, exited, mtx, user, inUse, flush, missed>>

\* A FIFO held in reset, or full, loses what is written.
writel(t) ==
  /\ call[t].st = "copied" /\ call[t].op = "write" /\ ~exited
  /\ board' = IF ioctl_arg.reg \in {"free1", "free2"} /\ ~flush.req /\ Len(board[ioctl_arg.reg]) < HostDepth
              THEN [board EXCEPT ![ioctl_arg.reg] = Append(@, ioctl_arg.val)] ELSE board
  /\ flush' = IF ioctl_arg.reg = "flushack" /\ flush.st = "wait" THEN [flush EXCEPT !.st = "run"] ELSE flush
  /\ call' = [call EXCEPT ![t].st = "accessed"]
  /\ UNCHANGED <<pools, mg, exited, mtx, user, ioctl_arg, inUse, missed>>

-----------------------------------------------------------------------------
(* manage().                                                               *)

List == Lists[mg.i]
Advanced == IF mg.i < Len(Lists) THEN [at |-> "free", i |-> mg.i + 1] ELSE [at |-> "flushreq", i |-> 1]

\* managesingle writes the first address and removes it from the list under the
\* list's mutex: nobody sees the list in between.
WriteFree ==
  /\ mg.at = "put"
  /\ Start("manager", "write", FreeReg(List), Head(pools[List]))
  /\ pools' = [pools EXCEPT ![List] = Tail(@)]

ManagerCalls ==
  /\ \/ WriteFree
     \/ /\ \/ mg.at = "free" /\ Start("manager", "read", FreeReg(List), 0)
           \/ mg.at \in {"flushreq", "flushdone", "del"} /\ Start("manager", "read", mg.at, 0)
           \/ mg.at = "flushack" /\ Start("manager", "write", "flushack", 1)
        /\ UNCHANGED pools
  /\ UNCHANGED <<mg, exited, ioctl_arg, board, inUse, flush, missed>>

\* An address that DEL returned goes back to its list. The check against the last
\* entry reads the back of a list that may be empty: then it may find anything.
BackIs(a) == IF pools["0"] = << >> THEN BOOLEAN ELSE {pools["0"][Len(pools["0"])] = a}
PutBack(a) ==
  \E l \in whereFrom(a) : \E duplicate \in BackIs(a) :
    IF l = "0" /\ duplicate
    THEN exited' = TRUE /\ UNCHANGED <<pools, mg>>
    ELSE /\ pools' = IF l = "illegal" THEN pools ELSE [pools EXCEPT ![l] = Append(@, a)]
         /\ mg' = [at |-> "free", i |-> 1] /\ UNCHANGED exited

Goes(to) == mg' = to /\ UNCHANGED <<pools, exited>>
ManagerGets(v) ==
  \/ mg.at = "free" /\ Goes(IF v = 0 /\ pools[List] # << >> THEN [mg EXCEPT !.at = "put"] ELSE Advanced)
  \/ mg.at = "put" /\ Goes(Advanced)
  \/ mg.at = "flushreq" /\ Goes([mg EXCEPT !.at = IF v = 1 THEN "flushack" ELSE "del"])
  \/ mg.at = "flushack" /\ Goes([mg EXCEPT !.at = "refill"])
  \/ mg.at = "flushdone" /\ Goes([mg EXCEPT !.at = IF v = 1 THEN "del" ELSE "flushdone"])
  \/ mg.at = "del" /\ v = 0 /\ Goes([at |-> "free", i |-> 1])
  \/ mg.at = "del" /\ v # 0 /\ PutBack(v)

\* copy_to_user, and the access returns.
Return(t) ==
  /\ call[t].st = "accessed" /\ ~exited
  /\ user' = ioctl_arg
  /\ mtx' = "none"
  /\ call' = [call EXCEPT ![t] = NoCall]
  /\ IF t = "manager" THEN ManagerGets(ioctl_arg.val) ELSE UNCHANGED <<pools, mg, exited>>
  /\ UNCHANGED <<ioctl_arg, board, inUse, flush, missed>>

\* Only the small lists are cleared; all are filled.
Refill ==
  /\ mg.at = "refill" /\ call["manager"].st = "idle" /\ ~exited
  /\ pools' = fillPools(ClearedLists(pools))
  /\ mg' = [mg EXCEPT !.at = "flushdone"]
  /\ UNCHANGED <<exited, mtx, user, ioctl_arg, call, board, inUse, flush, missed>>

\* runBackGround shows the board's counters.
ReadStats ==
  /\ Start("stats", "read", "stats", 0)
  /\ UNCHANGED <<pools, mg, exited, ioctl_arg, board, inUse, flush, missed>>

-----------------------------------------------------------------------------
(* memWrite on the board.                                                  *)

TakeAddress ==
  /\ flush.st = "idle" /\ board.free1 # << >>
  /\ inUse' = inUse \cup {Head(board.free1)}
  /\ board' = [board EXCEPT !.free1 = Tail(@)]
  /\ UNCHANGED <<pools, mg, exited, mtx, user, ioctl_arg, call, flush, missed>>

ReturnAddress ==
  /\ flush.st = "idle" /\ Len(board.del) < HostDepth
  /\ \E a \in inUse : inUse' = inUse \ {a} /\ board' = [board EXCEPT !.del = Append(@, a)]
  /\ UNCHANGED <<pools, mg, exited, mtx, user, ioctl_arg, call, flush, missed>>

\* The request for a flush holds the FIFOs in reset.
AwaitsDone ==
  /\ mg.at \in {"flushack", "refill", "flushdone"}
  /\ ~(mg.at = "flushdone" /\ call["manager"].st = "accessed" /\ ioctl_arg.val = 1)
FlushRequest ==
  /\ flush.st = "idle"
  /\ flush' = [req |-> TRUE, done |-> FALSE, st |-> "wait"]
  /\ board' = [f \in DOMAIN board |-> << >>]
  /\ missed' = (missed \/ AwaitsDone)
  /\ UNCHANGED <<pools, mg, exited, mtx, user, ioctl_arg, call, inUse>>

\* MW_FLUSH has cleared the table.
FlushTable ==
  /\ flush.st = "run"
  /\ flush' = [req |-> FALSE, done |-> TRUE, st |-> "idle"]
  /\ inUse' = {}
  /\ UNCHANGED <<pools, mg, exited, mtx, user, ioctl_arg, call, board, missed>>

HostWork ==
  ManagerCalls \/ Refill \/ FlushTable \/ \E t \in Threads : copy_from_user(t) \/ readl(t) \/ writel(t) \/ Return(t)
NextHost == HostWork \/ ReadStats \/ TakeAddress \/ ReturnAddress \/ FlushRequest

SpecHost == InitHost /\ [][NextHost]_hvars

-----------------------------------------------------------------------------
Copies(s, a) == Cardinality({i \in DOMAIN s : s[i] = a})
InHand(a) ==
  \/ mg.at = "put" /\ List = "0" /\ call["manager"].st \in {"locked", "copied"} /\ call["manager"].val = a
  \/ mg.at = "del" /\ call["manager"].st = "accessed" /\ ioctl_arg.val = a
Owners(a) == Copies(pools["0"], a) + Copies(board.free1, a) + Copies(board.del, a)
               + Boolean(a \in inUse) + Boolean(InHand(a))

\* An address of the first pool is in one place: free in a list, offered to the
\* board, under a stored value, on its way back, or in the manager's hands. A flush
\* resets the FIFOs, the table and the lists in steps of three parties; while one
\* is under way addresses may be missing, but never be handed out twice
\* (memManager.cpp:374-402, 406-430; pcie_mem_alloc.v:85).
AddressesOwned ==
  (~flush.req /\ ~exited) =>
    \A k \in 1 .. PoolSize["0"] :
      LET n == Owners(SmallOf("0")[k])
      IN  n <= 1 /\ (mg.at \notin {"flushack", "refill"} => n = 1)

\* The statistics thread takes the mutex a last time: menu entry 'm' runs the manager alone. A
\* std::mutex need not let the manager in beside a thread that takes it again and again.
StatsRest == <>[](call["stats"].st = "idle")

\* A flush that the board has asked for is carried out, unless one hides the end of another.
HostSettled == StatsRest => []<>(~flush.req \/ exited \/ missed)
=============================================================================
