---------------------------- MODULE ChunkSegment ----------------------------
(***************************************************************************)
(* The chunk allocator of alloc/chunk and the segment unit it controls,    *)
(* mm/legacy/hls_segment. Each keeps a table of the chunks in use; the     *)
(* allocator changes its own and asks the unit, through a stream, to       *)
(* change the other. The permission check of the unit is compiled out      *)
(* (IGNORE_PERM_CHECK): an access is just its chunk.                       *)
(***************************************************************************)
EXTENDS Integers, Sequences

CONSTANTS
  Chunks,      \* indices of chunks, 0 .. TABLE_SIZE - 1
  Pids,        \* application ids
  MaxRequests, MaxAccesses   \* bounds on requests and on bus accesses

ASSUME ChunkAssumption == Chunks \subseteq Nat

VARIABLES
  bitmap,      \* chunk_bitmap of the allocator, as a set
  table,       \* sysmmu_table of the unit
  alloc,       \* requests to the allocator
  busy,        \* request the allocator is handling, waiting for the unit
  ctrl, ctrl_ret,      \* streams between allocator and unit
  answer,      \* answers of the allocator
  bus, bus_out,        \* accesses to check and their answers
  issued       \* number of requests and of accesses issued

chunkVars == <<bitmap, table, alloc, busy, ctrl, ctrl_ret, answer, bus, bus_out, issued>>

None == [op |-> "NONE", idx |-> 0, pid |-> 0, rw |-> FALSE]
Entry(valid, pid, rw) == [valid |-> valid, pid |-> pid, rw |-> rw]

InitChunks ==
  /\ bitmap = {} /\ table = [i \in Chunks |-> Entry(FALSE, 0, FALSE)]
  /\ alloc = << >> /\ busy = None /\ ctrl = << >> /\ ctrl_ret = << >> /\ answer = << >>
  /\ bus = << >> /\ bus_out = << >> /\ issued = [alloc |-> 0, bus |-> 0]

\* A user may free any chunk, its own or not.
Request ==
  /\ issued.alloc < MaxRequests
  /\ \E op \in {"ALLOC", "FREE"}, i \in Chunks, p \in Pids, w \in BOOLEAN :
       /\ op = "ALLOC" => i = 0
       /\ op = "FREE" => ~w
       /\ alloc' = Append(alloc, [op |-> op, idx |-> i, pid |-> p, rw |-> w])
  /\ issued' = [issued EXCEPT !.alloc = @ + 1]
  /\ UNCHANGED <<bitmap, table, busy, ctrl, ctrl_ret, answer, bus, bus_out>>

Access ==
  /\ issued.bus < MaxAccesses
  /\ \E i \in Chunks : bus' = Append(bus, i)
  /\ issued' = [issued EXCEPT !.bus = @ + 1]
  /\ UNCHANGED <<bitmap, table, alloc, busy, ctrl, ctrl_ret, answer, bus_out>>

-----------------------------------------------------------------------------
\* Seeded fault: a chunk is marked as taken only when the unit has accepted it.
MarkLater(i) == UNCHANGED bitmap

MarkTaken(i) == bitmap' = bitmap \cup {i}

\* malloc: the first free chunk is marked and the unit is asked to enter it.
Malloc(r) ==
  /\ r.op = "ALLOC"
  /\ IF Chunks \ bitmap = {}
     THEN answer' = Append(answer, FALSE) /\ UNCHANGED <<bitmap, ctrl, busy>>
     ELSE LET i == CHOOSE c \in Chunks \ bitmap : \A d \in Chunks \ bitmap : c <= d IN
          /\ MarkTaken(i)
          /\ busy' = [r EXCEPT !.idx = i]
          /\ ctrl' = Append(ctrl, [r EXCEPT !.idx = i])
          /\ UNCHANGED answer

\* Seeded fault: a request that cannot be served is not answered.
RefuseSilently == UNCHANGED answer

Refuse == answer' = Append(answer, FALSE)

Mfree(r) ==
  /\ r.op = "FREE"
  /\ IF r.idx \in bitmap
     THEN ctrl' = Append(ctrl, r) /\ busy' = r /\ UNCHANGED <<bitmap, answer>>
     ELSE Refuse /\ UNCHANGED <<bitmap, ctrl, busy>>

\* handler: takes the next request; it then waits for the unit.
Handler ==
  /\ busy = None /\ alloc # << >>
  /\ alloc' = Tail(alloc)
  /\ Malloc(Head(alloc)) \/ Mfree(Head(alloc))
  /\ UNCHANGED <<table, ctrl_ret, bus, bus_out, issued>>

\* The unit has answered. A chunk it refuses to enter stays marked.
HandlerReturn ==
  /\ busy # None /\ ctrl_ret # << >>
  /\ ctrl_ret' = Tail(ctrl_ret) /\ busy' = None
  /\ answer' = Append(answer, Head(ctrl_ret))
  /\ bitmap' = IF busy.op = "FREE" /\ Head(ctrl_ret) THEN bitmap \ {busy.idx} ELSE bitmap
  /\ UNCHANGED <<table, alloc, ctrl, bus, bus_out, issued>>

-----------------------------------------------------------------------------
del(c) == [table EXCEPT ![c.idx].valid = FALSE]

insert(c) == [table EXCEPT ![c.idx] = Entry(TRUE, c.pid, c.rw)]

\* sysmmu_ctrl_hanlder: nothing looks at the pid of the entry that is deleted.
CtrlHandler ==
  /\ ctrl # << >>
  /\ ctrl' = Tail(ctrl)
  /\ LET c  == Head(ctrl)
         ok == table[c.idx].valid <=> c.op = "FREE"
     IN  /\ table' = IF ~ok THEN table ELSE IF c.op = "ALLOC" THEN insert(c) ELSE del(c)
         /\ ctrl_ret' = Append(ctrl_ret, ok)
  /\ UNCHANGED <<bitmap, alloc, busy, answer, bus, bus_out, issued>>

\* sysmmu_data_hanlder: only when there is no control request.
DataHandler ==
  /\ ctrl = << >> /\ bus # << >>
  /\ bus' = Tail(bus) /\ bus_out' = Append(bus_out, [idx |-> Head(bus), drop |-> FALSE])
  /\ UNCHANGED <<bitmap, table, alloc, busy, ctrl, ctrl_ret, answer, issued>>

NextChunks == Request \/ Access \/ Handler \/ HandlerReturn \/ CtrlHandler \/ DataHandler
SpecChunks == InitChunks /\ [][NextChunks]_chunkVars
FairChunks == WF_chunkVars(Handler) /\ WF_chunkVars(HandlerReturn) /\ WF_chunkVars(CtrlHandler) /\ WF_chunkVars(DataHandler)

-----------------------------------------------------------------------------
\* The two tables agree but for the chunk of the request under way: the unit never refuses
\* what the allocator has found free, and never holds a chunk the allocator thinks is free.
ChunkTablesAgree ==
  LET Valid == { i \in Chunks : table[i].valid } IN
  /\ Valid \subseteq bitmap
  /\ bitmap \ Valid \subseteq (IF busy = None THEN {} ELSE {busy.idx})
  /\ \A i \in DOMAIN ctrl_ret : ctrl_ret[i]

\* Every request and every access is answered.
RequestsAnswered == []<>(Len(answer) = issued.alloc /\ Len(bus_out) = issued.bus)
=============================================================================
