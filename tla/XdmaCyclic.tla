----------------------------- MODULE XdmaCyclic -----------------------------
(***************************************************************************)
(* The cyclic receive ring of a streaming C2H engine (libxdma.c, with the  *)
(* open, read and close of cdev_sgdma.c): the device fills pages in a ring *)
(* and writes a result for each; engine_ring_process moves rx_tail over    *)
(* the results, a reader takes a packet from rx_head, copies its pages and *)
(* returns their credits. Without enable_credit_mp nothing holds the       *)
(* device back. The user's buffer holds a whole packet. The device is      *)
(* external; a stopped streaming engine interrupts once it is idle.        *)
(***************************************************************************)
EXTENDS Integers, Sequences, FiniteSets

CONSTANTS
  Pages,        \* CYCLIC_RX_PAGES_MAX
  Credits,      \* credits given at the start, 128
  Tries,        \* rounds of xdma_engine_read_cyclic, 11
  MaxProduced,  \* bound on the pages of a session
  MaxSessions,  \* bound on the sessions
  CyclicModes   \* [credit : BOOLEAN, poll : BOOLEAN, expires : BOOLEAN]

ASSUME CyclicAssumption ==
  /\ Pages \in Nat \ {0} /\ Credits \in 1 .. Pages - 1 /\ Tries \in Nat \ {0} /\ MaxProduced \in Nat
  /\ CyclicModes \subseteq [credit : BOOLEAN, poll : BOOLEAN, expires : BOOLEAN]

VARIABLES
  cmode,      \* enable_credit_mp, poll_mode, and do the waits expire
  chw,        \* the device: run, busy, next page, credits, pages written, interrupt
  result,     \* engine->cyclic_result: written or not, EOP
  page,       \* contents of the pages: the number of the piece
  ring,       \* rx_head, rx_tail, rx_overrun, eop_found
  cyc,        \* engine state: cyclic_req, running, transfer in the list, pages allocated, work
  rd,         \* the reader
  delivered,  \* pieces copied to the user in this session
  sessions,
  expired     \* history: a teardown went on although the engine was still running

cvars == <<cmode, chw, result, page, ring, cyc, rd, delivered, sessions, expired>>

NoResult == [full |-> FALSE, eop |-> FALSE]
Slot == 0 .. Pages - 1
Nxt(i) == (i + 1) % Pages
IdleReader == [pc |-> "closed", from |-> 0, num |-> 0, tries |-> 0]

InitCyclic ==
  /\ cmode \in CyclicModes
  /\ chw = [run |-> FALSE, busy |-> FALSE, pos |-> 0, credits |-> 0, made |-> 0, irq |-> FALSE]
  /\ result = [i \in Slot |-> NoResult] /\ page = [i \in Slot |-> 0]
  /\ ring = [head |-> 0, tail |-> 0, overrun |-> FALSE, eop |-> FALSE]
  /\ cyc = [req |-> FALSE, running |-> FALSE, listed |-> FALSE, pages |-> FALSE, work |-> FALSE, irqOn |-> TRUE]
  /\ rd = IdleReader /\ delivered = << >> /\ sessions = 0 /\ expired = FALSE

-----------------------------------------------------------------------------
(* The device.                                                             *)

HwReceive ==
  /\ chw.busy /\ chw.run /\ chw.made < MaxProduced
  /\ cmode.credit => chw.credits > 0
  /\ \E eop \in BOOLEAN :
       /\ chw.made + 1 = MaxProduced => eop
       /\ result' = [result EXCEPT ![chw.pos] = [full |-> TRUE, eop |-> eop]]
       /\ page' = [page EXCEPT ![chw.pos] = chw.made + 1]
       /\ chw' = [chw EXCEPT !.pos = Nxt(@), !.made = @ + 1, !.irq = TRUE,
                             !.credits = IF cmode.credit THEN @ - 1 ELSE @]

HwIdle ==
  /\ chw.busy /\ ~ chw.run
  /\ chw' = [chw EXCEPT !.busy = FALSE, !.irq = TRUE]
  /\ UNCHANGED <<result, page>>

Receiver ==
  /\ HwReceive \/ HwIdle
  /\ UNCHANGED <<cmode, ring, cyc, rd, delivered, sessions, expired>>

-----------------------------------------------------------------------------
(* engine_service_cyclic.                                                  *)

\* engine_ring_process: how far rx_tail moves, until a result is missing or the head is met.
Steps ==
  IF ring.overrun THEN 0
  ELSE CHOOSE k \in 0 .. Pages :
         /\ \A j \in 0 .. k - 1 : result[(ring.tail + j) % Pages].full
         /\ \A j \in 1 .. k - 1 : (ring.tail + j) % Pages # ring.head
         /\ \/ k > 0 /\ (ring.tail + k) % Pages = ring.head
            \/ ~ result[(ring.tail + k) % Pages].full
NewEops == { j \in 0 .. Steps - 1 : result[(ring.tail + j) % Pages].eop }
engine_ring_process ==
  [ring EXCEPT !.tail = (@ + Steps) % Pages,
               !.overrun = @ \/ (Steps > 0 /\ (ring.tail + Steps) % Pages = ring.head)]

\* engine_transfer_dequeue and engine_service_shutdown, once the device is idle.
Stopped(c) == IF c.running /\ ~ chw.busy THEN [c EXCEPT !.running = FALSE, !.listed = FALSE] ELSE c

cyclic_irq ==
  /\ ~ cmode.poll /\ chw.irq /\ cyc.irqOn
  /\ cyc' = [cyc EXCEPT !.irqOn = FALSE, !.work = TRUE]
  /\ UNCHANGED <<cmode, chw, result, page, ring, rd, delivered, sessions, expired>>

\* engine_service_work with engine_service_cyclic_interrupt, or engine_service of an engine that
\* is not running once cyclic_req is gone (a teardown that expired leaves a freed transfer behind,
\* of which nothing is claimed).
engine_service_cyclic_interrupt ==
  /\ cyc.work
  /\ cyc' = [(IF cyc.req THEN Stopped(cyc) ELSE cyc) EXCEPT !.work = FALSE, !.irqOn = TRUE]
  /\ chw' = [chw EXCEPT !.irq = FALSE]
  /\ ring' = IF ~ cyc.req THEN ring
             ELSE [engine_ring_process EXCEPT !.eop = @ \/ (~ cmode.credit /\ NewEops # {})]
  /\ UNCHANGED <<cmode, result, page, rd, delivered, sessions, expired>>

-----------------------------------------------------------------------------
(* The reader: char_sgdma_open, char_sgdma_read, char_sgdma_close.         *)

Open ==
  /\ rd.pc = "closed" /\ sessions < MaxSessions
  /\ rd' = [rd EXCEPT !.pc = "open"] /\ sessions' = sessions + 1
  /\ UNCHANGED <<cmode, chw, result, page, ring, cyc, delivered, expired>>

\* xdma_cyclic_transfer_setup starts at page 0.
FreshRing == [head |-> 0, tail |-> 0, overrun |-> FALSE, eop |-> FALSE]

\* xdma_cyclic_transfer_setup in the first read; transfer_queue starts an engine that is idle.
Read ==
  /\ rd.pc = "open"
  /\ rd' = [rd EXCEPT !.pc = "monitor", !.tries = 0]
  /\ IF cyc.req THEN UNCHANGED <<chw, result, ring, cyc, delivered>>
     ELSE /\ ring' = FreshRing /\ delivered' = << >>
          /\ result' = [i \in Slot |-> NoResult]
          /\ cyc' = [cyc EXCEPT !.req = TRUE, !.pages = TRUE, !.listed = TRUE, !.running = TRUE]
          /\ chw' = IF cyc.running THEN chw
                    ELSE [run |-> TRUE, busy |-> TRUE, pos |-> 0, made |-> 0, irq |-> FALSE,
                          credits |-> IF cmode.credit THEN Credits ELSE 0]
  /\ UNCHANGED <<cmode, page, sessions, expired>>

\* Out of memory in sgt_alloc_with_pages or xdma_init_request: everything is given back.
ReadFails == rd.pc = "open" /\ ~ cyc.req /\ ring' = FreshRing
             /\ UNCHANGED <<cmode, chw, result, page, cyc, rd, delivered, sessions, expired>>

\* transfer_monitor_cyclic: the wait of each mode, or its end after the timeout.
Monitored ==
  /\ rd.pc = "monitor" /\ ~ cmode.poll
  /\ \/ cmode.credit /\ (ring.head # ring.tail \/ ring.overrun)
     \/ ~ cmode.credit /\ ring.eop
     \/ cmode.expires
  /\ rd' = [rd EXCEPT !.pc = "complete"]
  /\ UNCHANGED <<cmode, chw, result, page, ring, cyc, delivered, sessions, expired>>

\* engine_service_cyclic_polled: round and round until there is a new EOP.
Polled ==
  /\ rd.pc = "monitor" /\ cmode.poll
  /\ Steps > 0
  /\ ring' = engine_ring_process
  /\ rd' = IF NewEops # {} THEN [rd EXCEPT !.pc = "complete"] ELSE rd
  /\ UNCHANGED <<cmode, chw, result, page, cyc, delivered, sessions, expired>>

\* complete_cyclic, under the lock: the results up to and with the first EOP, or a fault.
Available == IF ring.overrun THEN Pages ELSE (ring.tail - ring.head) % Pages
Taken ==
  CHOOSE k \in 0 .. Available :
    /\ \A j \in 0 .. k - 2 : result[(ring.head + j) % Pages].full /\ ~ result[(ring.head + j) % Pages].eop
    /\ \/ k > 0 /\ LET e == result[(ring.head + k - 1) % Pages] IN e.eop \/ ~ e.full
       \/ k = Available /\ ~ ring.overrun

\* Seeded fault: the results are not cleared.
NotCleared(n) == result

ClearedResults(n) == [i \in Slot |-> IF \E j \in 0 .. n - 1 : (ring.head + j) % Pages = i THEN NoResult ELSE result[i]]

\* With an overrun and no EOP in the whole ring the loop goes on into a cleared result: a fault.
complete_cyclic ==
  /\ rd.pc = "complete"
  /\ LET whole == ring.overrun /\ \A i \in Slot : result[i].full /\ ~ result[i].eop
         n     == IF whole THEN Pages + 1 ELSE Taken
         fault == whole \/ \E j \in 0 .. n - 1 : ~ result[(ring.head + j) % Pages].full
         eop   == ~ fault /\ \E j \in 0 .. n - 1 : result[(ring.head + j) % Pages].eop
     IN /\ result' = ClearedResults(n)
        /\ ring' = [ring EXCEPT !.head = (@ + n) % Pages, !.eop = @ \/ eop]
        /\ rd' = IF fault THEN [rd EXCEPT !.pc = "open"]
                 ELSE [rd EXCEPT !.pc = "copy", !.from = ring.head, !.num = n]
  /\ UNCHANGED <<cmode, chw, page, cyc, delivered, sessions, expired>>

\* num_credit: one for every valid result.
num_credit(n) == n

\* copy_cyclic_to_user, rx_overrun cleared without the lock, the credits, and the loop.
Copy ==
  /\ rd.pc = "copy"
  /\ delivered' = delivered \o [j \in 1 .. rd.num |-> page[(rd.from + j - 1) % Pages]]
  /\ chw' = IF rd.num > 0 /\ cmode.credit THEN [chw EXCEPT !.credits = @ + num_credit(rd.num)] ELSE chw
  /\ LET done == ring.eop \/ rd.tries + 1 >= Tries IN
     /\ rd' = [rd EXCEPT !.tries = @ + 1, !.pc = IF done THEN "open" ELSE "monitor"]
     /\ ring' = [ring EXCEPT !.overrun = FALSE, !.eop = @ /\ ~ (done /\ cmode.credit)]
  /\ UNCHANGED <<cmode, result, page, cyc, sessions, expired>>

\* char_sgdma_close and xdma_cyclic_transfer_teardown: stop the engine, wait, free the pages.
Close ==
  /\ rd.pc = "open"
  /\ IF cyc.req
     THEN /\ rd' = [rd EXCEPT !.pc = "stopping"]
          /\ chw' = IF cyc.listed THEN [chw EXCEPT !.run = FALSE] ELSE chw
     ELSE rd' = IdleReader /\ UNCHANGED chw
  /\ UNCHANGED <<cmode, result, page, ring, cyc, delivered, sessions, expired>>

\* cyclic_shutdown_polled waits for the device, cyclic_shutdown_interrupt for engine->running.
ShutDown == IF cmode.poll THEN ~ chw.busy ELSE ~ cyc.running

\* The result of the wait is not looked at: the pages are freed after the timeout as well.
Teardown ==
  /\ rd.pc = "stopping"
  /\ ShutDown \/ (cmode.expires /\ ~ cmode.poll)
  /\ expired' = (expired \/ ~ ShutDown)
  /\ cyc' = [(IF cmode.poll THEN Stopped(cyc) ELSE cyc) EXCEPT !.req = FALSE, !.pages = FALSE]
  /\ rd' = IdleReader
  /\ UNCHANGED <<cmode, chw, result, page, ring, delivered, sessions>>

ReaderStep == Read \/ Monitored \/ Polled \/ complete_cyclic \/ Copy \/ Teardown

NextCyclic == Receiver \/ cyclic_irq \/ engine_service_cyclic_interrupt \/ Open \/ ReaderStep \/ ReadFails \/ Close

SpecCyclic == InitCyclic /\ [][NextCyclic]_cvars

FairCyclic ==
  /\ WF_cvars(Receiver) /\ WF_cvars(cyclic_irq) /\ WF_cvars(engine_service_cyclic_interrupt) /\ WF_cvars(ReaderStep)

-----------------------------------------------------------------------------
(* Properties.                                                             *)

\* With credits the user gets every piece of the stream once and in order, whatever the pace of
\* device, work item and reader, as long as every teardown found the engine stopped.
StreamInOrder == cmode.credit /\ ~ expired => \A i \in DOMAIN delivered : delivered[i] = i

\* The device only works while the pages of the ring are allocated and its transfer is listed,
\* unless a teardown has gone on without it.
RingAllocated == ~ expired /\ chw.busy => cyc.pages /\ cyc.listed

\* Both: a cyclic receive loses, repeats and reorders nothing while its ring exists, and the ring
\* outlives every access of the device to it (libxdma.c:998-1040, 3894-4410).
CyclicSound == StreamInOrder /\ RingAllocated

\* With credits and interrupts a session that is not closed receives the whole stream: the credits
\* come back, no wakeup is lost.
StreamArrives == [](rd.pc = "open" /\ cmode = [credit |-> TRUE, poll |-> FALSE, expires |-> FALSE]
                    => <>(Len(delivered) = MaxProduced \/ rd.pc \in {"closed", "stopping"}))
=============================================================================
