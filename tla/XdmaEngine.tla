----------------------------- MODULE XdmaEngine -----------------------------
(***************************************************************************)
(* One SG DMA engine of the PCIe driver (host/pcie_xdma/xdma/libxdma.c)    *)
(* and the threads that submit requests to it. A request is split into     *)
(* transfers of at most MaxDesc descriptors; desc_lock lets one transfer   *)
(* use the engine's descriptors at a time, from transfer_init to           *)
(* transfer_destroy. The engine completes by an interrupt and its work     *)
(* item, or by a written-back count that the submitter polls. Critical     *)
(* sections of engine->lock are steps. The device (run bit, busy flag,     *)
(* completed_desc_count, fetching) is external, taken from how the driver  *)
(* uses its registers; setting the run bit restarts it and clears its      *)
(* count and its flags, and a memory-mapped engine that is stopped does    *)
(* not interrupt.                                                          *)
(***************************************************************************)
EXTENDS Integers, Sequences, Functions

CONSTANTS
  Threads,       \* callers of xdma_xfer_submit
  Sizes,         \* descriptors of a request
  MaxDesc,       \* XDMA_TRANSFER_MAX_DESC
  MaxRequests,   \* bound on the requests
  MaxFaults,     \* bound on device errors and failed allocations
  Word,          \* modulus of the descriptor counters, 2^32
  EngineModes    \* [poll : BOOLEAN, timeouts : BOOLEAN]

ASSUME EngineAssumption ==
  /\ MaxDesc \in Nat \ {0} /\ Sizes \subseteq Nat \ {0} /\ Word \in Nat /\ Word > MaxDesc
  /\ EngineModes \subseteq [poll : BOOLEAN, timeouts : BOOLEAN] /\ "nobody" \notin Threads

VARIABLES
  emode,      \* poll_mode; do waits expire and does the device go offline in this behaviour
  hw,         \* the device: run, busy, position, completed_desc_count, fetched descriptor, flags
  irqOn,      \* channel interrupt enabled
  work,       \* engine->work is scheduled
  wb,         \* the written-back count, and its error flag
  desc,       \* engine->desc
  status,     \* engine->status
  running, shutdown, dequeued,
  list,       \* transfer_list: numbers of transfers
  xfers,      \* all transfers so far
  reqs,       \* all requests so far
  th,         \* the threads
  descLock,
  flagged,    \* XDEV_FLAG_OFFLINE
  lost,       \* history: a transfer has been given up while the engine may still work on it
  faults,
  moved       \* history: the descriptors whose data the device has moved

evars == <<emode, hw, irqOn, work, wb, desc, status, running, shutdown, dequeued, list, xfers, reqs,
           th, descLock, flagged, lost, faults, moved>>

Nobody == "nobody"
Cleared == [of |-> <<0, 0>>, stop |-> FALSE]     \* no DESC_MAGIC

InitEngine ==
  /\ emode \in EngineModes
  /\ hw = [run |-> FALSE, busy |-> FALSE, pos |-> 1, count |-> 0, cur |-> Cleared, err |-> FALSE, irq |-> FALSE]
  /\ irqOn = TRUE /\ work = FALSE /\ wb = [count |-> 0, err |-> FALSE]
  /\ desc = [i \in 1 .. MaxDesc |-> Cleared]
  /\ status = [busy |-> FALSE, err |-> FALSE]
  /\ running = FALSE /\ shutdown = {} /\ dequeued = 0 /\ list = << >> /\ xfers = << >>
  /\ reqs = << >> /\ th = [t \in Threads |-> [pc |-> "idle", req |-> 0, next |-> 0, x |-> 0, seen |-> [count |-> 0, err |-> FALSE]]]
  /\ descLock = Nobody /\ flagged = FALSE /\ lost = FALSE /\ faults = 0 /\ moved = {}

-----------------------------------------------------------------------------
(* The device.                                                             *)

Started(h) == [h EXCEPT !.run = TRUE, !.busy = TRUE, !.pos = 1, !.count = 0, !.cur = Cleared, !.err = FALSE, !.irq = FALSE]
xdma_engine_stop(h) == [h EXCEPT !.run = FALSE]

Failed(h) == [h EXCEPT !.busy = FALSE, !.cur = Cleared, !.err = TRUE, !.irq = TRUE]

\* A descriptor without its magic stops the device.
HwFetch ==
  /\ hw.busy /\ hw.cur = Cleared
  /\ hw' = CASE ~ hw.run -> [hw EXCEPT !.busy = FALSE]
             [] hw.run /\ (hw.pos > MaxDesc \/ desc[hw.pos] = Cleared) -> Failed(hw)
             [] OTHER -> [hw EXCEPT !.cur = desc[hw.pos], !.pos = @ + 1]
  /\ wb' = IF emode.poll /\ hw'.err THEN [wb EXCEPT !.err = TRUE] ELSE wb
  /\ UNCHANGED <<moved, faults>>

HwExec ==
  /\ hw.busy /\ hw.cur # Cleared
  /\ moved' = moved \cup {hw.cur.of}
  /\ hw' = [hw EXCEPT !.count = @ + 1, !.cur = Cleared, !.busy = hw.run /\ ~ hw.cur.stop, !.irq = @ \/ hw.cur.stop]
  /\ wb' = IF emode.poll /\ hw.cur.stop THEN [wb EXCEPT !.count = hw.count + 1] ELSE wb
  /\ UNCHANGED faults

HwFail ==
  /\ hw.busy /\ hw.cur # Cleared /\ faults < MaxFaults
  /\ faults' = faults + 1
  /\ hw' = Failed(hw)
  /\ wb' = IF emode.poll THEN [wb EXCEPT !.err = TRUE] ELSE wb
  /\ UNCHANGED moved

Device ==
  /\ HwFetch \/ HwExec \/ HwFail
  /\ UNCHANGED <<emode, irqOn, work, desc, status, running, shutdown, dequeued, list, xfers, reqs, th, descLock, flagged, lost>>

-----------------------------------------------------------------------------
(* engine_service.                                                         *)

\* Descriptors of the first k transfers of the list.
Total(k) == FoldFunctionOnSet(+, 0, [i \in 1 .. Len(list) |-> xfers[list[i]].num], 1 .. k)

\* engine_service_transfer_list: all transfers that d descriptors cover, except for the last.
Passed(d) ==
  CHOOSE k \in 0 .. Len(list) :
    /\ k = Len(list) \/ d - Total(k) <= xfers[list[k + 1]].num
    /\ \A j \in 0 .. k - 1 : d - Total(j) > xfers[list[j + 1]].num

\* Seeded fault: engine_start leaves the count of the last run.
KeepDequeued == dequeued

\* engine_start: "initialize number of descriptors of dequeued transfers".
DequeuedAtStart == 0

\* engine_service_final_transfer and engine_err_handle.
Outcome(st, k, rest, i) ==
  CASE i <= k -> "COMPLETED"
    [] i = k + 1 -> IF st.err \/ rest < xfers[list[i]].num THEN "FAILED" ELSE "COMPLETED"

\* engine_service(engine, desc_writeback), with the count c and the error flag e.
ServiceRunning(c, e) ==
  LET read == c = 0 \/ e
      st   == IF read THEN [busy |-> hw.busy, err |-> hw.err] ELSE status
      stop == ~ st.busy \/ c # 0
      d    == ((IF c # 0 THEN c ELSE hw.count) - dequeued) % Word
      k    == Passed(d)
      gone == IF k < Len(list) THEN k + 1 ELSE k
      left == SubSeq(list, gone + 1, Len(list))
      h1   == IF read THEN [hw EXCEPT !.irq = FALSE, !.err = FALSE] ELSE hw
      h2   == IF stop \/ (st.err /\ k < Len(list)) THEN xdma_engine_stop(h1) ELSE h1
      again == stop /\ left # << >>       \* engine_service_resume
  IN /\ list' = left
     /\ xfers' = [x \in DOMAIN xfers |->
                   IF \E i \in 1 .. gone : list[i] = x
                   THEN [xfers[x] EXCEPT !.state = Outcome(st, k, d - Total(k), CHOOSE i \in 1 .. gone : list[i] = x)]
                   ELSE xfers[x]]
     /\ running' = (~ stop \/ again)
     /\ dequeued' = IF again THEN DequeuedAtStart ELSE dequeued + Total(gone)
     /\ hw' = IF again THEN Started(h2) ELSE h2
     /\ status' = IF again THEN [busy |-> TRUE, err |-> FALSE] ELSE st
     /\ shutdown' = CASE again -> {}
                      [] ~ again /\ stop /\ "REQUEST" \in shutdown -> shutdown \cup {"IDLE"}
                      [] OTHER -> shutdown
     /\ wb' = IF emode.poll THEN [count |-> 0, err |-> FALSE] ELSE wb
     /\ lost' = (lost \/ (~ stop /\ list # << >>))

engine_service(c, e) ==
  \/ running /\ ServiceRunning(c, e)
  \/ /\ ~ running
     /\ hw' = [hw EXCEPT !.irq = FALSE, !.err = FALSE]
     /\ status' = [busy |-> hw.busy, err |-> hw.err]
     /\ UNCHANGED <<list, xfers, running, dequeued, shutdown, wb, lost>>

\* xdma_channel_irq, or xdma_isr: mask the interrupt and schedule the work.
xdma_channel_irq ==
  /\ ~ emode.poll /\ hw.irq /\ irqOn
  /\ irqOn' = FALSE /\ work' = TRUE
  /\ UNCHANGED <<emode, hw, wb, desc, status, running, shutdown, dequeued, list, xfers, reqs, th, descLock, flagged, lost, faults, moved>>

\* Seeded fault: the interrupt stays masked.
StaysMasked == work /\ engine_service(0, FALSE) /\ work' = FALSE /\ UNCHANGED irqOn

ServiceAndUnmask == work /\ engine_service(0, FALSE) /\ work' = FALSE /\ irqOn' = TRUE

engine_service_work ==
  /\ ServiceAndUnmask
  /\ UNCHANGED <<emode, desc, reqs, th, descLock, flagged, faults, moved>>

-----------------------------------------------------------------------------
(* xdma_xfer_submit.                                                       *)

\* pci_unmap_sg when sgt->nents is not 0; held is that test, maps the mappings that exist.
Unmap(q) == IF q.held THEN [q EXCEPT !.maps = @ - 1, !.held = FALSE] ELSE q

\* transfer_destroy, the part about the buffer.
Destroyed(q, x) == IF xfers[x].last THEN Unmap(q) ELSE q

\* unmap_sgl and the return value.
Return(q, rv) == [Unmap(q) EXCEPT !.rv = rv]

\* Up to the loop: the device must be online, and xdma_init_request finds memory or not.
Submit(t) ==
  /\ th[t].pc = "idle" /\ Len(reqs) < MaxRequests
  /\ \E n \in Sizes :
       LET q == [n |-> n, rv |-> "pending", held |-> TRUE, maps |-> 1] IN
       \/ /\ flagged
          /\ reqs' = Append(reqs, [q EXCEPT !.rv = "EBUSY", !.held = FALSE, !.maps = 0])
          /\ UNCHANGED <<th, faults>>
       \/ /\ ~ flagged /\ faults < MaxFaults
          /\ faults' = faults + 1
          /\ reqs' = Append(reqs, Return(q, "ENOMEM"))
          /\ UNCHANGED th
       \/ /\ ~ flagged
          /\ reqs' = Append(reqs, q)
          /\ th' = [th EXCEPT ![t] = [@ EXCEPT !.pc = "lock", !.req = Len(reqs'), !.next = 0]]
          /\ UNCHANGED faults
  /\ UNCHANGED <<emode, hw, irqOn, work, wb, desc, status, running, shutdown, dequeued, list, xfers, descLock, flagged, lost, moved>>

Smaller(a, b) == IF a < b THEN a ELSE b

\* transfer_init, transfer_desc_init and transfer_build, with desc_lock taken.
transfer_init(t) ==
  /\ th[t].pc = "lock" /\ descLock = Nobody
  /\ descLock' = t
  /\ LET r == th[t].req
         n == Smaller(reqs[r].n - th[t].next, MaxDesc)
     IN /\ desc' = [i \in 1 .. MaxDesc |-> IF i <= n THEN [of |-> <<r, th[t].next + i>>, stop |-> i = n] ELSE desc[i]]
        /\ xfers' = Append(xfers, [req |-> r, num |-> n, last |-> th[t].next + n = reqs[r].n, state |-> "NEW"])
        /\ th' = [th EXCEPT ![t] = [@ EXCEPT !.pc = "queue", !.next = th[t].next + n, !.x = Len(xfers')]]
  /\ UNCHANGED <<emode, hw, irqOn, work, wb, status, running, shutdown, dequeued, list, reqs, flagged, lost, faults, moved>>

\* transfer_queue, and engine_start when the engine is idle.
transfer_queue(t) ==
  /\ th[t].pc = "queue"
  /\ \/ /\ flagged \/ "REQUEST" \in shutdown
        /\ reqs' = [reqs EXCEPT ![th[t].req] = Return(@, "EBUSY")]
        /\ th' = [th EXCEPT ![t].pc = "idle"] /\ descLock' = Nobody
        /\ UNCHANGED <<hw, status, running, shutdown, dequeued, list, xfers>>
     \/ /\ ~ flagged /\ "REQUEST" \notin shutdown
        /\ xfers' = [xfers EXCEPT ![th[t].x].state = "SUBMITTED"]
        /\ list' = Append(list, th[t].x)
        /\ th' = [th EXCEPT ![t].pc = "wait"]
        /\ running' = TRUE
        /\ IF running THEN UNCHANGED <<hw, status, shutdown, dequeued>>
           ELSE hw' = Started(hw) /\ status' = [busy |-> TRUE, err |-> FALSE] /\ shutdown' = {} /\ dequeued' = DequeuedAtStart
        /\ UNCHANGED <<reqs, descLock>>
  /\ UNCHANGED <<emode, irqOn, work, wb, desc, flagged, lost, faults, moved>>

\* wait_event_interruptible_timeout expires, or a signal ends it.
WaitExpires(t) ==
  /\ th[t].pc = "wait" /\ ~ emode.poll /\ emode.timeouts
  /\ xfers[th[t].x].state = "SUBMITTED"
  /\ th' = [th EXCEPT ![t].pc = "check"]
  /\ UNCHANGED <<emode, hw, irqOn, work, wb, desc, status, running, shutdown, dequeued, list, xfers, reqs, descLock, flagged, lost, faults, moved>>

\* engine_service_wb_monitor: the expected count, an error, or the time is up.
Monitor(t) ==
  /\ th[t].pc = "wait" /\ emode.poll
  /\ LET n == xfers[th[t].x].num IN
     /\ wb.err \/ wb.count = n \/ emode.timeouts
     /\ th' = [th EXCEPT ![t] = [@ EXCEPT !.pc = "service",
                  !.seen = IF ~ wb.err /\ wb.count > n THEN [count |-> n, err |-> TRUE] ELSE wb]]
  /\ UNCHANGED <<emode, hw, irqOn, work, wb, desc, status, running, shutdown, dequeued, list, xfers, reqs, descLock, flagged, lost, faults, moved>>

engine_service_poll(t) ==
  /\ th[t].pc = "service"
  /\ engine_service(th[t].seen.count, th[t].seen.err)
  /\ th' = [th EXCEPT ![t].pc = "check"]
  /\ UNCHANGED <<emode, irqOn, work, desc, reqs, descLock, flagged, faults, moved>>

\* Seeded fault: the aborted transfer stays in the list.
AbortKeepsEntry(x) == list

\* transfer_abort: only the head of the list is taken out.
transfer_abort(x) == IF list # << >> /\ Head(list) = x THEN Tail(list) ELSE list

\* The switch on xfer->state, transfer_destroy, and the end of the request.
Finish(t) ==
  LET x == th[t].x
      r == th[t].req
      s == xfers[x].state
  IN /\ \/ th[t].pc = "check"
        \/ th[t].pc = "wait" /\ ~ emode.poll /\ s # "SUBMITTED"
     /\ \/ /\ s = "COMPLETED"
           /\ IF xfers[x].last
              THEN reqs' = [reqs EXCEPT ![r] = Return(Destroyed(@, x), "ok")] /\ th' = [th EXCEPT ![t].pc = "idle"]
              ELSE reqs' = [reqs EXCEPT ![r] = Destroyed(@, x)] /\ th' = [th EXCEPT ![t].pc = "lock"]
           /\ UNCHANGED <<hw, list, xfers, status, lost>>
        \/ /\ s = "FAILED"
           /\ reqs' = [reqs EXCEPT ![r] = Return(Destroyed(@, x), "EIO")] /\ th' = [th EXCEPT ![t].pc = "idle"]
           /\ UNCHANGED <<hw, list, xfers, status, lost>>
        \/ /\ s = "SUBMITTED"
           /\ status' = [busy |-> hw.busy, err |-> hw.err]
           /\ list' = transfer_abort(x)
           /\ xfers' = [xfers EXCEPT ![x].state = "ABORTED"]
           /\ hw' = xdma_engine_stop(hw)
           /\ reqs' = [reqs EXCEPT ![r] = Return(Destroyed(@, x), "ERESTARTSYS")] /\ th' = [th EXCEPT ![t].pc = "idle"]
           /\ lost' = TRUE
     /\ desc' = [i \in 1 .. MaxDesc |-> Cleared]
     /\ descLock' = Nobody
     /\ UNCHANGED <<emode, irqOn, work, wb, running, shutdown, dequeued, flagged, faults, moved>>

-----------------------------------------------------------------------------
(* xdma_device_offline and xdma_device_online, for one engine.             *)

OfflineFlag ==
  /\ emode.timeouts /\ ~ flagged
  /\ flagged' = TRUE
  /\ UNCHANGED <<emode, hw, irqOn, work, wb, desc, status, running, shutdown, dequeued, list, xfers, reqs, th, descLock, lost, faults, moved>>

OfflineEngine ==
  /\ flagged /\ "REQUEST" \notin shutdown
  /\ shutdown' = shutdown \cup {"REQUEST"}
  /\ hw' = xdma_engine_stop(hw) /\ running' = FALSE /\ irqOn' = FALSE
  /\ UNCHANGED <<emode, work, wb, desc, status, dequeued, list, xfers, reqs, th, descLock, flagged, lost, faults, moved>>

OnlineEngine ==
  /\ flagged /\ "REQUEST" \in shutdown
  /\ shutdown' = shutdown \ {"REQUEST"}
  /\ irqOn' = ~ emode.poll /\ flagged' = FALSE
  /\ UNCHANGED <<emode, hw, work, wb, desc, status, running, dequeued, list, xfers, reqs, th, descLock, lost, faults, moved>>

ThreadStep(t) ==
  \/ transfer_init(t) \/ transfer_queue(t) \/ WaitExpires(t) \/ Monitor(t) \/ engine_service_poll(t) \/ Finish(t)

NextEngine ==
  \/ Device \/ xdma_channel_irq \/ engine_service_work
  \/ \E t \in Threads : Submit(t) \/ ThreadStep(t)
  \/ OfflineFlag \/ OfflineEngine \/ OnlineEngine

SpecEngine == InitEngine /\ [][NextEngine]_evars

\* The device makes progress, the kernel runs its work items, and the threads run.
FairEngine ==
  /\ WF_evars(Device) /\ WF_evars(xdma_channel_irq) /\ WF_evars(engine_service_work)
  /\ \A t \in Threads : WF_evars(ThreadStep(t))

-----------------------------------------------------------------------------
(* Properties.                                                             *)

Moved(r) == \A i \in 1 .. reqs[r].n : <<r, i>> \in moved

\* xdma_xfer_submit reports success only when the device has moved the data of all the request's
\* descriptors, as long as no transfer was given up while the engine could still be busy with it.
ReportsTrue == ~ lost => \A r \in DOMAIN reqs : reqs[r].rv = "ok" => Moved(r)

\* The same without the exception: "A transfer that was chained too late will invoke a new run of
\* the engine initiated from the engine_service() routine" (libxdma.c:577-578).
ReportsAlwaysTrue == \A r \in DOMAIN reqs : reqs[r].rv = "ok" => Moved(r)

\* The list never holds a transfer whose request has been freed: every entry is the transfer of
\* the thread that holds desc_lock, which is still waiting for it.
NoDanglingTransfer ==
  \A i \in DOMAIN list : \E t \in Threads : descLock = t /\ th[t].x = list[i] /\ th[t].pc \in {"wait", "service", "check"}

\* The buffers of a request are unmapped exactly once on every way out, and until then stay mapped
\* while the device works on one of its descriptors.
BuffersUnmappedOnce ==
  /\ \A r \in DOMAIN reqs : reqs[r].maps = IF reqs[r].rv = "pending" /\ reqs[r].held THEN 1 ELSE 0
  /\ ~ lost /\ hw.cur # Cleared => reqs[hw.cur.of[1]].held

\* Both: nothing outlives a transfer that has ended, neither its entry in the engine's list nor
\* the mapping of its buffers (libxdma.c:2323-2346, 2760-2780, 2959-3140).
EngineClean == NoDanglingTransfer /\ BuffersUnmappedOnce

\* Every submitted request returns: by the interrupt or the written-back count when waits do not
\* expire, whatever the order of interrupts, work items and submitters.
SubmitsReturn == []<>(\A r \in DOMAIN reqs : reqs[r].rv # "pending")
=============================================================================
