------------------------------ MODULE XdmaFiles ------------------------------
(***************************************************************************)
(* Processes that use the character devices of the PCIe driver: reads of   *)
(* the event devices against user_irq_service (cdev_events.c, libxdma.c),  *)
(* XVC ioctls that share one JTAG block (cdev_xvc.c), and reads and writes *)
(* that pin the pages of the caller (cdev_sgdma.c). A critical section of  *)
(* a spin lock is a step, except for the long one of xvc_ioctl. A signal   *)
(* may end a wait.                                                         *)
(***************************************************************************)
EXTENDS Integers, FiniteSets

CONSTANTS
  Procs,       \* processes
  Users,       \* numbers of the user interrupts: 0 .. user_max - 1
  H2CMax,      \* h2c_channel_max, the bound of the loop in xdma_isr
  ShiftWidth,  \* bits of one XVC shift, 32
  BitCounts,   \* lengths of XVC requests
  PageCounts,  \* pages of a user buffer
  Calls,       \* bound on the calls
  Vectored     \* {TRUE}: MSI-X, one handler per user interrupt; {FALSE}: xdma_isr

ASSUME FilesAssumption ==
  /\ ShiftWidth \in Nat \ {0} /\ BitCounts \subseteq Nat \ {0} /\ PageCounts \subseteq Nat \ {0}
  /\ Calls \in Nat /\ Vectored \subseteq BOOLEAN /\ "none" \notin Procs

\* -EFAULT as an unsigned number: more than a buffer has pages.
UnsignedError == 2147483634
ASSUME PagesAssumption == \A n \in PageCounts : n < UnsignedError

VARIABLES
  msix,
  proc,      \* the processes
  events,    \* events_irq of each user interrupt
  raised,    \* history: user interrupts raised and not yet reported to a reader
  xvcLock,   \* the owner of xcdev->lock
  lengthReg, \* XVC_BAR_LENGTH_REG
  exact,     \* history: every shift so far moved the bits its word has
  unlocked,  \* history: the lock was released by a process that did not hold it
  pinned,    \* pages held by each process
  arrays,    \* page arrays that are allocated
  leaked,    \* history: get_user_pages_fast has failed
  calls

fvars == <<msix, proc, events, raised, xvcLock, lengthReg, exact, unlocked, pinned, arrays, leaked, calls>>
xvcvars == <<xvcLock, lengthReg, exact, unlocked>>
pagevars == <<pinned, arrays, leaked>>
eventvars == <<events, raised>>

NoOwner == "none"
Idle == [pc |-> "idle", user |-> 0, total |-> 0, bits |-> 0]

InitFiles ==
  /\ msix \in Vectored /\ proc = [p \in Procs |-> Idle]
  /\ events = [u \in Users |-> 0] /\ raised = {}
  /\ xvcLock = NoOwner /\ lengthReg = 0 /\ exact = TRUE /\ unlocked = FALSE
  /\ pinned = [p \in Procs |-> 0] /\ arrays = {} /\ leaked = FALSE /\ calls = 0

To(p, pc) == proc' = [proc EXCEPT ![p].pc = pc]
Call(p) == proc[p].pc = "idle" /\ calls < Calls /\ calls' = calls + 1
Going(p, pc) == proc[p].pc = pc /\ UNCHANGED calls

-----------------------------------------------------------------------------
(* Events.                                                                 *)

\* Seeded fault: the sleepers are not woken.
NotWoken(u) == proc

\* wake_up_interruptible: those who sleep look at the condition again.
Woken(u) == [p \in Procs |-> IF proc[p].pc = "asleep" /\ proc[p].user = u THEN [proc[p] EXCEPT !.pc = "check"] ELSE proc[p]]

\* xdma_user_irq, or the loop of xdma_isr, which ends at h2c_channel_max instead of user_max.
Served(u) == msix \/ u < H2CMax

\* A user interrupt and user_irq_service without a registered handler.
user_irq_service(u) ==
  /\ calls < Calls /\ calls' = calls + 1
  /\ raised' = raised \cup {u}
  /\ IF Served(u) /\ events[u] = 0
     THEN events' = [events EXCEPT ![u] = 1] /\ proc' = Woken(u)
     ELSE UNCHANGED <<events, proc>>
  /\ UNCHANGED <<msix, xvcvars, pagevars>>

char_events_read(p) ==
  /\ Call(p)
  /\ \E u \in Users : proc' = [proc EXCEPT ![p] = [@ EXCEPT !.pc = "check", !.user = u]]
  /\ UNCHANGED <<msix, eventvars, xvcvars, pagevars>>

\* wait_event_interruptible: the condition, or sleep; a signal ends the sleep.
wait_event(p) ==
  /\ \/ Going(p, "check") /\ To(p, IF events[proc[p].user] = 0 THEN "asleep" ELSE "take")
     \/ Going(p, "asleep") /\ proc' = [proc EXCEPT ![p] = Idle]
  /\ UNCHANGED <<msix, eventvars, xvcvars, pagevars>>

\* Under events_lock; another reader may have been faster, then 0 is returned.
take_events(p) ==
  /\ Going(p, "take")
  /\ LET u == proc[p].user IN
     /\ raised' = IF events[u] = 1 THEN raised \ {u} ELSE raised
     /\ events' = [events EXCEPT ![u] = 0]
  /\ proc' = [proc EXCEPT ![p] = Idle]
  /\ UNCHANGED <<msix, xvcvars, pagevars>>

-----------------------------------------------------------------------------
(* XVC.                                                                    *)

Unlocked(p) == xvcLock' = NoOwner /\ unlocked' = (unlocked \/ xvcLock # p)

\* The buffers; when one of these steps fails the way out unlocks what is not locked.
xvc_ioctl(p) ==
  /\ Call(p)
  /\ \/ /\ \E n \in BitCounts : proc' = [proc EXCEPT ![p] = [@ EXCEPT !.pc = "xvc", !.total = n, !.bits = 0]]
        /\ UNCHANGED <<xvcLock, unlocked>>
     \/ Unlocked(p) /\ UNCHANGED proc
  /\ UNCHANGED <<msix, eventvars, lengthReg, exact, pagevars>>

Excluded == xvcLock = NoOwner

xvc_lock(p) ==
  /\ Going(p, "xvc") /\ Excluded
  /\ xvcLock' = p
  /\ lengthReg' = IF proc[p].total >= ShiftWidth THEN ShiftWidth ELSE lengthReg
  /\ To(p, "length")
  /\ UNCHANGED <<msix, eventvars, exact, unlocked, pagevars>>

BitsLeft(p) == proc[p].total - proc[p].bits

xvc_length(p) ==
  /\ Going(p, "length")
  /\ lengthReg' = IF BitsLeft(p) < ShiftWidth THEN BitsLeft(p) ELSE lengthReg
  /\ To(p, "shift")
  /\ UNCHANGED <<msix, eventvars, xvcLock, exact, unlocked, pagevars>>

\* xvc_shift_bits: the block shifts as many bits as its length register says, or a timeout.
xvc_shift_bits(p) ==
  /\ Going(p, "shift")
  /\ \/ /\ exact' = (exact /\ lengthReg = (IF BitsLeft(p) < ShiftWidth THEN BitsLeft(p) ELSE ShiftWidth))
        /\ proc' = [proc EXCEPT ![p] = [@ EXCEPT !.bits = proc[p].bits + ShiftWidth, !.pc = IF BitsLeft(p) <= ShiftWidth THEN "xvc_done" ELSE "length"]]
     \/ To(p, "xvc_done") /\ UNCHANGED exact
  /\ UNCHANGED <<msix, eventvars, xvcLock, lengthReg, unlocked, pagevars>>

xvc_cleanup(p) ==
  /\ Going(p, "xvc_done")
  /\ Unlocked(p)
  /\ proc' = [proc EXCEPT ![p] = Idle]
  /\ UNCHANGED <<msix, eventvars, lengthReg, exact, pagevars>>

-----------------------------------------------------------------------------
(* Pages of the caller.                                                    *)

\* char_sgdma_unmap_user_buf: nr is pages_nr; page by page up to it or to the first empty entry.
char_sgdma_unmap_user_buf(p, nr) ==
  IF nr = 0 THEN UNCHANGED <<pinned, arrays>>
  ELSE pinned' = [pinned EXCEPT ![p] = IF nr < @ THEN @ - nr ELSE 0] /\ arrays' = arrays \ {p}

\* char_sgdma_map_user_buf_to_sgl: k of n pages could be pinned. pages_nr is an error number when they
\* are fewer, and still 0 when there was none.
char_sgdma_map_user_buf_to_sgl(p) ==
  /\ Call(p)
  /\ \E n \in PageCounts : \E k \in 0 .. n :
       /\ pinned' = [pinned EXCEPT ![p] = k] /\ arrays' = arrays \cup {p}
       /\ proc' = [proc EXCEPT ![p] = [@ EXCEPT !.pc = IF k = n THEN "submit" ELSE "partial",
                                               !.total = IF k = n THEN n ELSE IF k > 0 THEN UnsignedError ELSE 0]]
  /\ UNCHANGED <<msix, eventvars, xvcvars, leaked>>

\* xdma_xfer_submit is in XdmaEngine; then, or after an error, the pages go back. An array whose
\* pages_nr is 0 is not freed.
unmap(p) ==
  /\ UNCHANGED calls /\ proc[p].pc \in {"submit", "partial"}
  /\ char_sgdma_unmap_user_buf(p, proc[p].total) /\ leaked' = (leaked \/ proc[p].total = 0)
  /\ proc' = [proc EXCEPT ![p] = Idle]
  /\ UNCHANGED <<msix, eventvars, xvcvars>>

NextFiles ==
  \/ \E u \in Users : user_irq_service(u)
  \/ \E p \in Procs :
       \/ char_events_read(p) \/ wait_event(p) \/ take_events(p)
       \/ xvc_ioctl(p) \/ xvc_lock(p) \/ xvc_length(p) \/ xvc_shift_bits(p) \/ xvc_cleanup(p)
       \/ char_sgdma_map_user_buf_to_sgl(p) \/ unmap(p)

SpecFiles == InitFiles /\ [][NextFiles]_fvars

-----------------------------------------------------------------------------
(* Properties.                                                             *)

\* A user interrupt that has a handler is not lost: until a reader reports it it is in events_irq,
\* and no process sleeps on it, however many readers there are.
EventsReachReaders ==
  \A u \in raised : Served(u) => events[u] = 1 /\ \A p \in Procs : ~ (proc[p].pc = "asleep" /\ proc[p].user = u)

\* Every shift of every XVC request moves exactly the bits of its word, with several processes at
\* the block, until an ioctl that failed early has released the lock of another.
ShiftsExact == ~ unlocked => exact

\* A process that has returned from read or write has no page pinned, and its page array is freed
\* unless get_user_pages_fast failed.
PagesReturned ==
  \A p \in Procs : proc[p].pc = "idle" => pinned[p] = 0 /\ (p \in arrays => leaked)

\* All three: readers of the event devices see every event, bits shifted by two processes do not
\* mix, and the pages of a user's buffer are all given back (cdev_events.c, cdev_xvc.c,
\* cdev_sgdma.c).
FilesSound == EventsReachReaders /\ ShiftsExact /\ PagesReturned
=============================================================================
