----------------------------- MODULE XdmaProofs -----------------------------
(***************************************************************************)
(* Proofs about the PCIe driver, for any number of processes, threads,     *)
(* descriptors, pages and channels: the processes at the character         *)
(* devices, the cyclic receive ring, the engine and the device.            *)
(***************************************************************************)
EXTENDS XdmaEngine, XdmaCyclic, XdmaDevice, XdmaFiles, DivisionLemmas, FiniteSetTheorems, TLAPS

-----------------------------------------------------------------------------
(* XdmaFiles.                                                              *)

AtXvc == {"length", "shift", "xvc_done"}
AtPages == {"submit", "partial"}
FileStates == {"idle", "check", "asleep", "take", "xvc"} \cup AtXvc \cup AtPages

ProcRecords == [pc : FileStates, user : Users \cup {0}, total : Nat, bits : Nat]

FilesTypeOK ==
  /\ msix \in BOOLEAN
  /\ proc \in [Procs -> ProcRecords]
  /\ events \in [Users -> {0, 1}] /\ raised \subseteq Users
  /\ xvcLock \in Procs \cup {NoOwner} /\ lengthReg \in Nat /\ exact \in BOOLEAN /\ unlocked \in BOOLEAN
  /\ pinned \in [Procs -> Nat] /\ arrays \subseteq Procs /\ leaked \in BOOLEAN

\* An interrupt in events_irq has woken its readers, and those that check or sleep wait for a
\* user interrupt that exists.
EventsInv ==
  /\ \A u \in raised : Served(u) => events[u] = 1
  /\ \A p \in Procs : proc[p].pc = "asleep" => events[proc[p].user] = 0
  /\ \A p \in Procs : proc[p].pc \in {"check", "asleep", "take"} => proc[p].user \in Users

\* The length register is that of the process at the block, which is the one that has the lock.
XvcInv ==
  /\ \A p \in Procs : /\ proc[p].pc = "xvc" => proc[p].bits = 0 /\ proc[p].total > 0
                      /\ proc[p].pc \in {"length", "shift"} => proc[p].bits < proc[p].total
  /\ ~ unlocked =>
       /\ exact
       /\ \A p \in Procs : proc[p].pc \in AtXvc <=> xvcLock = p
       /\ \A p \in Procs : /\ proc[p].pc = "length" /\ BitsLeft(p) >= ShiftWidth => lengthReg = ShiftWidth
                           /\ proc[p].pc = "shift" => lengthReg = Smaller(BitsLeft(p), ShiftWidth)

\* Only the process in the middle of a read or a write has pages, and pages_nr covers them.
PagesInv ==
  \A p \in Procs : /\ proc[p].pc \notin AtPages => pinned[p] = 0
                   /\ proc[p].pc \in AtPages => pinned[p] <= proc[p].total
                   /\ proc[p].pc \notin AtPages => (p \in arrays => leaked)

FilesInv == FilesTypeOK /\ EventsInv /\ XvcInv /\ PagesInv

LEMMA FilesInit ==
  ASSUME InitFiles
  PROVE  FilesInv
  <1>1. FilesTypeOK
    BY FilesAssumption DEF InitFiles, FilesTypeOK, ProcRecords, Idle, FileStates
  <1>2. EventsInv
    BY DEF InitFiles, EventsInv, Idle
  <1>3. XvcInv
    BY FilesAssumption DEF InitFiles, XvcInv, Idle, AtXvc, NoOwner
  <1>4. PagesInv
    BY DEF InitFiles, PagesInv, Idle
  <1> QED
    BY <1>1, <1>2, <1>3, <1>4 DEF FilesInv

LEMMA EventsRaised ==
  ASSUME FilesInv, NEW u \in Users, user_irq_service(u)
  PROVE  FilesInv'
  <1> USE DEF FilesInv, user_irq_service
  <1>1. FilesTypeOK'
    BY DEF FilesTypeOK, ProcRecords, Woken, FileStates, xvcvars, pagevars
  <1>2. \A p \in Procs : /\ proc'[p].user = proc[p].user /\ proc'[p].total = proc[p].total /\ proc'[p].bits = proc[p].bits
                         /\ proc'[p].pc = proc[p].pc \/ (proc[p].pc = "asleep" /\ proc'[p].pc = "check")
    BY DEF FilesTypeOK, ProcRecords, Woken
  <1>3. EventsInv'
    BY DEF FilesTypeOK, ProcRecords, EventsInv, Woken, Served
  <1>4. XvcInv'
    BY <1>2 DEF XvcInv, xvcvars, AtXvc, BitsLeft
  <1>5. PagesInv'
    BY <1>2 DEF PagesInv, pagevars, AtPages
  <1> QED
    BY <1>1, <1>3, <1>4, <1>5

\* One process changes its record.
LEMMA ProcSet ==
  ASSUME FilesTypeOK, NEW p \in Procs, NEW s \in ProcRecords, proc' = [proc EXCEPT ![p] = s]
  PROVE  proc' \in [Procs -> ProcRecords] /\ proc'[p] = s /\ \A q \in Procs : q # p => proc'[q] = proc[q]
  BY DEF FilesTypeOK

LEMMA ReadStep ==
  ASSUME FilesInv, NEW p \in Procs, char_events_read(p)
  PROVE  FilesInv'
  <1>0. PICK u \in Users : proc' = [proc EXCEPT ![p] = [@ EXCEPT !.pc = "check", !.user = u]]
    BY DEF char_events_read
  <1> DEFINE r == proc[p]
             s == [r EXCEPT !.pc = "check", !.user = u]
  <1> USE FilesAssumption DEF FilesInv, char_events_read, Call, eventvars, xvcvars, pagevars
  <1>1. r \in ProcRecords
    BY DEF FilesTypeOK
  <1>2. proc' = [proc EXCEPT ![p] = s]
    BY <1>0 DEF FilesTypeOK
  <1> HIDE DEF r
  <1>3. s \in ProcRecords /\ s.pc = "check" /\ s.user = u
    BY <1>0, <1>1 DEF ProcRecords, FileStates, AtXvc, AtPages
  <1> HIDE DEF s
  <1>4. proc' \in [Procs -> ProcRecords] /\ proc'[p] = s /\ \A q \in Procs : q # p => proc'[q] = proc[q]
    BY <1>2, <1>3, ProcSet
  <1>5. FilesTypeOK'
    BY <1>0, <1>3, <1>4 DEF FilesTypeOK, NoOwner
  <1>6. EventsInv'
    BY <1>3, <1>4 DEF EventsInv, Served
  <1>7. XvcInv'
    BY <1>3, <1>4 DEF XvcInv, AtXvc, BitsLeft
  <1>8. PagesInv'
    BY <1>3, <1>4 DEF PagesInv, AtPages
  <1> QED
    BY <1>5, <1>6, <1>7, <1>8

LEMMA WaitStep ==
  ASSUME FilesInv, NEW p \in Procs, wait_event(p)
  PROVE  FilesInv'
  <1> USE FilesAssumption DEF FilesInv, FilesTypeOK, ProcRecords, wait_event, Going, To, Idle,
                              eventvars, xvcvars, pagevars
  <1>1. FilesTypeOK'
    BY DEF FileStates, AtXvc, AtPages, NoOwner, BitsLeft, EventsInv
  <1>2. EventsInv'
    BY DEF EventsInv, Served
  <1>3. XvcInv'
    BY DEF XvcInv, AtXvc, BitsLeft, NoOwner, Smaller
  <1>4. PagesInv'
    BY DEF PagesInv, AtPages
  <1> QED
    BY <1>1, <1>2, <1>3, <1>4

LEMMA TakeStep ==
  ASSUME FilesInv, NEW p \in Procs, take_events(p)
  PROVE  FilesInv'
  <1> USE FilesAssumption DEF FilesInv, FilesTypeOK, ProcRecords, take_events, Going, Idle,
                              eventvars, xvcvars, pagevars
  <1>1. FilesTypeOK'
    BY DEF FileStates, AtXvc, AtPages, NoOwner, BitsLeft, EventsInv
  <1>2. EventsInv'
    BY DEF EventsInv, Served
  <1>3. XvcInv'
    BY DEF XvcInv, AtXvc, BitsLeft, NoOwner, Smaller
  <1>4. PagesInv'
    BY DEF PagesInv, AtPages
  <1> QED
    BY <1>1, <1>2, <1>3, <1>4

LEMMA XvcIoctlStep ==
  ASSUME FilesInv, NEW p \in Procs, xvc_ioctl(p)
  PROVE  FilesInv'
  <1> DEFINE r == proc[p]
  <1> USE FilesAssumption DEF FilesInv, xvc_ioctl, Call, eventvars, pagevars
  <1>0. r \in ProcRecords /\ r.pc = "idle"
    BY DEF FilesTypeOK
  <1>1. CASE Unlocked(p) /\ UNCHANGED proc
    <2> USE DEF Unlocked
    <2>1. FilesTypeOK'
      BY <1>1 DEF FilesTypeOK
    <2>2. EventsInv' /\ PagesInv'
      BY <1>1 DEF EventsInv, PagesInv, Served
    <2>3. ~ unlocked => xvcLock # p
      BY <1>0 DEF XvcInv, AtXvc
    <2>4. unlocked' = TRUE
      BY <1>1, <2>3 DEF FilesTypeOK
    <2>5. XvcInv'
      BY <1>1, <2>4 DEF XvcInv
    <2> QED
      BY <2>1, <2>2, <2>5
  <1>2. CASE ~ (Unlocked(p) /\ UNCHANGED proc)
    <2>1. PICK n \in BitCounts : proc' = [proc EXCEPT ![p] = [@ EXCEPT !.pc = "xvc", !.total = n, !.bits = 0]]
      BY <1>2
    <2> DEFINE s == [r EXCEPT !.pc = "xvc", !.total = n, !.bits = 0]
    <2>2. proc' = [proc EXCEPT ![p] = s]
      BY <2>1 DEF FilesTypeOK
    <2>3. UNCHANGED <<xvcLock, unlocked>>
      BY <1>2
    <2> HIDE DEF r
    <2>n. n \in Nat /\ n > 0
      <3>1. BitCounts \subseteq Nat \ {0} /\ n \in BitCounts
        BY FilesAssumption
      <3> HIDE FilesAssumption DEF FilesInv, xvc_ioctl
      <3> QED
        BY <3>1
    <2>4. s \in ProcRecords /\ s.pc = "xvc" /\ s.total > 0 /\ s.bits = 0
      BY <1>0, <2>n DEF ProcRecords, FileStates
    <2> HIDE DEF s
    <2>5. proc' \in [Procs -> ProcRecords] /\ proc'[p] = s /\ \A q \in Procs : q # p => proc'[q] = proc[q]
      BY <2>2, <2>4, ProcSet
    <2>6. FilesTypeOK'
      BY <2>3, <2>5 DEF FilesTypeOK
    <2>7. EventsInv'
      BY <2>4, <2>5 DEF EventsInv, Served
    <2>8. XvcInv'
      BY ZenonT(30), <1>0, <2>3, <2>4, <2>5 DEF XvcInv, AtXvc, BitsLeft, r
    <2>9. PagesInv'
      BY <1>0, <2>4, <2>5 DEF PagesInv, AtPages, r
    <2> QED
      BY <2>6, <2>7, <2>8, <2>9
  <1> QED
    BY <1>1, <1>2

LEMMA XvcLockStep ==
  ASSUME FilesInv, NEW p \in Procs, xvc_lock(p)
  PROVE  FilesInv'
  <1> USE FilesAssumption DEF FilesInv, FilesTypeOK, ProcRecords, xvc_lock, Going, To, Excluded,
                              eventvars, xvcvars, pagevars
  <1>1. FilesTypeOK'
    BY DEF FileStates, AtXvc, AtPages, NoOwner, BitsLeft, EventsInv
  <1>2. EventsInv'
    BY DEF EventsInv, Served
  <1>3. XvcInv'
    BY DEF XvcInv, AtXvc, BitsLeft, NoOwner, Smaller
  <1>4. PagesInv'
    BY DEF PagesInv, AtPages
  <1> QED
    BY <1>1, <1>2, <1>3, <1>4

LEMMA XvcLengthStep ==
  ASSUME FilesInv, NEW p \in Procs, xvc_length(p)
  PROVE  FilesInv'
  <1> USE FilesAssumption DEF FilesInv, FilesTypeOK, ProcRecords, xvc_length, Going, To,
                              eventvars, xvcvars, pagevars
  <1>0. BitsLeft(p) \in Nat
    BY DEF XvcInv, BitsLeft
  <1>1. FilesTypeOK'
    BY <1>0 DEF FileStates, AtXvc
  <1>2. EventsInv'
    BY DEF EventsInv, Served
  <1>3. XvcInv'
    BY DEF XvcInv, AtXvc, BitsLeft, NoOwner, Smaller
  <1>4. PagesInv'
    BY DEF PagesInv, AtPages
  <1> QED
    BY <1>1, <1>2, <1>3, <1>4

LEMMA XvcShiftStep ==
  ASSUME FilesInv, NEW p \in Procs, xvc_shift_bits(p)
  PROVE  FilesInv'
  <1> DEFINE r == proc[p]
             after == IF BitsLeft(p) <= ShiftWidth THEN "xvc_done" ELSE "length"
             moving == [r EXCEPT !.bits = r.bits + ShiftWidth, !.pc = after]
             timeout == [r EXCEPT !.pc = "xvc_done"]
             shifted == proc' = [proc EXCEPT ![p] = moving]
                        /\ exact' = (exact /\ lengthReg = (IF BitsLeft(p) < ShiftWidth THEN BitsLeft(p) ELSE ShiftWidth))
             expires == proc' = [proc EXCEPT ![p] = timeout] /\ UNCHANGED exact
  <1> USE FilesAssumption DEF FilesInv
  <1>1. r \in ProcRecords /\ r.pc = "shift" /\ BitsLeft(p) = r.total - r.bits
    BY DEF FilesTypeOK, xvc_shift_bits, Going, BitsLeft
  <1>2. UNCHANGED <<msix, events, raised, xvcLock, lengthReg, unlocked, pinned, arrays, leaked>>
    BY DEF xvc_shift_bits, eventvars, pagevars
  <1>3. shifted \/ expires
    <2>1. [proc EXCEPT ![p].pc = "xvc_done"] = [proc EXCEPT ![p] = timeout]
      OBVIOUS
    <2> QED
      BY <2>1 DEF xvc_shift_bits, To
  <1>4. ~ unlocked => lengthReg = Smaller(BitsLeft(p), ShiftWidth)
    BY <1>1 DEF XvcInv
  <1> HIDE DEF r
  <1>a. r.bits + ShiftWidth \in Nat /\ after \in {"xvc_done", "length"}
    BY <1>1 DEF ProcRecords
  <1> HIDE DEF after
  <1>5. /\ moving \in ProcRecords /\ moving.total = r.total /\ moving.bits = r.bits + ShiftWidth
        /\ moving.pc = after
        /\ timeout \in ProcRecords /\ timeout.pc = "xvc_done"
    BY <1>1, <1>a DEF ProcRecords, FileStates, AtXvc
  <1> HIDE DEF moving, timeout
  <1>6. ASSUME NEW s \in ProcRecords, proc' = [proc EXCEPT ![p] = s], s.pc \in {"length", "xvc_done"},
               exact' \in BOOLEAN, ~ unlocked => exact',
               s.pc = "length" => s.total - s.bits = BitsLeft(p) - ShiftWidth /\ BitsLeft(p) > ShiftWidth
        PROVE  FilesInv'
    <2>1. proc' \in [Procs -> ProcRecords] /\ proc'[p] = s /\ \A q \in Procs : q # p => proc'[q] = proc[q]
      BY <1>6, ProcSet
    <2>2. FilesTypeOK'
      BY <1>2, <1>6, <2>1 DEF FilesTypeOK
    <2>3. EventsInv' /\ PagesInv'
      BY <1>1, <1>2, <1>6, <2>1 DEF EventsInv, PagesInv, AtPages, Served, r
    <2>4. s.total \in Nat /\ s.bits \in Nat
      BY DEF ProcRecords
    <2>5. ~ unlocked => \A q \in Procs : proc'[q].pc \in AtXvc <=> xvcLock = q
      BY <1>1, <1>6, <2>1 DEF XvcInv, AtXvc, r
    <2>6. s.pc = "length" => s.bits < s.total /\ (~ unlocked => lengthReg = ShiftWidth)
      BY <1>1, <1>4, <1>6, <2>4 DEF Smaller, ProcRecords
    <2>7. \A q \in Procs : q # p => BitsLeft(q)' = BitsLeft(q)
      BY <2>1 DEF BitsLeft
    <2>8. XvcInv'
      BY <1>2, <1>6, <2>1, <2>5, <2>6, <2>7 DEF XvcInv
    <2> QED
      BY <2>2, <2>3, <2>8
  <1>7. CASE expires
    BY <1>5, <1>6, <1>7 DEF FilesTypeOK, XvcInv
  <1>8. CASE shifted
    <2> USE DEF after
    <2>1. ~ unlocked => exact'
      BY <1>4, <1>8 DEF Smaller, XvcInv
    <2>2. moving.total - moving.bits = BitsLeft(p) - ShiftWidth
      BY <1>1, <1>5 DEF ProcRecords
    <2>3. moving.pc = "length" => BitsLeft(p) > ShiftWidth
      BY <1>1, <1>5 DEF ProcRecords
    <2>4. exact' \in BOOLEAN
      BY <1>8 DEF FilesTypeOK
    <2> QED
      BY <1>5, <1>6, <1>8, <2>1, <2>2, <2>3, <2>4
  <1> QED
    BY <1>3, <1>7, <1>8

LEMMA XvcCleanupStep ==
  ASSUME FilesInv, NEW p \in Procs, xvc_cleanup(p)
  PROVE  FilesInv'
  <1> USE FilesAssumption DEF FilesInv, FilesTypeOK, ProcRecords, xvc_cleanup, Going, Idle, Unlocked,
                              eventvars, xvcvars, pagevars
  <1>1. FilesTypeOK'
    BY DEF FileStates, AtXvc, AtPages, NoOwner, BitsLeft, EventsInv
  <1>2. EventsInv'
    BY DEF EventsInv, Served
  <1>3. XvcInv'
    BY DEF XvcInv, AtXvc, BitsLeft, NoOwner, Smaller
  <1>4. PagesInv'
    BY DEF PagesInv, AtPages
  <1> QED
    BY <1>1, <1>2, <1>3, <1>4

LEMMA MapStep ==
  ASSUME FilesInv, NEW p \in Procs, char_sgdma_map_user_buf_to_sgl(p)
  PROVE  FilesInv'
  <1> USE FilesAssumption DEF FilesInv
  <1> DEFINE r == proc[p]
             Ends(n, k) == IF k = n THEN "submit" ELSE "partial"
             Nr(n, k) == IF k = n THEN n ELSE IF k > 0 THEN UnsignedError ELSE 0
  <1>1. r \in ProcRecords /\ r.pc = "idle"
    BY DEF FilesTypeOK, char_sgdma_map_user_buf_to_sgl, Call
  <1>2. UNCHANGED <<msix, events, raised, xvcLock, lengthReg, exact, unlocked, leaked>>
    BY DEF char_sgdma_map_user_buf_to_sgl, eventvars, xvcvars
  <1>3. PICK n \in PageCounts : \E k \in 0 .. n :
          /\ pinned' = [pinned EXCEPT ![p] = k] /\ arrays' = arrays \cup {p}
          /\ proc' = [proc EXCEPT ![p] = [r EXCEPT !.pc = Ends(n, k), !.total = Nr(n, k)]]
    BY DEF char_sgdma_map_user_buf_to_sgl, FilesTypeOK
  <1>4. PICK k \in 0 .. n : /\ pinned' = [pinned EXCEPT ![p] = k] /\ arrays' = arrays \cup {p}
                            /\ proc' = [proc EXCEPT ![p] = [r EXCEPT !.pc = Ends(n, k), !.total = Nr(n, k)]]
    BY <1>3
  <1>5. Ends(n, k) \in AtPages /\ k \in Nat /\ Nr(n, k) \in Nat /\ k <= Nr(n, k)
    <2>1. n \in Nat \ {0} /\ n < 2147483634 /\ k \in 0 .. n
      BY PagesAssumption DEF UnsignedError
    <2> QED
      BY <2>1 DEF AtPages, UnsignedError
  <1> HIDE DEF Ends, Nr
  <1> DEFINE s == [r EXCEPT !.pc = Ends(n, k), !.total = Nr(n, k)]
  <1>6. proc' = [proc EXCEPT ![p] = s]
    BY <1>4
  <1> HIDE DEF r
  <1>7. s \in ProcRecords /\ s.pc = Ends(n, k) /\ s.total = Nr(n, k)
    BY <1>1, <1>5 DEF ProcRecords, FileStates
  <1> HIDE DEF s
  <1>8. proc' \in [Procs -> ProcRecords] /\ proc'[p] = s /\ \A q \in Procs : q # p => proc'[q] = proc[q]
    BY <1>6, <1>7, ProcSet
  <1>9. FilesTypeOK'
    BY <1>2, <1>4, <1>5, <1>8 DEF FilesTypeOK
  <1>10. EventsInv'
    BY <1>2, <1>5, <1>7, <1>8 DEF EventsInv, Served, AtPages
  <1>11. XvcInv'
    BY <1>1, <1>2, <1>5, <1>7, <1>8 DEF XvcInv, AtXvc, AtPages, BitsLeft, r
  <1>12. PagesInv'
    <2>1. pinned'[p] = k /\ \A q \in Procs : q # p => pinned'[q] = pinned[q]
      BY <1>4 DEF FilesTypeOK
    <2> QED
      BY <1>2, <1>4, <1>5, <1>7, <1>8, <2>1 DEF PagesInv
  <1> QED
    BY <1>9, <1>10, <1>11, <1>12

LEMMA UnmapStep ==
  ASSUME FilesInv, NEW p \in Procs, unmap(p)
  PROVE  FilesInv'
  <1> USE FilesAssumption DEF FilesInv, FilesTypeOK, ProcRecords, unmap, char_sgdma_unmap_user_buf, Idle,
                              eventvars, xvcvars, pagevars
  <1>0. Idle \in ProcRecords
    BY DEF FileStates
  <1>a. proc' \in [Procs -> ProcRecords]
    BY <1>0, ProcSet
  <1>1. FilesTypeOK'
    BY <1>a
  <1>2. EventsInv'
    BY DEF EventsInv, Served
  <1>3. XvcInv'
    BY DEF XvcInv, AtXvc, BitsLeft, NoOwner, Smaller
  <1>4. PagesInv'
    <2>1. pinned[p] \in Nat /\ proc[p].total \in Nat /\ pinned[p] <= proc[p].total
      BY DEF PagesInv, AtPages
    <2>2. pinned'[p] = 0 /\ \A q \in Procs : q # p => pinned'[q] = pinned[q]
      BY <2>1
    <2>3. leaked' = (leaked \/ proc[p].total = 0) /\ (p \in arrays' => proc[p].total = 0) /\ arrays' \subseteq arrays
      OBVIOUS
    <2>4. proc'[p].pc = "idle" /\ \A q \in Procs : q # p => proc'[q] = proc[q]
      OBVIOUS
    <2> QED
      BY <2>2, <2>3, <2>4 DEF PagesInv, AtPages
  <1> QED
    BY <1>1, <1>2, <1>3, <1>4

\* A process at the character devices, for any number of processes, user interrupts and calls:
\* no event is lost while a reader sleeps on it, no XVC shift has the length of another's request,
\* and no page stays pinned after read or write returned (cdev_events.c, cdev_xvc.c, cdev_sgdma.c).
THEOREM FilesAreSound == SpecFiles => []FilesSound
  <1>1. InitFiles => FilesInv
    BY FilesInit
  <1>2. FilesInv /\ [NextFiles]_fvars => FilesInv'
    <2>1. ASSUME FilesInv, UNCHANGED fvars PROVE FilesInv'
      BY <2>1 DEF FilesInv, FilesTypeOK, EventsInv, XvcInv, PagesInv, Served, BitsLeft, fvars
    <2> QED
      BY <2>1, EventsRaised, ReadStep, WaitStep, TakeStep, XvcIoctlStep, XvcLockStep, XvcLengthStep, XvcShiftStep,
         XvcCleanupStep, MapStep, UnmapStep DEF NextFiles
  <1>3. FilesInv => FilesSound
    BY DEF FilesInv, FilesSound, EventsInv, XvcInv, PagesInv, EventsReachReaders, ShiftsExact, PagesReturned, AtPages
  <1> QED
    BY <1>1, <1>2, <1>3, PTL DEF SpecFiles

-----------------------------------------------------------------------------
(* XdmaCyclic.                                                             *)

ReaderStates == {"closed", "open", "monitor", "complete", "copy", "stopping"}

Modes == [credit : BOOLEAN, poll : BOOLEAN, expires : BOOLEAN]
Receivers == [run : BOOLEAN, busy : BOOLEAN, pos : Slot, credits : Int, made : Nat, irq : BOOLEAN]
Results == [full : BOOLEAN, eop : BOOLEAN]
Rings == [head : Slot, tail : Slot, overrun : BOOLEAN, eop : BOOLEAN]
Sessions == [req : BOOLEAN, running : BOOLEAN, listed : BOOLEAN, pages : BOOLEAN, work : BOOLEAN, irqOn : BOOLEAN]
Readers == [pc : ReaderStates, from : Slot, num : Nat, tries : Nat]

CyclicTypeOK ==
  /\ cmode \in Modes /\ chw \in Receivers /\ result \in [Slot -> Results] /\ page \in [Slot -> Nat]
  /\ ring \in Rings /\ cyc \in Sessions /\ rd \in Readers /\ delivered \in Seq(Nat) /\ expired \in BOOLEAN

\* The engine runs as long as the device works, and only during a session.
SessionInv ==
  /\ cyc.pages <=> cyc.req
  /\ rd.pc \notin {"closed", "open"} => cyc.req
  /\ ~ expired => /\ chw.busy => cyc.running
                  /\ cyc.running <=> cyc.listed
                  /\ cyc.running => cyc.req

\* With credits: d pieces are copied, h taken from the ring, q more are known to the driver, out of
\* m that the device has written; none of those not yet copied is overwritten.
Window(d, h, q, m) ==
  /\ d <= h /\ h + q <= m /\ m - d <= Credits
  /\ chw.made = m /\ chw.credits = Credits - (m - d)
  /\ ring.head = h % Pages /\ ring.tail = (h + q) % Pages /\ chw.pos = m % Pages /\ ~ ring.overrun
  /\ \A j \in d .. m - 1 : page[j % Pages] = j + 1
  /\ \A j \in h .. m - 1 : result[j % Pages].full
  /\ \A i \in Slot : result[i].full => \E j \in h .. m - 1 : i = j % Pages

Reading(d, h) == IF rd.pc = "copy" THEN rd.from = d % Pages /\ h = d + rd.num ELSE h = d

StreamInv ==
  cmode.credit /\ ~ expired =>
    /\ \A i \in DOMAIN delivered : delivered[i] = i
    /\ cyc.req => \E h \in 0 .. chw.made : \E q \in 0 .. chw.made :
                    Window(Len(delivered), h, q, chw.made) /\ Reading(Len(delivered), h)

CyclicInv == CyclicTypeOK /\ SessionInv /\ StreamInv

LEMMA SlotMod ==
  ASSUME NEW n \in Int
  PROVE  n % Pages \in Slot
  BY CyclicAssumption, ModRange DEF Slot

\* From any slot every other one is met within a round.
LEMMA SlotMet ==
  ASSUME NEW a \in Slot, NEW b \in Slot
  PROVE  /\ \E k \in 0 .. Pages - 1 : (a + k) % Pages = b
         /\ \E k \in 1 .. Pages : (a + k) % Pages = b
  <1> DEFINE k == (b - a) % Pages
  <1>1. Pages \in Nat \ {0} /\ a \in Int /\ b \in Int /\ b \in 0 .. Pages - 1 /\ b - a \in Int /\ k \in 0 .. Pages - 1
    BY CyclicAssumption, SlotMod DEF Slot
  <1>2. (k + a) % Pages = ((b - a) + a) % Pages
    BY <1>1, ModAdd
  <1>3. b % Pages = b /\ (b - a) + a = b
    BY <1>1, ModSmall
  <1> HIDE DEF k
  <1>4. (a + k) % Pages = b
    BY <1>1, <1>2, <1>3
  <1>5. k = 0 => (a + Pages) % Pages = b
    <2>0. 1 \in Int
      OBVIOUS
    <2>1. (a + (Pages * 1)) % Pages = a % Pages
      BY <1>1, <2>0, ModShift, Zenon
    <2>2. Pages * 1 = Pages
      BY <1>1
    <2> QED
      BY <1>1, <1>4, <2>1, <2>2
  <1> QED
    BY <1>1, <1>4, <1>5

\* How far engine_ring_process moves the tail.
Passes(k) ==
  /\ \A j \in 0 .. k - 1 : result[(ring.tail + j) % Pages].full
  /\ \A j \in 1 .. k - 1 : (ring.tail + j) % Pages # ring.head
  /\ \/ k > 0 /\ (ring.tail + k) % Pages = ring.head
     \/ ~ result[(ring.tail + k) % Pages].full

LEMMA StepsDefined ==
  ASSUME CyclicTypeOK
  PROVE  Steps \in 0 .. Pages /\ (~ ring.overrun => Passes(Steps))
  <1> DEFINE Ends(k) == (k > 0 /\ (ring.tail + k) % Pages = ring.head) \/ ~ result[(ring.tail + k) % Pages].full
             E == { k \in 0 .. Pages : Ends(k) }
  <1>1. Pages \in Nat \ {0} /\ ring.tail \in Slot /\ ring.head \in Slot
    BY CyclicAssumption DEF CyclicTypeOK, Rings, Results
  <1>2. E # {} /\ E \subseteq Nat
    <2>1. PICK k \in 1 .. Pages : (ring.tail + k) % Pages = ring.head
      BY <1>1, SlotMet
    <2> QED
      BY <1>1, <2>1
  <1>3. PICK k \in E : \A m \in E : k <= m
    BY <1>2, LeastElement
  <1>4. \A j \in 0 .. k - 1 : ~ Ends(j)
    BY <1>1, <1>3
  <1>5. k \in 0 .. Pages /\ Ends(k)
    BY <1>3
  <1>6. k \in 0 .. Pages /\ Passes(k)
    BY <1>1, <1>4, <1>5 DEF Passes
  <1>7. ~ ring.overrun => Steps = CHOOSE n \in 0 .. Pages : Passes(n)
    BY DEF Steps, Passes
  <1>8. ring.overrun => Steps = 0
    BY DEF Steps
  <1>9. ~ ring.overrun => Steps \in 0 .. Pages /\ Passes(Steps)
    BY <1>6, <1>7
  <1> QED
    BY <1>1, <1>8, <1>9 DEF CyclicTypeOK, Rings, Results

\* What complete_cyclic takes, and the case of a ring without an end of packet.
Whole == ring.overrun /\ \A i \in Slot : result[i].full /\ ~ result[i].eop
At(j) == result[(ring.head + j) % Pages]
Takes(k) ==
  /\ \A j \in 0 .. k - 2 : At(j).full /\ ~ At(j).eop
  /\ \/ k > 0 /\ (At(k - 1).eop \/ ~ At(k - 1).full)
     \/ k = Available /\ ~ ring.overrun

LEMMA TakenDefined ==
  ASSUME CyclicTypeOK, ~ Whole
  PROVE  Available \in 0 .. Pages /\ Taken \in 0 .. Available /\ Takes(Taken)
  <1> DEFINE E == { k \in 0 .. Available - 1 : At(k).eop \/ ~ At(k).full }
  <1>1. Pages \in Nat \ {0} /\ ring.tail \in Slot /\ ring.head \in Slot /\ ring.overrun \in BOOLEAN
    BY CyclicAssumption DEF CyclicTypeOK, Rings, Results
  <1>2. Available \in 0 .. Pages
    <2>1. (ring.tail - ring.head) % Pages \in 0 .. Pages - 1
      BY <1>1, SlotMod DEF Slot
    <2> QED
      BY <1>1, <2>1 DEF Available
  <1>3. \A j \in 0 .. Pages : (ring.head + j) % Pages \in Slot
    BY <1>1, SlotMod DEF Slot
  <1>4. CASE E # {}
    <2>1. E \subseteq Nat
      BY <1>2
    <2>2. PICK k \in E : \A m \in E : k <= m
      BY <1>4, <2>1, LeastElement
    <2>3. k \in 0 .. Available - 1 /\ k + 1 \in 0 .. Available /\ (k + 1) - 1 = k /\ (k + 1) - 2 = k - 1
      BY <1>2, <2>2
    <2>4. \A j \in 0 .. k - 1 : At(j).full /\ ~ At(j).eop
      BY <1>2, <2>2, <2>3
    <2>5. Takes(k + 1)
      BY <2>2, <2>3, <2>4 DEF Takes
    <2> QED
      BY <2>3, <2>5, <1>2 DEF Taken, Takes, At
  <1>5. CASE E = {}
    <2>1. \A j \in 0 .. Available - 1 : At(j).full /\ ~ At(j).eop
      BY <1>5
    <2>2. ~ ring.overrun
      <3> SUFFICES ASSUME ring.overrun PROVE FALSE
        BY <1>1
      <3>1. Available = Pages
        BY DEF Available
      <3>2. ASSUME NEW i \in Slot PROVE result[i].full /\ ~ result[i].eop
        <4>1. PICK j \in 0 .. Pages - 1 : (ring.head + j) % Pages = i
          BY <1>1, SlotMet
        <4> QED
          BY <2>1, <3>1, <4>1 DEF At
      <3> QED
        BY <3>2 DEF Whole
    <2>3. Available \in 0 .. Available /\ Takes(Available)
      BY <1>2, <2>1, <2>2 DEF Takes
    <2> QED
      BY <1>2, <2>3 DEF Taken, Takes, At
  <1> QED
    BY <1>4, <1>5

-----------------------------------------------------------------------------
(* Windows of the stream.                                                  *)

\* The slots of pieces that are not yet copied are different.
LEMMA SlotsApart ==
  ASSUME NEW i \in Nat, NEW j \in Nat, i < j, j - i < Pages
  PROVE  i % Pages # j % Pages
  <1>1. Pages \in Nat \ {0} /\ i \in Int /\ j \in Int /\ i <= j /\ i # j
    BY CyclicAssumption
  <1> QED
    BY <1>1, ModInjective

\* With credits the tail stays behind the device and never meets the head.
LEMMA StepsInWindow ==
  ASSUME CyclicTypeOK, NEW d \in Nat, NEW h \in Nat, NEW q \in Nat, NEW m \in Nat, Window(d, h, q, m)
  PROVE  /\ h + q + Steps <= m /\ (ring.tail + Steps) % Pages = (h + (q + Steps)) % Pages
         /\ Steps > 0 => (ring.tail + Steps) % Pages # ring.head
  <1>1. Pages \in Nat \ {0} /\ Credits \in 1 .. Pages - 1 /\ Steps \in 0 .. Pages /\ Passes(Steps)
    BY CyclicAssumption, StepsDefined DEF Window
  <1>2. ASSUME NEW j \in Nat PROVE (ring.tail + j) % Pages = (h + q + j) % Pages
    <2> DEFINE n == h + q
    <2>1. n \in Int /\ j \in Int /\ ring.tail = n % Pages
      BY DEF Window
    <2> HIDE DEF n
    <2>2. ((n % Pages) + j) % Pages = (n + j) % Pages
      BY <1>1, <2>1, ModAdd
    <2> QED
      BY <2>1, <2>2 DEF n
  <1>3. h + q + Steps <= m
    <2> SUFFICES ASSUME h + q + Steps > m PROVE FALSE
      BY <1>1
    <2> DEFINE k == m - (h + q)
    <2>1. k \in 0 .. Steps - 1 /\ k \in Nat /\ h + q + k = m
      BY <1>1 DEF Window
    <2> HIDE DEF k
    <2>2. result[(ring.tail + k) % Pages].full /\ (ring.tail + k) % Pages = m % Pages /\ m % Pages \in Slot
      <3>1. (ring.tail + k) % Pages = m % Pages
        BY <1>2, <2>1
      <3>2. m % Pages \in Slot
        BY SlotMod
      <3> QED
        BY <1>1, <2>1, <3>1, <3>2 DEF Passes
    <2>3. PICK j \in h .. m - 1 : m % Pages = j % Pages
      BY <2>2 DEF Window
    <2>4. j \in Nat /\ j < m /\ m - j < Pages
      BY <1>1, <2>3 DEF Window
    <2> QED
      BY <2>3, <2>4, SlotsApart
  <1>4. Steps > 0 => (ring.tail + Steps) % Pages # ring.head
    <2> SUFFICES ASSUME Steps > 0 PROVE (h + q + Steps) % Pages # h % Pages
      BY <1>1, <1>2 DEF Window
    <2>1. h + q + Steps \in Nat /\ h < h + q + Steps /\ (h + q + Steps) - h < Pages
      BY <1>1, <1>3 DEF Window
    <2> QED
      BY <2>1, SlotsApart
  <1>5. (ring.tail + Steps) % Pages = (h + (q + Steps)) % Pages
    BY <1>1, <1>2
  <1> QED
    BY <1>3, <1>4, <1>5

\* What is pending is what the tail is ahead of the head.
LEMMA AvailableInWindow ==
  ASSUME CyclicTypeOK, NEW d \in Nat, NEW h \in Nat, NEW q \in Nat, NEW m \in Nat, Window(d, h, q, m)
  PROVE  Available = q
  <1>1. Pages \in Nat \ {0} /\ h <= h + q /\ (h + q) - h < Pages /\ (h + q) - h = q
    BY CyclicAssumption DEF Window
  <1>2. (((h + q) % Pages) - (h % Pages)) % Pages = q
    BY SMTT(30), <1>1, ModDistance
  <1> QED
    BY <1>2 DEF Available, Window

\* Steps that leave the window alone, or end the session.
LEMMA StreamFrame ==
  ASSUME StreamInv, cmode' = cmode, ~ expired' => ~ expired, delivered' = delivered,
         cyc'.req => /\ cyc.req /\ page' = page /\ result' = result
                     /\ chw'.made = chw.made /\ chw'.pos = chw.pos /\ chw'.credits = chw.credits
                     /\ ring'.head = ring.head /\ ring'.tail = ring.tail /\ ring'.overrun = ring.overrun
                     /\ rd'.pc = "copy" <=> rd.pc = "copy"
                     /\ rd'.from = rd.from /\ rd'.num = rd.num
  PROVE  StreamInv'
  BY DEF StreamInv, Window, Reading

LEMMA CyclicInit ==
  ASSUME InitCyclic
  PROVE  CyclicInv
  <1>1. Pages \in Nat \ {0} /\ 0 \in Slot /\ cmode \in Modes
    BY CyclicAssumption DEF Slot, Modes, InitCyclic
  <1>2. chw \in Receivers
    BY <1>1 DEF InitCyclic, Receivers
  <1>a. result \in [Slot -> Results] /\ page \in [Slot -> Nat] /\ delivered \in Seq(Nat) /\ expired \in BOOLEAN
    <2>1. NoResult \in Results
      BY DEF NoResult, Results
    <2>2. delivered \in Seq(Nat)
      BY DEF InitCyclic
    <2> QED
      BY <2>1, <2>2 DEF InitCyclic
  <1>b. ring \in Rings
    BY <1>1 DEF InitCyclic, Rings
  <1>3. cyc \in Sessions
    BY DEF InitCyclic, Sessions
  <1>4. rd \in Readers
    BY <1>1 DEF InitCyclic, Readers, ReaderStates, IdleReader
  <1>5. SessionInv
    BY DEF InitCyclic, SessionInv, IdleReader
  <1>6. StreamInv
    BY DEF InitCyclic, StreamInv
  <1> QED
    BY <1>1, <1>2, <1>3, <1>4, <1>5, <1>6, <1>a, <1>b DEF CyclicInv, CyclicTypeOK

LEMMA IdleStep ==
  ASSUME CyclicInv, HwIdle, UNCHANGED <<cmode, ring, cyc, rd, delivered, sessions, expired>>
  PROVE  CyclicInv'
  <1> USE DEF CyclicInv, HwIdle
  <1>1. chw' \in Receivers /\ chw'.made = chw.made /\ chw'.pos = chw.pos /\ chw'.credits = chw.credits
        /\ ~ chw'.busy
    BY DEF CyclicTypeOK, Receivers
  <1>2. CyclicTypeOK'
    BY <1>1 DEF CyclicTypeOK
  <1>3. SessionInv'
    BY <1>1 DEF CyclicTypeOK, SessionInv
  <1>4. StreamInv'
    BY <1>1, StreamFrame
  <1> QED
    BY <1>2, <1>3, <1>4

LEMMA IrqStep ==
  ASSUME CyclicInv, cyclic_irq
  PROVE  CyclicInv'
  <1> USE DEF CyclicInv, cyclic_irq
  <1>1. /\ cyc' \in Sessions /\ cyc'.req = cyc.req /\ cyc'.running = cyc.running
        /\ cyc'.listed = cyc.listed /\ cyc'.pages = cyc.pages
    BY DEF CyclicTypeOK, Sessions
  <1>2. CyclicTypeOK'
    BY <1>1 DEF CyclicTypeOK
  <1>3. SessionInv'
    BY <1>1 DEF SessionInv
  <1>4. StreamInv'
    BY <1>1, StreamFrame
  <1> QED
    BY <1>2, <1>3, <1>4

\* The reader opens, sees that the wait is over, fails to allocate, or closes.
LEMMA QuietStep ==
  ASSUME CyclicInv, Open \/ ReadFails \/ Monitored \/ Close \/ UNCHANGED cvars
  PROVE  CyclicInv'
  <1> USE DEF CyclicInv, Open, ReadFails, Monitored, Close, cvars
  <1>0. 0 \in Slot
    BY CyclicAssumption DEF Slot
  <1>1. /\ chw' \in Receivers /\ chw'.made = chw.made /\ chw'.pos = chw.pos /\ chw'.credits = chw.credits
        /\ chw'.busy = chw.busy
    BY DEF CyclicTypeOK, Receivers
  <1>2. rd' \in Readers
    BY <1>0 DEF CyclicTypeOK, Readers, ReaderStates, IdleReader
  <1>3. /\ rd'.pc \notin {"closed", "open"} => cyc.req
        /\ cyc.req => (rd'.pc = "copy" <=> rd.pc = "copy") /\ rd'.from = rd.from /\ rd'.num = rd.num
    BY DEF CyclicTypeOK, Readers, SessionInv, IdleReader
  <1>4. ring' \in Rings /\ (cyc.req => ring' = ring)
    <2>1. FreshRing \in Rings
      BY <1>0 DEF Rings, FreshRing
    <2>2. ring' = ring \/ (ring' = FreshRing /\ ~ cyc.req)
      OBVIOUS
    <2> QED
      BY <2>1, <2>2 DEF CyclicTypeOK
  <1>5. UNCHANGED <<cmode, result, page, cyc, delivered, expired>>
    OBVIOUS
  <1>6. CyclicTypeOK'
    BY <1>1, <1>2, <1>4, <1>5 DEF CyclicTypeOK
  <1>7. SessionInv'
    BY <1>1, <1>3, <1>5 DEF SessionInv
  <1>8. StreamInv'
    BY <1>1, <1>3, <1>4, <1>5, StreamFrame
  <1> QED
    BY <1>6, <1>7, <1>8

LEMMA TeardownStep ==
  ASSUME CyclicInv, Teardown
  PROVE  CyclicInv'
  <1> USE DEF CyclicInv, Teardown
  <1>0. 0 \in Slot
    BY CyclicAssumption DEF Slot
  <1>1. /\ cyc' \in Sessions /\ ~ cyc'.req /\ ~ cyc'.pages
        /\ (cyc'.running = cyc.running /\ cyc'.listed = cyc.listed) \/ (~ cyc'.running /\ ~ cyc'.listed)
        /\ cmode.poll /\ ~ chw.busy => ~ cyc'.running \/ ~ cyc.running
        /\ ~ cmode.poll => cyc'.running = cyc.running
    BY DEF CyclicTypeOK, Sessions, Stopped
  <1>2. rd' \in Readers /\ rd'.pc = "closed"
    BY <1>0 DEF Readers, ReaderStates, IdleReader
  <1>3. expired' \in BOOLEAN /\ (~ expired' => ~ expired /\ ShutDown)
    BY DEF CyclicTypeOK
  <1>4. CyclicTypeOK'
    BY <1>1, <1>2, <1>3 DEF CyclicTypeOK
  <1>5. SessionInv'
    BY <1>1, <1>2, <1>3 DEF CyclicTypeOK, SessionInv, ShutDown
  <1>6. StreamInv'
    BY <1>1, <1>3, StreamFrame
  <1> QED
    BY <1>4, <1>5, <1>6

\* The device writes the next piece into a slot whose piece has been copied.
LEMMA ReceiveStep ==
  ASSUME CyclicInv, HwReceive, UNCHANGED <<cmode, ring, cyc, rd, delivered, sessions, expired>>
  PROVE  CyclicInv'
  <1> USE DEF CyclicInv
  <1>0. PICK eop \in BOOLEAN :
          /\ result' = [result EXCEPT ![chw.pos] = [full |-> TRUE, eop |-> eop]]
          /\ page' = [page EXCEPT ![chw.pos] = chw.made + 1]
          /\ chw' = [chw EXCEPT !.pos = Nxt(@), !.made = @ + 1, !.irq = TRUE,
                                !.credits = IF cmode.credit THEN @ - 1 ELSE @]
    BY DEF HwReceive
  <1>1. Pages \in Nat \ {0} /\ Credits \in 1 .. Pages - 1 /\ chw.pos \in Slot /\ chw.made \in Nat /\ chw.credits \in Int
        /\ Nxt(chw.pos) \in Slot
    <2>1. chw.pos \in Slot /\ chw.made \in Nat /\ chw.credits \in Int
      BY DEF CyclicTypeOK, Receivers
    <2>2. chw.pos + 1 \in Int
      BY <2>1 DEF Slot
    <2> QED
      BY <2>1, <2>2, CyclicAssumption, SlotMod DEF Nxt
  <1>a. /\ chw' \in Receivers /\ chw'.pos = Nxt(chw.pos) /\ chw'.made = chw.made + 1 /\ chw'.busy = chw.busy
        /\ cmode.credit => chw'.credits = chw.credits - 1
    <2>1. chw \in Receivers /\ cmode.credit \in BOOLEAN
      BY DEF CyclicTypeOK, Modes
    <2>2. chw.made + 1 \in Nat /\ (IF cmode.credit THEN chw.credits - 1 ELSE chw.credits) \in Int
      BY <1>1, <2>1
    <2>3. chw' \in Receivers
      BY <1>0, <1>1, <2>1, <2>2 DEF Receivers
    <2> QED
      BY <1>0, <2>1, <2>3 DEF Receivers
  <1>2. CyclicTypeOK'
    <2>1. [full |-> TRUE, eop |-> eop] \in Results
      BY DEF Results
    <2>2. result' \in [Slot -> Results] /\ page' \in [Slot -> Nat]
      BY <1>0, <1>1, <2>1 DEF CyclicTypeOK
    <2> QED
      BY <1>a, <2>2 DEF CyclicTypeOK
  <1>3. SessionInv'
    BY <1>a DEF SessionInv
  <1>4. StreamInv'
    <2> DEFINE d == Len(delivered)
               m == chw.made
    <2> SUFFICES ASSUME cmode.credit, ~ expired
                 PROVE  /\ \A i \in DOMAIN delivered : delivered[i] = i
                        /\ cyc.req => \E h \in 0 .. chw'.made : \E q \in 0 .. chw'.made :
                                        Window(d, h, q, chw.made)' /\ Reading(d, h)'
      BY DEF StreamInv
    <2>1. \A i \in DOMAIN delivered : delivered[i] = i
      BY DEF StreamInv
    <2> SUFFICES ASSUME cyc.req
                 PROVE  \E h \in 0 .. chw'.made : \E q \in 0 .. chw'.made : Window(d, h, q, chw.made)' /\ Reading(d, h)'
      BY <2>1
    <2>2. PICK h \in 0 .. m : \E q \in 0 .. m : Window(d, h, q, m) /\ Reading(d, h)
      BY DEF StreamInv
    <2>3. PICK q \in 0 .. m : Window(d, h, q, m) /\ Reading(d, h)
      BY <2>2
    <2>4. d \in Nat /\ h \in Nat /\ q \in Nat /\ chw.credits > 0
      BY <1>1 DEF CyclicTypeOK, HwReceive
    <2>5. d <= h /\ h + q <= m /\ m - d <= Credits /\ chw.credits = Credits - (m - d) /\ chw.pos = m % Pages
      BY <2>3 DEF Window
    <2>6. chw'.made = m + 1 /\ chw'.credits = Credits - ((m + 1) - d) /\ (m + 1) - d <= Credits /\ chw'.pos = (m + 1) % Pages
      <3>1. Nxt(chw.pos) = (m + 1) % Pages
        BY <1>1, <2>5, ModSucc DEF Nxt
      <3> QED
        <4>1. chw'.made = m + 1 /\ chw'.credits = chw.credits - 1 /\ chw'.pos = (m + 1) % Pages
          BY <1>a, <3>1
        <4>2. m \in Nat /\ d \in Nat /\ Credits \in Nat /\ chw.credits > 0 /\ chw.credits = Credits - (m - d)
          BY <1>1, <2>4, <2>5
        <4> HIDE DEF m, d
        <4> QED
          BY <4>1, <4>2
    <2>7. ASSUME NEW j \in d .. m - 1 PROVE j % Pages # m % Pages /\ j % Pages \in Slot
      <3>1. j \in Nat /\ m \in Nat /\ j < m /\ m - j < Pages
        BY <1>1, <2>4, <2>6
      <3> QED
        BY <3>1, SlotsApart, SlotMod
    <2>8. \A k \in Slot : /\ page'[k] = IF k = m % Pages THEN m + 1 ELSE page[k]
                          /\ result'[k].full = IF k = m % Pages THEN TRUE ELSE result[k].full
      BY <1>0, <1>1, <2>5 DEF CyclicTypeOK, Results
    <2> HIDE DEF d, m
    <2>9. ASSUME NEW j \in d .. (m + 1) - 1 PROVE page'[j % Pages] = j + 1
      <3>1. j = m \/ j \in d .. m - 1
        BY <1>1, <2>4 DEF m
      <3>2. m % Pages \in Slot
        BY <1>1, <2>5
      <3> QED
        BY <2>3, <2>7, <2>8, <3>1, <3>2 DEF Window
    <2>10. ASSUME NEW j \in h .. (m + 1) - 1 PROVE result'[j % Pages].full
      <3>1. j = m \/ (j \in h .. m - 1 /\ j \in d .. m - 1)
        BY <1>1, <2>4, <2>5 DEF m
      <3>2. m % Pages \in Slot
        BY <1>1, <2>5
      <3> QED
        BY <2>3, <2>7, <2>8, <3>1, <3>2 DEF Window
    <2>11. ASSUME NEW k \in Slot, result'[k].full PROVE \E j \in h .. (m + 1) - 1 : k = j % Pages
      <3>1. m \in h .. (m + 1) - 1 /\ \A j \in h .. m - 1 : j \in h .. (m + 1) - 1
        BY <1>1, <2>4, <2>5 DEF m
      <3> QED
        BY <2>3, <2>8, <2>11, <3>1 DEF Window
    <2>12. Window(d, h, q, chw.made)'
      <3>1. d' = d /\ chw'.made = m + 1 /\ ring' = ring
        BY <2>6 DEF d
      <3>2. d <= h /\ h + q <= m + 1
        BY <1>1, <2>4, <2>5 DEF m
      <3>3. ring.head = h % Pages /\ ring.tail = (h + q) % Pages /\ ~ ring.overrun
        BY <2>3 DEF Window
      <3> QED
        BY <2>6, <2>9, <2>10, <2>11, <3>1, <3>2, <3>3 DEF Window
    <2>13. Reading(d, h)'
      BY <2>3 DEF Reading, d
    <2>14. h \in 0 .. chw'.made /\ q \in 0 .. chw'.made
      BY <1>1, <2>4, <2>6 DEF m
    <2> QED
      BY <2>12, <2>13, <2>14
  <1> QED
    BY <1>2, <1>3, <1>4

LEMMA RingProcessed ==
  ASSUME CyclicTypeOK
  PROVE  /\ engine_ring_process \in Rings
         /\ engine_ring_process.head = ring.head /\ engine_ring_process.tail = (ring.tail + Steps) % Pages
         /\ engine_ring_process.overrun <=> ring.overrun \/ (Steps > 0 /\ (ring.tail + Steps) % Pages = ring.head)
  <1> DEFINE t == (ring.tail + Steps) % Pages
             o == ring.overrun \/ (Steps > 0 /\ t = ring.head)
  <1>1. ring \in Rings /\ ring.tail \in Slot /\ Steps \in Nat
    BY StepsDefined, CyclicAssumption DEF CyclicTypeOK, Rings
  <1>2. t \in Slot /\ o \in BOOLEAN
    BY <1>1, SlotMod DEF Slot
  <1>3. engine_ring_process = [ring EXCEPT !.tail = t, !.overrun = o]
    BY DEF engine_ring_process
  <1> HIDE DEF t, o
  <1>4. [ring EXCEPT !.tail = t, !.overrun = o] \in Rings
    BY <1>1, <1>2 DEF Rings
  <1>5. /\ engine_ring_process.head = ring.head /\ engine_ring_process.tail = t
        /\ engine_ring_process.overrun = o
    BY <1>1, <1>3 DEF Rings
  <1> QED
    BY <1>3, <1>4, <1>5 DEF t, o

\* The tail moves over results that the device has written.
LEMMA TailMoves ==
  ASSUME CyclicTypeOK, StreamInv, UNCHANGED <<cmode, result, page, delivered, expired>>, cyc'.req = cyc.req,
         ring'.head = ring.head, ring'.tail = (ring.tail + Steps) % Pages,
         ring'.overrun <=> ring.overrun \/ (Steps > 0 /\ (ring.tail + Steps) % Pages = ring.head),
         chw'.made = chw.made, chw'.pos = chw.pos, chw'.credits = chw.credits,
         rd'.pc = "copy" <=> rd.pc = "copy", rd'.from = rd.from, rd'.num = rd.num
  PROVE  StreamInv'
  <1> DEFINE d == Len(delivered)
             m == chw.made
  <1> SUFFICES ASSUME cmode.credit, ~ expired, cyc.req
               PROVE  \E h \in 0 .. m : \E q \in 0 .. m : Window(d, h, q, m)' /\ Reading(d, h)'
    BY DEF StreamInv
  <1>1. PICK h \in 0 .. m : \E q \in 0 .. m : Window(d, h, q, m) /\ Reading(d, h)
    BY DEF StreamInv
  <1>2. PICK q \in 0 .. m : Window(d, h, q, m) /\ Reading(d, h)
    BY <1>1
  <1>3. d \in Nat /\ m \in Nat /\ h \in Nat /\ q \in Nat /\ Steps \in Nat
    BY StepsDefined, CyclicAssumption DEF CyclicTypeOK, Receivers
  <1>4. /\ h + q + Steps <= m /\ (ring.tail + Steps) % Pages = (h + (q + Steps)) % Pages
        /\ Steps > 0 => (ring.tail + Steps) % Pages # ring.head
    BY <1>2, <1>3, StepsInWindow
  <1>5. q + Steps \in 0 .. m
    BY <1>3, <1>4
  <1>6. d' = d /\ m' = m
    OBVIOUS
  <1>7. Reading(d, h)'
    BY <1>2 DEF Reading
  <1>8. PICK p \in 0 .. m : h + p <= m /\ (h + p) % Pages = (ring.tail + Steps) % Pages
    BY <1>3, <1>4, <1>5
  <1> HIDE DEF d, m
  <1>9. Window(d, h, p, m)'
    <2>1. d <= h /\ m - d <= Credits /\ chw.made = m /\ chw.credits = Credits - (m - d)
      BY <1>2 DEF Window
    <2>2. ring.head = h % Pages /\ chw.pos = m % Pages /\ ~ ring.overrun
      BY <1>2 DEF Window
    <2>3. ring'.head = h % Pages /\ ring'.tail = (h + p) % Pages /\ ~ ring'.overrun
      BY <1>3, <1>4, <1>8, <2>2
    <2>4. /\ \A j \in d .. m - 1 : page'[j % Pages] = j + 1
          /\ \A j \in h .. m - 1 : result'[j % Pages].full
          /\ \A i \in Slot : result'[i].full => \E j \in h .. m - 1 : i = j % Pages
      BY <1>2 DEF Window
    <2>5. chw'.made = m /\ chw'.credits = Credits - (m - d) /\ chw'.pos = m % Pages
      BY <2>1, <2>2
    <2> QED
      BY <1>6, <1>8, <2>1, <2>3, <2>4, <2>5 DEF Window
  <1> QED
    BY <1>6, <1>7, <1>9

LEMMA ServiceStep ==
  ASSUME CyclicInv, engine_service_cyclic_interrupt
  PROVE  CyclicInv'
  <1> USE DEF CyclicInv, engine_service_cyclic_interrupt
  <1>1. chw' \in Receivers /\ chw'.made = chw.made /\ chw'.pos = chw.pos /\ chw'.credits = chw.credits /\ chw'.busy = chw.busy
    BY DEF CyclicTypeOK, Receivers
  <1>2. /\ cyc' \in Sessions /\ cyc'.req = cyc.req /\ cyc'.pages = cyc.pages
        /\ (cyc'.running = cyc.running /\ cyc'.listed = cyc.listed) \/ (~ cyc'.running /\ ~ cyc'.listed /\ ~ chw.busy)
    BY DEF CyclicTypeOK, Sessions, Stopped
  <1>3. SessionInv'
    BY <1>1, <1>2 DEF SessionInv
  <1>4. UNCHANGED <<cmode, result, page, rd, delivered, expired>>
    OBVIOUS
  <1>5. CASE ~ cyc.req
    <2>1. ring' = ring
      BY <1>5
    <2>2. CyclicTypeOK'
      BY <1>1, <1>2, <1>4, <2>1 DEF CyclicTypeOK
    <2>3. ~ cyc'.req
      BY <1>2, <1>5
    <2>4. StreamInv'
      BY <1>4, <2>3 DEF StreamInv
    <2> QED
      BY <1>3, <2>2, <2>4
  <1>6. CASE cyc.req
    <2> DEFINE r == engine_ring_process
               e == r.eop \/ (~ cmode.credit /\ NewEops # {})
    <2>1. ring' = [r EXCEPT !.eop = e]
      BY <1>6
    <2>2. /\ r \in Rings /\ r.head = ring.head /\ r.tail = (ring.tail + Steps) % Pages
          /\ r.overrun <=> ring.overrun \/ (Steps > 0 /\ (ring.tail + Steps) % Pages = ring.head)
      BY RingProcessed
    <2> HIDE DEF r
    <2>3. e \in BOOLEAN
      BY <2>2 DEF CyclicTypeOK, Modes, Rings
    <2> HIDE DEF e
    <2>4. ring' \in Rings /\ ring'.head = r.head /\ ring'.tail = r.tail /\ ring'.overrun = r.overrun
      BY <2>1, <2>2, <2>3 DEF Rings
    <2>5. CyclicTypeOK'
      BY <1>1, <1>2, <1>4, <2>4 DEF CyclicTypeOK
    <2>6. StreamInv'
      BY <1>1, <1>2, <1>4, <2>2, <2>4, TailMoves
    <2> QED
      BY <1>3, <2>5, <2>6
  <1> QED
    BY <1>5, <1>6

LEMMA PolledStep ==
  ASSUME CyclicInv, Polled
  PROVE  CyclicInv'
  <1> USE DEF CyclicInv, Polled
  <1>1. rd' \in Readers /\ rd'.pc # "copy" /\ rd'.from = rd.from /\ rd'.num = rd.num /\ rd.pc = "monitor"
    BY DEF CyclicTypeOK, Readers, ReaderStates
  <1>2. UNCHANGED <<cmode, chw, result, page, cyc, delivered, expired>>
    OBVIOUS
  <1>3. /\ ring' \in Rings /\ ring'.head = ring.head /\ ring'.tail = (ring.tail + Steps) % Pages
        /\ ring'.overrun <=> ring.overrun \/ (Steps > 0 /\ (ring.tail + Steps) % Pages = ring.head)
    BY RingProcessed
  <1>4. CyclicTypeOK'
    BY <1>1, <1>2, <1>3 DEF CyclicTypeOK
  <1>5. SessionInv'
    BY <1>1, <1>2 DEF SessionInv
  <1>6. StreamInv'
    BY <1>1, <1>2, <1>3, TailMoves
  <1> QED
    BY <1>4, <1>5, <1>6

LEMMA FirstReadStep ==
  ASSUME CyclicInv, Read
  PROVE  CyclicInv'
  <1> USE DEF CyclicInv
  <1>0. 0 \in Slot /\ Pages \in Nat \ {0} /\ Credits \in Nat
    BY CyclicAssumption DEF Slot
  <1>1. rd' \in Readers /\ rd'.pc = "monitor" /\ rd'.from = rd.from /\ rd'.num = rd.num /\ rd.pc = "open"
    BY DEF CyclicTypeOK, Readers, ReaderStates, Read
  <1>2. UNCHANGED <<cmode, page, expired>>
    BY DEF Read
  <1>3. CASE cyc.req
    <2>1. UNCHANGED <<chw, result, ring, cyc, delivered>>
      BY <1>3 DEF Read
    <2>2. CyclicTypeOK'
      BY <1>1, <1>2, <2>1 DEF CyclicTypeOK
    <2>3. SessionInv'
      BY <1>1, <1>2, <1>3, <2>1 DEF SessionInv
    <2>4. StreamInv'
      BY <1>1, <1>2, <2>1, StreamFrame
    <2> QED
      BY <2>2, <2>3, <2>4
  <1>4. CASE ~ cyc.req
    <2> DEFINE c == IF cmode.credit THEN Credits ELSE 0
               new == [run |-> TRUE, busy |-> TRUE, pos |-> 0, made |-> 0, irq |-> FALSE, credits |-> c]
    <2>1. /\ ring' = FreshRing /\ delivered' = << >> /\ result' = [i \in Slot |-> NoResult]
          /\ cyc' = [cyc EXCEPT !.req = TRUE, !.pages = TRUE, !.listed = TRUE, !.running = TRUE]
          /\ chw' = IF cyc.running THEN chw ELSE new
      BY <1>4 DEF Read
    <2>2. c \in Int /\ (cmode.credit => c = Credits)
      BY <1>0
    <2> HIDE DEF c
    <2>3. new \in Receivers /\ new.made = 0 /\ new.pos = 0 /\ new.credits = c
      BY <1>0, <2>2 DEF Receivers
    <2> HIDE DEF new
    <2>4. FreshRing \in Rings /\ FreshRing.head = 0 /\ FreshRing.tail = 0 /\ FreshRing.overrun = FALSE
      BY <1>0 DEF FreshRing, Rings
    <2>5. NoResult \in Results /\ NoResult.full = FALSE
      BY DEF NoResult, Results
    <2>6. cyc' \in Sessions /\ cyc'.req /\ cyc'.pages /\ cyc'.running /\ cyc'.listed
      BY <2>1 DEF CyclicTypeOK, Sessions
    <2>7. CyclicTypeOK'
      <3>1. delivered' \in Seq(Nat) /\ result' \in [Slot -> Results]
        BY <2>1, <2>5
      <3>2. chw' \in Receivers
        BY <2>1, <2>3 DEF CyclicTypeOK
      <3> QED
        BY <1>1, <1>2, <2>1, <2>4, <2>6, <3>1, <3>2 DEF CyclicTypeOK
    <2>8. SessionInv'
      BY <2>6 DEF SessionInv
    <2>9. StreamInv'
      <3> SUFFICES ASSUME cmode.credit, ~ expired
                   PROVE  /\ \A i \in DOMAIN delivered' : delivered'[i] = i
                          /\ \E h \in 0 .. chw'.made : \E q \in 0 .. chw'.made :
                               Window(Len(delivered), h, q, chw.made)' /\ Reading(Len(delivered), h)'
        BY <1>2 DEF StreamInv
      <3>1. chw' = new /\ chw'.made = 0 /\ Len(delivered') = 0
        BY <1>4, <2>1, <2>3 DEF SessionInv, CyclicTypeOK, Sessions
      <3>2. 0 % Pages = 0 /\ 0 + 0 = 0
        BY <1>0, ModSmall
      <3>3. \A i \in Slot : ~ result'[i].full
        BY <2>1, <2>5
      <3>4. Window(0, 0, 0, 0)'
        BY <1>0, <2>1, <2>2, <2>3, <2>4, <3>1, <3>2, <3>3 DEF Window
      <3>5. Reading(0, 0)'
        BY <1>1 DEF Reading
      <3>6. \A i \in DOMAIN delivered' : delivered'[i] = i
        BY <2>1
      <3> QED
        BY <3>1, <3>4, <3>5, <3>6
    <2> QED
      BY <2>7, <2>8, <2>9
  <1> QED
    BY <1>3, <1>4

\* complete_cyclic: what is taken from the ring, and what the reader does next.
CompletedNum == IF Whole THEN Pages + 1 ELSE Taken
CompletedFault == Whole \/ \E j \in 0 .. CompletedNum - 1 : ~ At(j).full

LEMMA CompleteStep ==
  ASSUME CyclicInv, complete_cyclic
  PROVE  CyclicInv'
  <1> USE DEF CyclicInv
  <1> DEFINE n == CompletedNum
             hd == (ring.head + n) % Pages
             eop == ~ CompletedFault /\ \E j \in 0 .. n - 1 : At(j).eop
             e == ring.eop \/ eop
  <1>1. rd.pc = "complete" /\ UNCHANGED <<cmode, chw, page, cyc, delivered, expired>>
    BY DEF complete_cyclic
  <1>2. /\ result' = ClearedResults(n)
        /\ ring' = [ring EXCEPT !.head = hd, !.eop = e]
        /\ rd' = IF CompletedFault THEN [rd EXCEPT !.pc = "open"]
                 ELSE [rd EXCEPT !.pc = "copy", !.from = ring.head, !.num = n]
    BY DEF complete_cyclic, CompletedNum, CompletedFault, Whole, At
  <1>3. Pages \in Nat \ {0} /\ ring.head \in Slot /\ ring \in Rings
    BY CyclicAssumption DEF CyclicTypeOK, Rings
  <1>4. n \in Nat
    BY <1>3, TakenDefined DEF CompletedNum
  <1>5. hd \in Slot /\ e \in BOOLEAN
    BY <1>3, <1>4, SlotMod DEF Slot, Rings
  <1> HIDE DEF n, hd, e
  <1>6. ring' \in Rings /\ ring'.head = hd /\ ring'.tail = ring.tail /\ ring'.overrun = ring.overrun
    BY <1>2, <1>3, <1>5 DEF Rings
  <1>7. result' \in [Slot -> Results]
    <2>1. NoResult \in Results
      BY DEF NoResult, Results
    <2> QED
      BY <1>2, <2>1 DEF ClearedResults, CyclicTypeOK
  <1>8. rd' \in Readers
    BY <1>2, <1>3, <1>4 DEF CyclicTypeOK, Readers, ReaderStates
  <1>9. CyclicTypeOK'
    BY <1>1, <1>6, <1>7, <1>8 DEF CyclicTypeOK
  <1>10. SessionInv'
    BY <1>1 DEF SessionInv
  <1>11. StreamInv'
    <2> DEFINE d == Len(delivered)
               m == chw.made
    <2> SUFFICES ASSUME cmode.credit, ~ expired
                 PROVE  \E h \in 0 .. m : \E q \in 0 .. m : Window(d, h, q, m)' /\ Reading(d, h)'
      BY <1>1 DEF StreamInv
    <2>1. PICK h \in 0 .. m : \E q \in 0 .. m : Window(d, h, q, m) /\ Reading(d, h)
      BY <1>1 DEF StreamInv, SessionInv
    <2>2. PICK q \in 0 .. m : Window(d, h, q, m) /\ Reading(d, h)
      BY <2>1
    <2>3. d \in Nat /\ m \in Nat /\ h \in Nat /\ q \in Nat
      BY DEF CyclicTypeOK, Receivers
    <2>4. h = d
      BY <1>1, <2>2 DEF Reading
    <2>5. ~ Whole /\ ~ ring.overrun
      BY <2>2 DEF Window, Whole
    <2>6. Available = q
      BY <2>2, <2>3, AvailableInWindow
    <2>7. n \in 0 .. q
      BY <2>5, <2>6, TakenDefined DEF n, CompletedNum
    <2>8. d' = d /\ m' = m
      BY <1>1
    <2> HIDE DEF d, m
    <2>9. d <= h /\ h + q <= m /\ m - d <= Credits /\ chw.made = m /\ chw.credits = Credits - (m - d)
          /\ ring.head = h % Pages /\ ring.tail = (h + q) % Pages /\ chw.pos = m % Pages
      BY <2>2 DEF Window
    <2>10. ASSUME NEW j \in 0 .. n - 1 PROVE (ring.head + j) % Pages = (h + j) % Pages /\ h + j \in h .. m - 1
      <3>1. h \in Int /\ j \in Int
        BY <2>3
      <3>2. ((h % Pages) + j) % Pages = (h + j) % Pages
        BY <1>3, <3>1, ModAdd
      <3> QED
        BY <2>3, <2>7, <2>9, <3>2
    <2>11. hd = (h + n) % Pages
      <3>1. h \in Int /\ n \in Int
        BY <2>3, <1>4
      <3>2. ((h % Pages) + n) % Pages = (h + n) % Pages
        BY <1>3, <3>1, ModAdd
      <3> QED
        BY <2>9, <3>2 DEF hd
    <2>12. ~ CompletedFault
      <3>1. \A j \in 0 .. n - 1 : At(j).full
        BY <2>2, <2>10 DEF At, Window
      <3> QED
        BY <2>5, <3>1 DEF CompletedFault, n
    <2>13. rd'.pc = "copy" /\ rd'.from = h % Pages /\ rd'.num = n
      BY <1>2, <2>9, <2>12 DEF CyclicTypeOK, Readers
    <2>14. \A i \in Slot : result'[i] = IF \E j \in 0 .. n - 1 : (h + j) % Pages = i THEN NoResult ELSE result[i]
      BY <1>2, <2>10 DEF ClearedResults
    <2>15. NoResult.full = FALSE
      BY DEF NoResult
    <2>16. ASSUME NEW j \in (h + n) .. m - 1 PROVE result'[j % Pages].full
      <3>1. j \in h .. m - 1 /\ j \in Nat /\ j % Pages \in Slot
        BY <2>3, <1>4, SlotMod
      <3>2. ASSUME NEW k \in 0 .. n - 1 PROVE (h + k) % Pages # j % Pages
        <4>1. h + k \in Nat /\ h + k < j /\ j - (h + k) < Pages
          BY CyclicAssumption, <1>4, <2>3, <2>4, <2>9, <3>1
        <4> HIDE DEF hd
        <4> QED
          BY <3>1, <4>1, SlotsApart
      <3> QED
        BY <2>2, <2>14, <3>1, <3>2 DEF Window
    <2>17. ASSUME NEW i \in Slot, result'[i].full PROVE \E j \in (h + n) .. m - 1 : i = j % Pages
      <3>1. ~ \E j \in 0 .. n - 1 : (h + j) % Pages = i
        BY <2>14, <2>15, <2>17
      <3>2. result[i].full
        BY <2>14, <2>17, <3>1
      <3>3. PICK j \in h .. m - 1 : i = j % Pages
        BY <2>2, <3>2 DEF Window
      <3>4. j >= h + n
        <4> SUFFICES ASSUME j < h + n PROVE FALSE
          BY <1>4, <2>3
        <4>1. j - h \in 0 .. n - 1 /\ h + (j - h) = j
          BY <1>4, <2>3
        <4> QED
          BY <3>1, <3>3, <4>1
      <3> QED
        BY <1>4, <2>3, <3>3, <3>4
    <2>a. PICK g \in 0 .. m : g = h + n
      BY <1>4, <2>3, <2>7, <2>9
    <2>b. PICK p \in 0 .. m : p = q - n
      BY <1>4, <2>3, <2>7, <2>9
    <2>18. d <= g /\ g + p <= m /\ g + p = h + q
      BY <1>4, <2>3, <2>7, <2>9, <2>a, <2>b
    <2>19. /\ ring'.head = g % Pages /\ ring'.tail = (g + p) % Pages /\ ~ ring'.overrun
      BY <1>6, <2>5, <2>9, <2>11, <2>18, <2>a
    <2>20. /\ \A j \in d .. m - 1 : page'[j % Pages] = j + 1
           /\ \A j \in g .. m - 1 : result'[j % Pages].full
           /\ \A i \in Slot : result'[i].full => \E j \in g .. m - 1 : i = j % Pages
      BY <1>1, <2>2, <2>16, <2>17, <2>a DEF Window
    <2>21. Reading(d, g)'
      BY <2>4, <2>8, <2>13, <2>a DEF Reading
    <2>22. Window(d, g, p, m)'
      BY <1>1, <2>8, <2>9, <2>18, <2>19, <2>20 DEF Window
    <2> QED
      BY <2>8, <2>21, <2>22
  <1> QED
    BY <1>9, <1>10, <1>11

\* The pages of the pieces taken are copied in order, and their credits go back.
LEMMA CopyStep ==
  ASSUME CyclicInv, Copy
  PROVE  CyclicInv'
  <1> USE DEF CyclicInv
  <1> DEFINE new == [j \in 1 .. rd.num |-> page[(rd.from + j - 1) % Pages]]
             done == ring.eop \/ rd.tries + 1 >= Tries
             next == IF done THEN "open" ELSE "monitor"
             e == ring.eop /\ ~ (done /\ cmode.credit)
             c == chw.credits + rd.num
  <1>1. rd.pc = "copy" /\ UNCHANGED <<cmode, result, page, cyc, expired>>
    BY DEF Copy
  <1>2. /\ delivered' = delivered \o new
        /\ chw' = IF rd.num > 0 /\ cmode.credit THEN [chw EXCEPT !.credits = c] ELSE chw
        /\ rd' = [rd EXCEPT !.tries = rd.tries + 1, !.pc = next]
        /\ ring' = [ring EXCEPT !.overrun = FALSE, !.eop = e]
    BY DEF Copy, num_credit
  <1>3. /\ Pages \in Nat \ {0} /\ rd.num \in Nat /\ rd.from \in Slot /\ chw \in Receivers /\ ring \in Rings
        /\ rd \in Readers /\ cmode.credit \in BOOLEAN
    BY CyclicAssumption DEF CyclicTypeOK, Readers, Modes
  <1>4. ASSUME NEW j \in 1 .. rd.num PROVE (rd.from + j - 1) % Pages \in Slot
    BY <1>3, SlotMod DEF Slot
  <1>5. new \in [1 .. rd.num -> Nat] /\ new \in Seq(Nat) /\ Len(new) = rd.num
    <2>1. new \in [1 .. rd.num -> Nat]
      BY <1>4 DEF CyclicTypeOK
    <2> HIDE DEF new
    <2>2. new \in Seq(Nat)
      BY <1>3, <2>1
    <2>3. DOMAIN new = 1 .. rd.num
      BY <2>1
    <2> QED
      BY <1>3, <2>1, <2>2, <2>3
  <1>6. c \in Int /\ e \in BOOLEAN /\ next \in {"open", "monitor"}
    BY <1>3 DEF Receivers, Rings
  <1> HIDE DEF new, done, next, e, c
  <1>7. /\ chw' \in Receivers /\ chw'.made = chw.made /\ chw'.pos = chw.pos /\ chw'.busy = chw.busy
        /\ cmode.credit => chw'.credits = chw.credits + rd.num
    <2>1. [chw EXCEPT !.credits = c] \in Receivers
      BY <1>3, <1>6 DEF Receivers
    <2>2. CASE rd.num > 0 /\ cmode.credit
      <3>1. chw' = [chw EXCEPT !.credits = c]
        BY <1>2, <2>2
      <3> QED
        BY <1>3, <2>1, <3>1 DEF Receivers, c
    <2>3. CASE ~ (rd.num > 0 /\ cmode.credit)
      BY <1>2, <1>3, <2>3 DEF Receivers
    <2> QED
      BY <2>2, <2>3
  <1>8. ring' \in Rings /\ ring'.head = ring.head /\ ring'.tail = ring.tail /\ ~ ring'.overrun
    BY <1>2, <1>3, <1>6 DEF Rings
  <1>9. rd' \in Readers /\ rd'.pc \in {"open", "monitor"}
    <2> DEFINE k == rd.tries + 1
    <2>1. k \in Nat
      BY <1>3 DEF Readers
    <2>2. rd' = [rd EXCEPT !.tries = k, !.pc = next] /\ next \in ReaderStates
      BY <1>2, <1>6 DEF ReaderStates
    <2> HIDE DEF k
    <2>3. rd' \in Readers
      BY <1>3, <2>1, <2>2 DEF Readers
    <2> QED
      BY <1>3, <1>6, <2>2, <2>3 DEF Readers
  <1>10. delivered' \in Seq(Nat) /\ Len(delivered') = Len(delivered) + rd.num
    BY <1>2, <1>5 DEF CyclicTypeOK
  <1>11. CyclicTypeOK'
    BY <1>1, <1>7, <1>8, <1>9, <1>10 DEF CyclicTypeOK
  <1>12. SessionInv'
    BY <1>1, <1>7, <1>9 DEF SessionInv
  <1>13. StreamInv'
    <2> DEFINE d == Len(delivered)
               m == chw.made
    <2> SUFFICES ASSUME cmode.credit, ~ expired
                 PROVE  /\ \A i \in DOMAIN delivered' : delivered'[i] = i
                        /\ \E h \in 0 .. chw'.made : \E q \in 0 .. chw'.made : Window(d, h, q, chw.made)' /\ Reading(d, h)'
      BY <1>1 DEF StreamInv
    <2>1. PICK h \in 0 .. m : \E q \in 0 .. m : Window(d, h, q, m) /\ Reading(d, h)
      BY <1>1 DEF StreamInv, SessionInv
    <2>2. PICK q \in 0 .. m : Window(d, h, q, m) /\ Reading(d, h)
      BY <2>1
    <2>3. d \in Nat /\ m \in Nat /\ h \in Nat /\ q \in Nat
      BY DEF CyclicTypeOK, Receivers
    <2>4. rd.from = d % Pages /\ h = d + rd.num
      BY <1>1, <2>2 DEF Reading
    <2>5. d' = h /\ chw'.made = m
      BY <1>7, <1>10, <2>4
    <2>6. \A i \in 1 .. d : delivered[i] = i
      BY DEF StreamInv, CyclicTypeOK
    <2>7. /\ \A i \in 1 .. d : delivered'[i] = delivered[i]
          /\ \A j \in 1 .. rd.num : delivered'[d + j] = new[j]
          /\ DOMAIN delivered' = 1 .. d + rd.num
      BY SMTT(30), <1>2, <1>3, <1>5 DEF CyclicTypeOK
    <2> HIDE DEF d, m
    <2>8. d <= h /\ h + q <= m /\ m - d <= Credits /\ chw.made = m /\ chw.credits = Credits - (m - d)
          /\ ring.head = h % Pages /\ ring.tail = (h + q) % Pages /\ chw.pos = m % Pages
      BY <2>2 DEF Window
    <2>9. ASSUME NEW j \in 1 .. rd.num PROVE new[j] = d + j
      <3> DEFINE k == j - 1
      <3>1. k \in Int /\ d \in Int /\ d + k \in d .. m - 1 /\ rd.from + j - 1 = rd.from + k /\ d + k + 1 = d + j
        <4>1. rd.from \in Nat /\ rd.num = h - d
          BY <1>3, <2>3, <2>4 DEF Slot
        <4>2. rd.from + j - 1 = rd.from + k /\ d + k + 1 = d + j
          BY <1>3, <2>3, <4>1
        <4>3. d + k < h
          BY <2>3, <4>1
        <4> QED
          BY <2>3, <2>8, <4>2, <4>3
      <3> HIDE DEF k
      <3>2. ((d % Pages) + k) % Pages = (d + k) % Pages
        BY <1>3, <3>1, ModAdd
      <3>3. new[j] = page[(rd.from + k) % Pages]
        BY <3>1 DEF new
      <3>4. page[(d + k) % Pages] = d + k + 1
        BY <2>2, <3>1 DEF Window
      <3> QED
        BY <2>4, <3>1, <3>2, <3>3, <3>4
    <2>10. \A i \in DOMAIN delivered' : delivered'[i] = i
      <3> SUFFICES ASSUME NEW i \in 1 .. d + rd.num PROVE delivered'[i] = i
        BY <2>7
      <3>1. CASE i \in 1 .. d
        BY <2>6, <2>7, <3>1
      <3>2. CASE i \notin 1 .. d
        <4> DEFINE j == i - d
        <4>1. j \in 1 .. rd.num /\ i = d + j
          BY <1>3, <2>3, <3>2
        <4> HIDE DEF j
        <4> QED
          BY <2>7, <2>9, <4>1
      <3> QED
        BY <3>1, <3>2
    <2>11. m - h <= Credits /\ chw'.credits = Credits - (m - h) /\ h <= h
      <3>1. chw'.credits = chw.credits + rd.num /\ Credits \in Nat
        BY <1>7, CyclicAssumption
      <3> QED
        <4>1. rd.num = h - d
          BY <1>3, <2>3, <2>4
        <4>2. chw'.credits = (Credits - (m - d)) + (h - d)
          BY <2>8, <3>1, <4>1
        <4> QED
          BY <2>3, <2>8, <3>1, <4>2
    <2>12. /\ \A j \in h .. m - 1 : page'[j % Pages] = j + 1
           /\ \A j \in h .. m - 1 : result'[j % Pages].full
           /\ \A i \in Slot : result'[i].full => \E j \in h .. m - 1 : i = j % Pages
      <3>1. \A j \in h .. m - 1 : j \in d .. m - 1
        BY <2>3, <2>8
      <3> QED
        BY <1>1, <2>2, <3>1 DEF Window
    <2>13. Window(d, h, q, chw.made)'
      BY <1>7, <1>8, <2>5, <2>8, <2>11, <2>12 DEF Window
    <2>14. Reading(d, h)'
      BY <1>9, <2>5 DEF Reading
    <2> QED
      BY <2>5, <2>10, <2>13, <2>14
  <1> QED
    BY <1>11, <1>12, <1>13

\* For every size of the ring, every number of credits below it and every pace of device, work item
\* and reader: with credits the user gets the pieces of the stream once and in order, and the device
\* never works on a ring that is freed or unlisted, unless a teardown timed out (libxdma.c:998-1040,
\* 3894-4410).
THEOREM CyclicIsSound == SpecCyclic => []CyclicSound
  <1>1. InitCyclic => CyclicInv
    BY CyclicInit
  <1>2. CyclicInv /\ [NextCyclic]_cvars => CyclicInv'
    BY IdleStep, ReceiveStep, IrqStep, ServiceStep, QuietStep, FirstReadStep, PolledStep, CompleteStep, CopyStep,
       TeardownStep DEF NextCyclic, ReaderStep, Receiver
  <1>3. CyclicInv => CyclicSound
    BY DEF CyclicInv, SessionInv, StreamInv, CyclicSound, StreamInOrder, RingAllocated
  <1> QED
    BY <1>1, <1>2, <1>3, PTL DEF SpecCyclic

-----------------------------------------------------------------------------
(* XdmaEngine.                                                             *)

Descs == [of : Nat \X Nat, stop : BOOLEAN]
Counts == [count : Nat, err : BOOLEAN]
EngineChannels == [run : BOOLEAN, busy : BOOLEAN, pos : Nat \ {0}, count : Nat, cur : Descs, err : BOOLEAN, irq : BOOLEAN]
States == {"NEW", "SUBMITTED", "COMPLETED", "FAILED", "ABORTED"}
Transfers == [req : Nat, num : 1 .. MaxDesc, last : BOOLEAN, state : States]
Requests == [n : Nat, rv : {"pending", "ok", "EBUSY", "ENOMEM", "EIO", "ERESTARTSYS"}, held : BOOLEAN, maps : Int]
Callers == [pc : {"idle", "lock", "queue", "wait", "service", "check"}, req : Nat, next : Nat, x : Nat, seen : Counts]

EngineTypeOK ==
  /\ emode.poll \in BOOLEAN /\ hw \in EngineChannels /\ wb \in Counts /\ desc \in [1 .. MaxDesc -> Descs]
  /\ status \in [busy : BOOLEAN, err : BOOLEAN] /\ running \in BOOLEAN /\ dequeued \in Nat
  /\ xfers \in Seq(Transfers) /\ reqs \in Seq(Requests)
  /\ th \in [Threads -> Callers] /\ descLock \in Threads \cup {Nobody} /\ lost \in BOOLEAN

Using(t) == th[t].pc \in {"queue", "wait", "service", "check"}
Queued(t) == th[t].pc \in {"wait", "service", "check"}
Xfer(t) == xfers[th[t].x]
\* Descriptors of the request before those of the transfer.
Before(t) == th[t].next - Xfer(t).num

\* desc_lock is held from transfer_init to transfer_destroy.
LockInv == \A t \in Threads : Using(t) <=> descLock = t

\* At most one transfer is in the list: the one of the thread with desc_lock.
ListInv ==
  list = << >> \/ \E t \in Threads : Queued(t) /\ list = <<th[t].x>> /\ Xfer(t).state = "SUBMITTED"

\* A request belongs to one thread until it returns, and is mapped until then.
RequestsInv ==
  /\ \A r \in DOMAIN reqs : reqs[r].maps = IF reqs[r].rv = "pending" /\ reqs[r].held THEN 1 ELSE 0
  /\ \A t \in Threads : th[t].pc # "idle" =>
       /\ th[t].req \in DOMAIN reqs /\ reqs[th[t].req].rv = "pending" /\ reqs[th[t].req].held
       /\ \A u \in Threads \ {t} : th[u].pc # "idle" => th[u].req # th[t].req
       /\ th[t].next <= reqs[th[t].req].n /\ (th[t].pc = "lock" => th[t].next < reqs[th[t].req].n)

\* The engine's descriptors are those of the transfer, the last one with the stop bit.
TransferInv ==
  \A t \in Threads : Using(t) =>
    /\ th[t].x \in DOMAIN xfers
    /\ Xfer(t).num <= th[t].next /\ (Xfer(t).last <=> th[t].next = reqs[th[t].req].n)
    /\ \A i \in 1 .. Xfer(t).num : desc[i] = [of |-> <<th[t].req, Before(t) + i>>, stop |-> i = Xfer(t).num]

\* What has been moved, as long as no transfer was given up.
MovedUpTo(r, n) == \A i \in 1 .. n : <<r, i>> \in moved
MovedInv ==
  ~ lost =>
    /\ \A r \in DOMAIN reqs : reqs[r].rv = "ok" => MovedUpTo(r, reqs[r].n)
    /\ \A t \in Threads : th[t].pc = "lock" => MovedUpTo(th[t].req, th[t].next)
    /\ \A t \in Threads : Using(t) => MovedUpTo(th[t].req, Before(t))
    /\ \A t \in Threads : Queued(t) /\ Xfer(t).state = "COMPLETED" => MovedUpTo(th[t].req, th[t].next)

\* The device works on the transfer of thread t, and counts what it has done; a count that was
\* written back, or read by the thread, is that of the whole transfer.
Serves(t) ==
  /\ hw.count <= Xfer(t).num /\ (hw.busy => hw.count < Xfer(t).num)
  /\ hw.busy => /\ hw.pos = hw.count + (IF hw.cur = Cleared THEN 1 ELSE 2)
                /\ hw.cur # Cleared => hw.cur = desc[hw.count + 1]
  /\ MovedUpTo(th[t].req, Before(t) + hw.count)
  /\ wb.count # 0 => wb.count = Xfer(t).num /\ hw.count = Xfer(t).num
  /\ th[t].pc = "service" /\ th[t].seen.count # 0 => th[t].seen.count = Xfer(t).num /\ hw.count = Xfer(t).num

ServeInv ==
  /\ hw.cur # Cleared => hw.busy
  /\ ~ emode.poll => wb.count = 0
  /\ ~ lost => /\ running => list # << >> /\ dequeued = 0
               /\ list = << >> => ~ hw.busy /\ wb.count = 0
               /\ \A t \in Threads : list # << >> /\ descLock = t => Serves(t)

EngineInv == EngineTypeOK /\ LockInv /\ ListInv /\ RequestsInv /\ TransferInv /\ MovedInv /\ ServeInv

\* Sums over no index and over one.
LEMMA SumOfNone ==
  ASSUME NEW f
  PROVE  FoldFunctionOnSet(+, 0, f, {}) = 0
  <1> DEFINE F(g) == [s \in SUBSET {} |-> IF s = {} THEN 0 ELSE LET x == CHOOSE x \in s : TRUE IN f[x] + g[s \ {x}]]
             h == [s \in SUBSET {} |-> 0]
             iter == CHOOSE g : g = F(g)
  <1>1. h = F(h)
    OBVIOUS
  <1>2. iter = F(iter)
    BY <1>1
  <1>3. iter[{}] = 0
    BY <1>2
  <1>4. FoldFunctionOnSet(+, 0, f, {}) = iter[{}]
    BY DEF FoldFunctionOnSet, MapThenFoldSet
  <1> QED
    BY <1>3, <1>4

LEMMA SumOfOne ==
  ASSUME NEW f, NEW a, f[a] \in Int
  PROVE  FoldFunctionOnSet(+, 0, f, {a}) = f[a]
  <1> DEFINE F(g) == [s \in SUBSET {a} |-> IF s = {} THEN 0 ELSE LET x == CHOOSE x \in s : TRUE IN f[x] + g[s \ {x}]]
             h == [s \in SUBSET {a} |-> IF s = {} THEN 0 ELSE f[a]]
             iter == CHOOSE g : g = F(g)
  <1>1. (CHOOSE x \in {a} : TRUE) = a
    OBVIOUS
  <1>2. {a} \ {a} = {} /\ {a} # {} /\ {} \in SUBSET {a} /\ {a} \in SUBSET {a}
    OBVIOUS
  <1>3. h = F(h)
    <2> SUFFICES ASSUME NEW s \in SUBSET {a} PROVE h[s] = F(h)[s]
      OBVIOUS
    <2>1. s = {} \/ s = {a}
      OBVIOUS
    <2>2. f[a] + 0 = f[a]
      OBVIOUS
    <2> QED
      BY <1>1, <1>2, <2>1, <2>2
  <1>4. iter = F(iter)
    BY <1>3
  <1> HIDE DEF iter
  <1>5. iter[{}] = 0 /\ iter[{a}] = f[a] + iter[{a} \ {a}]
    BY <1>1, <1>2, <1>4
  <1>6. iter[{a}] = f[a]
    BY <1>2, <1>5
  <1>7. FoldFunctionOnSet(+, 0, f, {a}) = iter[{a}]
    BY DEF FoldFunctionOnSet, MapThenFoldSet, iter
  <1> QED
    BY <1>6, <1>7

LEMMA TotalOfNone == Total(0) = 0
  <1>1. 1 .. 0 = {}
    OBVIOUS
  <1> QED
    BY <1>1, SumOfNone DEF Total

LEMMA TotalOfOne ==
  ASSUME NEW x, list = <<x>>, xfers[x].num \in Int
  PROVE  Total(1) = xfers[x].num
  <1> DEFINE f == [i \in 1 .. Len(list) |-> xfers[list[i]].num]
  <1>1. 1 .. 1 = {1} /\ 1 \in 1 .. Len(list) /\ list[1] = x
    OBVIOUS
  <1>2. f[1] = xfers[x].num
    BY <1>1
  <1> HIDE DEF f
  <1>3. FoldFunctionOnSet(+, 0, f, {1}) = f[1]
    BY <1>2, SumOfOne
  <1> QED
    BY <1>1, <1>2, <1>3 DEF Total, f

\* engine_service_transfer_list on a list of at most one transfer.
LEMMA PassedNone ==
  ASSUME list = << >>, NEW d
  PROVE  Passed(d) = 0
  <1>1. Len(list) = 0
    OBVIOUS
  <1> DEFINE P(k) == /\ k = Len(list) \/ d - Total(k) <= xfers[list[k + 1]].num
                     /\ \A j \in 0 .. k - 1 : d - Total(j) > xfers[list[j + 1]].num
  <1>2. 0 \in 0 .. Len(list) /\ P(0) /\ \A k \in 0 .. Len(list) : k = 0
    BY <1>1
  <1>3. Passed(d) = CHOOSE k \in 0 .. Len(list) : P(k)
    BY DEF Passed
  <1> HIDE DEF P
  <1> QED
    BY <1>2, <1>3

LEMMA PassedOne ==
  ASSUME NEW x, list = <<x>>, xfers[x].num \in Int, NEW d \in Int
  PROVE  Passed(d) = IF d <= xfers[x].num THEN 0 ELSE 1
  <1> DEFINE P(k) == /\ k = Len(list) \/ d - Total(k) <= xfers[list[k + 1]].num
                     /\ \A j \in 0 .. k - 1 : d - Total(j) > xfers[list[j + 1]].num
  <1>1. Len(list) = 1 /\ list[1] = x /\ 0 .. 1 = {0, 1}
    OBVIOUS
  <1>2. P(0) <=> d <= xfers[x].num
    BY <1>1, TotalOfNone
  <1>3. P(1) <=> d > xfers[x].num
    BY <1>1, TotalOfNone
  <1>4. Passed(d) = CHOOSE k \in 0 .. Len(list) : P(k)
    BY DEF Passed
  <1> HIDE DEF P
  <1> QED
    BY <1>1, <1>2, <1>3, <1>4

\* Of the transfers, engine_service changes only the one in the list.
Finished(x, d) == xfers'[x].state \in {"COMPLETED", "FAILED"} /\ (xfers'[x].state = "COMPLETED" => d >= xfers[x].num)
Completed(c) == ((IF c # 0 THEN c ELSE hw.count) - dequeued) % Word

\* Only descriptors and the lists they are in are affected: xfers keep all but their state.
SameTransfers ==
  /\ xfers' \in Seq(Transfers) /\ DOMAIN xfers' = DOMAIN xfers
  /\ \A x \in DOMAIN xfers : xfers'[x].num = xfers[x].num /\ xfers'[x].last = xfers[x].last

LEMMA ServedNone ==
  ASSUME EngineTypeOK, list = << >>, NEW c \in Nat, NEW e \in BOOLEAN, ServiceRunning(c, e)
  PROVE  list' = << >> /\ xfers' = xfers /\ dequeued' = dequeued /\ lost' = lost
  <1> DEFINE d == Completed(c)
  <1>1. Passed(d) = 0 /\ Len(list) = 0 /\ SubSeq(list, 1, 0) = << >>
    BY PassedNone
  <1>2. list' = << >>
    BY <1>1 DEF ServiceRunning, Completed
  <1>3. xfers' = [x \in DOMAIN xfers |-> xfers[x]]
    BY <1>1 DEF ServiceRunning, Completed
  <1>4. xfers' = xfers
    BY <1>3 DEF EngineTypeOK
  <1>5. dequeued' = dequeued
    BY <1>1, TotalOfNone DEF ServiceRunning, Completed, EngineTypeOK, DequeuedAtStart
  <1>6. lost' = lost
    BY DEF ServiceRunning, EngineTypeOK
  <1> QED
    BY <1>2, <1>4, <1>5, <1>6

LEMMA ServedOne ==
  ASSUME EngineTypeOK, NEW x \in DOMAIN xfers, list = <<x>>, NEW c \in Nat, NEW e \in BOOLEAN, ServiceRunning(c, e)
  PROVE  /\ list' = << >> /\ dequeued' \in Nat
         /\ SameTransfers /\ Finished(x, Completed(c))
         /\ \A y \in DOMAIN xfers \ {x} : xfers'[y] = xfers[y]
  <1> DEFINE d == Completed(c)
             k == Passed(d)
             st == IF c = 0 \/ e THEN [busy |-> hw.busy, err |-> hw.err] ELSE status
             s == Outcome(st, k, d - Total(k), 1)
  <1>1. xfers[x] \in Transfers /\ xfers[x].num \in 1 .. MaxDesc /\ MaxDesc \in Nat /\ Word \in Nat \ {0}
    <2>1. xfers[x] \in Transfers
      BY DEF EngineTypeOK
    <2>2. xfers[x].num \in 1 .. MaxDesc
      BY <2>1 DEF Transfers
    <2>3. MaxDesc \in Nat /\ Word \in Nat \ {0}
      BY EngineAssumption
    <2> QED
      BY <2>1, <2>2, <2>3
  <1>2. d \in Int
    <2>1. hw.count \in Nat /\ dequeued \in Nat
      BY DEF EngineTypeOK, EngineChannels
    <2> DEFINE n == (IF c # 0 THEN c ELSE hw.count) - dequeued
    <2>2. n \in Int
      BY <2>1
    <2> HIDE DEF n
    <2>3. n % Word \in Int
      BY <1>1, <2>2, ModRange
    <2> QED
      BY <2>3 DEF Completed, n
  <1> HIDE DEF d
  <1>3. k = IF d <= xfers[x].num THEN 0 ELSE 1
    BY <1>1, <1>2, PassedOne
  <1>4. Len(list) = 1 /\ list[1] = x /\ SubSeq(list, 2, 1) = << >>
    OBVIOUS
  <1>5. (IF k < Len(list) THEN k + 1 ELSE k) = 1
    BY <1>3, <1>4
  <1>6. list' = << >>
    <2>1. list' = SubSeq(list, (IF k < Len(list) THEN k + 1 ELSE k) + 1, Len(list))
      BY Zenon DEF ServiceRunning, Completed, d
    <2>2. list' = SubSeq(list, 1 + 1, 1)
      BY <1>4, <1>5, <2>1, Zenon
    <2> QED
      BY <1>4, <2>2
  <1>7. xfers' = [y \in DOMAIN xfers |-> IF y = x THEN [xfers[x] EXCEPT !.state = s] ELSE xfers[y]]
    <2>1. \A y : (\E i \in 1 .. 1 : list[i] = y) <=> y = x
      BY <1>4
    <2>2. (CHOOSE i \in 1 .. 1 : list[i] = x) = 1
      BY <1>4
    <2>3. xfers' = [y \in DOMAIN xfers |->
                      IF \E i \in 1 .. 1 : list[i] = y
                      THEN [xfers[y] EXCEPT !.state = Outcome(st, k, d - Total(k), CHOOSE i \in 1 .. 1 : list[i] = y)]
                      ELSE xfers[y]]
      BY ZenonT(30), <1>5 DEF ServiceRunning, Completed, d
    <2> QED
      BY <2>1, <2>2, <2>3
  <1>8. s \in {"COMPLETED", "FAILED"} /\ (s = "COMPLETED" => d >= xfers[x].num)
    <2>1. CASE d <= xfers[x].num
      <3>1. k = 0 /\ d - Total(k) = d
        BY <1>2, <1>3, <2>1, TotalOfNone
      <3> QED
        BY <1>1, <1>2, <1>4, <2>1, <3>1 DEF Outcome
    <2>2. CASE ~ d <= xfers[x].num
      BY <1>1, <1>2, <1>3, <2>2 DEF Outcome
    <2> QED
      BY <2>1, <2>2
  <1> HIDE DEF s, k, st
  <1>9. dequeued' \in Nat
    <2>1. Total(1) \in Nat
      BY <1>1, TotalOfOne
    <2>2. dequeued' = DequeuedAtStart \/ dequeued' = dequeued + Total(1)
      BY <1>5 DEF ServiceRunning, Completed, d, k
    <2> QED
      BY <2>1, <2>2 DEF DequeuedAtStart, EngineTypeOK
  <1>10. [xfers[x] EXCEPT !.state = s] \in Transfers
    BY <1>1, <1>8 DEF Transfers, States
  <1>11. xfers' \in Seq(Transfers) /\ DOMAIN xfers' = DOMAIN xfers
    <2>1. DOMAIN xfers' = DOMAIN xfers /\ \A y \in DOMAIN xfers' : xfers'[y] \in Transfers
      BY <1>7, <1>10 DEF EngineTypeOK
    <2>2. DOMAIN xfers = 1 .. Len(xfers) /\ Len(xfers) \in Nat
      BY DEF EngineTypeOK
    <2>3. xfers' \in [1 .. Len(xfers) -> Transfers]
      BY <1>7, <2>1, <2>2
    <2> QED
      BY <2>1, <2>2, <2>3
  <1>12. xfers'[x].num = xfers[x].num /\ xfers'[x].last = xfers[x].last /\ xfers'[x].state = s
    BY <1>1, <1>7 DEF Transfers
  <1> QED
    BY <1>6, <1>7, <1>8, <1>9, <1>11, <1>12 DEF SameTransfers, Finished, d

\* What else a service of the running engine does to a list of at most one transfer.
LEMMA ServedEngine ==
  ASSUME EngineTypeOK, NEW c \in Nat, NEW e \in BOOLEAN, ServiceRunning(c, e), list' = << >>
  PROVE  /\ hw' \in EngineChannels /\ hw'.busy = hw.busy /\ hw'.cur = hw.cur
         /\ status' \in [busy : BOOLEAN, err : BOOLEAN]
         /\ wb' \in Counts /\ (wb'.count = 0 \/ (~ emode.poll /\ wb' = wb))
         /\ running' \in BOOLEAN /\ (running' <=> hw.busy /\ c = 0)
         /\ lost' \in BOOLEAN /\ (lost' <=> lost \/ (running' /\ list # << >>))
  <1> DEFINE read == c = 0 \/ e
             st == IF read THEN [busy |-> hw.busy, err |-> hw.err] ELSE status
             stop == ~ st.busy \/ c # 0
             k == Passed(Completed(c))
             h1 == IF read THEN [hw EXCEPT !.irq = FALSE, !.err = FALSE] ELSE hw
             h2 == IF stop \/ (st.err /\ k < Len(list)) THEN xdma_engine_stop(h1) ELSE h1
  <1>1. hw \in EngineChannels /\ wb \in Counts /\ lost \in BOOLEAN /\ emode.poll \in BOOLEAN
        /\ status \in [busy : BOOLEAN, err : BOOLEAN] /\ hw.busy \in BOOLEAN /\ hw.err \in BOOLEAN
    BY DEF EngineTypeOK, EngineChannels
  <1>2. /\ running' = (~ stop \/ (stop /\ list' # << >>))
        /\ hw' = IF stop /\ list' # << >> THEN Started(h2) ELSE h2
        /\ status' = IF stop /\ list' # << >> THEN [busy |-> TRUE, err |-> FALSE] ELSE st
        /\ wb' = IF emode.poll THEN [count |-> 0, err |-> FALSE] ELSE wb
        /\ lost' = (lost \/ (~ stop /\ list # << >>))
    BY DEF ServiceRunning, Completed
  <1>3. running' = ~ stop /\ hw' = h2 /\ status' = st
    BY <1>2
  <1>4. st \in [busy : BOOLEAN, err : BOOLEAN]
    BY <1>1
  <1>5. ~ stop <=> hw.busy /\ c = 0
    BY <1>1
  <1>6. h1 \in EngineChannels /\ h1.busy = hw.busy /\ h1.cur = hw.cur
    BY <1>1 DEF EngineChannels
  <1> HIDE DEF h1, st, stop
  <1>7. xdma_engine_stop(h1) \in EngineChannels /\ xdma_engine_stop(h1).busy = hw.busy /\ xdma_engine_stop(h1).cur = hw.cur
    BY <1>6 DEF EngineChannels, xdma_engine_stop
  <1>8. hw' \in EngineChannels /\ hw'.busy = hw.busy /\ hw'.cur = hw.cur
    BY <1>3, <1>6, <1>7
  <1>9. wb' \in Counts /\ (wb'.count = 0 \/ (~ emode.poll /\ wb' = wb))
    BY <1>1, <1>2 DEF Counts
  <1>10. stop \in BOOLEAN
    BY DEF stop
  <1>11. running' \in BOOLEAN /\ (running' <=> hw.busy /\ c = 0)
    BY <1>3, <1>5, <1>10
  <1>12. lost' \in BOOLEAN /\ (lost' <=> lost \/ (running' /\ list # << >>))
    BY <1>1, <1>2, <1>3, <1>10
  <1> QED
    BY <1>3, <1>4, <1>8, <1>9, <1>11, <1>12

\* A thread that has read the counts goes on to look at its transfer.
ThreadsServe ==
  /\ th' \in [Threads -> Callers]
  /\ \A u \in Threads :
       /\ th'[u].req = th[u].req /\ th'[u].next = th[u].next /\ th'[u].x = th[u].x
       /\ th'[u].pc = th[u].pc \/ (th[u].pc = "service" /\ th'[u].pc = "check")
       /\ th'[u].pc = "service" => th'[u].seen = th[u].seen

\* While no transfer was given up, the count is that of the transfer in the list.
LEMMA CountIsTrue ==
  ASSUME EngineInv, running, ~ lost, NEW t \in Threads, descLock = t, list # << >>, NEW c \in Nat,
         c = 0 \/ \E u \in Threads : th[u].pc = "service" /\ c = th[u].seen.count
  PROVE  /\ Completed(c) = hw.count /\ hw.count <= Xfer(t).num
         /\ c # 0 => ~ hw.busy
  <1>1. Using(t) /\ Serves(t) /\ dequeued = 0
    BY DEF EngineInv, LockInv, ServeInv
  <1>2. Xfer(t) \in Transfers
    BY <1>1 DEF EngineInv, TransferInv, EngineTypeOK, Xfer
  <1>3. Xfer(t).num \in 1 .. MaxDesc /\ hw.count \in Nat /\ MaxDesc \in Nat /\ Word \in Nat \ {0} /\ MaxDesc < Word
    BY <1>2, EngineAssumption DEF Transfers, EngineInv, EngineTypeOK, EngineChannels
  <1>4. c # 0 => th[t].pc = "service" /\ c = th[t].seen.count
    BY DEF EngineInv, LockInv, Using
  <1>5. c # 0 => c = hw.count /\ ~ hw.busy
    BY <1>1, <1>3, <1>4 DEF Serves
  <1>6. (IF c # 0 THEN c ELSE hw.count) - dequeued = hw.count /\ hw.count \in 0 .. Word - 1
    BY <1>1, <1>3, <1>5 DEF Serves
  <1>7. hw.count % Word = hw.count
    BY <1>3, <1>6, ModSmall
  <1> QED
    BY <1>1, <1>5, <1>6, <1>7 DEF Completed, Serves

LEMMA ServiceStopped ==
  ASSUME EngineInv, ThreadsServe, UNCHANGED <<emode, desc, reqs, descLock, moved>>,
         hw' = [hw EXCEPT !.irq = FALSE, !.err = FALSE], status' = [busy |-> hw.busy, err |-> hw.err],
         UNCHANGED <<list, xfers, running, dequeued, wb, lost>>
  PROVE  EngineInv'
  <1> USE DEF EngineInv
  <1>1. /\ hw' \in EngineChannels /\ hw'.busy = hw.busy /\ hw'.cur = hw.cur /\ hw'.pos = hw.pos /\ hw'.count = hw.count
        /\ status' \in [busy : BOOLEAN, err : BOOLEAN]
    BY DEF EngineTypeOK, EngineChannels
  <1>2. EngineTypeOK'
    BY <1>1 DEF EngineTypeOK, ThreadsServe
  <1>3. \A u \in Threads : Using(u)' = Using(u) /\ Queued(u)' = Queued(u) /\ Xfer(u)' = Xfer(u) /\ Before(u)' = Before(u)
    BY DEF ThreadsServe, Using, Queued, Xfer, Before
  <1>4. LockInv'
    BY <1>3 DEF LockInv
  <1>5. ListInv'
    BY <1>3 DEF ListInv, ThreadsServe
  <1>6. RequestsInv'
    BY DEF RequestsInv, ThreadsServe
  <1>7. TransferInv'
    BY <1>3 DEF TransferInv, ThreadsServe
  <1>8. MovedInv'
    BY <1>3 DEF MovedInv, MovedUpTo, ThreadsServe
  <1>9. \A u \in Threads : Serves(u) => Serves(u)'
    BY <1>1, <1>3 DEF Serves, MovedUpTo, ThreadsServe
  <1>10. ServeInv'
    BY <1>1, <1>9 DEF ServeInv
  <1> QED
    BY <1>2, <1>4, <1>5, <1>6, <1>7, <1>8, <1>10

LEMMA ServiceWorks ==
  ASSUME EngineInv, ThreadsServe, UNCHANGED <<emode, desc, reqs, descLock, moved>>,
         NEW c \in Nat, NEW e \in BOOLEAN, running, ServiceRunning(c, e),
         c = 0 \/ \E u \in Threads : th[u].pc = "service" /\ c = th[u].seen.count
  PROVE  EngineInv'
  <1> USE DEF EngineInv
  <1>1. /\ list' = << >> /\ dequeued' \in Nat /\ SameTransfers
        /\ \A y \in DOMAIN xfers : xfers'[y] = xfers[y] \/ (list = <<y>> /\ Finished(y, Completed(c)))
    <2>1. CASE list = << >>
      BY <2>1, ServedNone DEF EngineTypeOK, SameTransfers
    <2>2. CASE list # << >>
      <3>1. PICK t \in Threads : Queued(t) /\ list = <<th[t].x>>
        BY <2>2 DEF ListInv
      <3>2. th[t].x \in DOMAIN xfers
        BY <3>1 DEF TransferInv, Using, Queued
      <3> QED
        BY <3>1, <3>2, ServedOne
    <2> QED
      BY <2>1, <2>2
  <1>2. /\ hw' \in EngineChannels /\ hw'.busy = hw.busy /\ hw'.cur = hw.cur
        /\ status' \in [busy : BOOLEAN, err : BOOLEAN]
        /\ wb' \in Counts /\ (wb'.count = 0 \/ (~ emode.poll /\ wb' = wb))
        /\ running' \in BOOLEAN /\ (running' <=> hw.busy /\ c = 0)
        /\ lost' \in BOOLEAN /\ (lost' <=> lost \/ (running' /\ list # << >>))
    BY <1>1, ServedEngine
  <1>3. EngineTypeOK'
    BY <1>1, <1>2 DEF EngineTypeOK, ThreadsServe, SameTransfers
  <1>4. \A u \in Threads : Using(u)' = Using(u) /\ Queued(u)' = Queued(u)
    BY DEF ThreadsServe, Using, Queued
  <1>5. ASSUME NEW u \in Threads, Using(u)
        PROVE  Xfer(u)'.num = Xfer(u).num /\ Xfer(u)'.last = Xfer(u).last /\ Before(u)' = Before(u)
    BY <1>1, <1>5 DEF ThreadsServe, Xfer, Before, TransferInv, SameTransfers
  <1>6. LockInv'
    BY <1>4 DEF LockInv
  <1>7. ListInv'
    BY <1>1 DEF ListInv
  <1>8. RequestsInv'
    BY DEF RequestsInv, ThreadsServe
  <1>9. TransferInv'
    BY <1>1, <1>4, <1>5 DEF TransferInv, ThreadsServe, SameTransfers
  <1>10. ASSUME ~ lost', list # << >>, NEW t \in Threads, descLock = t
         PROVE  Completed(c) = hw.count /\ hw.count <= Xfer(t).num /\ (c # 0 => ~ hw.busy) /\ ~ lost
    BY <1>2, <1>10, CountIsTrue
  <1>11. MovedInv'
    <2> SUFFICES ASSUME ~ lost' PROVE MovedInv'
      BY DEF MovedInv
    <2>1. ~ lost
      BY <1>2
    <2>2. ASSUME NEW t \in Threads, Queued(t)', Xfer(t)'.state = "COMPLETED"
          PROVE  MovedUpTo(th[t].req, th[t].next)
      <3>1. Queued(t) /\ Using(t) /\ th[t].x \in DOMAIN xfers /\ Xfer(t)' = xfers'[th[t].x]
        BY <1>4, <2>2 DEF Using, Queued, TransferInv, Xfer, ThreadsServe
      <3>2. CASE xfers'[th[t].x] = xfers[th[t].x]
        BY <2>1, <2>2, <3>1, <3>2 DEF MovedInv, Xfer
      <3>3. CASE list = <<th[t].x>> /\ Finished(th[t].x, Completed(c))
        <4>1. descLock = t /\ list # << >>
          BY <3>1, <3>3 DEF LockInv
        <4>2. hw.count >= Xfer(t).num /\ hw.count <= Xfer(t).num
          BY <1>10, <2>2, <3>1, <3>3, <4>1 DEF Finished, Xfer
        <4>3. Xfer(t).num \in Nat /\ hw.count \in Nat /\ th[t].next \in Nat
          <5>1. Xfer(t) \in Transfers
            BY <3>1 DEF EngineTypeOK, Xfer
          <5> QED
            BY <5>1, EngineAssumption DEF EngineTypeOK, Transfers, EngineChannels, Callers
        <4>4. Before(t) + hw.count = th[t].next
          BY <4>2, <4>3 DEF Before
        <4>5. Serves(t)
          BY <2>1, <4>1 DEF ServeInv
        <4> QED
          BY <4>4, <4>5 DEF Serves
      <3> QED
        BY <1>1, <3>1, <3>2, <3>3
    <2>3. ASSUME NEW t \in Threads, Using(t)' PROVE MovedUpTo(th[t].req, Before(t)')
      BY <1>4, <1>5, <2>1, <2>3 DEF MovedInv
    <2> QED
      BY <1>4, <2>1, <2>2, <2>3 DEF MovedInv, MovedUpTo, ThreadsServe
  <1>12. ServeInv'
    <2>1. ASSUME ~ lost' PROVE ~ running' /\ ~ hw'.busy /\ wb'.count = 0
      <3>1. ~ lost
        BY <1>2, <2>1
      <3>2. CASE list = << >>
        BY <1>2, <3>1, <3>2 DEF ServeInv
      <3>3. CASE list # << >>
        <4>1. PICK t \in Threads : descLock = t
          BY <3>3 DEF ListInv, LockInv, Using, Queued
        <4>2. c # 0 => ~ hw.busy
          BY <1>10, <2>1, <3>3, <4>1
        <4>3. ~ running'
          BY <1>2, <2>1, <3>3
        <4>4. ~ hw.busy
          BY <1>2, <4>2, <4>3
        <4>5. wb'.count = 0
          BY <1>2 DEF ServeInv
        <4> QED
          BY <1>2, <4>3, <4>4, <4>5
      <3> QED
        BY <3>2, <3>3
    <2>2. ~ emode.poll => wb'.count = 0
      BY <1>2 DEF ServeInv
    <2>3. hw'.cur # Cleared => hw'.busy
      BY <1>2 DEF ServeInv
    <2> QED
      BY <1>1, <2>1, <2>2, <2>3 DEF ServeInv
  <1> QED
    BY <1>3, <1>6, <1>7, <1>8, <1>9, <1>11, <1>12

LEMMA WorkStep ==
  ASSUME EngineInv, engine_service_work
  PROVE  EngineInv'
  <1>1. ThreadsServe /\ 0 \in Nat /\ FALSE \in BOOLEAN
    BY DEF ThreadsServe, engine_service_work, EngineInv, EngineTypeOK
  <1>2. engine_service(0, FALSE) /\ UNCHANGED <<emode, desc, reqs, descLock, moved>>
    BY DEF engine_service_work, ServiceAndUnmask
  <1> QED
    BY <1>1, <1>2, ServiceStopped, ServiceWorks DEF engine_service

LEMMA PollStep ==
  ASSUME EngineInv, NEW t \in Threads, engine_service_poll(t)
  PROVE  EngineInv'
  <1> DEFINE c == th[t].seen.count
             e == th[t].seen.err
  <1>1. th \in [Threads -> Callers] /\ th[t] \in Callers /\ th' = [th EXCEPT ![t].pc = "check"] /\ th[t].pc = "service"
    BY DEF engine_service_poll, EngineInv, EngineTypeOK
  <1>2. th[t].seen \in Counts
    BY <1>1 DEF Callers
  <1>3. c \in Nat /\ e \in BOOLEAN
    BY <1>2 DEF Counts
  <1>4. ThreadsServe
    <2>1. [th[t] EXCEPT !.pc = "check"] \in Callers
      BY <1>1 DEF Callers
    <2>2. th' \in [Threads -> Callers]
      BY <1>1, <2>1
    <2>3. \A u \in Threads : th'[u] = IF u = t THEN [th[t] EXCEPT !.pc = "check"] ELSE th[u]
      BY <1>1
    <2> QED
      BY <1>1, <2>2, <2>3 DEF ThreadsServe, Callers
  <1>5. engine_service(c, e) /\ UNCHANGED <<emode, desc, reqs, descLock, moved>>
    BY DEF engine_service_poll
  <1> HIDE DEF c, e
  <1>6. c = 0 \/ \E u \in Threads : th[u].pc = "service" /\ c = th[u].seen.count
    BY <1>1 DEF c
  <1> QED
    BY <1>3, <1>4, <1>5, <1>6, ServiceStopped, ServiceWorks DEF engine_service

\* Steps of the device: only its registers, the written-back count and the memory change.
LEMMA DeviceKeeps ==
  ASSUME EngineInv, UNCHANGED <<emode, desc, status, running, dequeued, list, xfers, reqs, th, descLock, lost>>,
         hw' \in EngineChannels, wb' \in Counts, moved \subseteq moved', ServeInv'
  PROVE  EngineInv'
  <1> USE DEF EngineInv
  <1>1. EngineTypeOK'
    BY DEF EngineTypeOK
  <1>2. LockInv' /\ ListInv' /\ RequestsInv' /\ TransferInv'
    BY DEF LockInv, ListInv, RequestsInv, TransferInv, Using, Queued, Xfer, Before
  <1>3. \A r, n : MovedUpTo(r, n) => MovedUpTo(r, n)'
    BY DEF MovedUpTo
  <1>4. MovedInv'
    <2>1. \A t \in Threads : Using(t)' = Using(t) /\ Queued(t)' = Queued(t) /\ Xfer(t)' = Xfer(t) /\ Before(t)' = Before(t)
      BY DEF Using, Queued, Xfer, Before
    <2> QED
      BY <1>3, <2>1 DEF MovedInv
  <1> QED
    BY <1>1, <1>2, <1>4

\* What the device does next, for the transfer that is in the list.
LEMMA DeviceTransfer ==
  ASSUME EngineInv, ~ lost, hw.busy
  PROVE  /\ list # << >>
         /\ \A t \in Threads : descLock = t =>
              /\ Serves(t) /\ Using(t) /\ Xfer(t).num \in 1 .. MaxDesc /\ hw.count \in Nat /\ hw.count < Xfer(t).num
              /\ Before(t) \in Nat
              /\ hw.count + 1 \in 1 .. Xfer(t).num
              /\ desc[hw.count + 1] = [of |-> <<th[t].req, Before(t) + (hw.count + 1)>>, stop |-> hw.count + 1 = Xfer(t).num]
  <1> USE DEF EngineInv
  <1>1. list # << >>
    BY DEF ServeInv
  <1> SUFFICES ASSUME NEW t \in Threads, descLock = t
               PROVE  /\ Serves(t) /\ Using(t) /\ Xfer(t).num \in 1 .. MaxDesc /\ hw.count \in Nat /\ hw.count < Xfer(t).num
                      /\ Before(t) \in Nat /\ hw.count + 1 \in 1 .. Xfer(t).num
                      /\ desc[hw.count + 1] = [of |-> <<th[t].req, Before(t) + (hw.count + 1)>>, stop |-> hw.count + 1 = Xfer(t).num]
    BY <1>1
  <1>2. Serves(t) /\ Using(t)
    BY <1>1 DEF ServeInv, LockInv
  <1>3. Xfer(t) \in Transfers /\ th[t] \in Callers
    BY <1>2 DEF TransferInv, EngineTypeOK, Xfer
  <1>4. Xfer(t).num \in 1 .. MaxDesc /\ hw.count \in Nat /\ th[t].next \in Nat /\ MaxDesc \in Nat
    BY <1>3, EngineAssumption DEF Transfers, EngineTypeOK, EngineChannels, Callers
  <1>5. hw.count < Xfer(t).num
    BY <1>2 DEF Serves
  <1>6. Before(t) \in Nat
    BY <1>2, <1>4 DEF TransferInv, Before
  <1>7. hw.count + 1 \in 1 .. Xfer(t).num
    BY <1>4, <1>5
  <1> QED
    BY <1>2, <1>4, <1>5, <1>6, <1>7 DEF TransferInv

LEMMA FetchStep ==
  ASSUME EngineInv, HwFetch, UNCHANGED <<emode, desc, status, running, dequeued, list, xfers, reqs, th, descLock, lost>>
  PROVE  EngineInv'
  <1> USE DEF EngineInv
  <1>1. hw \in EngineChannels /\ wb \in Counts /\ hw.busy /\ hw.cur = Cleared /\ moved' = moved
    BY DEF EngineTypeOK, HwFetch
  <1>2. wb' \in Counts /\ wb'.count = wb.count
    BY <1>1 DEF HwFetch, Counts
  <1>3. Cleared \in Descs
    BY DEF Cleared, Descs
  <1>4. hw.pos \in Nat /\ hw.count \in Nat
    BY <1>1 DEF EngineChannels
  <1>5. CASE hw' = [hw EXCEPT !.busy = FALSE] \/ hw' = Failed(hw)
    <2>1. hw' \in EngineChannels /\ ~ hw'.busy /\ hw'.cur = Cleared /\ hw'.count = hw.count
      BY <1>1, <1>3, <1>5 DEF EngineChannels, Failed
    <2>2. \A t \in Threads : Serves(t) => Serves(t)'
      BY <1>1, <1>2, <2>1 DEF Serves, MovedUpTo, Xfer, Before
    <2>3. ServeInv'
      BY <1>2, <2>1, <2>2 DEF ServeInv
    <2> QED
      BY <1>1, <1>2, <2>1, <2>3, DeviceKeeps
  <1>6. CASE hw' # [hw EXCEPT !.busy = FALSE] /\ hw' # Failed(hw)
    <2>1. ~ (hw.pos > MaxDesc \/ desc[hw.pos] = Cleared) /\ hw' = [hw EXCEPT !.cur = desc[hw.pos], !.pos = hw.pos + 1]
      BY <1>1, <1>6 DEF HwFetch, EngineTypeOK, EngineChannels
    <2>2. desc[hw.pos] \in Descs /\ desc[hw.pos] # Cleared
      <3>1. hw.pos \in 1 .. MaxDesc
        BY <1>1, <2>1, EngineAssumption DEF EngineChannels
      <3> QED
        BY <2>1, <3>1 DEF EngineTypeOK
    <2>3. hw.pos + 1 \in Nat \ {0}
      BY <1>4
    <2>4. /\ hw' \in EngineChannels /\ hw'.busy /\ hw'.cur = desc[hw.pos] /\ hw'.pos = hw.pos + 1 /\ hw'.count = hw.count
      BY <1>1, <2>1, <2>2, <2>3 DEF EngineChannels
    <2>5. ASSUME NEW t \in Threads, Serves(t) PROVE Serves(t)'
      <3>1. hw.pos = hw.count + 1
        BY <1>1, <2>5 DEF Serves
      <3>2. hw'.pos = hw'.count + 2 /\ hw'.cur = desc'[hw'.count + 1] /\ hw'.cur # Cleared
        BY <1>4, <2>2, <2>4, <3>1
      <3> QED
        BY <1>1, <1>2, <2>4, <2>5, <3>2 DEF Serves, MovedUpTo, Xfer, Before
    <2>6. ServeInv'
      BY <1>1, <1>2, <2>4, <2>5 DEF ServeInv
    <2> QED
      BY <1>1, <1>2, <2>4, <2>6, DeviceKeeps
  <1> QED
    BY <1>5, <1>6

LEMMA ExecStep ==
  ASSUME EngineInv, HwExec, UNCHANGED <<emode, desc, status, running, dequeued, list, xfers, reqs, th, descLock, lost>>
  PROVE  EngineInv'
  <1> USE DEF EngineInv
  <1>1. hw \in EngineChannels /\ wb \in Counts /\ hw.busy /\ hw.cur # Cleared /\ moved' = moved \cup {hw.cur.of}
    BY DEF EngineTypeOK, HwExec
  <1>2. Cleared \in Descs /\ hw.cur \in Descs /\ hw.count \in Nat /\ hw.count + 1 \in Nat /\ hw.run \in BOOLEAN
        /\ hw.irq \in BOOLEAN /\ hw.cur.stop \in BOOLEAN
    <2>1. hw.cur \in Descs
      BY <1>1 DEF EngineChannels
    <2>2. hw.count \in Nat /\ hw.run \in BOOLEAN /\ hw.irq \in BOOLEAN
      BY <1>1 DEF EngineChannels
    <2> QED
      BY <2>1, <2>2 DEF Cleared, Descs
  <1> DEFINE b == hw.run /\ ~ hw.cur.stop
             q == hw.irq \/ hw.cur.stop
             n == hw.count + 1
  <1>3. hw' = [hw EXCEPT !.count = n, !.cur = Cleared, !.busy = b, !.irq = q] /\ b \in BOOLEAN /\ q \in BOOLEAN /\ n \in Nat
    BY <1>2 DEF HwExec
  <1>4. wb' = IF emode.poll /\ hw.cur.stop THEN [wb EXCEPT !.count = n] ELSE wb
    BY DEF HwExec
  <1>5. b => ~ hw.cur.stop
    OBVIOUS
  <1> HIDE DEF b, q, n
  <1>6. hw' \in EngineChannels /\ hw'.count = n /\ hw'.cur = Cleared /\ hw'.busy = b /\ hw'.pos = hw.pos
    BY <1>1, <1>2, <1>3 DEF EngineChannels
  <1>7. /\ wb' \in Counts /\ (~ emode.poll => wb' = wb) /\ (~ hw.cur.stop => wb' = wb)
        /\ wb'.count = wb.count \/ wb'.count = n
    BY <1>1, <1>3, <1>4 DEF Counts
  <1>8. ASSUME ~ lost, NEW t \in Threads, descLock = t PROVE Serves(t)'
    <2>1. /\ Serves(t) /\ Using(t) /\ Xfer(t).num \in 1 .. MaxDesc /\ hw.count < Xfer(t).num /\ Before(t) \in Nat
          /\ n \in 1 .. Xfer(t).num
          /\ desc[n] = [of |-> <<th[t].req, Before(t) + n>>, stop |-> n = Xfer(t).num]
      BY <1>1, <1>8, DeviceTransfer DEF n
    <2>2. hw.cur = desc[n] /\ hw.pos = hw.count + 2
      BY <1>1, <2>1 DEF Serves, n
    <2>3. hw.cur.of = <<th[t].req, Before(t) + n>> /\ (hw.cur.stop <=> n = Xfer(t).num)
      <3> DEFINE v == <<th[t].req, Before(t) + n>>
                 w == n = Xfer(t).num
      <3>1. hw.cur = [of |-> v, stop |-> w] /\ w \in BOOLEAN
        BY <2>1, <2>2
      <3> HIDE DEF v, w
      <3>2. hw.cur.of = v /\ (hw.cur.stop <=> w)
        BY <3>1
      <3> QED
        BY <3>2 DEF v, w
    <2>4. Xfer(t)' = Xfer(t) /\ Before(t)' = Before(t) /\ th'[t] = th[t]
      BY DEF Xfer, Before
    <2>5. \A i \in 1 .. Before(t) + n : <<th[t].req, i>> \in moved'
      <3> DEFINE a == Before(t)
      <3>1. a \in Nat /\ n = hw.count + 1 /\ \A i \in 1 .. a + hw.count : <<th[t].req, i>> \in moved
        BY <2>1 DEF Serves, MovedUpTo, n
      <3> HIDE DEF a
      <3>2. \A i \in 1 .. a + n : i \in 1 .. a + hw.count \/ i = a + n
        BY <1>2, <3>1
      <3>3. \A i \in 1 .. a + n : <<th[t].req, i>> \in moved'
        BY <1>1, <2>3, <3>1, <3>2 DEF a
      <3> QED
        BY <3>3 DEF a
    <2>6. hw'.busy => ~ hw.cur.stop /\ n < Xfer(t).num
      BY <1>2, <1>5, <1>6, <2>1, <2>3
    <2>7. hw'.pos = hw'.count + 1
      BY <1>2, <1>6, <2>2 DEF n
    <2>8. wb.count = 0
      BY <1>2, <2>1 DEF Serves
    <2>9. wb'.count # 0 => wb'.count = Xfer(t).num /\ n = Xfer(t).num
      BY <1>7, <2>3, <2>8
    <2>10. ~ (th[t].pc = "service" /\ th[t].seen.count # 0)
      BY <1>2, <2>1 DEF Serves
    <2>11. MovedUpTo(th[t].req, Before(t) + hw.count)'
      BY <1>6, <2>4, <2>5 DEF MovedUpTo
    <2> QED
      BY <1>6, <2>1, <2>4, <2>6, <2>7, <2>9, <2>10, <2>11 DEF Serves
  <1>9. ServeInv'
    <2>1. ~ lost => list # << >>
      BY <1>1, DeviceTransfer
    <2> QED
      BY <1>6, <1>7, <1>8, <2>1 DEF ServeInv
  <1>10. moved \subseteq moved'
    BY <1>1
  <1> QED
    BY <1>6, <1>7, <1>9, <1>10, DeviceKeeps

LEMMA FailStep ==
  ASSUME EngineInv, HwFail, UNCHANGED <<emode, desc, status, running, dequeued, list, xfers, reqs, th, descLock, lost>>
  PROVE  EngineInv'
  <1> USE DEF EngineInv
  <1>1. hw \in EngineChannels /\ wb \in Counts /\ hw.busy /\ moved' = moved /\ Cleared \in Descs
    BY DEF EngineTypeOK, HwFail, Cleared, Descs
  <1>2. hw' \in EngineChannels /\ ~ hw'.busy /\ hw'.cur = Cleared /\ hw'.count = hw.count
    BY <1>1 DEF HwFail, Failed, EngineChannels
  <1>3. wb' \in Counts /\ wb'.count = wb.count
    BY <1>1 DEF HwFail, Counts
  <1>4. \A t \in Threads : Serves(t) => Serves(t)'
    BY <1>1, <1>2, <1>3 DEF Serves, MovedUpTo, Xfer, Before
  <1>5. ServeInv'
    BY <1>2, <1>3, <1>4 DEF ServeInv
  <1> QED
    BY <1>1, <1>2, <1>3, <1>5, DeviceKeeps

\* Interrupts, flags and stops: the run bit and the engine's running state.
LEMMA StopStep ==
  ASSUME EngineInv, xdma_channel_irq \/ OfflineFlag \/ OfflineEngine \/ OnlineEngine \/ UNCHANGED evars
  PROVE  EngineInv'
  <1> USE DEF EngineInv
  <1>1. UNCHANGED <<emode, wb, desc, status, dequeued, list, xfers, reqs, th, descLock, lost, moved>>
    BY DEF xdma_channel_irq, OfflineFlag, OfflineEngine, OnlineEngine, evars
  <1>2. hw' = hw \/ hw' = xdma_engine_stop(hw)
    BY DEF xdma_channel_irq, OfflineFlag, OfflineEngine, OnlineEngine, evars
  <1>3. running' \in BOOLEAN /\ (running' => running)
    <2>1. running' = running \/ running' = FALSE
      BY DEF xdma_channel_irq, OfflineFlag, OfflineEngine, OnlineEngine, evars
    <2>2. running \in BOOLEAN
      BY DEF EngineTypeOK
    <2>3. CASE running' = running
      BY <2>2, <2>3
    <2>4. CASE running' = FALSE
      BY <2>4
    <2> QED
      BY <2>1, <2>3, <2>4
  <1>4. hw' \in EngineChannels /\ hw'.busy = hw.busy /\ hw'.cur = hw.cur /\ hw'.pos = hw.pos /\ hw'.count = hw.count
    BY <1>2 DEF EngineTypeOK, EngineChannels, xdma_engine_stop
  <1>5. EngineTypeOK'
    BY <1>1, <1>3, <1>4 DEF EngineTypeOK
  <1>6. LockInv' /\ ListInv' /\ RequestsInv' /\ TransferInv' /\ MovedInv'
    <2>1. LockInv' /\ ListInv'
      BY <1>1 DEF LockInv, ListInv, Using, Queued, Xfer
    <2>2. RequestsInv'
      BY <1>1 DEF RequestsInv
    <2>3. TransferInv'
      BY <1>1 DEF TransferInv, Using, Xfer, Before
    <2>4. MovedInv'
      BY <1>1 DEF MovedInv, MovedUpTo, Using, Queued, Xfer, Before
    <2> QED
      BY <2>1, <2>2, <2>3, <2>4
  <1>7. \A t \in Threads : Serves(t) => Serves(t)'
    BY <1>1, <1>4 DEF Serves, MovedUpTo, Xfer, Before
  <1>8. ServeInv'
    BY <1>1, <1>3, <1>4, <1>7 DEF ServeInv
  <1> QED
    BY <1>5, <1>6, <1>8

\* A step of one thread, which changes that thread's record only.
LEMMA OneThread ==
  ASSUME EngineTypeOK, NEW t \in Threads, NEW c \in Callers, th' = [th EXCEPT ![t] = c]
  PROVE  th' \in [Threads -> Callers] /\ th'[t] = c /\ \A u \in Threads \ {t} : th'[u] = th[u]
  BY DEF EngineTypeOK

\* The wait expires, or the counts are read.
LEMMA WaitEnds ==
  ASSUME EngineInv, NEW t \in Threads, WaitExpires(t) \/ Monitor(t)
  PROVE  EngineInv'
  <1> USE DEF EngineInv
  <1> DEFINE n == xfers[th[t].x].num
             s == IF ~ wb.err /\ wb.count > n THEN [count |-> n, err |-> TRUE] ELSE wb
             c == IF emode.poll THEN [th[t] EXCEPT !.pc = "service", !.seen = s] ELSE [th[t] EXCEPT !.pc = "check"]
  <1>1. th[t].pc = "wait" /\ UNCHANGED <<emode, hw, wb, desc, status, running, dequeued, list, xfers, reqs, descLock, lost, moved>>
    BY DEF WaitExpires, Monitor
  <1>2. th' = [th EXCEPT ![t] = c]
    BY DEF WaitExpires, Monitor, EngineTypeOK
  <1>3. Using(t) /\ th[t] \in Callers /\ Xfer(t) \in Transfers /\ wb \in Counts /\ Xfer(t) = xfers[th[t].x]
    BY <1>1 DEF EngineTypeOK, Using, TransferInv, Xfer
  <1>4. n \in Nat
    BY <1>3, EngineAssumption DEF Transfers
  <1>5. s \in Counts
    BY <1>3, <1>4 DEF Counts
  <1>6. s.count # 0 => wb.count # 0
    BY <1>3, <1>4 DEF Counts
  <1>7. s.count = wb.count \/ (s.count = n /\ wb.count > n)
    BY <1>3, <1>4 DEF Counts
  <1> HIDE DEF s
  <1>8. /\ c \in Callers /\ c.req = th[t].req /\ c.next = th[t].next /\ c.x = th[t].x
        /\ c.pc \in {"service", "check"} /\ (c.pc = "service" => c.seen = s)
    BY <1>3, <1>5 DEF Callers
  <1> HIDE DEF c
  <1>9. th' \in [Threads -> Callers] /\ th'[t] = c /\ \A u \in Threads \ {t} : th'[u] = th[u]
    BY <1>2, <1>8, OneThread
  <1>10. EngineTypeOK'
    BY <1>1, <1>9 DEF EngineTypeOK
  <1>11. \A u \in Threads : /\ Using(u)' = Using(u) /\ Queued(u)' = Queued(u) /\ Xfer(u)' = Xfer(u) /\ Before(u)' = Before(u)
                            /\ th'[u].req = th[u].req /\ th'[u].next = th[u].next /\ th'[u].x = th[u].x
                            /\ (th'[u].pc = "idle" <=> th[u].pc = "idle") /\ (th'[u].pc = "lock" <=> th[u].pc = "lock")
    BY <1>1, <1>8, <1>9 DEF Using, Queued, Xfer, Before
  <1>12. LockInv'
    BY <1>1, <1>11 DEF LockInv
  <1>13. ListInv'
    BY <1>1, <1>11 DEF ListInv
  <1>14. RequestsInv'
    BY <1>1, <1>11 DEF RequestsInv
  <1>15. TransferInv'
    BY <1>1, <1>11 DEF TransferInv
  <1>16. MovedInv'
    BY <1>1, <1>11 DEF MovedInv, MovedUpTo
  <1>17. ASSUME NEW u \in Threads, Serves(u) PROVE Serves(u)'
    <2>1. th'[u].pc = "service" /\ th'[u].seen.count # 0 => th'[u].seen.count = Xfer(u).num /\ hw.count = Xfer(u).num
      <3>1. CASE u # t
        BY <1>9, <1>17, <3>1 DEF Serves
      <3>2. CASE u = t
        <4> SUFFICES ASSUME c.pc = "service", s.count # 0 PROVE s.count = Xfer(t).num /\ hw.count = Xfer(t).num
          BY <1>8, <1>9, <3>2
        <4>1. wb.count = n /\ hw.count = n
          BY <1>3, <1>6, <1>17, <3>2 DEF Serves
        <4>2. s.count = n
          BY <1>4, <1>7, <4>1
        <4> QED
          BY <1>3, <4>1, <4>2
      <3> QED
        BY <3>1, <3>2
    <2> QED
      BY <1>1, <1>11, <1>17, <2>1 DEF Serves, MovedUpTo
  <1>18. ServeInv'
    BY <1>1, <1>17 DEF ServeInv
  <1> QED
    BY <1>10, <1>12, <1>13, <1>14, <1>15, <1>16, <1>18

\* Requests that are refused at once, or for which there is no memory, leave nothing behind.
LEMMA Returned ==
  ASSUME NEW q \in Requests, NEW rv \in {"ok", "EBUSY", "ENOMEM", "EIO", "ERESTARTSYS"}
  PROVE  /\ Return(q, rv) \in Requests /\ Return(q, rv).n = q.n /\ Return(q, rv).rv = rv /\ ~ Return(q, rv).held
         /\ Return(q, rv).maps = IF q.held THEN q.maps - 1 ELSE q.maps
  <1>1. q.maps \in Int /\ q.maps - 1 \in Int /\ q.held \in BOOLEAN
    BY DEF Requests
  <1>2. /\ Unmap(q) \in Requests /\ Unmap(q).n = q.n /\ ~ Unmap(q).held
        /\ Unmap(q).maps = IF q.held THEN q.maps - 1 ELSE q.maps
    BY <1>1 DEF Unmap, Requests
  <1> HIDE DEF Unmap
  <1> QED
    BY <1>2 DEF Return, Requests

LEMMA Unmapped ==
  ASSUME NEW q \in Requests, NEW x
  PROVE  /\ Destroyed(q, x) \in Requests /\ Destroyed(q, x).n = q.n /\ Destroyed(q, x).rv = q.rv
         /\ xfers[x].last => ~ Destroyed(q, x).held /\ Destroyed(q, x).maps = IF q.held THEN q.maps - 1 ELSE q.maps
         /\ ~ xfers[x].last => Destroyed(q, x) = q
  <1>1. q.maps \in Int /\ q.maps - 1 \in Int /\ q.held \in BOOLEAN
    BY DEF Requests
  <1>2. /\ Unmap(q) \in Requests /\ Unmap(q).n = q.n /\ Unmap(q).rv = q.rv /\ ~ Unmap(q).held
        /\ Unmap(q).maps = IF q.held THEN q.maps - 1 ELSE q.maps
    BY <1>1 DEF Unmap, Requests
  <1> QED
    BY <1>2 DEF Destroyed

\* Together: a request that is mapped once is not mapped when it returns.
LEMMA ReturnedClean ==
  ASSUME NEW q \in Requests, NEW x, NEW rv \in {"ok", "EBUSY", "ENOMEM", "EIO", "ERESTARTSYS"}, q.held, q.maps = 1
  PROVE  LET p == Return(Destroyed(q, x), rv) IN p \in Requests /\ p.n = q.n /\ p.rv = rv /\ p.maps = 0
  <1> DEFINE d == Destroyed(q, x)
  <1>1. /\ d \in Requests /\ d.n = q.n
        /\ xfers[x].last => ~ d.held /\ d.maps = IF q.held THEN q.maps - 1 ELSE q.maps
        /\ ~ xfers[x].last => d = q
    BY Unmapped
  <1>2. (~ d.held /\ d.maps = 0) \/ (d.held /\ d.maps = 1)
    BY <1>1
  <1> HIDE DEF d
  <1>3. /\ Return(d, rv) \in Requests /\ Return(d, rv).n = d.n /\ Return(d, rv).rv = rv
        /\ Return(d, rv).maps = IF d.held THEN d.maps - 1 ELSE d.maps
    BY <1>1, Returned
  <1> QED
    BY <1>1, <1>2, <1>3 DEF d

\* Nobody else uses the engine while thread t does, and nobody does while desc_lock is free.
LEMMA EngineFree ==
  ASSUME EngineInv, descLock = Nobody \/ \E t \in Threads : descLock = t /\ th[t].pc = "queue"
  PROVE  list = << >> /\ \A u \in Threads : ~ Queued(u)
  <1>1. \A u \in Threads : Queued(u) => Using(u) /\ th[u].pc # "queue"
    BY DEF Queued, Using
  <1>2. \A u \in Threads : ~ Queued(u)
    BY <1>1, EngineAssumption DEF EngineInv, LockInv, Nobody
  <1> QED
    BY <1>2 DEF EngineInv, ListInv

LEMMA SubmitStep ==
  ASSUME EngineInv, NEW t \in Threads, Submit(t)
  PROVE  EngineInv'
  <1> USE DEF EngineInv
  <1>1. th[t].pc = "idle" /\ UNCHANGED <<emode, hw, wb, desc, status, running, dequeued, list, xfers, descLock, lost, moved>>
    BY DEF Submit
  <1> DEFINE Q(n) == [n |-> n, rv |-> "pending", held |-> TRUE, maps |-> 1]
             k == Len(reqs) + 1
  <1>2. PICK n \in Sizes :
          \/ reqs' = Append(reqs, [Q(n) EXCEPT !.rv = "EBUSY", !.held = FALSE, !.maps = 0]) /\ th' = th
          \/ reqs' = Append(reqs, Return(Q(n), "ENOMEM")) /\ th' = th
          \/ reqs' = Append(reqs, Q(n)) /\ th' = [th EXCEPT ![t] = [@ EXCEPT !.pc = "lock", !.req = Len(reqs'), !.next = 0]]
    BY DEF Submit
  <1>3. n \in Nat \ {0}
    BY EngineAssumption
  <1>4. Q(n) \in Requests /\ Q(n).n = n /\ Q(n).rv = "pending" /\ Q(n).held /\ Q(n).maps = 1
    BY <1>3 DEF Requests
  <1> HIDE DEF Q
  <1>5. PICK q \in Requests : /\ reqs' = Append(reqs, q) /\ q.n = n
                              /\ q.maps = IF q.rv = "pending" /\ q.held THEN 1 ELSE 0
                              /\ q.rv # "ok"
                              /\ th' = th \/ (q.rv = "pending" /\ q.held /\ th' = [th EXCEPT ![t] = [th[t] EXCEPT !.pc = "lock", !.req = k, !.next = 0]])
    <2>1. CASE reqs' = Append(reqs, [Q(n) EXCEPT !.rv = "EBUSY", !.held = FALSE, !.maps = 0]) /\ th' = th
      <3> DEFINE q == [Q(n) EXCEPT !.rv = "EBUSY", !.held = FALSE, !.maps = 0]
      <3>1. ASSUME NEW z \in Int
            PROVE  LET p == [Q(n) EXCEPT !.rv = "EBUSY", !.held = FALSE, !.maps = z]
                   IN  p \in Requests /\ p.n = n /\ p.maps = z /\ p.rv = "EBUSY"
        BY <1>4 DEF Requests
      <3>2. q \in Requests /\ q.n = n /\ q.maps = 0 /\ q.rv = "EBUSY"
        <4>1. 0 \in Int
          OBVIOUS
        <4> QED
          BY <3>1, <4>1, Zenon
      <3> HIDE DEF q
      <3>3. reqs' = Append(reqs, q)
        BY <2>1 DEF q
      <3> QED
        BY <2>1, <3>2, <3>3
    <2>2. CASE reqs' = Append(reqs, Return(Q(n), "ENOMEM")) /\ th' = th
      <3> DEFINE q == Return(Q(n), "ENOMEM")
      <3>1. q \in Requests /\ q.n = n /\ q.maps = 1 - 1 /\ q.rv = "ENOMEM"
        BY <1>4, Returned
      <3> HIDE DEF q
      <3>2. reqs' = Append(reqs, q)
        BY <2>2 DEF q
      <3> QED
        BY <2>2, <3>1, <3>2
    <2>3. CASE reqs' = Append(reqs, Q(n)) /\ th' = [th EXCEPT ![t] = [@ EXCEPT !.pc = "lock", !.req = Len(reqs'), !.next = 0]]
      <3>1. Len(reqs') = k
        BY <2>3, <1>4 DEF EngineTypeOK
      <3>2. th' = [th EXCEPT ![t] = [th[t] EXCEPT !.pc = "lock", !.req = k, !.next = 0]]
        BY <2>3, <3>1 DEF EngineTypeOK
      <3> QED
        BY <1>4, <2>3, <3>2
    <2> QED
      BY <1>2, <2>1, <2>2, <2>3
  <1>6. /\ reqs' \in Seq(Requests) /\ DOMAIN reqs' = 1 .. k /\ DOMAIN reqs = 1 .. k - 1 /\ k \in Nat \ {0}
        /\ reqs'[k] = q /\ \A r \in 1 .. k - 1 : reqs'[r] = reqs[r]
    BY <1>5 DEF EngineTypeOK
  <1> HIDE DEF k
  <1>7. th' = th \/ (q.rv = "pending" /\ q.held /\ \E c \in Callers : c.pc = "lock" /\ c.req = k /\ c.next = 0 /\ th' = [th EXCEPT ![t] = c])
    <2> DEFINE c == [th[t] EXCEPT !.pc = "lock", !.req = k, !.next = 0]
    <2>1. th[t] \in Callers
      BY DEF EngineTypeOK
    <2>2. c \in Callers /\ c.pc = "lock" /\ c.req = k /\ c.next = 0
      BY <1>6, <2>1 DEF Callers
    <2> QED
      BY <1>5, <2>2
  <1>8. /\ th' \in [Threads -> Callers] /\ \A u \in Threads \ {t} : th'[u] = th[u]
        /\ th'[t] = th[t] \/ (q.rv = "pending" /\ q.held /\ th'[t].pc = "lock" /\ th'[t].req = k /\ th'[t].next = 0)
    <2>1. CASE th' = th
      BY <2>1 DEF EngineTypeOK
    <2>2. CASE \E c \in Callers : c.pc = "lock" /\ c.req = k /\ c.next = 0 /\ th' = [th EXCEPT ![t] = c]
      BY <1>7, <2>2, OneThread
    <2> QED
      BY <1>7, <2>1, <2>2
  <1>9. EngineTypeOK'
    BY <1>1, <1>6, <1>8 DEF EngineTypeOK
  <1>10. \A u \in Threads : /\ Using(u)' = Using(u) /\ Queued(u)' = Queued(u)
                            /\ Using(u) => u # t /\ Xfer(u)' = Xfer(u) /\ Before(u)' = Before(u) /\ th'[u] = th[u]
    BY <1>1, <1>8 DEF Using, Queued, Xfer, Before
  <1>11. LockInv' /\ ListInv'
    <2>1. LockInv'
      BY <1>1, <1>10 DEF LockInv
    <2>2. \A u \in Threads : Queued(u) => Using(u)
      BY DEF Queued, Using
    <2> QED
      BY <1>1, <1>10, <2>1, <2>2 DEF ListInv
  <1>12. RequestsInv'
    <2>1. \A r \in DOMAIN reqs' : reqs'[r].maps = IF reqs'[r].rv = "pending" /\ reqs'[r].held THEN 1 ELSE 0
      <3>1. \A r \in 1 .. k : r \in 1 .. k - 1 \/ r = k
        BY <1>6
      <3> QED
        BY <1>5, <1>6, <3>1 DEF RequestsInv
    <2>2. ASSUME NEW u \in Threads, th[u].pc # "idle" PROVE u # t /\ th'[u] = th[u] /\ th[u].req \in 1 .. k - 1 /\ th[u].req # k
      BY <1>1, <1>6, <1>8, <2>2 DEF RequestsInv
    <2>3. ASSUME NEW u \in Threads, th'[u].pc # "idle"
          PROVE  /\ th'[u].req \in DOMAIN reqs' /\ reqs'[th'[u].req].rv = "pending" /\ reqs'[th'[u].req].held
                 /\ \A v \in Threads \ {u} : th'[v].pc # "idle" => th'[v].req # th'[u].req
                 /\ th'[u].next <= reqs'[th'[u].req].n /\ (th'[u].pc = "lock" => th'[u].next < reqs'[th'[u].req].n)
      <3>1. CASE th'[u] = th[u]
        <4>1. th[u].pc # "idle"
          BY <2>3, <3>1
        <4>2. th[u].req \in 1 .. k - 1 /\ reqs'[th[u].req] = reqs[th[u].req] /\ th[u].req # k
          BY <1>6, <2>2, <4>1
        <4>3. \A v \in Threads \ {u} : th'[v].pc # "idle" => th'[v].req # th'[u].req
          BY <1>1, <1>8, <3>1, <4>1, <4>2 DEF RequestsInv
        <4>4. th[u].req \in 1 .. k
          BY <1>6, <4>2
        <4> QED
          BY <1>6, <3>1, <4>1, <4>2, <4>3, <4>4 DEF RequestsInv
      <3>2. CASE th'[u] # th[u]
        <4>1. u = t /\ q.rv = "pending" /\ q.held /\ th'[t].pc = "lock" /\ th'[t].req = k /\ th'[t].next = 0
          BY <1>8, <3>2
        <4>2. \A v \in Threads \ {t} : th'[v].pc # "idle" => th'[v].req # k
          BY <1>8, <2>2
        <4>3. k \in 1 .. k /\ 0 < n /\ 0 <= n
          BY <1>3, <1>6
        <4> QED
          BY <1>5, <1>6, <4>1, <4>2, <4>3
      <3> QED
        BY <3>1, <3>2
    <2> QED
      BY <2>1, <2>3 DEF RequestsInv
  <1>13. \A u \in Threads : Using(u) => reqs'[th[u].req] = reqs[th[u].req]
    BY <1>6 DEF Using, RequestsInv
  <1>14. TransferInv'
    <2>1. ASSUME NEW u \in Threads, Using(u)'
          PROVE  (/\ th[u].x \in DOMAIN xfers
                  /\ Xfer(u).num <= th[u].next /\ (Xfer(u).last <=> th[u].next = reqs[th[u].req].n)
                  /\ \A i \in 1 .. Xfer(u).num : desc[i] = [of |-> <<th[u].req, Before(u) + i>>, stop |-> i = Xfer(u).num])'
      <3>1. Using(u) /\ Xfer(u)' = Xfer(u) /\ Before(u)' = Before(u) /\ th'[u] = th[u] /\ reqs'[th[u].req] = reqs[th[u].req]
        BY <1>10, <1>13, <2>1
      <3>2. /\ th[u].x \in DOMAIN xfers
            /\ Xfer(u).num <= th[u].next /\ (Xfer(u).last <=> th[u].next = reqs[th[u].req].n)
            /\ \A i \in 1 .. Xfer(u).num : desc[i] = [of |-> <<th[u].req, Before(u) + i>>, stop |-> i = Xfer(u).num]
        BY <3>1 DEF TransferInv
      <3> QED
        BY <1>1, <3>1, <3>2
    <2> QED
      BY <2>1 DEF TransferInv
  <1>15. MovedInv'
    <2> SUFFICES ASSUME ~ lost PROVE MovedInv'
      BY <1>1 DEF MovedInv
    <2>1. \A r \in DOMAIN reqs' : reqs'[r].rv = "ok" => MovedUpTo(r, reqs'[r].n)
      <3>1. \A r \in 1 .. k : r \in 1 .. k - 1 \/ r = k
        BY <1>6
      <3> QED
        BY <1>5, <1>6, <3>1 DEF MovedInv
    <2>2. \A r, m : MovedUpTo(r, m)' <=> MovedUpTo(r, m)
      BY <1>1 DEF MovedUpTo
    <2>3. ASSUME NEW u \in Threads, th'[u].pc = "lock" PROVE MovedUpTo(th'[u].req, th'[u].next)
      <3>1. CASE th'[u] = th[u]
        BY <2>3, <3>1 DEF MovedInv
      <3>2. CASE th'[u] # th[u]
        BY <1>8, <3>2 DEF MovedUpTo
      <3> QED
        BY <3>1, <3>2
    <2>4. \A u \in Threads : Queued(u) => Using(u)
      BY DEF Queued, Using
    <2> QED
      BY <1>10, <2>1, <2>2, <2>3, <2>4 DEF MovedInv
  <1>16. ServeInv'
    <2>1. ASSUME NEW u \in Threads, descLock = u, Serves(u) PROVE Serves(u)'
      <3>1. Using(u) /\ th'[u] = th[u] /\ Xfer(u)' = Xfer(u) /\ Before(u)' = Before(u)
        BY <1>10, <2>1 DEF LockInv
      <3> QED
        BY <1>1, <2>1, <3>1 DEF Serves, MovedUpTo
    <2> QED
      BY <1>1, <2>1 DEF ServeInv
  <1> QED
    BY <1>9, <1>11, <1>12, <1>14, <1>15, <1>16

LEMMA InitStep ==
  ASSUME InitEngine
  PROVE  EngineInv
  <1>1. Cleared \in Descs
    BY DEF Cleared, Descs
  <1>2. hw \in EngineChannels
    <2>1. 1 \in Nat \ {0} /\ 0 \in Nat
      OBVIOUS
    <2> QED
      BY <1>1, <2>1 DEF InitEngine, EngineChannels
  <1>3. emode.poll \in BOOLEAN
    BY EngineAssumption DEF InitEngine
  <1>4. th \in [Threads -> Callers]
    BY DEF InitEngine, Callers, Counts
  <1>5. EngineTypeOK
    <2>1. wb \in Counts /\ desc \in [1 .. MaxDesc -> Descs]
      BY <1>1 DEF InitEngine, Counts
    <2>2. status \in [busy : BOOLEAN, err : BOOLEAN]
      BY Zenon DEF InitEngine
    <2>3. xfers \in Seq(Transfers) /\ reqs \in Seq(Requests)
      BY DEF InitEngine
    <2>4. dequeued \in Nat
      BY DEF InitEngine
    <2>5. running \in BOOLEAN /\ lost \in BOOLEAN /\ descLock = Nobody
      BY Zenon DEF InitEngine
    <2> QED
      BY <1>2, <1>3, <1>4, <2>1, <2>2, <2>3, <2>4, <2>5 DEF EngineTypeOK
  <1>6. \A t \in Threads : th[t].pc = "idle" /\ ~ Using(t)
    BY DEF InitEngine, Using
  <1>7. LockInv /\ ListInv
    BY <1>6, EngineAssumption DEF InitEngine, LockInv, ListInv, Nobody
  <1>8. RequestsInv /\ TransferInv
    BY <1>6 DEF InitEngine, RequestsInv, TransferInv
  <1>9. MovedInv
    BY <1>6 DEF InitEngine, MovedInv, Using, Queued
  <1>10. ServeInv
    BY DEF InitEngine, ServeInv
  <1> QED
    BY <1>5, <1>7, <1>8, <1>9, <1>10 DEF EngineInv

\* transfer_init: the descriptors of the next transfer, written with desc_lock held.
LEMMA TransferStep ==
  ASSUME EngineInv, NEW t \in Threads, transfer_init(t)
  PROVE  EngineInv'
  <1> USE DEF EngineInv
  <1>1. th[t].pc = "lock" /\ descLock = Nobody /\ descLock' = t /\ UNCHANGED <<emode, hw, wb, status, running, dequeued, list, reqs, lost, moved>>
    BY DEF transfer_init
  <1>2. list = << >> /\ \A u \in Threads : ~ Queued(u) /\ ~ Using(u)
    BY <1>1, EngineFree, EngineAssumption DEF LockInv, Nobody
  <1>3. PICK r, m, total : r = th[t].req /\ m = th[t].next /\ total = reqs[r].n
    OBVIOUS
  <1>4. r \in Nat /\ m \in Nat /\ total \in Nat /\ m < total /\ r \in DOMAIN reqs /\ MaxDesc \in Nat \ {0}
    <2>1. th[t] \in Callers /\ r \in DOMAIN reqs /\ m < total
      BY <1>1, <1>3 DEF EngineTypeOK, RequestsInv
    <2>2. reqs[r] \in Requests
      BY <2>1 DEF EngineTypeOK
    <2> QED
      BY <1>3, <2>1, <2>2, EngineAssumption DEF Callers, Requests
  <1>5. PICK n : n = Smaller(total - m, MaxDesc)
    OBVIOUS
  <1>6. n \in 1 .. MaxDesc /\ n \in Nat /\ m + n \in Nat /\ m + n <= total /\ m + n - n = m
    BY <1>4, <1>5 DEF Smaller
  <1>7. PICK f, k : f = [req |-> r, num |-> n, last |-> m + n = total, state |-> "NEW"] /\ k = Len(xfers) + 1
    OBVIOUS
  <1>8. /\ desc' = [i \in 1 .. MaxDesc |-> IF i <= n THEN [of |-> <<r, m + i>>, stop |-> i = n] ELSE desc[i]]
        /\ xfers' = Append(xfers, f)
        /\ th' = [th EXCEPT ![t] = [@ EXCEPT !.pc = "queue", !.next = m + n, !.x = Len(xfers')]]
    BY <1>3, <1>5, <1>7 DEF transfer_init
  <1>9. f \in Transfers /\ f.num = n /\ (f.last <=> m + n = total)
    BY <1>4, <1>6, <1>7 DEF Transfers, States
  <1>10. xfers' \in Seq(Transfers) /\ Len(xfers') = k /\ k \in DOMAIN xfers' /\ xfers'[k] = f /\ k \in Nat
    BY <1>7, <1>8, <1>9 DEF EngineTypeOK
  <1>11. PICK c : c = [th[t] EXCEPT !.pc = "queue", !.next = m + n, !.x = k]
    OBVIOUS
  <1>12. th[t] \in Callers
    BY DEF EngineTypeOK
  <1>13. c \in Callers /\ c.pc = "queue" /\ c.next = m + n /\ c.x = k /\ c.req = r
    BY <1>3, <1>6, <1>10, <1>11, <1>12 DEF Callers
  <1>14. th' = [th EXCEPT ![t] = c]
    BY <1>8, <1>10, <1>11 DEF EngineTypeOK
  <1>15. th' \in [Threads -> Callers] /\ th'[t] = c /\ \A u \in Threads \ {t} : th'[u] = th[u]
    BY <1>13, <1>14, OneThread
  <1>16. desc' \in [1 .. MaxDesc -> Descs]
    <2>1. \A i \in 1 .. MaxDesc : [of |-> <<r, m + i>>, stop |-> i = n] \in Descs
      BY <1>4 DEF Descs
    <2> QED
      BY <1>8, <2>1 DEF EngineTypeOK
  <1>17. EngineTypeOK'
    BY <1>1, <1>10, <1>15, <1>16 DEF EngineTypeOK
  <1>18. /\ Using(t)' /\ ~ Queued(t)' /\ Xfer(t)' = f /\ Before(t)' = m
         /\ \A u \in Threads \ {t} : ~ Using(u)' /\ ~ Queued(u)'
    <2>1. Using(t)' /\ ~ Queued(t)' /\ \A u \in Threads \ {t} : ~ Using(u)' /\ ~ Queued(u)'
      BY <1>2, <1>13, <1>15 DEF Using, Queued
    <2>2. Xfer(t)' = f
      BY <1>10, <1>13, <1>15 DEF Xfer
    <2>3. Before(t)' = m
      <3>1. Before(t)' = th'[t].next - Xfer(t)'.num
        BY DEF Before
      <3>2. th'[t].next = m + n /\ Xfer(t)'.num = n
        BY <1>9, <1>13, <1>15, <2>2
      <3> QED
        BY <1>4, <1>6, <3>1, <3>2
    <2> QED
      BY <2>1, <2>2, <2>3
  <1>19. LockInv' /\ ListInv'
    BY <1>1, <1>2, <1>18 DEF LockInv, ListInv
  <1>20. RequestsInv'
    <2>1. \A u \in Threads : (th'[u].pc # "idle" <=> th[u].pc # "idle") /\ th'[u].req = th[u].req
      BY <1>1, <1>3, <1>13, <1>15
    <2>2. ASSUME NEW u \in Threads, th'[u].pc # "idle"
          PROVE  th'[u].next <= reqs[th[u].req].n /\ (th'[u].pc = "lock" => th'[u].next < reqs[th[u].req].n)
      <3>1. CASE u = t
        BY <1>3, <1>6, <1>13, <1>15, <3>1
      <3>2. CASE u # t
        BY <1>15, <2>2, <3>2 DEF RequestsInv
      <3> QED
        BY <3>1, <3>2
    <2> QED
      BY <1>1, <2>1, <2>2 DEF RequestsInv
  <1>21. TransferInv'
    <2>1. \A i \in 1 .. n : desc'[i] = [of |-> <<r, m + i>>, stop |-> i = n]
      BY <1>4, <1>6, <1>8
    <2>2. n <= m + n
      BY <1>4, <1>6
    <2> QED
      BY <1>1, <1>3, <1>9, <1>10, <1>13, <1>15, <1>18, <2>1, <2>2 DEF TransferInv
  <1>22. MovedInv'
    <2>1. \A a, b : MovedUpTo(a, b)' <=> MovedUpTo(a, b)
      BY <1>1 DEF MovedUpTo
    <2>2. \A u \in Threads : th'[u].pc = "lock" => th'[u] = th[u] /\ th[u].pc = "lock"
      BY <1>13, <1>15
    <2>3. ~ lost => MovedUpTo(r, m)
      BY <1>1, <1>3 DEF MovedInv
    <2> QED
      BY <1>1, <1>13, <1>15, <1>18, <2>1, <2>2, <2>3 DEF MovedInv
  <1>23. ServeInv'
    BY <1>1, <1>2 DEF ServeInv
  <1> QED
    BY <1>17, <1>19, <1>20, <1>21, <1>22, <1>23

\* A thread that returns or goes on: no transfer is in use or in the list any more.
LEMMA LeaveStep ==
  ASSUME EngineInv, NEW t \in Threads, descLock = t, descLock' = Nobody, NEW q \in Requests, NEW p \in {"idle", "lock"},
         reqs' = [reqs EXCEPT ![th[t].req] = q], th' = [th EXCEPT ![t].pc = p], q.n = reqs[th[t].req].n,
         q.maps = IF q.rv = "pending" /\ q.held THEN 1 ELSE 0,
         p = "lock" => q.rv = "pending" /\ q.held /\ th[t].next < q.n,
         ~ lost' => ~ lost /\ (q.rv = "ok" => MovedUpTo(th[t].req, q.n)) /\ (p = "lock" => MovedUpTo(th[t].req, th[t].next)),
         list' = << >>, xfers' \in Seq(Transfers), hw' \in EngineChannels, desc' \in [1 .. MaxDesc -> Descs], status' \in [busy : BOOLEAN, err : BOOLEAN],
         lost' \in BOOLEAN, UNCHANGED <<emode, wb, running, dequeued, moved>>, ServeInv'
  PROVE  EngineInv'
  <1> USE DEF EngineInv
  <1>1. PICK r, c : r = th[t].req /\ c = [th[t] EXCEPT !.pc = p]
    OBVIOUS
  <1>2. th[t] \in Callers /\ Using(t) /\ th[t].pc # "idle"
    BY DEF EngineTypeOK, LockInv, Using
  <1>3. c \in Callers /\ c.pc = p /\ c.req = r /\ c.next = th[t].next
    BY <1>1, <1>2 DEF Callers
  <1>4. th' = [th EXCEPT ![t] = c]
    BY <1>1 DEF EngineTypeOK
  <1>5. th' \in [Threads -> Callers] /\ th'[t] = c /\ \A u \in Threads \ {t} : th'[u] = th[u]
    BY <1>3, <1>4, OneThread
  <1>6. r \in DOMAIN reqs
    BY <1>1, <1>2 DEF RequestsInv
  <1>7. reqs' \in Seq(Requests) /\ DOMAIN reqs' = DOMAIN reqs /\ reqs'[r] = q /\ \A s \in DOMAIN reqs \ {r} : reqs'[s] = reqs[s]
    BY <1>1, <1>6 DEF EngineTypeOK
  <1>8. EngineTypeOK'
    BY <1>5, <1>7 DEF EngineTypeOK
  <1>9. \A u \in Threads : ~ Using(u)' /\ ~ Queued(u)'
    BY <1>3, <1>5 DEF LockInv, Using, Queued
  <1>10. LockInv' /\ ListInv' /\ TransferInv'
    BY <1>9, EngineAssumption DEF LockInv, ListInv, TransferInv, Nobody
  <1>11. ASSUME NEW u \in Threads \ {t}, th'[u].pc # "idle"
         PROVE  th'[u] = th[u] /\ th[u].pc # "idle" /\ th[u].req \in DOMAIN reqs \ {r} /\ reqs'[th[u].req] = reqs[th[u].req]
    BY <1>1, <1>2, <1>5, <1>7, <1>11 DEF RequestsInv
  <1>12. RequestsInv'
    <2>1. \A s \in DOMAIN reqs' : reqs'[s].maps = IF reqs'[s].rv = "pending" /\ reqs'[s].held THEN 1 ELSE 0
      BY <1>7 DEF RequestsInv
    <2>2. ASSUME NEW u \in Threads, th'[u].pc # "idle"
          PROVE  /\ th'[u].req \in DOMAIN reqs' /\ reqs'[th'[u].req].rv = "pending" /\ reqs'[th'[u].req].held
                 /\ \A v \in Threads \ {u} : th'[v].pc # "idle" => th'[v].req # th'[u].req
                 /\ th'[u].next <= reqs'[th'[u].req].n /\ (th'[u].pc = "lock" => th'[u].next < reqs'[th'[u].req].n)
      <3>1. CASE u = t
        <4>1. p = "lock" /\ th'[u].req = r /\ th'[u].next = th[t].next
          BY <1>3, <1>5, <2>2, <3>1
        <4>2. th[t].next <= q.n
          BY <1>1, <1>2 DEF RequestsInv
        <4> QED
          BY <1>6, <1>7, <1>11, <3>1, <4>1, <4>2
      <3>2. CASE u # t
        <4>1. th'[u] = th[u] /\ th[u].pc # "idle" /\ th[u].req \in DOMAIN reqs \ {r} /\ reqs'[th[u].req] = reqs[th[u].req]
          BY <1>11, <2>2, <3>2
        <4>2. ASSUME NEW v \in Threads \ {u}, th'[v].pc # "idle" PROVE th'[v].req # th'[u].req
          <5>1. th'[v].req = th[v].req /\ th[v].pc # "idle"
            BY <1>1, <1>2, <1>3, <1>5, <4>2
          <5>2. th[v].req # th[u].req
            BY <4>1, <5>1 DEF RequestsInv
          <5> QED
            BY <4>1, <5>1, <5>2
        <4> QED
          BY <1>7, <4>1, <4>2 DEF RequestsInv
      <3> QED
        BY <3>1, <3>2
    <2> QED
      BY <2>1, <2>2 DEF RequestsInv
  <1>13. MovedInv'
    <2>1. \A a, b : MovedUpTo(a, b)' <=> MovedUpTo(a, b)
      BY DEF MovedUpTo
    <2> SUFFICES ASSUME ~ lost', ~ lost PROVE MovedInv'
      BY DEF MovedInv
    <2>2. \A s \in DOMAIN reqs' : reqs'[s].rv = "ok" => MovedUpTo(s, reqs'[s].n)
      BY <1>1, <1>7 DEF MovedInv
    <2>3. \A u \in Threads : th'[u].pc = "lock" => MovedUpTo(th'[u].req, th'[u].next)
      BY <1>1, <1>3, <1>5 DEF MovedInv
    <2> QED
      BY <1>9, <2>1, <2>2, <2>3 DEF MovedInv
  <1> QED
    BY <1>8, <1>10, <1>12, <1>13

\* What a thread that holds desc_lock has: its request is pending and mapped once.
LEMMA HolderHas ==
  ASSUME EngineInv, NEW t \in Threads, Using(t)
  PROVE  /\ descLock = t /\ th[t] \in Callers /\ th[t].req \in DOMAIN reqs /\ reqs[th[t].req] \in Requests
         /\ reqs[th[t].req].rv = "pending" /\ reqs[th[t].req].held /\ reqs[th[t].req].maps = 1
         /\ th[t].x \in DOMAIN xfers /\ Xfer(t) \in Transfers
         /\ \A u \in Threads \ {t} : ~ Using(u) /\ ~ Queued(u)
  <1> USE DEF EngineInv
  <1>1. descLock = t /\ th[t].pc # "idle" /\ \A u \in Threads \ {t} : ~ Using(u)
    BY DEF LockInv, Using
  <1>2. th[t] \in Callers /\ th[t].req \in DOMAIN reqs /\ reqs[th[t].req].rv = "pending" /\ reqs[th[t].req].held /\ reqs[th[t].req].maps = 1
    BY <1>1 DEF RequestsInv, EngineTypeOK
  <1>3. th[t].x \in DOMAIN xfers
    BY DEF TransferInv
  <1>4. reqs[th[t].req] \in Requests /\ Xfer(t) \in Transfers
    BY <1>2, <1>3 DEF EngineTypeOK, Xfer
  <1>5. \A u \in Threads : Queued(u) => Using(u)
    BY DEF Queued, Using
  <1> QED
    BY <1>1, <1>2, <1>3, <1>4, <1>5

\* transfer_queue: refused while the engine is going down, else chained, and the engine started.
LEMMA QueueStep ==
  ASSUME EngineInv, NEW t \in Threads, transfer_queue(t)
  PROVE  EngineInv'
  <1> USE DEF EngineInv
  <1>1. th[t].pc = "queue" /\ Using(t) /\ UNCHANGED <<emode, wb, desc, lost, moved>>
    BY DEF transfer_queue, Using
  <1>2. /\ descLock = t /\ th[t] \in Callers /\ th[t].req \in DOMAIN reqs /\ reqs[th[t].req] \in Requests
        /\ reqs[th[t].req].rv = "pending" /\ reqs[th[t].req].held /\ reqs[th[t].req].maps = 1
        /\ th[t].x \in DOMAIN xfers /\ Xfer(t) \in Transfers
        /\ \A u \in Threads \ {t} : ~ Using(u) /\ ~ Queued(u)
    BY <1>1, HolderHas
  <1>3. list = << >> /\ \A u \in Threads : ~ Queued(u)
    BY <1>1, <1>2, EngineFree
  <1>4. CASE /\ reqs' = [reqs EXCEPT ![th[t].req] = Return(@, "EBUSY")]
             /\ th' = [th EXCEPT ![t].pc = "idle"] /\ descLock' = Nobody
             /\ UNCHANGED <<hw, status, running, dequeued, list, xfers>>
    <2>1. PICK q : q = Return(reqs[th[t].req], "EBUSY")
      OBVIOUS
    <2>2. q \in Requests /\ q.n = reqs[th[t].req].n /\ q.rv = "EBUSY" /\ q.maps = 1 - 1
      BY <1>2, <2>1, Returned
    <2>3. reqs' = [reqs EXCEPT ![th[t].req] = q]
      BY <1>4, <2>1
    <2>4. ServeInv'
      BY <1>1, <1>3, <1>4 DEF ServeInv
    <2>5. /\ xfers' \in Seq(Transfers) /\ hw' \in EngineChannels /\ desc' \in [1 .. MaxDesc -> Descs]
          /\ status' \in [busy : BOOLEAN, err : BOOLEAN] /\ lost' \in BOOLEAN /\ list' = << >>
      BY <1>1, <1>3, <1>4 DEF EngineTypeOK
    <2>6. q.maps = IF q.rv = "pending" /\ q.held THEN 1 ELSE 0
      BY <2>2
    <2> QED
      BY <1>1, <1>2, <1>4, <2>2, <2>3, <2>4, <2>5, <2>6, LeaveStep
  <1>5. CASE /\ xfers' = [xfers EXCEPT ![th[t].x].state = "SUBMITTED"]
             /\ list' = Append(list, th[t].x)
             /\ th' = [th EXCEPT ![t].pc = "wait"]
             /\ running' = TRUE
             /\ IF running THEN UNCHANGED <<hw, status, dequeued>>
                ELSE hw' = Started(hw) /\ status' = [busy |-> TRUE, err |-> FALSE] /\ dequeued' = DequeuedAtStart
             /\ UNCHANGED <<reqs, descLock>>
    <2>1. PICK c, f, x : c = [th[t] EXCEPT !.pc = "wait"] /\ x = th[t].x /\ f = [xfers[x] EXCEPT !.state = "SUBMITTED"]
      OBVIOUS
    <2>2. c \in Callers /\ c.pc = "wait" /\ c.req = th[t].req /\ c.next = th[t].next /\ c.x = x
      BY <1>2, <2>1 DEF Callers
    <2>3. th' = [th EXCEPT ![t] = c]
      BY <1>5, <2>1 DEF EngineTypeOK
    <2>4. th' \in [Threads -> Callers] /\ th'[t] = c /\ \A u \in Threads \ {t} : th'[u] = th[u]
      BY <2>2, <2>3, OneThread
    <2>5. f \in Transfers /\ f.num = Xfer(t).num /\ f.last = Xfer(t).last /\ f.state = "SUBMITTED"
      BY <1>2, <2>1 DEF Transfers, States, Xfer
    <2>6. xfers' = [xfers EXCEPT ![x] = f] /\ x \in DOMAIN xfers
      BY <1>2, <1>5, <2>1 DEF EngineTypeOK
    <2>7. xfers' \in Seq(Transfers) /\ DOMAIN xfers' = DOMAIN xfers /\ xfers'[x] = f
      BY <2>5, <2>6 DEF EngineTypeOK
    <2>8. list' = <<x>>
      BY <1>3, <1>5, <2>1
    <2>9. hw' = hw \/ hw' = Started(hw)
      BY <1>5
    <2>10. Cleared \in Descs
      BY DEF Cleared, Descs
    <2>11. hw' \in EngineChannels /\ (hw'.cur # Cleared => hw'.busy)
      <3>1. hw \in EngineChannels /\ (hw.cur # Cleared => hw.busy)
        BY DEF EngineTypeOK, ServeInv
      <3>2. 1 \in Nat \ {0} /\ 0 \in Nat
        OBVIOUS
      <3> QED
        BY <2>9, <2>10, <3>1, <3>2 DEF Started, EngineChannels
    <2>12. EngineTypeOK'
      <3>1. status' \in [busy : BOOLEAN, err : BOOLEAN]
        <4>1. status' = status \/ status' = [busy |-> TRUE, err |-> FALSE]
          BY <1>5
        <4>2. [busy |-> TRUE, err |-> FALSE] \in [busy : BOOLEAN, err : BOOLEAN]
          BY Zenon
        <4> QED
          BY <4>1, <4>2 DEF EngineTypeOK
      <3>2. dequeued' \in Nat
        BY <1>5 DEF EngineTypeOK, DequeuedAtStart
      <3> QED
        BY <1>1, <1>5, <2>4, <2>7, <2>11, <3>1, <3>2 DEF EngineTypeOK
    <2>13. /\ Using(t)' /\ Queued(t)' /\ Xfer(t)' = f
           /\ \A u \in Threads \ {t} : ~ Using(u)' /\ ~ Queued(u)'
      BY <1>2, <2>2, <2>4, <2>7 DEF Using, Queued, Xfer
    <2>14. Before(t)' = Before(t)
      BY <2>2, <2>4, <2>5, <2>13 DEF Before
    <2>15. LockInv'
      BY <1>2, <1>5, <2>13 DEF LockInv
    <2>16. ListInv'
      BY <2>2, <2>4, <2>5, <2>8, <2>13 DEF ListInv
    <2>17. RequestsInv'
      <3>1. \A u \in Threads : /\ (th'[u].pc # "idle" <=> th[u].pc # "idle") /\ th'[u].req = th[u].req /\ th'[u].next = th[u].next
                               /\ (th'[u].pc = "lock" => th[u].pc = "lock")
        BY <1>1, <2>2, <2>4
      <3> QED
        BY <1>5, <3>1 DEF RequestsInv
    <2>18. TransferInv'
      <3>1. /\ Xfer(t).num <= th[t].next /\ (Xfer(t).last <=> th[t].next = reqs[th[t].req].n)
            /\ \A i \in 1 .. Xfer(t).num : desc[i] = [of |-> <<th[t].req, Before(t) + i>>, stop |-> i = Xfer(t).num]
        BY <1>1 DEF TransferInv
      <3>2. /\ th'[t].x \in DOMAIN xfers' /\ Xfer(t)'.num = Xfer(t).num /\ Xfer(t)'.last = Xfer(t).last
            /\ th'[t].next = th[t].next /\ th'[t].req = th[t].req
        BY <2>2, <2>4, <2>5, <2>6, <2>7, <2>13
      <3> QED
        BY <1>1, <1>5, <2>13, <2>14, <3>1, <3>2 DEF TransferInv
    <2>19. \A a, b : MovedUpTo(a, b)' <=> MovedUpTo(a, b)
      BY <1>1 DEF MovedUpTo
    <2>20. MovedInv'
      <3>1. \A u \in Threads : th'[u].pc = "lock" => th'[u] = th[u]
        BY <2>2, <2>4
      <3> QED
        BY <1>1, <1>5, <2>2, <2>4, <2>5, <2>13, <2>14, <2>19, <3>1 DEF MovedInv
    <2>21. ASSUME ~ lost PROVE dequeued' = 0 /\ Serves(t)'
      <3>1. ~ running /\ wb.count = 0 /\ MovedUpTo(th[t].req, Before(t))
        BY <1>1, <1>3, <2>21 DEF ServeInv, MovedInv
      <3>2. dequeued' = 0 /\ hw' = Started(hw)
        BY <1>5, <3>1 DEF DequeuedAtStart
      <3>3. hw'.pos = 1 /\ hw'.count = 0 /\ hw'.cur = Cleared
        BY <3>2 DEF Started, EngineTypeOK, EngineChannels
      <3>4. f.num \in Nat /\ f.num > 0 /\ Before(t) \in Int
        BY <1>2, <2>5, EngineAssumption DEF Transfers, Before, Callers
      <3>5. 0 <= f.num /\ 0 < f.num /\ Before(t) + 0 = Before(t)
        BY <3>4
      <3>6. MovedUpTo(th'[t].req, Before(t)' + hw'.count)
        BY <2>2, <2>4, <2>14, <3>1, <3>3, <3>5
      <3>7. hw'.count <= Xfer(t)'.num /\ (hw'.busy => hw'.count < Xfer(t)'.num) /\ hw'.pos = hw'.count + 1
        BY <2>13, <3>3, <3>5
      <3>8. wb'.count = 0 /\ th'[t].pc # "service"
        BY <1>1, <2>2, <2>4, <3>1
      <3>9. MovedUpTo(th[t].req, Before(t) + hw.count)'
        BY <3>6, <1>1 DEF MovedUpTo
      <3> QED
        BY <3>2, <3>3, <3>7, <3>8, <3>9 DEF Serves
    <2>22. ServeInv'
      BY <1>1, <1>2, <1>5, <2>8, <2>11, <2>21 DEF ServeInv
    <2> QED
      BY <2>12, <2>15, <2>16, <2>17, <2>18, <2>20, <2>22
  <1> QED
    BY <1>4, <1>5 DEF transfer_queue

\* The end of a transfer: completed, failed, or given up.
LEMMA FinishStep ==
  ASSUME EngineInv, NEW t \in Threads, Finish(t)
  PROVE  EngineInv'
  <1> USE DEF EngineInv
  <1>1. PICK x, r, s : x = th[t].x /\ r = th[t].req /\ s = xfers[x].state
    OBVIOUS
  <1>2. /\ th[t].pc \in {"check", "wait"} /\ s \in {"COMPLETED", "FAILED", "SUBMITTED"}
        /\ desc' = [i \in 1 .. MaxDesc |-> Cleared] /\ descLock' = Nobody
        /\ UNCHANGED <<emode, wb, running, dequeued, moved>>
    BY <1>1 DEF Finish
  <1>3. Using(t) /\ Queued(t)
    BY <1>2 DEF Using, Queued
  <1>4. /\ descLock = t /\ th[t] \in Callers /\ r \in DOMAIN reqs /\ reqs[r] \in Requests
        /\ reqs[r].rv = "pending" /\ reqs[r].held /\ reqs[r].maps = 1
        /\ x \in DOMAIN xfers /\ Xfer(t) = xfers[x] /\ \A u \in Threads \ {t} : ~ Queued(u)
    BY <1>1, <1>3, HolderHas DEF Xfer
  <1>5. /\ list = << >> \/ (list = <<x>> /\ s = "SUBMITTED")
        /\ xfers[x].last <=> th[t].next = reqs[r].n
        /\ th[t].next \in Nat /\ reqs[r].n \in Nat /\ th[t].next <= reqs[r].n
    <2>1. list = << >> \/ (list = <<x>> /\ s = "SUBMITTED")
      BY <1>1, <1>4 DEF ListInv, Xfer
    <2>2. xfers[x].last <=> th[t].next = reqs[r].n
      BY <1>1, <1>3, <1>4 DEF TransferInv
    <2>3. th[t].next <= reqs[r].n
      BY <1>1, <1>2 DEF RequestsInv
    <2> QED
      BY <1>4, <2>1, <2>2, <2>3 DEF Callers, Requests
  <1>6. desc' \in [1 .. MaxDesc -> Descs]
    <2>1. Cleared \in Descs
      BY DEF Cleared, Descs
    <2> QED
      BY <1>2, <2>1
  <1>7. ASSUME NEW rv \in {"ok", "EIO", "ERESTARTSYS"}, reqs' = [reqs EXCEPT ![r] = Return(Destroyed(@, x), rv)]
        PROVE  \E q \in Requests : q.n = reqs[r].n /\ q.rv = rv /\ q.maps = 0 /\ reqs' = [reqs EXCEPT ![r] = q]
    <2>1. PICK q : q = Return(Destroyed(reqs[r], x), rv)
      OBVIOUS
    <2>2. q \in Requests /\ q.n = reqs[r].n /\ q.rv = rv /\ q.maps = 0
      BY <1>4, <2>1, ReturnedClean
    <2>3. reqs' = [reqs EXCEPT ![r] = q]
      BY <1>7, <2>1
    <2> QED
      BY <2>2, <2>3
  <1>8. ASSUME s # "SUBMITTED", UNCHANGED <<hw, list, xfers, status, lost>>
        PROVE  /\ list' = << >> /\ xfers' \in Seq(Transfers) /\ hw' \in EngineChannels /\ lost' \in BOOLEAN
               /\ status' \in [busy : BOOLEAN, err : BOOLEAN] /\ ServeInv'
    <2>1. list = << >>
      BY <1>5, <1>8
    <2>2. ServeInv'
      BY <1>2, <1>8, <2>1 DEF ServeInv
    <2> QED
      BY <1>8, <2>1, <2>2 DEF EngineTypeOK
  <1>9. CASE /\ s = "COMPLETED" /\ xfers[x].last
             /\ reqs' = [reqs EXCEPT ![r] = Return(Destroyed(@, x), "ok")] /\ th' = [th EXCEPT ![t].pc = "idle"]
             /\ UNCHANGED <<hw, list, xfers, status, lost>>
    <2>1. PICK q \in Requests : q.n = reqs[r].n /\ q.rv = "ok" /\ q.maps = 0 /\ reqs' = [reqs EXCEPT ![r] = q]
      BY <1>7, <1>9
    <2>2. ~ lost => MovedUpTo(r, q.n)
      BY ZenonT(30), <1>1, <1>3, <1>4, <1>5, <1>9, <2>1 DEF MovedInv
    <2>3. /\ list' = << >> /\ xfers' \in Seq(Transfers) /\ hw' \in EngineChannels /\ lost' \in BOOLEAN
          /\ status' \in [busy : BOOLEAN, err : BOOLEAN] /\ ServeInv'
      BY <1>8, <1>9
    <2>4. q.maps = IF q.rv = "pending" /\ q.held THEN 1 ELSE 0
      BY <2>1
    <2>5. /\ descLock = t /\ descLock' = Nobody /\ reqs' = [reqs EXCEPT ![th[t].req] = q] /\ th' = [th EXCEPT ![t].pc = "idle"]
          /\ q.n = reqs[th[t].req].n /\ UNCHANGED <<emode, wb, running, dequeued, moved>>
          /\ ~ lost' => ~ lost /\ MovedUpTo(th[t].req, q.n)
      BY <1>1, <1>2, <1>4, <1>9, <2>1, <2>2
    <2> QED
      BY <1>6, <2>1, <2>3, <2>4, <2>5, LeaveStep
  <1>10. CASE /\ s = "COMPLETED" /\ ~ xfers[x].last
              /\ reqs' = [reqs EXCEPT ![r] = Destroyed(@, x)] /\ th' = [th EXCEPT ![t].pc = "lock"]
              /\ UNCHANGED <<hw, list, xfers, status, lost>>
    <2>1. Destroyed(reqs[r], x) = reqs[r]
      BY <1>10 DEF Destroyed
    <2>2. reqs' = [reqs EXCEPT ![r] = reqs[r]]
      BY <1>10, <2>1
    <2>3. ~ lost => MovedUpTo(r, th[t].next)
      BY <1>1, <1>3, <1>4, <1>10 DEF MovedInv
    <2>4. th[t].next < reqs[r].n
      BY <1>5, <1>10
    <2>5. /\ list' = << >> /\ xfers' \in Seq(Transfers) /\ hw' \in EngineChannels /\ lost' \in BOOLEAN
          /\ status' \in [busy : BOOLEAN, err : BOOLEAN] /\ ServeInv'
      BY <1>8, <1>10
    <2>6. PICK q \in Requests : q = reqs[r]
      BY <1>4
    <2>7. reqs' = [reqs EXCEPT ![r] = q] /\ q.n = reqs[r].n /\ q.rv = "pending" /\ q.held /\ q.maps = 1 /\ th[t].next < q.n
      BY <1>4, <2>2, <2>4, <2>6
    <2>8. q.maps = IF q.rv = "pending" /\ q.held THEN 1 ELSE 0
      BY <2>7
    <2>9. /\ descLock = t /\ descLock' = Nobody /\ reqs' = [reqs EXCEPT ![th[t].req] = q] /\ th' = [th EXCEPT ![t].pc = "lock"]
          /\ q.n = reqs[th[t].req].n /\ UNCHANGED <<emode, wb, running, dequeued, moved>>
          /\ ~ lost' => ~ lost /\ MovedUpTo(th[t].req, th[t].next)
      BY <1>1, <1>2, <1>4, <1>10, <2>3, <2>7
    <2> QED
      BY <1>6, <2>5, <2>7, <2>8, <2>9, LeaveStep
  <1>11. CASE /\ s = "FAILED"
              /\ reqs' = [reqs EXCEPT ![r] = Return(Destroyed(@, x), "EIO")] /\ th' = [th EXCEPT ![t].pc = "idle"]
              /\ UNCHANGED <<hw, list, xfers, status, lost>>
    <2>1. PICK q \in Requests : q.n = reqs[r].n /\ q.rv = "EIO" /\ q.maps = 0 /\ reqs' = [reqs EXCEPT ![r] = q]
      BY <1>7, <1>11
    <2>2. /\ list' = << >> /\ xfers' \in Seq(Transfers) /\ hw' \in EngineChannels /\ lost' \in BOOLEAN
          /\ status' \in [busy : BOOLEAN, err : BOOLEAN] /\ ServeInv'
      BY <1>8, <1>11
    <2>3. q.maps = IF q.rv = "pending" /\ q.held THEN 1 ELSE 0
      BY <2>1
    <2>4. /\ descLock = t /\ descLock' = Nobody /\ reqs' = [reqs EXCEPT ![th[t].req] = q] /\ th' = [th EXCEPT ![t].pc = "idle"]
          /\ q.n = reqs[th[t].req].n /\ UNCHANGED <<emode, wb, running, dequeued, moved>>
          /\ ~ lost' => ~ lost
      BY <1>1, <1>2, <1>4, <1>11, <2>1
    <2> QED
      BY <1>6, <2>1, <2>2, <2>3, <2>4, LeaveStep
  <1>12. CASE /\ s = "SUBMITTED"
              /\ status' = [busy |-> hw.busy, err |-> hw.err]
              /\ list' = transfer_abort(x)
              /\ xfers' = [xfers EXCEPT ![x].state = "ABORTED"]
              /\ hw' = xdma_engine_stop(hw)
              /\ reqs' = [reqs EXCEPT ![r] = Return(Destroyed(@, x), "ERESTARTSYS")] /\ th' = [th EXCEPT ![t].pc = "idle"]
              /\ lost' = TRUE
    <2>1. PICK q \in Requests : q.n = reqs[r].n /\ q.rv = "ERESTARTSYS" /\ q.maps = 0 /\ reqs' = [reqs EXCEPT ![r] = q]
      BY <1>7, <1>12
    <2>2. list' = << >>
      <3>1. CASE list = << >>
        BY <1>12, <3>1 DEF transfer_abort
      <3>2. CASE list = <<x>>
        BY <1>12, <3>2 DEF transfer_abort
      <3> QED
        BY <1>5, <3>1, <3>2
    <2>3. PICK f : f = [xfers[x] EXCEPT !.state = "ABORTED"]
      OBVIOUS
    <2>4. xfers[x] \in Transfers
      BY <1>4 DEF EngineTypeOK
    <2>5. f \in Transfers
      BY <2>3, <2>4 DEF Transfers, States
    <2>6. xfers' = [xfers EXCEPT ![x] = f]
      BY <1>12, <2>3
    <2>7. xfers' \in Seq(Transfers)
      BY <1>4, <2>5, <2>6 DEF EngineTypeOK
    <2>8. hw \in EngineChannels /\ (hw.cur # Cleared => hw.busy)
      BY DEF EngineTypeOK, ServeInv
    <2>9. hw' \in EngineChannels /\ (hw'.cur # Cleared => hw'.busy)
      BY <1>12, <2>8 DEF xdma_engine_stop, EngineChannels
    <2>10. hw.busy \in BOOLEAN /\ hw.err \in BOOLEAN
      BY <2>8 DEF EngineChannels
    <2>11. status' \in [busy : BOOLEAN, err : BOOLEAN]
      BY <1>12, <2>10
    <2>12. ServeInv'
      BY <1>2, <1>12, <2>9 DEF ServeInv
    <2>13. q.maps = IF q.rv = "pending" /\ q.held THEN 1 ELSE 0
      BY <2>1
    <2>14. lost' \in BOOLEAN
      BY <1>12
    <2>15. /\ descLock = t /\ descLock' = Nobody /\ reqs' = [reqs EXCEPT ![th[t].req] = q] /\ th' = [th EXCEPT ![t].pc = "idle"]
          /\ q.n = reqs[th[t].req].n /\ UNCHANGED <<emode, wb, running, dequeued, moved>>
      BY <1>1, <1>2, <1>4, <1>12, <2>1
    <2>16. /\ list' = << >> /\ xfers' \in Seq(Transfers) /\ hw' \in EngineChannels /\ lost' \in BOOLEAN
           /\ status' \in [busy : BOOLEAN, err : BOOLEAN] /\ ServeInv'
      BY <2>2, <2>7, <2>9, <2>11, <2>12, <2>14
    <2>17. ~ lost' => ~ lost /\ (q.rv = "ok" => MovedUpTo(th[t].req, q.n)) /\ ("idle" = "lock" => MovedUpTo(th[t].req, th[t].next))
      BY <1>12
    <2>18. "idle" = "lock" => q.rv = "pending" /\ q.held /\ th[t].next < q.n
      OBVIOUS
    <2> QED
      BY <1>6, <2>1, <2>13, <2>15, <2>16, <2>17, <2>18, LeaveStep
  <1> QED
    BY <1>1, <1>9, <1>10, <1>11, <1>12 DEF Finish

\* Every step of the driver, its threads and the device keeps the invariant.
LEMMA EngineStep ==
  ASSUME EngineInv, [NextEngine]_evars
  PROVE  EngineInv'
  <1>1. CASE Device
    <2>1. UNCHANGED <<emode, desc, status, running, dequeued, list, xfers, reqs, th, descLock, lost>>
      BY <1>1 DEF Device
    <2> QED
      BY <1>1, <2>1, FetchStep, ExecStep, FailStep DEF Device
  <1>2. CASE engine_service_work
    BY <1>2, WorkStep
  <1>3. CASE xdma_channel_irq \/ OfflineFlag \/ OfflineEngine \/ OnlineEngine \/ UNCHANGED evars
    BY <1>3, StopStep
  <1>4. ASSUME NEW t \in Threads, Submit(t) \/ ThreadStep(t)
        PROVE  EngineInv'
    BY <1>4, SubmitStep, TransferStep, QueueStep, WaitEnds, PollStep, FinishStep DEF ThreadStep
  <1> QED
    BY <1>1, <1>2, <1>3, <1>4 DEF NextEngine

\* The invariant gives both properties.
LEMMA EngineReports ==
  ASSUME EngineInv
  PROVE  ReportsTrue
  BY DEF EngineInv, MovedInv, MovedUpTo, ReportsTrue, Moved

LEMMA EngineKeepsClean ==
  ASSUME EngineInv
  PROVE  EngineClean
  <1> USE DEF EngineInv
  <1>1. NoDanglingTransfer
    <2>1. CASE list = << >>
      BY <2>1 DEF NoDanglingTransfer
    <2>2. CASE list # << >>
      <3>1. PICK t \in Threads : Queued(t) /\ list = <<th[t].x>>
        BY <2>2 DEF ListInv
      <3>2. descLock = t
        BY <3>1 DEF LockInv, Using, Queued
      <3>3. \A i \in DOMAIN list : list[i] = th[t].x
        BY <3>1
      <3> QED
        BY <3>1, <3>2, <3>3 DEF NoDanglingTransfer, Queued
    <2> QED
      BY <2>1, <2>2
  <1>2. ASSUME ~ lost, hw.cur # Cleared PROVE reqs[hw.cur.of[1]].held
    <2>1. hw.busy
      BY <1>2 DEF ServeInv
    <2>2. list # << >>
      BY <1>2, <2>1, DeviceTransfer
    <2>3. PICK t \in Threads : Queued(t)
      BY <2>2 DEF ListInv
    <2>4. Using(t)
      BY <2>3 DEF Using, Queued
    <2>5. descLock = t /\ reqs[th[t].req].held
      BY <2>4, HolderHas
    <2>6. /\ Serves(t)
          /\ desc[hw.count + 1] = [of |-> <<th[t].req, Before(t) + (hw.count + 1)>>, stop |-> hw.count + 1 = Xfer(t).num]
      BY <1>2, <2>1, <2>5, DeviceTransfer
    <2>7. hw.cur = desc[hw.count + 1]
      BY <1>2, <2>1, <2>6 DEF Serves
    <2>8. hw.cur.of[1] = th[t].req
      BY <2>6, <2>7
    <2> QED
      BY <2>5, <2>8
  <1>3. BuffersUnmappedOnce
    BY <1>2 DEF BuffersUnmappedOnce, RequestsInv
  <1> QED
    BY <1>1, <1>3 DEF EngineClean

\* For every number of threads, every sizes of requests and every length of the descriptor ring,
\* xdma_xfer_submit reports success only when the device has moved the data of all the request's
\* descriptors, unless some transfer was given up while the engine could still be busy with it
\* (libxdma.c:2959-3140, with engine_service and both ways to learn of a completion).
THEOREM ReportsAreTrue == SpecEngine => []ReportsTrue
  <1>1. InitEngine => EngineInv
    BY InitStep
  <1>2. EngineInv /\ [NextEngine]_evars => EngineInv'
    BY EngineStep
  <1>3. EngineInv => ReportsTrue
    BY EngineReports
  <1> QED
    BY <1>1, <1>2, <1>3, PTL DEF SpecEngine

\* For the same engines: the transfer list never holds a transfer whose request has returned, and
\* every request is unmapped exactly once, on every way out, and not while the device works on one
\* of its descriptors (libxdma.c:2323-2346, 2760-2780, 2959-3140).
THEOREM EngineStaysClean == SpecEngine => []EngineClean
  <1>1. InitEngine => EngineInv
    BY InitStep
  <1>2. EngineInv /\ [NextEngine]_evars => EngineInv'
    BY EngineStep
  <1>3. EngineInv => EngineClean
    BY EngineKeepsClean
  <1> QED
    BY <1>1, <1>2, <1>3, PTL DEF SpecEngine

-----------------------------------------------------------------------------
(* XdmaDevice.                                                             *)

ProbeSteps == {"enable", "regions", "bars", "mask", "vectors", "irqs", "isr", "cdevs"}
Running == {"open", "frozen", "reset"}
Singles == {"xpdev", "list", "enable", "regions", "bars", "vectors"}

DeviceTypeOK ==
  /\ dmode.irq \in {"msix", "msi", "legacy"} /\ dmode.poll \in BOOLEAN
  /\ pc \in ProbeSteps \cup Running \cup {"none"}
  /\ chan \in [{"h2c", "c2h"} -> 0 .. Channels]
  /\ held = [r \in Resources |-> held[r]]
  /\ off \in BOOLEAN /\ irqsUp \in BOOLEAN
  /\ irqOnD = [channel |-> irqOnD.channel, user |-> irqOnD.user]

\* The lines that a successful irq_setup requests.
AllLines == IF dmode.irq = "msix" THEN ActiveEngines \cup UserLines ELSE {OneLine}

\* What the driver holds at each step of probe_one and later.
Has(r) ==
  CASE r[1] \in {"xpdev", "list"} -> pc # "none"
    [] r[1] = "enable" -> pc \notin {"none", "enable", "frozen"}
    [] r[1] = "regions" -> pc \notin {"none", "enable", "regions"}
    [] r[1] = "bars" -> pc \notin {"none", "enable", "regions", "bars"}
    [] r[1] = "engine" -> pc \notin {"none", "enable", "regions", "bars", "mask"} /\ <<r[2], r[3]>> \in ActiveEngines
    [] r[1] = "vectors" -> pc \notin {"none", "enable", "regions", "bars", "mask", "vectors"} /\ dmode.irq # "legacy"
    [] r[1] = "irq" -> irqsUp /\ <<r[2], r[3]>> \in AllLines
    [] r[1] = "cdev" -> pc \in Running /\ r \in CdevOf(groups) \cup {Major}

HeldInv == \A r \in Resources : r[1] \notin trouble => held[r] = IF Has(r) THEN 1 ELSE 0

\* The lines are up from irq_setup until the device goes offline, and a teardown finds them all.
LinesInv ==
  /\ irqsUp => pc \in {"isr", "cdevs", "open"} /\ Freed = AllLines
  /\ pc \in {"isr", "cdevs"} => irqsUp

\* The enabled user interrupts are those of the mask, or none.
MaskInv ==
  /\ pc \in {"enable", "regions", "bars", "mask", "vectors", "irqs", "isr"} => userMask = {}
  /\ pc \in {"vectors", "irqs", "isr"} => irqOnD.user = {}
  /\ pc = "isr" => irqOnD.channel = ~ dmode.poll
  /\ pc \in {"isr", "cdevs"} => ~ off
  /\ pc \in {"frozen", "reset"} => off
  /\ off /\ pc \in Running => irqOnD.user = {}

DeviceInv == DeviceTypeOK /\ HeldInv /\ LinesInv /\ MaskInv /\ InterruptsRestored /\ BarsSeparate

\* Each kind of resource has a form of its own.
LEMMA KindsApart ==
  ASSUME NEW r \in Resources
  PROVE  /\ r = <<r[1], r[2], r[3]>>
         /\ r[1] \in Singles \cup {"engine", "irq", "cdev"}
         /\ r[1] \in Singles => r = <<r[1], r[1], 0>>
         /\ r[1] = "engine" => <<r[2], r[3]>> \in Engines
  <1>1. CASE r \in Single(Singles)
    <2>1. PICK n \in Singles : r = <<n, n, 0>>
      BY <1>1 DEF Single
    <2> QED
      BY <2>1 DEF Singles
  <1>2. CASE r \in EngineRes(Engines)
    <2>1. PICK e \in Engines : r = <<"engine", e[1], e[2]>>
      BY <1>2 DEF EngineRes
    <2>2. e = <<e[1], e[2]>>
      BY DEF Engines
    <2> QED
      BY <2>1, <2>2 DEF Singles
  <1>3. CASE r \in IrqOf(Engines \cup UserLines \cup {OneLine})
    <2>1. PICK e \in Engines \cup UserLines \cup {OneLine} : r = <<"irq", e[1], e[2]>>
      BY <1>3 DEF IrqOf
    <2> QED
      BY <2>1 DEF Singles
  <1>4. CASE r \in ({"cdev"} \X Groups \X (0 .. 2 * Channels + UserMax)) \cup {Major}
    BY <1>4 DEF Major, Singles
  <1> QED
    BY <1>1, <1>2, <1>3, <1>4 DEF Resources, Singles

\* Which resources a set of them holds, by their kind.
LEMMA SingleIs ==
  ASSUME NEW r \in Resources, NEW S \in SUBSET Singles
  PROVE  r \in Single(S) <=> r[1] \in S
  <1>1. ASSUME r \in Single(S) PROVE r[1] \in S
    <2>1. PICK n \in S : r = <<n, n, 0>>
      BY <1>1 DEF Single
    <2> QED
      BY <2>1
  <1>2. ASSUME r[1] \in S PROVE r \in Single(S)
    <2>1. r = <<r[1], r[1], 0>>
      BY <1>2, KindsApart
    <2> QED
      BY <1>2, <2>1 DEF Single
  <1> QED
    BY <1>1, <1>2

LEMMA EngineResIs ==
  ASSUME NEW r \in Resources, NEW S \in SUBSET Engines
  PROVE  r \in EngineRes(S) <=> (r[1] = "engine" /\ <<r[2], r[3]>> \in S)
  <1>1. ASSUME r \in EngineRes(S) PROVE r[1] = "engine" /\ <<r[2], r[3]>> \in S
    <2>1. PICK e \in S : r = <<"engine", e[1], e[2]>>
      BY <1>1 DEF EngineRes
    <2>2. e = <<e[1], e[2]>>
      BY DEF Engines
    <2> QED
      BY <2>1, <2>2
  <1>2. ASSUME r[1] = "engine", <<r[2], r[3]>> \in S PROVE r \in EngineRes(S)
    <2>1. r = <<"engine", <<r[2], r[3]>>[1], <<r[2], r[3]>>[2]>>
      BY <1>2, KindsApart
    <2> QED
      BY <1>2, <2>1 DEF EngineRes
  <1> QED
    BY <1>1, <1>2

Pairs == Engines \cup UserLines \cup {OneLine}

LEMMA IrqOfIs ==
  ASSUME NEW r \in Resources, NEW S \in SUBSET Pairs
  PROVE  r \in IrqOf(S) <=> (r[1] = "irq" /\ <<r[2], r[3]>> \in S)
  <1>1. ASSUME r \in IrqOf(S) PROVE r[1] = "irq" /\ <<r[2], r[3]>> \in S
    <2>1. PICK e \in S : r = <<"irq", e[1], e[2]>>
      BY <1>1 DEF IrqOf
    <2>2. e = <<e[1], e[2]>>
      BY DEF Pairs, Engines, UserLines, OneLine
    <2> QED
      BY <2>1, <2>2
  <1>2. ASSUME r[1] = "irq", <<r[2], r[3]>> \in S PROVE r \in IrqOf(S)
    <2>1. r = <<"irq", <<r[2], r[3]>>[1], <<r[2], r[3]>>[2]>>
      BY <1>2, KindsApart
    <2> QED
      BY <1>2, <2>1 DEF IrqOf
  <1> QED
    BY <1>1, <1>2

\* Whatever the lines are, they are no other kind of resource.
LEMMA IrqOfKind ==
  ASSUME NEW S, NEW r \in IrqOf(S)
  PROVE  r[1] = "irq"
  <1>1. PICK e \in S : r = <<"irq", e[1], e[2]>>
    BY DEF IrqOf
  <1> QED
    BY <1>1

LEMMA CdevKind ==
  ASSUME NEW G, NEW r \in CdevOf(G) \cup {Major}
  PROVE  r[1] = "cdev"
  <1>1. CASE r \in CdevOf(G)
    <2>1. PICK g \in G : r \in Members(g)
      BY <1>1 DEF CdevOf
    <2> QED
      BY <2>1 DEF Members
  <1>2. CASE r = Major
    BY <1>2 DEF Major
  <1> QED
    BY <1>1, <1>2

LEMMA TookIs ==
  ASSUME NEW S, NEW r \in Resources
  PROVE  Took(S)[r] = held[r] + (IF r \in S THEN 1 ELSE 0)
  BY DEF Took

LEMMA GaveIs ==
  ASSUME NEW h, NEW S, NEW r \in Resources
  PROVE  Gave(h, S)[r] = h[r] - (IF r \in S THEN 1 ELSE 0)
  BY DEF Gave

LEMMA CountsTyped ==
  /\ \A S : Took(S) = [r \in Resources |-> Took(S)[r]]
  /\ \A h, S : Gave(h, S) = [r \in Resources |-> Gave(h, S)[r]]
  BY DEF Took, Gave
\* A teardown finds the lines of a successful irq_setup: with MSI-X those of all engines that are
\* set up, since the engines of a direction have the numbers below chan.
LEMMA FreedNext ==
  ASSUME chan' \in [{"h2c", "c2h"} -> 0 .. Channels],
         dmode'.irq = "msix" => ActiveEngines' \subseteq lines',
         dmode'.irq # "msix" => lines' = {OneLine}
  PROVE  Freed' = AllLines'
  <1>1. CASE dmode'.irq # "msix"
    BY <1>1 DEF Freed, AllLines
  <1>2. CASE dmode'.irq = "msix"
    <2> SUFFICES ASSUME NEW e \in ActiveEngines', NEW i \in 0 .. e[2]
                 PROVE  <<e[1], i>> \in ActiveEngines'
      BY <1>2 DEF Freed, AllLines
    <2>1. e \in Engines /\ e[2] < chan'[e[1]] /\ e = <<e[1], e[2]>>
      BY DEF ActiveEngines, Initialised, Engines
    <2>2. e[1] \in {"h2c", "c2h"} /\ e[2] \in 0 .. Channels - 1
      BY <2>1 DEF Engines, Index
    <2> QED
      BY <2>1, <2>2, DeviceAssumption DEF ActiveEngines, Initialised, Engines, Index
  <1> QED
    BY <1>1, <1>2

LEMMA LinesArePairs == AllLines \subseteq Pairs
  BY DEF AllLines, Pairs, ActiveEngines, Initialised

LEMMA DeviceInit ==
  ASSUME InitDevice
  PROVE  DeviceInv
  <1>1. DeviceTypeOK
    <2>1. dmode \in [irq : {"msix", "msi", "legacy"}, poll : BOOLEAN] /\ chan \in [{"h2c", "c2h"} -> 0 .. Channels]
      BY DeviceAssumption DEF InitDevice
    <2>2. irqOnD = [channel |-> irqOnD.channel, user |-> irqOnD.user] /\ held = [r \in Resources |-> held[r]]
      BY DEF InitDevice
    <2> QED
      BY <2>1, <2>2 DEF InitDevice, DeviceTypeOK, Running, ProbeSteps
  <1>2. HeldInv
    <2> SUFFICES ASSUME NEW r \in Resources PROVE ~ Has(r) /\ held[r] = 0
      BY DEF HeldInv
    <2>1. r[1] \in Singles \cup {"engine", "irq", "cdev"}
      BY KindsApart
    <2> QED
      BY <2>1 DEF InitDevice, Has, Singles, Running
  <1>3. LinesInv /\ MaskInv
    BY DEF InitDevice, LinesInv, MaskInv, Running
  <1>4. InterruptsRestored /\ BarsSeparate
    BY DEF InitDevice, InterruptsRestored, BarsSeparate, NoBar
  <1> QED
    BY <1>1, <1>2, <1>3, <1>4 DEF DeviceInv

LEMMA ProbeKeeps ==
  ASSUME DeviceInv, Probe
  PROVE  DeviceInv'
  <1> USE DEF DeviceInv, Probe
  <1>1. DeviceTypeOK'
    BY CountsTyped DEF DeviceTypeOK, ProbeSteps
  <1>2. HeldInv'
    <2> SUFFICES ASSUME NEW r \in Resources, r[1] \notin trouble'
                 PROVE  held'[r] = IF Has(r)' THEN 1 ELSE 0
      BY DEF HeldInv
    <2>1. /\ r[1] \in Singles \cup {"engine", "irq", "cdev"}
          /\ r \in Single({"xpdev", "list"}) <=> r[1] \in {"xpdev", "list"}
          /\ r \in Single({"xpdev"}) <=> r[1] \in {"xpdev"}
      BY KindsApart, SingleIs DEF Singles
    <2>2. ~ Has(r) /\ trouble \subseteq trouble'
      BY <2>1 DEF LinesInv, Has, Running, Singles
    <2>3. held[r] = 0
      BY <2>2 DEF HeldInv
    <2>4. ~ irqsUp'
      OBVIOUS
    <2>5. CASE held' = Took(Single({"xpdev", "list"})) /\ pc' = "enable"
      <3>1. held'[r] = 0 + (IF r[1] \in {"xpdev", "list"} THEN 1 ELSE 0)
        BY <2>1, <2>3, <2>5, TookIs
      <3>2. Has(r)' <=> r[1] \in {"xpdev", "list"}
        BY <2>1, <2>4, <2>5 DEF Has, Singles, Running
      <3> QED
        BY <3>1, <3>2
    <2>6. CASE held' = Took(Single({"xpdev"})) /\ pc' = "none" /\ trouble' = trouble \cup {"xpdev"}
      <3>1. held'[r] = 0 + (IF r[1] \in {"xpdev"} THEN 1 ELSE 0) /\ r[1] # "xpdev"
        BY <2>1, <2>3, <2>6, TookIs
      <3>2. ~ Has(r)'
        BY <2>1, <2>4, <2>6 DEF Has, Singles, Running
      <3> QED
        BY <3>1, <3>2
    <2>7. CASE UNCHANGED <<held, pc, trouble>>
      BY <2>1, <2>3, <2>4, <2>7, TookIs DEF Has, Singles, Running
    <2> QED
      BY <2>5, <2>6, <2>7
  <1>3. LinesInv' /\ MaskInv'
    BY DEF LinesInv, MaskInv, Running
  <1>4. InterruptsRestored' /\ BarsSeparate'
    BY DEF InterruptsRestored, BarsSeparate, NoBar
  <1> QED
    BY <1>1, <1>2, <1>3, <1>4

\* A device that is gone holds nothing.
LEMMA GoneKeeps ==
  ASSUME DeviceInv, pc' = "none", ~ irqsUp', irqsUp' \in BOOLEAN, UNCHANGED <<dmode, chan, bar, off>>,
         irqOnD' = [channel |-> irqOnD'.channel, user |-> irqOnD'.user],
         held' = [r \in Resources |-> held'[r]],
         \A r \in Resources : r[1] \notin trouble' => held'[r] = 0
  PROVE  DeviceInv'
  <1>1. DeviceTypeOK'
    BY DEF DeviceInv, DeviceTypeOK
  <1>2. HeldInv'
    <2> SUFFICES ASSUME NEW r \in Resources, r[1] \notin trouble'
                 PROVE  held'[r] = IF Has(r)' THEN 1 ELSE 0
      BY DEF HeldInv
    <2>1. r[1] \in Singles \cup {"engine", "irq", "cdev"}
      BY KindsApart
    <2>2. ~ Has(r)'
      BY <2>1 DEF Has, Singles, Running
    <2> QED
      BY <2>2
  <1>3. LinesInv' /\ MaskInv' /\ InterruptsRestored'
    BY DEF LinesInv, MaskInv, Running, InterruptsRestored
  <1>4. BarsSeparate'
    BY DEF DeviceInv, BarsSeparate
  <1> QED
    BY <1>1, <1>2, <1>3, <1>4 DEF DeviceInv

\* Each label of xdma_device_open is for the step it is used at: it releases what the steps
\* before have taken, but for xpdev.
LEMMA UnwoundIsAll ==
  ASSUME DeviceInv, NEW r \in Resources, r[1] # "xpdev", NEW label,
         \/ pc = "enable" /\ label = "err_enable"
         \/ pc = "bars" /\ label = "err_map"
         \/ pc = "mask" /\ label = "err_mask"
         \/ pc = "vectors" /\ label = "err_enable_msix"
  PROVE  r \in Unwound(label) <=> Has(r)
  <1>1. /\ r[1] \in Singles \cup {"engine", "irq", "cdev"}
        /\ \A S \in SUBSET Singles : r \in Single(S) <=> r[1] \in S
        /\ r \in EngineRes(ActiveEngines) <=> (r[1] = "engine" /\ <<r[2], r[3]>> \in ActiveEngines)
    <2>1. ActiveEngines \subseteq Engines
      BY DEF ActiveEngines, Initialised
    <2> QED
      BY <2>1, KindsApart, SingleIs, EngineResIs
  <1>2. ~ irqsUp
    BY DEF DeviceInv, LinesInv
  <1>3. CASE pc = "enable" /\ label = "err_enable"
    <2>1. r \in Unwound(label) <=> r[1] = "list"
      BY <1>1, <1>3 DEF Unwound, Singles
    <2> QED
      BY <1>1, <1>2, <1>3, <2>1 DEF Has, Singles, Running
  <1>4. CASE pc = "bars" /\ label = "err_map"
    <2>1. r \in Unwound(label) <=> r[1] \in {"list", "enable", "regions"}
      BY <1>1, <1>4 DEF Unwound, Singles
    <2> QED
      BY <1>1, <1>2, <1>4, <2>1 DEF Has, Singles, Running
  <1>5. CASE pc = "mask" /\ label = "err_mask"
    <2>1. r \in Unwound(label) <=> r[1] \in {"list", "enable", "regions", "bars"}
      BY <1>1, <1>5 DEF Unwound, Singles
    <2> QED
      BY <1>1, <1>2, <1>5, <2>1 DEF Has, Singles, Running
  <1>6. CASE pc = "vectors" /\ label = "err_enable_msix"
    <2>1. r \in Unwound(label) <=>
            (r[1] \in {"list", "enable", "regions", "bars"} \/ (r[1] = "engine" /\ <<r[2], r[3]>> \in ActiveEngines))
      BY <1>1, <1>6 DEF Unwound, Singles
    <2> QED
      BY <1>1, <1>2, <1>6, <2>1 DEF Has, Singles, Running
  <1> QED
    BY <1>3, <1>4, <1>5, <1>6

LEMMA OpenFailsKeeps ==
  ASSUME DeviceInv, NEW label, OpenFails(label), UNCHANGED <<dmode, off, irqOnD>>,
         \/ pc = "enable" /\ label = "err_enable"
         \/ pc = "bars" /\ label = "err_map"
         \/ pc = "mask" /\ label = "err_mask"
         \/ pc = "vectors" /\ label = "err_enable_msix"
  PROVE  DeviceInv'
  <1>1. \A r \in Resources : r[1] \notin trouble' => held'[r] = 0
    <2> SUFFICES ASSUME NEW r \in Resources, r[1] \notin trouble' PROVE held'[r] = 0
      OBVIOUS
    <2>1. r[1] # "xpdev" /\ r[1] \notin trouble
      BY DEF OpenFails
    <2>2. r \in Unwound(label) <=> Has(r)
      BY <2>1, UnwoundIsAll
    <2>3. held[r] = IF Has(r) THEN 1 ELSE 0
      BY <2>1 DEF DeviceInv, HeldInv
    <2>4. held'[r] = held[r] - (IF r \in Unwound(label) THEN 1 ELSE 0)
      BY GaveIs DEF OpenFails
    <2> QED
      BY <2>2, <2>3, <2>4
  <1>2. held' = [r \in Resources |-> held'[r]]
    BY CountsTyped DEF OpenFails
  <1>3. irqsUp' \in BOOLEAN /\ ~ irqsUp'
    BY DEF OpenFails, DeviceInv, DeviceTypeOK, LinesInv
  <1>4. irqOnD' = [channel |-> irqOnD'.channel, user |-> irqOnD'.user]
    BY DEF DeviceInv, DeviceTypeOK
  <1>5. pc' = "none" /\ UNCHANGED <<dmode, chan, bar, off>>
    BY DEF OpenFails
  <1> QED
    BY <1>1, <1>2, <1>3, <1>4, <1>5, GoneKeeps

\* A step that takes what the driver has not, and has it then.
LEMMA Gains ==
  ASSUME HeldInv, NEW S, held' = Took(S),
         \A r \in Resources : r[1] \notin trouble' =>
           r[1] \notin trouble /\ (Has(r)' <=> (Has(r) \/ r \in S)) /\ ~ (Has(r) /\ r \in S)
  PROVE  HeldInv'
  <1> SUFFICES ASSUME NEW r \in Resources, r[1] \notin trouble'
               PROVE  held'[r] = IF Has(r)' THEN 1 ELSE 0
    BY DEF HeldInv
  <1>1. held[r] = IF Has(r) THEN 1 ELSE 0
    BY DEF HeldInv
  <1>2. held'[r] = held[r] + (IF r \in S THEN 1 ELSE 0)
    BY TookIs
  <1> QED
    BY <1>1, <1>2

\* A step of probe_one that succeeds.
LEMMA EnableKeeps ==
  ASSUME DeviceInv, pci_enable_device
  PROVE  DeviceInv'
  <1>1. CASE OpenFails("err_enable")
    BY <1>1, OpenFailsKeeps DEF pci_enable_device, OpenRest
  <1>2. CASE held' = Took(Single({"enable"})) /\ pc' = "regions" /\ UNCHANGED <<bar, chan, lines, irqsUp, trouble>>
    <2> USE <1>2 DEF DeviceInv, pci_enable_device, OpenRest
    <2>1. DeviceTypeOK'
      BY CountsTyped DEF DeviceTypeOK, ProbeSteps
    <2>2. HeldInv'
      <3>1. ASSUME NEW r \in Resources
            PROVE  (Has(r)' <=> (Has(r) \/ r \in Single({"enable"}))) /\ ~ (Has(r) /\ r \in Single({"enable"}))
        <4>1. r[1] \in Singles \cup {"engine", "irq", "cdev"} /\ (r \in Single({"enable"}) <=> r[1] \in {"enable"})
          BY KindsApart, SingleIs DEF Singles
        <4>2. ~ irqsUp
          BY DEF LinesInv
        <4>3. Has(r) <=> r[1] \in {"xpdev", "list"}
          BY <4>1, <4>2 DEF Has, Singles, Running
        <4>4. Has(r)' <=> r[1] \in {"xpdev", "list", "enable"}
          BY <4>1, <4>2 DEF Has, Singles, Running
        <4> QED
          BY <4>1, <4>3, <4>4
      <3> QED
        BY <3>1, Gains
    <2>3. LinesInv' /\ MaskInv' /\ InterruptsRestored' /\ BarsSeparate'
      BY DEF LinesInv, MaskInv, Running, InterruptsRestored, BarsSeparate
    <2> QED
      BY <2>1, <2>2, <2>3
  <1> QED
    BY <1>1, <1>2 DEF pci_enable_device

LEMMA RegionsKeeps ==
  ASSUME DeviceInv, request_regions
  PROVE  DeviceInv'
  <1>1. CASE /\ held' = Gave(held, Unwound("err_regions"))
             /\ pc' = "none" /\ trouble' = trouble \cup {"xpdev", "enable"}
             /\ UNCHANGED <<bar, chan, lines, irqsUp>>
    <2> USE <1>1 DEF DeviceInv, request_regions, OpenRest
    <2>1. ASSUME NEW r \in Resources, r[1] \notin trouble' PROVE held'[r] = 0
      <3>1. r[1] \in Singles \cup {"engine", "irq", "cdev"} /\ (r \in Single({"list"}) <=> r[1] \in {"list"})
        BY KindsApart, SingleIs DEF Singles
      <3>2. r \in Unwound("err_regions") <=> r[1] = "list"
        BY <3>1 DEF Unwound
      <3>3. Has(r) <=> r[1] \in {"xpdev", "list", "enable"}
        BY <2>1, <3>1 DEF Has, Singles, Running, LinesInv
      <3>4. held[r] = IF Has(r) THEN 1 ELSE 0
        BY <2>1 DEF HeldInv
      <3>5. held'[r] = held[r] - (IF r \in Unwound("err_regions") THEN 1 ELSE 0)
        BY GaveIs
      <3>6. r[1] \notin {"xpdev", "enable"}
        BY <2>1
      <3> QED
        BY <3>2, <3>3, <3>4, <3>5, <3>6
    <2>2. held' = [r \in Resources |-> held'[r]]
      BY CountsTyped
    <2>3. irqsUp' \in BOOLEAN /\ ~ irqsUp' /\ irqOnD' = [channel |-> irqOnD'.channel, user |-> irqOnD'.user]
      BY DEF LinesInv, DeviceTypeOK
    <2> QED
      BY <2>1, <2>2, <2>3, GoneKeeps
  <1>2. CASE held' = Took(Single({"regions"})) /\ pc' = "bars" /\ UNCHANGED <<bar, chan, lines, irqsUp, trouble>>
    <2> USE <1>2 DEF DeviceInv, request_regions, OpenRest
    <2>1. DeviceTypeOK'
      BY CountsTyped DEF DeviceTypeOK, ProbeSteps
    <2>2. HeldInv'
      <3>1. ASSUME NEW r \in Resources
            PROVE  (Has(r)' <=> (Has(r) \/ r \in Single({"regions"}))) /\ ~ (Has(r) /\ r \in Single({"regions"}))
        <4>1. r[1] \in Singles \cup {"engine", "irq", "cdev"} /\ (r \in Single({"regions"}) <=> r[1] \in {"regions"})
          BY KindsApart, SingleIs DEF Singles
        <4>2. ~ irqsUp
          BY DEF LinesInv
        <4>3. Has(r) <=> r[1] \in {"xpdev", "list", "enable"}
          BY <4>1, <4>2 DEF Has, Singles, Running
        <4>4. Has(r)' <=> r[1] \in {"xpdev", "list", "enable", "regions"}
          BY <4>1, <4>2 DEF Has, Singles, Running
        <4> QED
          BY <4>1, <4>3, <4>4
      <3> QED
        BY <3>1, Gains
    <2>3. LinesInv' /\ MaskInv' /\ InterruptsRestored' /\ BarsSeparate'
      BY DEF LinesInv, MaskInv, Running, InterruptsRestored, BarsSeparate
    <2> QED
      BY <2>1, <2>2, <2>3
  <1> QED
    BY <1>1, <1>2 DEF request_regions

LEMMA EnginesKeep ==
  ASSUME DeviceInv, probe_engines
  PROVE  DeviceInv'
  <1>1. CASE OpenFails("err_mask") /\ UNCHANGED irqOnD
    BY <1>1, OpenFailsKeeps DEF probe_engines
  <1>2. CASE /\ chan' \in [{"h2c", "c2h"} -> 0 .. Channels]
             /\ held' = Took(EngineRes(Initialised(chan')))
             /\ pc' = "vectors"
             /\ irqOnD' = [channel |-> FALSE, user |-> {}]
             /\ UNCHANGED <<bar, lines, irqsUp, trouble>>
    <2> USE <1>2 DEF DeviceInv, probe_engines
    <2>1. DeviceTypeOK'
      <3>1. irqOnD' = [channel |-> irqOnD'.channel, user |-> irqOnD'.user] /\ held' = [r \in Resources |-> held'[r]]
        BY CountsTyped
      <3> QED
        BY <3>1 DEF DeviceTypeOK, ProbeSteps
    <2>2. HeldInv'
      <3>1. ASSUME NEW r \in Resources
            PROVE  (Has(r)' <=> (Has(r) \/ r \in EngineRes(Initialised(chan')))) /\ ~ (Has(r) /\ r \in EngineRes(Initialised(chan')))
        <4>1. Initialised(chan') \subseteq Engines
          BY DEF Initialised
        <4>2. /\ r[1] \in Singles \cup {"engine", "irq", "cdev"}
              /\ r \in EngineRes(Initialised(chan')) <=> (r[1] = "engine" /\ <<r[2], r[3]>> \in ActiveEngines')
          BY <4>1, KindsApart, EngineResIs DEF ActiveEngines
        <4>3. ~ irqsUp
          BY DEF LinesInv
        <4> QED
          BY <4>2, <4>3 DEF Has, Singles, Running
      <3> QED
        BY <3>1, Gains
    <2>3. LinesInv' /\ MaskInv' /\ InterruptsRestored' /\ BarsSeparate'
      BY DEF LinesInv, MaskInv, Running, InterruptsRestored, BarsSeparate
    <2> QED
      BY <2>1, <2>2, <2>3
  <1> QED
    BY <1>1, <1>2 DEF probe_engines

LEMMA VectorsIs ==
  ASSUME NEW r \in Resources
  PROVE  r \in Vectors <=> (r[1] = "vectors" /\ dmode.irq # "legacy")
  BY SingleIs DEF Vectors, Singles

LEMMA VectorsKeep ==
  ASSUME DeviceInv, enable_msi_msix
  PROVE  DeviceInv'
  <1>1. CASE OpenFails("err_enable_msix")
    BY <1>1, OpenFailsKeeps DEF enable_msi_msix, OpenRest
  <1>2. CASE /\ held' = IF dmode.irq = "legacy" THEN held ELSE Took(Single({"vectors"}))
             /\ pc' = "irqs"
             /\ UNCHANGED <<bar, chan, lines, irqsUp, trouble>>
    <2> USE <1>2 DEF DeviceInv, enable_msi_msix, OpenRest
    <2>1. DeviceTypeOK'
      BY CountsTyped DEF DeviceTypeOK, ProbeSteps
    <2>2. HeldInv'
      <3>1. ASSUME NEW r \in Resources
            PROVE  (Has(r)' <=> (Has(r) \/ r \in Vectors)) /\ ~ (Has(r) /\ r \in Vectors)
        <4>1. r[1] \in Singles \cup {"engine", "irq", "cdev"}
          BY KindsApart
        <4>2. ~ irqsUp /\ ActiveEngines' = ActiveEngines
          BY DEF LinesInv, ActiveEngines
        <4> QED
          BY <4>1, <4>2, VectorsIs DEF Has, Singles, Running
      <3>2. CASE dmode.irq # "legacy"
        <4>1. held' = Took(Vectors)
          BY <3>2 DEF Vectors
        <4> QED
          BY <3>1, <4>1, Gains
      <3>3. CASE dmode.irq = "legacy"
        <4>1. \A r \in Resources : Has(r)' <=> Has(r)
          BY <3>1, <3>3, VectorsIs
        <4> QED
          BY <3>3, <4>1 DEF HeldInv
      <3> QED
        BY <3>2, <3>3
    <2>3. LinesInv' /\ MaskInv' /\ InterruptsRestored' /\ BarsSeparate'
      BY DEF LinesInv, MaskInv, Running, InterruptsRestored, BarsSeparate
    <2> QED
      BY <2>1, <2>2, <2>3
  <1> QED
    BY <1>1, <1>2 DEF enable_msi_msix

LEMMA FirstIs ==
  ASSUME NEW S \in SUBSET Nat, S # {}
  PROVE  FirstOf(S) \in S /\ \A j \in S : FirstOf(S) <= j
  <1>1. \E i \in S : \A j \in S : i <= j
    BY LeastElement
  <1> QED
    BY <1>1 DEF FirstOf

LEMMA LastIs ==
  ASSUME NEW n \in Nat, NEW S \in SUBSET (0 .. n), S # {}
  PROVE  LastOf(S) \in S /\ \A j \in S : j <= LastOf(S)
  <1> DEFINE D == { n - i : i \in S }
  <1>1. D \subseteq Nat /\ D # {}
    <2>1. PICK i \in S : TRUE
      OBVIOUS
    <2>2. n - i \in D /\ \A j \in S : n - j \in Nat
      BY <2>1
    <2> QED
      BY <2>2
  <1>2. PICK d \in D : \A e \in D : d <= e
    BY <1>1, LeastElement
  <1>3. PICK i \in S : d = n - i
    OBVIOUS
  <1>4. ASSUME NEW j \in S PROVE j <= i
    <2>1. n - j \in D
      OBVIOUS
    <2>2. n - i <= n - j
      BY <2>1, <1>2, <1>3
    <2>3. i \in 0 .. n /\ j \in 0 .. n
      OBVIOUS
    <2> QED
      BY <2>2, <2>3
  <1>5. \A j \in S : j <= i
    BY <1>4
  <1> QED
    BY <1>5 DEF LastOf

\* The config BAR has as many BARs before it as its position says, and the others behind it.
LEMMA BarsAround ==
  ASSUME NEW l, Configs(l) # {}, NBars \in Nat
  PROVE  /\ FoundBar(l).config \in Mapped(l)
         /\ FoundBar(l).pos \in Nat /\ FoundBar(l).n \in Nat
         /\ FoundBar(l).pos > 0 => FirstOf(Mapped(l)) < FoundBar(l).config
         /\ FoundBar(l).pos + 1 < FoundBar(l).n => FoundBar(l).config < LastOf(Mapped(l))
         /\ FoundBar(l).user = -1 /\ FoundBar(l).bypass = -1
  <1> DEFINE M == Mapped(l)
             c == FirstOf(Configs(l))
             B == { i \in M : i < c }
             C == { i \in M : i > c }
  <1>1. M \subseteq 0 .. NBars /\ IsFiniteSet(M)
    <2>1. M \subseteq 0 .. NBars /\ IsFiniteSet(0 .. NBars)
      BY FS_Interval DEF Mapped
    <2> QED
      BY <2>1, FS_Subset
  <1>2. c \in Configs(l) /\ c \in M /\ c \in Nat
    <2>1. Configs(l) \in SUBSET Nat
      BY DEF Configs, Mapped
    <2>2. c \in Configs(l)
      BY <2>1, FirstIs
    <2> QED
      BY <2>1, <2>2 DEF Configs
  <1>3. FoundBar(l).config = c /\ FoundBar(l).pos = Cardinality(B) /\ FoundBar(l).n = Cardinality(M)
        /\ FoundBar(l).user = -1 /\ FoundBar(l).bypass = -1
    BY DEF FoundBar
  <1>4. IsFiniteSet(B) /\ IsFiniteSet(C)
    BY <1>1, FS_Subset
  <1>5. Cardinality(M) \in Nat /\ Cardinality(B) \in Nat
    BY <1>1, <1>4, FS_CardinalityType
  <1>6. B # {} => FirstOf(M) < c
    <2> SUFFICES ASSUME NEW i \in B PROVE FirstOf(M) < c
      OBVIOUS
    <2>1. M \in SUBSET Nat /\ M # {}
      BY <1>1
    <2>2. FirstOf(M) \in M /\ FirstOf(M) <= i
      BY <2>1, FirstIs
    <2>3. FirstOf(M) \in Nat /\ i \in Nat /\ i < c
      BY <2>1, <2>2
    <2> QED
      BY <2>2, <2>3, <1>2
  <1>7. C # {} => c < LastOf(M)
    <2> SUFFICES ASSUME NEW i \in C PROVE c < LastOf(M)
      OBVIOUS
    <2>1. M \in SUBSET (0 .. NBars) /\ M # {}
      BY <1>1
    <2>2. LastOf(M) \in M /\ i <= LastOf(M)
      BY <2>1, LastIs
    <2>3. LastOf(M) \in Nat /\ i \in Nat /\ c < i
      BY <2>1, <2>2
    <2> QED
      BY <2>2, <2>3, <1>2
  <1>8. Cardinality(B) > 0 => B # {}
    BY FS_EmptySet
  <1>9. Cardinality(B) + 1 < Cardinality(M) => C # {}
    <2> SUFFICES ASSUME C = {} PROVE Cardinality(M) = Cardinality(B) + 1
      BY <1>5
    <2>1. M = B \cup {c}
      BY <1>1, <1>2
    <2>2. c \notin B
      BY <1>2
    <2> QED
      BY <2>1, <2>2, <1>4, FS_AddElement
  <1> QED
    BY <1>2, <1>3, <1>5, <1>6, <1>7, <1>8, <1>9

\* identify_bars.
LEMMA BarsApart ==
  ASSUME NEW l \in Layouts, Configs(l) # {}, bar' = identify_bars(l)
  PROVE  BarsSeparate'
  <1> DEFINE c == FoundBar(l)
             f == FirstOf(Mapped(l))
             z == LastOf(Mapped(l))
  <1>1. /\ c.config \in Nat /\ c.pos \in Nat /\ c.n \in Nat /\ f \in Nat /\ z \in Nat
        /\ c.pos > 0 => f < c.config
        /\ c.pos + 1 < c.n => c.config < z
        /\ c.user = -1 /\ c.bypass = -1
    <2>1. NBars \in Nat
      BY DeviceAssumption
    <2>2. /\ c.config \in Mapped(l) /\ c.pos \in Nat /\ c.n \in Nat
          /\ c.pos > 0 => f < c.config
          /\ c.pos + 1 < c.n => c.config < z
          /\ c.user = -1 /\ c.bypass = -1
      BY <2>1, BarsAround
    <2> HIDE DEF c
    <2>3. Mapped(l) \in SUBSET (0 .. NBars) /\ Mapped(l) \in SUBSET Nat /\ Mapped(l) # {}
      BY <2>1, <2>2 DEF Mapped
    <2>4. f \in Mapped(l) /\ z \in Mapped(l)
      BY <2>1, <2>3, FirstIs, LastIs
    <2> QED
      BY <2>2, <2>3, <2>4
  <1>2. c = [config |-> c.config, user |-> c.user, bypass |-> c.bypass, n |-> c.n, pos |-> c.pos]
    BY DEF FoundBar
  <1>3. bar' = CASE c.n = 2 /\ c.pos = 0 -> [c EXCEPT !.bypass = z]
                 [] c.n = 2 /\ c.pos = 1 -> [c EXCEPT !.user = f]
                 [] c.n \in {3, 4} /\ c.pos \in {1, 2} -> [c EXCEPT !.user = f, !.bypass = z]
                 [] OTHER -> c
    BY DEF identify_bars
  <1> HIDE DEF c, f, z
  <1>4. CASE c.n = 2 /\ c.pos = 0
    <2>1. bar'.user = -1 /\ bar'.config = c.config /\ bar'.bypass = z
      BY <1>1, <1>2, <1>3, <1>4
    <2> QED
      BY <1>1, <1>4, <2>1 DEF BarsSeparate
  <1>5. CASE c.n = 2 /\ c.pos = 1
    <2>1. bar'.user = f /\ bar'.config = c.config /\ bar'.bypass = -1
      BY <1>1, <1>2, <1>3, <1>5
    <2> QED
      BY <1>1, <1>5, <2>1 DEF BarsSeparate
  <1>6. CASE c.n \in {3, 4} /\ c.pos \in {1, 2}
    <2>1. bar'.user = f /\ bar'.config = c.config /\ bar'.bypass = z /\ bar'.n = c.n /\ bar'.pos = c.pos
      BY <1>1, <1>2, <1>3, <1>6
    <2> QED
      BY <1>1, <1>6, <2>1 DEF BarsSeparate
  <1>7. CASE ~ (c.n = 2 /\ c.pos = 0) /\ ~ (c.n = 2 /\ c.pos = 1) /\ ~ (c.n \in {3, 4} /\ c.pos \in {1, 2})
    <2>1. bar' = c
      BY <1>3, <1>7
    <2> QED
      BY <1>1, <2>1 DEF BarsSeparate
  <1> QED
    BY <1>4, <1>5, <1>6, <1>7

LEMMA BarsKeep ==
  ASSUME DeviceInv, map_bars
  PROVE  DeviceInv'
  <1>1. CASE OpenFails("err_map")
    BY <1>1, OpenFailsKeeps DEF map_bars, OpenRest
  <1>2. CASE /\ \E l \in Layouts : Configs(l) # {} /\ bar' = identify_bars(l)
             /\ held' = Took(Single({"bars"})) /\ pc' = "mask"
             /\ UNCHANGED <<chan, lines, irqsUp, trouble>>
    <2> USE <1>2 DEF DeviceInv, map_bars, OpenRest
    <2>1. DeviceTypeOK'
      BY CountsTyped DEF DeviceTypeOK, ProbeSteps
    <2>2. HeldInv'
      <3>1. ASSUME NEW r \in Resources
            PROVE  (Has(r)' <=> (Has(r) \/ r \in Single({"bars"}))) /\ ~ (Has(r) /\ r \in Single({"bars"}))
        <4>1. r[1] \in Singles \cup {"engine", "irq", "cdev"} /\ (r \in Single({"bars"}) <=> r[1] \in {"bars"})
          BY KindsApart, SingleIs DEF Singles
        <4>2. ~ irqsUp
          BY DEF LinesInv
        <4>3. Has(r) <=> r[1] \in {"xpdev", "list", "enable", "regions"}
          BY <4>1, <4>2 DEF Has, Singles, Running
        <4>4. Has(r)' <=> r[1] \in {"xpdev", "list", "enable", "regions", "bars"}
          BY <4>1, <4>2 DEF Has, Singles, Running
        <4> QED
          BY <4>1, <4>3, <4>4
      <3> QED
        BY <3>1, Gains
    <2>3. LinesInv' /\ MaskInv' /\ InterruptsRestored'
      BY DEF LinesInv, MaskInv, Running, InterruptsRestored
    <2>4. BarsSeparate'
      BY BarsApart
    <2> QED
      BY <2>1, <2>2, <2>3, <2>4
  <1> QED
    BY <1>1, <1>2 DEF map_bars

\* The end of an irq_setup that succeeds.
LEMMA SetupSucceeds ==
  ASSUME NEW e \in irq_setup_ends, e.ok
  PROVE  /\ e.got = AllLines
         /\ dmode.irq = "msix" => ActiveEngines \subseteq e.lines
         /\ dmode.irq # "msix" => e.lines = {OneLine}
  <1>1. CASE dmode.irq = "msix"
    <2>1. e = [ok |-> TRUE, got |-> ActiveEngines \cup UserLines, lines |-> lines \cup ActiveEngines]
      <3> DEFINE A == { x \in {[ok |-> TRUE, got |-> ActiveEngines \cup UserLines, lines |-> lines \cup ActiveEngines]} : Free(x.got) }
                 K == { n \in 0 .. Len(Order) - 1 : Free(Firsts(Order, n)) }
                 L == { n \in 0 .. UserMax - 1 : Free(ActiveEngines \cup Firsts(UserOrder, n)) }
                 B == { [ok |-> FALSE, got |-> Firsts(Order, k), lines |-> lines \cup Firsts(Order, k)] : k \in K }
                 C == { [ok |-> FALSE, got |-> ActiveEngines, lines |-> lines \cup ActiveEngines] : k \in L }
      <3>1. e \in A \cup B \cup C
        BY <1>1 DEF irq_setup_ends
      <3> HIDE DEF K, L
      <3>2. e \notin B
        <4> SUFFICES ASSUME e \in B PROVE FALSE
          OBVIOUS
        <4>1. PICK k \in K : e = [ok |-> FALSE, got |-> Firsts(Order, k), lines |-> lines \cup Firsts(Order, k)]
          OBVIOUS
        <4> QED
          BY <4>1
      <3>3. e \notin C
        OBVIOUS
      <3> QED
        BY <3>1, <3>2, <3>3
    <2> QED
      BY <1>1, <2>1 DEF AllLines
  <1>2. CASE dmode.irq # "msix"
    <2>1. PICK b \in BOOLEAN : e = [ok |-> b, got |-> IF b THEN {OneLine} ELSE {}, lines |-> {OneLine}]
      BY <1>2 DEF irq_setup_ends
    <2>2. b = TRUE
      BY <2>1
    <2> QED
      BY <1>2, <2>1, <2>2 DEF AllLines
  <1> QED
    BY <1>1, <1>2

\* Lines come up: every line that a teardown will free is held once.
LEMMA LinesUp ==
  ASSUME DeviceInv, ~ irqsUp, NEW e \in irq_setup_ends, e.ok, lines' = e.lines, irqsUp', held' = Took(IrqOf(e.got)),
         UNCHANGED <<dmode, chan, groups>>, trouble \subseteq trouble',
         \/ pc = "irqs" /\ pc' = "isr"
         \/ pc = "open" /\ pc' = "open"
         \/ pc = "reset" /\ pc' = "open"
  PROVE  HeldInv' /\ Freed' = AllLines'
  <1>1. /\ e.got = AllLines
        /\ dmode.irq = "msix" => ActiveEngines \subseteq e.lines
        /\ dmode.irq # "msix" => e.lines = {OneLine}
    BY SetupSucceeds
  <1>2. ActiveEngines' = ActiveEngines /\ AllLines' = AllLines
    BY DEF ActiveEngines, AllLines
  <1>3. Freed' = AllLines'
    <2>1. chan' \in [{"h2c", "c2h"} -> 0 .. Channels]
      BY DEF DeviceInv, DeviceTypeOK
    <2>2. dmode'.irq = "msix" => ActiveEngines' \subseteq lines'
      BY <1>1, <1>2
    <2>3. dmode'.irq # "msix" => lines' = {OneLine}
      BY <1>1
    <2> QED
      BY <2>1, <2>2, <2>3, FreedNext
  <1>4. ASSUME NEW r \in Resources
        PROVE  (Has(r)' <=> (Has(r) \/ r \in IrqOf(e.got))) /\ ~ (Has(r) /\ r \in IrqOf(e.got))
    <2>1. r[1] \in Singles \cup {"engine", "irq", "cdev"}
      BY KindsApart
    <2>2. r \in IrqOf(e.got) <=> (r[1] = "irq" /\ <<r[2], r[3]>> \in AllLines)
      <3>1. AllLines \in SUBSET Pairs
        BY LinesArePairs
      <3>2. r \in IrqOf(AllLines) <=> (r[1] = "irq" /\ <<r[2], r[3]>> \in AllLines)
        BY <3>1, IrqOfIs
      <3> QED
        BY <1>1, <3>2
    <2>3. CdevOf(groups)' = CdevOf(groups)
      <3>1. \A g : Members(g)' = Members(g)
        BY <1>2 DEF Members
      <3> QED
        BY <3>1 DEF CdevOf
    <2>4. CASE r[1] = "irq"
      <3>1. Has(r)' <=> <<r[2], r[3]>> \in AllLines
        BY <1>2, <2>4 DEF Has
      <3>2. ~ Has(r)
        BY <2>4 DEF Has
      <3> QED
        BY <2>2, <2>4, <3>1, <3>2
    <2>5. CASE r[1] # "irq"
      <3>1. Has(r)' <=> Has(r)
        <4>1. CASE r[1] = "cdev"
          BY <1>2, <2>3, <4>1 DEF Has, Running
        <4>2. CASE r[1] = "engine"
          BY <1>2, <4>2 DEF Has
        <4>3. CASE r[1] \in Singles
          BY <4>3 DEF Has, Singles
        <4> QED
          BY <2>1, <2>5, <4>1, <4>2, <4>3
      <3> QED
        BY <2>2, <2>5, <3>1
    <2> QED
      BY <2>4, <2>5
  <1>5. HeldInv'
    BY <1>4, Gains DEF DeviceInv
  <1> QED
    BY <1>3, <1>5

\* irq_setup of xdma_device_open; when it fails, whatever happens to the lines, the rest is given back.
LEMMA OpenIrqsKeep ==
  ASSUME DeviceInv, open_irq_setup
  PROVE  DeviceInv'
  <1> USE DEF DeviceInv
  <1>1. PICK e \in irq_setup_ends :
          /\ lines' = e.lines
          /\ \/ /\ e.ok
                /\ held' = Took(IrqOf(e.got)) /\ pc' = "isr" /\ irqsUp' = TRUE
                /\ off' = FALSE /\ irqOnD' = [irqOnD EXCEPT !.channel = ~ dmode.poll]
                /\ UNCHANGED trouble
             \/ /\ ~ e.ok
                /\ \E T : held' = Gave(Gave(Took(IrqOf(e.got)), IrqOf(T)), Vectors \cup Unwound("err_interrupts"))
                /\ pc' = "none" /\ trouble' = trouble \cup {"xpdev", "irq"}
                /\ UNCHANGED <<irqsUp, off, irqOnD>>
    BY DEF open_irq_setup
  <1>2. pc = "irqs" /\ UNCHANGED <<dmode, bar, chan, groups, userMask, probes, cycles>> /\ ~ irqsUp
    BY DEF open_irq_setup, LinesInv
  <1>3. CASE e.ok /\ pc' = "isr"
    <2>1. held' = Took(IrqOf(e.got)) /\ irqsUp' = TRUE /\ off' = FALSE /\ UNCHANGED trouble
          /\ irqOnD' = [irqOnD EXCEPT !.channel = ~ dmode.poll]
      BY <1>1, <1>3
    <2>2. HeldInv' /\ Freed' = AllLines'
      BY <1>1, <1>2, <1>3, <2>1, LinesUp
    <2>3. /\ irqOnD' = [channel |-> irqOnD'.channel, user |-> irqOnD'.user]
          /\ irqOnD'.channel = ~ dmode.poll /\ irqOnD'.user = irqOnD.user
      BY <2>1 DEF DeviceTypeOK
    <2>4. DeviceTypeOK'
      BY <1>2, <1>3, <2>1, <2>3, CountsTyped DEF DeviceTypeOK, ProbeSteps
    <2>5. LinesInv'
      BY <1>3, <2>1, <2>2 DEF LinesInv
    <2>6. MaskInv'
      BY <1>2, <1>3, <2>1, <2>3 DEF MaskInv, Running
    <2>7. InterruptsRestored' /\ BarsSeparate'
      BY <1>2, <1>3 DEF InterruptsRestored, BarsSeparate
    <2> QED
      BY <2>2, <2>4, <2>5, <2>6, <2>7
  <1>4. CASE ~ e.ok /\ pc' = "none"
    <2>1. /\ \E T : held' = Gave(Gave(Took(IrqOf(e.got)), IrqOf(T)), Vectors \cup Unwound("err_interrupts"))
          /\ trouble' = trouble \cup {"xpdev", "irq"} /\ UNCHANGED <<irqsUp, off, irqOnD>>
      BY <1>1, <1>4
    <2>2. PICK T : held' = Gave(Gave(Took(IrqOf(e.got)), IrqOf(T)), Vectors \cup Unwound("err_interrupts"))
      BY <2>1
    <2>3. ASSUME NEW r \in Resources, r[1] \notin trouble' PROVE held'[r] = 0
      <3> DEFINE S == Vectors \cup Unwound("err_interrupts")
      <3>1. r[1] \notin {"xpdev", "irq"} /\ r[1] \notin trouble
        BY <2>1, <2>3
      <3>2. r \notin IrqOf(e.got) /\ r \notin IrqOf(T)
        BY <3>1, IrqOfKind
      <3>3. /\ r[1] \in Singles \cup {"engine", "irq", "cdev"}
            /\ r \in Single({"list", "enable", "regions", "bars"}) <=> r[1] \in {"list", "enable", "regions", "bars"}
        BY KindsApart, SingleIs DEF Singles
      <3>4. r \in EngineRes(ActiveEngines) <=> (r[1] = "engine" /\ <<r[2], r[3]>> \in ActiveEngines)
        <4>1. ActiveEngines \in SUBSET Engines
          BY DEF ActiveEngines, Initialised
        <4> QED
          BY <4>1, EngineResIs
      <3>5. r \in S <=> \/ r[1] \in {"list", "enable", "regions", "bars"}
                        \/ r[1] = "engine" /\ <<r[2], r[3]>> \in ActiveEngines
                        \/ r[1] = "vectors" /\ dmode.irq # "legacy"
        BY <3>3, <3>4, VectorsIs DEF Unwound
      <3>6. Has(r) <=> r \in S
        <4> HIDE DEF S
        <4>1. CASE r[1] \in Singles
          BY <1>2, <3>1, <3>5, <4>1 DEF Has, Singles
        <4>2. CASE r[1] = "engine"
          BY <1>2, <3>5, <4>2 DEF Has
        <4>3. CASE r[1] = "cdev"
          BY <1>2, <3>5, <4>3 DEF Has, Running
        <4> QED
          BY <3>1, <3>3, <4>1, <4>2, <4>3
      <3>7. held[r] = IF Has(r) THEN 1 ELSE 0
        BY <3>1 DEF HeldInv
      <3>8. Took(IrqOf(e.got))[r] = held[r]
        BY <3>2, <3>7, TookIs
      <3>9. Gave(Took(IrqOf(e.got)), IrqOf(T))[r] = held[r]
        <4> DEFINE h == Took(IrqOf(e.got))
        <4> HIDE DEF h
        <4>1. Gave(h, IrqOf(T))[r] = h[r] - (IF r \in IrqOf(T) THEN 1 ELSE 0)
          BY GaveIs
        <4> QED
          BY <3>2, <3>7, <3>8, <4>1 DEF h
      <3>10. held'[r] = held[r] - (IF r \in S THEN 1 ELSE 0)
        BY <2>2, <3>9, GaveIs
      <3> QED
        BY <3>6, <3>7, <3>10
    <2>4. held' = [r \in Resources |-> held'[r]]
      BY <2>2, CountsTyped
    <2>5. irqsUp' \in BOOLEAN /\ ~ irqsUp' /\ irqOnD' = [channel |-> irqOnD'.channel, user |-> irqOnD'.user]
      BY <1>2, <2>1 DEF DeviceTypeOK
    <2>6. UNCHANGED <<dmode, chan, bar, off>>
      BY <1>2, <2>1
    <2> QED
      BY <1>4, <2>3, <2>4, <2>5, <2>6, GoneKeeps
  <1> QED
    BY <1>1, <1>3, <1>4

LEMMA IsrKeeps ==
  ASSUME DeviceInv, isr_enable
  PROVE  DeviceInv'
  <1> USE DEF DeviceInv, isr_enable
  <1>1. /\ irqOnD' = [channel |-> irqOnD'.channel, user |-> irqOnD'.user]
        /\ irqOnD'.channel = irqOnD.channel /\ irqOnD'.user = irqOnD.user \cup AllUser
    BY DEF DeviceTypeOK
  <1>2. DeviceTypeOK'
    BY <1>1 DEF DeviceTypeOK, ProbeSteps
  <1>3. ActiveEngines' = ActiveEngines /\ AllLines' = AllLines /\ Freed' = Freed
    BY DEF ActiveEngines, AllLines, Freed
  <1>4. HeldInv'
    <2> SUFFICES ASSUME NEW r \in Resources, r[1] \notin trouble'
                 PROVE  held'[r] = IF Has(r)' THEN 1 ELSE 0
      BY DEF HeldInv
    <2>1. r[1] \in Singles \cup {"engine", "irq", "cdev"}
      BY KindsApart
    <2>2. Has(r)' <=> Has(r)
      BY <1>3, <2>1 DEF Has, Running, Singles
    <2> QED
      BY <2>2 DEF HeldInv
  <1>5. LinesInv' /\ MaskInv'
    BY <1>3 DEF LinesInv, MaskInv, Running
  <1>6. InterruptsRestored'
    BY <1>1 DEF InterruptsRestored, MaskInv, DeviceTypeOK
  <1>7. BarsSeparate'
    BY DEF BarsSeparate
  <1> QED
    BY <1>2, <1>4, <1>5, <1>6, <1>7

\* What xdma_device_close and xpdev_free release besides interrupts and character devices.
LEMMA ClosedIs ==
  ASSUME NEW r \in Resources
  PROVE  r \in ClosedRes \cup Single({"xpdev"}) <=>
           \/ r[1] \in {"xpdev", "list", "enable", "regions", "bars"}
           \/ r[1] = "engine" /\ <<r[2], r[3]>> \in ActiveEngines
           \/ r[1] = "vectors" /\ dmode.irq # "legacy"
  <1>1. /\ r \in Single({"list", "enable", "regions", "bars"}) <=> r[1] \in {"list", "enable", "regions", "bars"}
        /\ r \in Single({"xpdev"}) <=> r[1] \in {"xpdev"}
    BY SingleIs DEF Singles
  <1>2. r \in EngineRes(ActiveEngines) <=> (r[1] = "engine" /\ <<r[2], r[3]>> \in ActiveEngines)
    <2>1. ActiveEngines \in SUBSET Engines
      BY DEF ActiveEngines, Initialised
    <2> QED
      BY <2>1, EngineResIs
  <1> QED
    BY <1>1, <1>2, VectorsIs DEF ClosedRes

\* What xpdev_free leaves, from resources h, of a kind that is in order in h.
LEMMA FreeLeaves ==
  ASSUME DeviceInv, NEW h, NEW r \in Resources, xpdev_free(h), pc \in {"cdevs", "open", "frozen"},
         \/ r[1] = "irq" /\ irqsUp /\ h[r] = (IF Has(r) THEN 1 ELSE 0)
         \/ r[1] = "cdev" /\ h[r] = IF r \in CdevOf(groups') \cup {Major} THEN 1 ELSE 0
         \/ /\ r[1] \notin {"irq", "cdev"} /\ (r[1] = "enable" => pc # "frozen")
            /\ h[r] = IF Has(r) THEN 1 ELSE 0
  PROVE  held'[r] = 0
  <1> DEFINE D == CdevOf(groups') \cup {Major}
             Z == ClosedRes \cup Single({"xpdev"})
             h1 == Gave(h, D)
             h2 == Gave(h1, IrqOf(Freed))
  <1>1. held' = Gave(h2, Z)
    BY DEF xpdev_free, irq_teardown, xpdev_destroy_interfaces
  <1>2. r \in D => r[1] = "cdev"
    BY CdevKind
  <1>3. r \in IrqOf(Freed) => r[1] = "irq"
    BY IrqOfKind
  <1>4. r \in Z <=> \/ r[1] \in {"xpdev", "list", "enable", "regions", "bars"}
                    \/ r[1] = "engine" /\ <<r[2], r[3]>> \in ActiveEngines
                    \/ r[1] = "vectors" /\ dmode.irq # "legacy"
    BY ClosedIs
  <1>5. h1[r] = h[r] - (IF r \in D THEN 1 ELSE 0)
    BY GaveIs
  <1> HIDE DEF h1, D
  <1>6. h2[r] = h1[r] - (IF r \in IrqOf(Freed) THEN 1 ELSE 0)
    BY GaveIs
  <1> HIDE DEF h2, Z
  <1>7. held'[r] = h2[r] - (IF r \in Z THEN 1 ELSE 0)
    BY <1>1, GaveIs
  <1>8. CASE r[1] = "irq" /\ irqsUp /\ h[r] = (IF Has(r) THEN 1 ELSE 0)
    <2>1. r \notin D /\ r \notin Z
      BY <1>2, <1>4, <1>8
    <2>2. AllLines \in SUBSET Pairs /\ Freed = AllLines
      BY <1>8, LinesArePairs DEF DeviceInv, LinesInv
    <2>3. r \in IrqOf(Freed) <=> (r[1] = "irq" /\ <<r[2], r[3]>> \in AllLines)
      BY <2>2, IrqOfIs
    <2>4. Has(r) <=> <<r[2], r[3]>> \in AllLines
      BY <1>8 DEF Has
    <2> QED
      BY <1>5, <1>6, <1>7, <1>8, <2>1, <2>3, <2>4
  <1>9. CASE r[1] = "cdev" /\ h[r] = IF r \in D THEN 1 ELSE 0
    <2>1. r \notin IrqOf(Freed) /\ r \notin Z
      BY <1>3, <1>4, <1>9
    <2>2. h1[r] = 0
      BY <1>5, <1>9
    <2>3. h2[r] = h1[r] - 0
      BY <1>6, <2>1
    <2>4. held'[r] = h2[r] - 0
      BY <1>7, <2>1
    <2> QED
      BY <2>2, <2>3, <2>4
  <1>10. CASE /\ r[1] \notin {"irq", "cdev"} /\ (r[1] = "enable" => pc # "frozen")
              /\ h[r] = IF Has(r) THEN 1 ELSE 0
    <2>1. r \notin D /\ r \notin IrqOf(Freed)
      BY <1>2, <1>3, <1>10
    <2>2. r[1] \in Singles \cup {"engine"}
      BY <1>10, KindsApart
    <2>3. Has(r) <=> r \in Z
      <3>1. CASE r[1] = "engine"
        BY <1>4, <3>1 DEF Has
      <3>2. CASE r[1] \in Singles
        BY <1>4, <1>10, <3>2 DEF Has, Singles
      <3> QED
        BY <2>2, <3>1, <3>2
    <2> QED
      BY <1>5, <1>6, <1>7, <1>10, <2>1, <2>3
  <1> QED
    BY <1>8, <1>9, <1>10 DEF D

LEMMA FreeKeeps ==
  ASSUME DeviceInv, NEW h, xpdev_free(h), UNCHANGED <<dmode, chan, bar, off>>,
         \A r \in Resources : r[1] \notin trouble' => held'[r] = 0
  PROVE  DeviceInv'
  <1>1. held' = [r \in Resources |-> held'[r]]
    <2> DEFINE g == irq_teardown(Gave(h, xpdev_destroy_interfaces(groups')))
    <2>1. held' = Gave(g, ClosedRes \cup Single({"xpdev"}))
      BY DEF xpdev_free
    <2> HIDE DEF g
    <2> QED
      BY <2>1 DEF Gave
  <1>2. pc' = "none" /\ ~ irqsUp' /\ irqsUp' \in BOOLEAN
        /\ irqOnD' = [channel |-> irqOnD'.channel, user |-> irqOnD'.user]
    BY DEF xpdev_free
  <1> QED
    BY <1>1, <1>2, GoneKeeps

LEMMA RemoveKeeps ==
  ASSUME DeviceInv, remove_one
  PROVE  DeviceInv'
  <1>1. ASSUME NEW r \in Resources, r[1] \notin trouble' PROVE held'[r] = 0
    <2>1. /\ r[1] \notin trouble /\ (r[1] = "irq" => irqsUp) /\ (r[1] = "enable" => pc # "frozen")
          /\ groups' = groups /\ pc \in {"open", "frozen"} /\ xpdev_free(held)
      BY <1>1 DEF remove_one
    <2>2. held[r] = IF Has(r) THEN 1 ELSE 0
      BY <2>1 DEF DeviceInv, HeldInv
    <2>3. r[1] = "cdev" => (Has(r) <=> r \in CdevOf(groups') \cup {Major})
      BY <2>1 DEF Has, Running
    <2> QED
      BY <2>1, <2>2, <2>3, FreeLeaves
  <1>2. xpdev_free(held) /\ UNCHANGED <<dmode, chan, bar, off>>
    BY DEF remove_one
  <1> QED
    BY <1>1, <1>2, FreeKeeps

\* The character devices depend on the engines that are set up only.
LEMMA MembersSame ==
  ASSUME UNCHANGED chan
  PROVE  /\ ActiveEngines' = ActiveEngines
         /\ \A r : r \in (CdevOf(groups))' <=> r \in CdevOf(groups')
  <1>1. ActiveEngines' = ActiveEngines
    BY DEF ActiveEngines
  <1>2. \A g : Members(g)' = Members(g)
    BY <1>1 DEF Members
  <1> QED
    BY <1>1, <1>2 DEF CdevOf

LEMMA CdevsKeep ==
  ASSUME DeviceInv, xpdev_create_interfaces
  PROVE  DeviceInv'
  <1> USE DEF DeviceInv
  <1>1. pc = "cdevs" /\ UNCHANGED <<dmode, bar, chan, lines, off, userMask, probes, cycles>> /\ irqsUp
    BY DEF xpdev_create_interfaces, LinesInv
  <1>2. ActiveEngines' = ActiveEngines /\ AllLines' = AllLines /\ Freed' = Freed
        /\ \A r : r \in (CdevOf(groups))' <=> r \in CdevOf(groups')
    BY <1>1, MembersSame DEF AllLines, Freed
  <1>3. CASE /\ groups' = Wanted
             /\ held' = Took(CdevOf(Wanted) \cup {Major})
             /\ pc' = "open"
             /\ UNCHANGED <<irqOnD, irqsUp, trouble>>
    <2>1. DeviceTypeOK'
      BY <1>1, <1>3, CountsTyped DEF DeviceTypeOK, Running
    <2>2. HeldInv'
      <3>1. ASSUME NEW r \in Resources
            PROVE  /\ Has(r)' <=> (Has(r) \/ r \in CdevOf(Wanted) \cup {Major})
                   /\ ~ (Has(r) /\ r \in CdevOf(Wanted) \cup {Major})
        <4>1. r[1] \in Singles \cup {"engine", "irq", "cdev"}
          BY KindsApart
        <4>2. r \in CdevOf(Wanted) \cup {Major} => r[1] = "cdev"
          BY CdevKind
        <4>3. CASE r[1] = "cdev"
          <5>1. ~ Has(r)
            BY <1>1, <4>3 DEF Has, Running
          <5>2. Has(r)' <=> r \in (CdevOf(groups))' \cup {Major}
            BY <1>3, <4>3 DEF Has, Running, Major
          <5>3. r \in (CdevOf(groups))' <=> r \in CdevOf(groups')
            BY <1>2
          <5> QED
            BY <1>3, <5>1, <5>2, <5>3
        <4>4. CASE r[1] # "cdev"
          <5>1. Has(r)' <=> Has(r)
            <6>1. CASE r[1] = "irq"
              BY <1>1, <1>2, <1>3, <6>1 DEF Has
            <6>2. CASE r[1] = "engine"
              BY <1>1, <1>2, <1>3, <6>2 DEF Has
            <6>3. CASE r[1] \in Singles
              BY <1>1, <1>3, <6>3 DEF Has, Singles
            <6> QED
              BY <4>1, <4>4, <6>1, <6>2, <6>3
          <5> QED
            BY <4>2, <4>4, <5>1
        <4> QED
          BY <4>3, <4>4
      <3>2. trouble' = trouble /\ held' = Took(CdevOf(Wanted) \cup {Major})
        BY <1>3
      <3> QED
        BY <3>1, <3>2, Gains
    <2>3. LinesInv' /\ MaskInv' /\ InterruptsRestored' /\ BarsSeparate'
      BY <1>1, <1>2, <1>3 DEF LinesInv, MaskInv, Running, InterruptsRestored, BarsSeparate
    <2> QED
      BY <2>1, <2>2, <2>3
  <1>4. CASE \E g \in Wanted : \E fails \in Members(g) : LET made == { m \in Members(g) : m[3] < fails[3] } IN
               /\ groups' = { f \in Wanted : \E i, j \in DOMAIN GroupOrder : GroupOrder[i] = f /\ GroupOrder[j] = g /\ i < j }
               /\ trouble' = trouble \cup {"cdev"}
               /\ xpdev_free(Gave(Took(CdevOf(groups') \cup made \cup {Major}), xpdev_destroy_interfaces(groups')))
    <2>0. PICK g \in Wanted : \E made \in SUBSET Members(g) :
            /\ trouble' = trouble \cup {"cdev"}
            /\ xpdev_free(Gave(Took(CdevOf(groups') \cup made \cup {Major}), xpdev_destroy_interfaces(groups')))
      BY <1>4
    <2>1. PICK made \in SUBSET Members(g) :
            /\ trouble' = trouble \cup {"cdev"}
            /\ xpdev_free(Gave(Took(CdevOf(groups') \cup made \cup {Major}), xpdev_destroy_interfaces(groups')))
      BY <2>0
    <2> DEFINE S == CdevOf(groups') \cup made \cup {Major}
               D == xpdev_destroy_interfaces(groups')
               h1 == Took(S)
               h == Gave(h1, D)
    <2>2. ASSUME NEW r \in Resources, r[1] \notin trouble' PROVE held'[r] = 0
      <3>1. r[1] # "cdev" /\ r[1] \notin trouble
        BY <2>1, <2>2
      <3>2. r \notin D
        BY <3>1, CdevKind DEF xpdev_destroy_interfaces
      <3>3. r \notin S
        <4>1. r \notin CdevOf(groups') \cup {Major}
          BY <3>1, CdevKind
        <4>2. r \in Members(g) => r \in CdevOf(Wanted) \cup {Major}
          BY DEF CdevOf
        <4>3. r \notin Members(g)
          BY <3>1, <4>2, CdevKind
        <4> QED
          BY <4>1, <4>3
      <3>4. held[r] = IF Has(r) THEN 1 ELSE 0
        BY <3>1 DEF HeldInv
      <3> HIDE DEF S, D
      <3>5. h1[r] = held[r] + 0
        BY <3>3, TookIs
      <3> HIDE DEF h1
      <3>6. h[r] = h1[r] - 0
        BY <3>2, GaveIs
      <3>7. h[r] = IF Has(r) THEN 1 ELSE 0
        BY <3>4, <3>5, <3>6
      <3>8. xpdev_free(h)
        BY <2>1 DEF h, h1, D, S
      <3> HIDE DEF h
      <3> QED
        BY <1>1, <3>1, <3>7, <3>8, FreeLeaves
    <2>3. xpdev_free(h) /\ UNCHANGED <<dmode, chan, bar, off>>
      BY <1>1, <2>1
    <2> HIDE DEF h
    <2> QED
      BY <2>2, <2>3, FreeKeeps
  <1> QED
    BY <1>3, <1>4 DEF xpdev_create_interfaces

\* irq_teardown of a device whose lines are up gives back the lines and nothing else.
LEMMA LinesDown ==
  ASSUME DeviceInv, NEW r \in Resources, r[1] \notin trouble, r[1] = "irq" => irqsUp
  PROVE  irq_teardown(held)[r] = IF Has(r) /\ r[1] # "irq" THEN 1 ELSE 0
  <1>1. irq_teardown(held)[r] = held[r] - (IF r \in IrqOf(Freed) THEN 1 ELSE 0)
    BY GaveIs DEF irq_teardown
  <1>2. held[r] = IF Has(r) THEN 1 ELSE 0
    BY DEF DeviceInv, HeldInv
  <1>3. CASE r[1] = "irq"
    <2>1. AllLines \in SUBSET Pairs /\ Freed = AllLines
      BY <1>3, LinesArePairs DEF DeviceInv, LinesInv
    <2>2. r \in IrqOf(Freed) <=> (r[1] = "irq" /\ <<r[2], r[3]>> \in AllLines)
      BY <2>1, IrqOfIs
    <2>3. Has(r) <=> <<r[2], r[3]>> \in AllLines
      BY <1>3 DEF Has
    <2> QED
      BY <1>1, <1>2, <1>3, <2>2, <2>3
  <1>4. CASE r[1] # "irq"
    <2>1. r \notin IrqOf(Freed)
      BY <1>4, IrqOfKind
    <2> QED
      BY <1>1, <1>2, <1>4, <2>1
  <1> QED
    BY <1>3, <1>4

\* Offline, also for a PCI error.
LEMMA OfflineKeeps ==
  ASSUME DeviceInv, GoOffline \/ xdma_error_detected
  PROVE  DeviceInv'
  <1> USE DEF DeviceInv
  <1>1. /\ pc = "open" /\ xdma_device_offline
        /\ UNCHANGED <<dmode, bar, chan, lines, groups, userMask, probes>>
        /\ \/ pc' = "open" /\ held' = irq_teardown(held)
           \/ pc' = "frozen" /\ held' = Gave(irq_teardown(held), Single({"enable"}))
    BY DEF GoOffline, xdma_error_detected
  <1>2. /\ off' = TRUE /\ irqOnD' = [channel |-> FALSE, user |-> {}] /\ irqsUp' = FALSE
        /\ trouble' = IF irqsUp THEN trouble ELSE trouble \cup {"irq"}
    BY <1>1 DEF xdma_device_offline
  <1>3. ActiveEngines' = ActiveEngines /\ \A r : r \in (CdevOf(groups))' <=> r \in CdevOf(groups)
    BY <1>1, MembersSame
  <1>4. DeviceTypeOK'
    <2>1. held' = [r \in Resources |-> held'[r]]
      BY <1>1, CountsTyped DEF irq_teardown
    <2>2. irqOnD' = [channel |-> irqOnD'.channel, user |-> irqOnD'.user]
      BY <1>2
    <2> QED
      BY <1>1, <1>2, <2>1, <2>2 DEF DeviceTypeOK, Running
  <1>5. HeldInv'
    <2> SUFFICES ASSUME NEW r \in Resources, r[1] \notin trouble'
                 PROVE  held'[r] = IF Has(r)' THEN 1 ELSE 0
      BY DEF HeldInv
    <2>1. r[1] \notin trouble /\ (r[1] = "irq" => irqsUp)
      BY <1>2
    <2>2. irq_teardown(held)[r] = IF Has(r) /\ r[1] # "irq" THEN 1 ELSE 0
      BY <2>1, LinesDown
    <2>3. r[1] \in Singles \cup {"engine", "irq", "cdev"} /\ (r \in Single({"enable"}) <=> r[1] \in {"enable"})
      BY KindsApart, SingleIs DEF Singles
    <2>4. Has(r)' <=> (Has(r) /\ r[1] # "irq" /\ (r[1] = "enable" => pc' = "open"))
      <3>1. CASE r[1] = "irq"
        BY <1>2, <3>1 DEF Has
      <3>2. CASE r[1] = "engine"
        BY <1>1, <1>3, <3>2 DEF Has
      <3>3. CASE r[1] = "cdev"
        BY <1>1, <1>3, <3>3 DEF Has, Running
      <3>4. CASE r[1] \in Singles
        BY <1>1, <3>4 DEF Has, Singles
      <3> QED
        BY <2>3, <3>1, <3>2, <3>3, <3>4
    <2>5. CASE pc' = "open" /\ held' = irq_teardown(held)
      BY <2>2, <2>4, <2>5
    <2>6. CASE pc' = "frozen" /\ held' = Gave(irq_teardown(held), Single({"enable"}))
      <3> DEFINE h == irq_teardown(held)
      <3> HIDE DEF h
      <3>1. Gave(h, Single({"enable"}))[r] = h[r] - (IF r \in Single({"enable"}) THEN 1 ELSE 0)
        BY GaveIs
      <3>2. r[1] = "enable" => Has(r)
        BY <1>1 DEF Has
      <3>3. h[r] = IF Has(r) /\ r[1] # "irq" THEN 1 ELSE 0
        BY <2>2 DEF h
      <3>4. held'[r] = h[r] - (IF r[1] = "enable" THEN 1 ELSE 0)
        BY <2>3, <2>6, <3>1 DEF h
      <3> QED
        BY <2>4, <2>6, <3>2, <3>3, <3>4
    <2> QED
      BY <1>1, <2>5, <2>6
  <1>6. LinesInv' /\ MaskInv' /\ InterruptsRestored' /\ BarsSeparate'
    BY <1>1, <1>2 DEF LinesInv, MaskInv, Running, InterruptsRestored, BarsSeparate
  <1> QED
    BY <1>4, <1>5, <1>6

\* Online, also after a slot reset.
LEMMA OnlineKeeps ==
  ASSUME DeviceInv, GoOnline \/ xdma_slot_reset
  PROVE  DeviceInv'
  <1> USE DEF DeviceInv
  <1>1. pc \in {"open", "reset"} /\ pc' = "open" /\ xdma_device_online /\ off' = FALSE
        /\ UNCHANGED <<dmode, bar, chan, groups, userMask, probes>>
    BY DEF GoOnline, xdma_slot_reset, xdma_device_online
  <1>2. /\ ActiveEngines' = ActiveEngines /\ AllLines' = AllLines
        /\ \A r : r \in (CdevOf(groups))' <=> r \in CdevOf(groups)
    BY <1>1, MembersSame DEF AllLines
  <1>3. BarsSeparate'
    BY <1>1 DEF BarsSeparate
  <1>4. ASSUME NEW r \in Resources, r[1] # "irq"
        PROVE  Has(r)' <=> Has(r)
    <2>1. r[1] \in Singles \cup {"engine", "cdev"}
      BY <1>4, KindsApart
    <2>2. CASE r[1] = "engine"
      BY <1>1, <1>2, <2>2 DEF Has
    <2>3. CASE r[1] = "cdev"
      BY <1>1, <1>2, <2>3 DEF Has, Running
    <2>4. CASE r[1] \in Singles
      BY <1>1, <2>4 DEF Has, Singles
    <2> QED
      BY <2>1, <2>2, <2>3, <2>4
  <1>5. CASE dmode.poll
    <2>1. UNCHANGED <<held, lines, irqOnD, irqsUp, trouble>>
      BY <1>1, <1>5 DEF xdma_device_online
    <2>2. DeviceTypeOK'
      BY <1>1, <2>1 DEF DeviceTypeOK, Running
    <2>3. HeldInv'
      <3>1. ASSUME NEW r \in Resources PROVE Has(r)' <=> Has(r)
        <4>1. CASE r[1] = "irq"
          BY <1>2, <2>1, <4>1 DEF Has
        <4> QED
          BY <1>4, <4>1
      <3> QED
        BY <2>1, <3>1 DEF HeldInv
    <2>4. Freed' = Freed
      BY <1>1, <1>2, <2>1 DEF Freed
    <2>5. LinesInv' /\ MaskInv' /\ InterruptsRestored'
      BY <1>1, <1>2, <1>5, <2>1, <2>4 DEF LinesInv, MaskInv, Running, InterruptsRestored
    <2> QED
      BY <1>3, <2>2, <2>3, <2>5
  <1>6. CASE ~ dmode.poll
    <2>1. PICK e \in irq_setup_ends :
            /\ held' = Took(IrqOf(e.got)) /\ lines' = e.lines
            /\ irqOnD' = RestoredIrqs
            /\ irqsUp' = (e.ok /\ ~ irqsUp)
            /\ trouble' = IF e.ok /\ ~ irqsUp THEN trouble ELSE trouble \cup {"irq"}
      BY <1>1, <1>6 DEF xdma_device_online
    <2>2. irqOnD.user \subseteq userMask
      <3>1. CASE off
        BY <1>1, <3>1 DEF MaskInv, Running
      <3>2. CASE ~ off
        <4>1. pc = "open"
          BY <1>1, <3>2 DEF MaskInv
        <4>2. irqOnD = [channel |-> TRUE, user |-> userMask]
          BY <1>6, <3>2, <4>1 DEF InterruptsRestored
        <4> QED
          BY <4>2
      <3> QED
        BY <3>1, <3>2
    <2>3. irqOnD' = [channel |-> TRUE, user |-> userMask']
      <3>1. irqOnD.user \cup userMask = userMask
        BY <2>2
      <3> QED
        BY <1>1, <2>1, <3>1 DEF RestoredIrqs
    <2>4. DeviceTypeOK'
      <3>1. irqOnD' = [channel |-> irqOnD'.channel, user |-> irqOnD'.user]
        BY <2>3
      <3>2. irqsUp' \in BOOLEAN
        BY <2>1
      <3> QED
        BY <1>1, <2>1, <3>1, <3>2, CountsTyped DEF DeviceTypeOK, Running
    <2>5. InterruptsRestored' /\ MaskInv'
      BY <1>1, <2>3 DEF InterruptsRestored, MaskInv, Running
    <2>6. CASE e.ok /\ ~ irqsUp
      <3>1. irqsUp' /\ trouble' = trouble
        BY <2>1, <2>6
      <3>2. HeldInv' /\ Freed' = AllLines'
        BY <1>1, <2>1, <2>6, <3>1, LinesUp
      <3>3. LinesInv'
        BY <1>1, <3>2 DEF LinesInv
      <3> QED
        BY <1>3, <2>4, <2>5, <3>2, <3>3
    <2>7. CASE ~ (e.ok /\ ~ irqsUp)
      <3>1. ~ irqsUp' /\ trouble' = trouble \cup {"irq"}
        BY <2>1, <2>7
      <3>2. HeldInv'
        <4> SUFFICES ASSUME NEW r \in Resources, r[1] \notin trouble'
                     PROVE  held'[r] = IF Has(r)' THEN 1 ELSE 0
          BY DEF HeldInv
        <4>1. r[1] # "irq" /\ r[1] \notin trouble
          BY <3>1
        <4>2. r \notin IrqOf(e.got)
          BY <4>1, IrqOfKind
        <4>3. held[r] = IF Has(r) THEN 1 ELSE 0
          BY <4>1 DEF HeldInv
        <4>4. held'[r] = held[r] + (IF r \in IrqOf(e.got) THEN 1 ELSE 0)
          BY <2>1, TookIs
        <4>5. Has(r)' <=> Has(r)
          BY <1>4, <4>1
        <4> QED
          BY <4>2, <4>3, <4>4, <4>5
      <3>3. LinesInv'
        BY <1>1, <3>1 DEF LinesInv
      <3> QED
        BY <1>3, <2>4, <2>5, <3>2, <3>3
    <2> QED
      BY <2>6, <2>7
  <1> QED
    BY <1>5, <1>6 DEF DeviceTypeOK

LEMMA ResetKeeps ==
  ASSUME DeviceInv, pci_enable_device_mem
  PROVE  DeviceInv'
  <1> USE DEF DeviceInv, pci_enable_device_mem
  <1>1. DeviceTypeOK'
    BY CountsTyped DEF DeviceTypeOK, Running
  <1>2. ActiveEngines' = ActiveEngines /\ AllLines' = AllLines
        /\ \A r : r \in (CdevOf(groups))' <=> r \in CdevOf(groups)
    BY MembersSame DEF AllLines
  <1>3. HeldInv'
    <2>1. ASSUME NEW r \in Resources
          PROVE  (Has(r)' <=> (Has(r) \/ r \in Single({"enable"}))) /\ ~ (Has(r) /\ r \in Single({"enable"}))
      <3>1. r[1] \in Singles \cup {"engine", "irq", "cdev"} /\ (r \in Single({"enable"}) <=> r[1] \in {"enable"})
        BY KindsApart, SingleIs DEF Singles
      <3>2. CASE r[1] = "irq"
        BY <1>2, <3>1, <3>2 DEF Has
      <3>3. CASE r[1] = "engine"
        BY <1>2, <3>1, <3>3 DEF Has
      <3>4. CASE r[1] = "cdev"
        BY <1>2, <3>1, <3>4 DEF Has, Running
      <3>5. CASE r[1] \in Singles
        BY <3>1, <3>5 DEF Has, Singles
      <3> QED
        BY <3>1, <3>2, <3>3, <3>4, <3>5
    <2> QED
      BY <2>1, Gains
  <1>4. LinesInv' /\ MaskInv' /\ InterruptsRestored' /\ BarsSeparate'
    BY DEF LinesInv, MaskInv, Running, InterruptsRestored, BarsSeparate
  <1> QED
    BY <1>1, <1>3, <1>4

\* A step that leaves the resources alone.
LEMMA UserIsrKeeps ==
  ASSUME DeviceInv, user_isr
  PROVE  DeviceInv'
  <1> USE DEF DeviceInv, user_isr
  <1>1. /\ irqOnD' = [channel |-> irqOnD'.channel, user |-> irqOnD'.user]
        /\ irqOnD'.channel = irqOnD.channel
        /\ \/ irqOnD'.user = irqOnD.user \cup AllUser /\ userMask' = userMask \cup AllUser
           \/ irqOnD'.user = irqOnD.user \ {0} /\ userMask' = userMask \ {0}
    BY DEF DeviceTypeOK
  <1>2. DeviceTypeOK'
    BY <1>1 DEF DeviceTypeOK
  <1>3. ActiveEngines' = ActiveEngines /\ AllLines' = AllLines /\ Freed' = Freed
        /\ \A r : r \in (CdevOf(groups))' <=> r \in CdevOf(groups)
    BY MembersSame DEF AllLines, Freed
  <1>4. HeldInv'
    <2>1. ASSUME NEW r \in Resources PROVE Has(r)' <=> Has(r)
      <3>1. r[1] \in Singles \cup {"engine", "irq", "cdev"}
        BY KindsApart
      <3> QED
        BY <1>3, <3>1 DEF Has, Running, Singles
    <2> QED
      BY <2>1 DEF HeldInv
  <1>5. LinesInv' /\ MaskInv' /\ BarsSeparate'
    BY <1>3 DEF LinesInv, MaskInv, Running, BarsSeparate
  <1>6. InterruptsRestored'
    BY <1>1 DEF InterruptsRestored
  <1> QED
    BY <1>2, <1>4, <1>5, <1>6

LEMMA DeviceStutters ==
  ASSUME DeviceInv, UNCHANGED dvars
  PROVE  DeviceInv'
  <1> USE DEF DeviceInv, dvars
  <1>1. ActiveEngines' = ActiveEngines /\ AllLines' = AllLines /\ Freed' = Freed
        /\ \A r : r \in (CdevOf(groups))' <=> r \in CdevOf(groups)
    BY MembersSame DEF AllLines, Freed
  <1>2. HeldInv'
    <2>1. ASSUME NEW r \in Resources PROVE Has(r)' <=> Has(r)
      <3>1. r[1] \in Singles \cup {"engine", "irq", "cdev"}
        BY KindsApart
      <3> QED
        BY <1>1, <3>1 DEF Has, Running, Singles
    <2> QED
      BY <2>1 DEF HeldInv
  <1>3. DeviceTypeOK' /\ LinesInv' /\ MaskInv' /\ InterruptsRestored' /\ BarsSeparate'
    BY <1>1 DEF DeviceTypeOK, LinesInv, MaskInv, InterruptsRestored, BarsSeparate
  <1> QED
    BY <1>2, <1>3

\* For every number of engines and user interrupts, every interrupt mode and every order of probe,
\* offline, online, PCI error and removal: what one step of probe_one has taken is released once
\* when a later one fails or the device goes, but for the leaks named in trouble, the three BARs
\* are different ones, and an online device has its interrupts enabled (xdma_mod.c,
\* libxdma.c:1532-2090, 3293-3800, xdma_cdev.c).
THEOREM DeviceIsSound == SpecDevice => []DeviceSound
  <1>1. InitDevice => DeviceInv
    BY DeviceInit
  <1>2. DeviceInv /\ [NextDevice]_dvars => DeviceInv'
    BY ProbeKeeps, EnableKeeps, RegionsKeeps, BarsKeep, EnginesKeep, VectorsKeep, OpenIrqsKeep, IsrKeeps, CdevsKeep,
       RemoveKeeps, OfflineKeeps, OnlineKeeps, ResetKeeps, UserIsrKeeps, DeviceStutters DEF NextDevice
  <1>3. DeviceInv => DeviceSound
    <2> SUFFICES ASSUME DeviceInv, NEW r \in Resources, r[1] \notin trouble
                 PROVE  held[r] \in {0, 1} /\ (pc = "none" => held[r] = 0)
      BY DEF DeviceSound, ResourcesBalanced, DeviceInv
    <2>1. held[r] = IF Has(r) THEN 1 ELSE 0
      BY DEF DeviceInv, HeldInv
    <2>2. r[1] \in Singles \cup {"engine", "irq", "cdev"}
      BY KindsApart
    <2>3. pc = "none" => ~ Has(r)
      BY <2>2 DEF Has, Singles, Running, DeviceInv, LinesInv
    <2> QED
      BY <2>1, <2>3
  <1> QED
    BY <1>1, <1>2, <1>3, PTL DEF SpecDevice

=============================================================================
