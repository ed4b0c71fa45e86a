--------------------------- MODULE IcapController ---------------------------
(***************************************************************************)
(* The HLS controller of the configuration port (kernel/icap_hls). It is   *)
(* called in every cycle: a call moves one of three nested state machines  *)
(* (the test sequence, cmd_read_regs, cmd_read_bitstreams), drives the     *)
(* pins CSIB and RDWRB and may write one word. The ICAPE3 primitive is     *)
(* external. A command word is kept as its kind and register or value.     *)
(* cmd_iprog is compiled in but the sequence never selects it.             *)
(***************************************************************************)
EXTENDS Integers, Sequences

CONSTANTS
  FrameAddrs,    \* frame addresses that may be on the frame_addr pins
  NrWords,       \* words in one frame readback (211 in the code)
  NrPadding,     \* no-operations after the readback command (64 in the code)
  MaxJunk        \* words the port may return before the one asked for

\* cmd_read_regs skips up to five words.
ASSUME IcapAssumption == NrWords \in Nat /\ NrPadding \in Nat /\ MaxJunk \in 0 .. 5

VARIABLES
  top,      \* icap_controller_hls: state, _nr_test, test_cmd, register_addr
  regs,     \* cmd_read_regs: state, nr_1, nr_2, nr_bytes_read and COMMAND_regs_1[6]
  rb,       \* cmd_read_bitstreams: state, nr_1, nr_2, nr_to_read, COMMAND_readback_1[22]
  port,     \* the primitive and its pins in the last cycle
  got,      \* the word the last register read has taken
  asked     \* the frame address sampled by the last readback

icapVars == <<top, regs, rb, port, got, asked>>

W(reg) == [t |-> "write", v |-> reg]
R(reg) == [t |-> "read", v |-> reg]
V(value) == [t |-> "value", v |-> value]
Sync == [t |-> "sync", v |-> 0]
Noop == [t |-> "noop", v |-> 0]
Dummy == [t |-> "dummy", v |-> 0]
Noops(n) == [i \in 1 .. n |-> Noop]

\* The header of cook_cmd for a register, in its place in COMMAND_regs_1. The bus width
\* words are taken for dummy words.
COMMAND_regs_1(header) == <<Dummy, Dummy, Dummy, Dummy, Sync, Noop, header, Noop, Noop>>
COMMAND_regs_desync == <<W("CMD"), V("DESYNC"), Noop, Noop>>

\* The position (counted from 0 in the code) at which the frame address is stored.
FarIndex == 23

COMMAND_readback_1(far) ==
  LET words == <<Dummy, Dummy, Dummy, Dummy, Sync, Noop,
                 W("MASK"), V("CAPTURE"), W("CTL1"), V("CAPTURE"), W("CMD"), V("RCRC"), Noop>>
               \o Noops(5)
               \o <<W("CMD"), V("RCFG"), Noop, W("FAR"), V(0), R("FDRO"), V(NrWords)>>
               \o Noops(NrPadding)
  IN  [words EXCEPT ![FarIndex] = V(far)]

COMMAND_readback_2 ==
  <<W("MASK"), V("CAPTURE"), W("CTL1"), V(0), Noop, W("CMD"), V("START"), Noop,
    W("CMD"), V("RCRC"), Noop, W("CMD"), V("DESYNC"), Noop, Noop>>

InitIcap ==
  /\ top = [st |-> "INACTIVE", nr |-> 0, cmd |-> 0, reg |-> "CRC"]
  /\ regs = [st |-> "IDLE", nr_1 |-> 0, nr_2 |-> 0, read |-> 0, header |-> R("IDCODE")]
  /\ rb = [st |-> "IDLE", nr_1 |-> 0, nr_2 |-> 0, left |-> NrWords, far |-> 0]
  /\ port = [on |-> FALSE, write |-> FALSE, synced |-> FALSE, next |-> "none", reading |-> "none",
             junk |-> 0, silent |-> FALSE, FAR |-> 0, aborted |-> FALSE]
  /\ got = "none" /\ asked = 0

-----------------------------------------------------------------------------
(* The primitive.                                                          *)

\* A word written: until the sync word everything is ignored; a write header is followed
\* by the value, a read header makes its register the one that can be read.
Decoded(p, w) ==
  IF ~p.synced THEN [p EXCEPT !.synced = w.t = "sync"]
  ELSE IF p.next # "none"
       THEN [p EXCEPT !.next = "none",
                      !.FAR = IF p.next = "FAR" THEN w.v ELSE @,
                      !.synced = ~(p.next = "CMD" /\ w.v = "DESYNC"),
                      !.reading = IF p.next = "CMD" /\ w.v = "DESYNC" THEN "none" ELSE @]
  ELSE IF w.t = "write" THEN [p EXCEPT !.next = w.v]
  ELSE IF w.t = "read" THEN [p EXCEPT !.reading = w.v, !.junk = 0, !.silent = FALSE]
  ELSE p

\* The pins of a cycle: turning round while the port stays selected aborts it.
Driven(on, write) ==
  [port EXCEPT !.on = on, !.write = write,
               !.aborted = @ \/ (on /\ port.on /\ write # port.write)]
Deselected(write) == port' = Driven(FALSE, write)
Written(w) == port' = Decoded(Driven(TRUE, TRUE), w)

-----------------------------------------------------------------------------
(* cmd_read_regs. IDCODE and FDRO, the registers asked for, can be read;   *)
(* a register that is write-only would be refused at once.                 *)

RegsIdle(reg) ==
  /\ regs.st = "IDLE"
  /\ regs' = [st |-> "WRITE_1", nr_1 |-> 0, nr_2 |-> 0, read |-> 0, header |-> R(reg)]
  /\ Deselected(TRUE)
  /\ UNCHANGED got

RegsWrite1 ==
  /\ regs.st = "WRITE_1"
  /\ LET words == COMMAND_regs_1(regs.header)
     IN  IF regs.nr_1 < Len(words)
         THEN Written(words[regs.nr_1 + 1]) /\ regs' = [regs EXCEPT !.nr_1 = @ + 1]
         ELSE Deselected(TRUE) /\ regs' = [regs EXCEPT !.st = "WRITE_1_TRANSITION"]
  /\ UNCHANGED got

RegsTurn ==
  /\ regs.st \in {"WRITE_1_TRANSITION", "READ_TRANSITION"}
  /\ regs' = [regs EXCEPT !.st = IF @ = "READ_TRANSITION" THEN "WRITE_DESYNC" ELSE "READ"]
  /\ Deselected(FALSE)
  /\ UNCHANGED got

\* The stage in which the port is deselected before it is turned round. TurnsAtOnce is a
\* seeded fault.
TurnsAtOnce == "WRITE_DESYNC"
AfterRead == "READ_TRANSITION"

\* Words that look like none at all are skipped, the first five of a read.
Skipped(word, n) == word = "junk" /\ n <= 5

\* What the port may give: nothing yet, a word before the data, or the register. Frame data
\* may itself be zero.
PortWords ==
  (IF port.silent THEN {} ELSE {"nothing"})
  \cup (IF port.junk < MaxJunk THEN {"junk"} ELSE {})
  \cup {port.reading}

RegsRead ==
  /\ regs.st = "READ"
  /\ \E word \in PortWords :
       /\ port' = [Driven(TRUE, FALSE) EXCEPT !.silent = word = "nothing",
                                              !.junk = IF word = "junk" THEN @ + 1 ELSE @]
       /\ IF word = "nothing" THEN UNCHANGED <<regs, got>>
          ELSE LET n == regs.read + 1
                   skip == Skipped(word, n)
               IN  /\ regs' = [regs EXCEPT !.read = n, !.st = IF skip THEN @ ELSE AfterRead]
                   /\ got' = IF skip THEN got ELSE word

RegsDesync ==
  /\ regs.st = "WRITE_DESYNC" /\ regs.nr_2 < Len(COMMAND_regs_desync)
  /\ Written(COMMAND_regs_desync[regs.nr_2 + 1])
  /\ regs' = [regs EXCEPT !.nr_2 = @ + 1]
  /\ UNCHANGED got

\* A call that returns CMD_WIP, and the one that returns CMD_DONE.
RegsWip(reg) == RegsIdle(reg) \/ RegsWrite1 \/ RegsTurn \/ RegsRead \/ RegsDesync
RegsDone ==
  /\ regs.st = "WRITE_DESYNC" /\ regs.nr_2 = Len(COMMAND_regs_desync)
  /\ regs' = [regs EXCEPT !.st = "IDLE"]
  /\ Deselected(FALSE)
  /\ UNCHANGED got

-----------------------------------------------------------------------------
(* cmd_read_bitstreams.                                                    *)

ReadbackIdle ==
  /\ rb.st = "IDLE"
  /\ \E a \in FrameAddrs :
       /\ rb' = [rb EXCEPT !.st = "WRITE_1", !.nr_1 = 0, !.nr_2 = 0, !.far = a]
       /\ asked' = a
  /\ Deselected(TRUE)
  /\ UNCHANGED <<regs, got>>

ReadbackWrite1 ==
  /\ rb.st = "WRITE_1"
  /\ LET words == COMMAND_readback_1(rb.far)
     IN  IF rb.nr_1 < Len(words)
         THEN Written(words[rb.nr_1 + 1]) /\ rb' = [rb EXCEPT !.nr_1 = @ + 1]
         ELSE Deselected(TRUE) /\ rb' = [rb EXCEPT !.st = "TRANSITION"]
  /\ UNCHANGED <<regs, got, asked>>

ReadbackTurn ==
  /\ rb.st = "TRANSITION"
  /\ rb' = [rb EXCEPT !.st = "READ"]
  /\ Deselected(FALSE)
  /\ UNCHANGED <<regs, got, asked>>

\* Every word is a register read of its own, and one more follows the last. nr_to_read is
\* never set again: a later readback reads one word.
ReadbackRead ==
  /\ rb.st = "READ"
  /\ \/ RegsWip("FDRO") /\ UNCHANGED rb
     \/ RegsDone /\ rb' = IF rb.left = 0 THEN [rb EXCEPT !.st = "WRITE_2"] ELSE [rb EXCEPT !.left = @ - 1]
  /\ UNCHANGED asked

\* The second set of commands goes to a port that the register reads have desynchronised.
ReadbackWrite2 ==
  /\ rb.st = "WRITE_2" /\ rb.nr_2 < Len(COMMAND_readback_2)
  /\ Written(COMMAND_readback_2[rb.nr_2 + 1])
  /\ rb' = [rb EXCEPT !.nr_2 = @ + 1]
  /\ UNCHANGED <<regs, got, asked>>

ReadbackWip == ReadbackIdle \/ ReadbackWrite1 \/ ReadbackTurn \/ ReadbackRead \/ ReadbackWrite2
ReadbackDone ==
  /\ rb.st = "WRITE_2" /\ rb.nr_2 = Len(COMMAND_readback_2)
  /\ rb' = [rb EXCEPT !.st = "IDLE"]
  /\ Deselected(FALSE)
  /\ UNCHANGED <<regs, got, asked>>

-----------------------------------------------------------------------------
(* icap_controller_hls.                                                    *)

\* The test sequence: a register, a frame, a register, then nothing until it is reset. The
\* position moves on before the port is known to be available.
Sequence == <<[cmd |-> 0, reg |-> "IDCODE"], [cmd |-> 2, reg |-> "IDCODE"], [cmd |-> 0, reg |-> "IDCODE"]>>

Inactive ==
  /\ top.st = "INACTIVE"
  /\ \E reset \in BOOLEAN, avail \in BOOLEAN :
       LET nr == IF reset THEN 0 ELSE top.nr
       IN  /\ nr < Len(Sequence)
           /\ top' = [st |-> IF avail THEN "ACTIVE" ELSE "INACTIVE", nr |-> nr + 1,
                      cmd |-> Sequence[nr + 1].cmd, reg |-> Sequence[nr + 1].reg]
  /\ Deselected(FALSE)
  /\ UNCHANGED <<regs, rb, got, asked>>

Active ==
  /\ top.st = "ACTIVE"
  /\ \E avail \in BOOLEAN : top' = [top EXCEPT !.st = IF avail THEN "OP_START" ELSE "INACTIVE"]
  /\ Deselected(FALSE)
  /\ UNCHANGED <<regs, rb, got, asked>>

ReadsRegister ==
  /\ top.st = "OP_START" /\ top.cmd = 0
  /\ \/ RegsWip(top.reg) /\ UNCHANGED top
     \/ RegsDone /\ top' = [top EXCEPT !.st = "DONE"]
  /\ UNCHANGED <<rb, asked>>

ReadsFrame ==
  /\ top.st = "OP_START" /\ top.cmd = 2
  /\ \/ ReadbackWip /\ UNCHANGED top
     \/ ReadbackDone /\ top' = [top EXCEPT !.st = "DONE"]

Done ==
  /\ top.st = "DONE"
  /\ top' = [top EXCEPT !.st = "INACTIVE"]
  /\ Deselected(FALSE)
  /\ UNCHANGED <<regs, rb, got, asked>>

\* The start_test pin need never be set; the controller itself is called in every cycle.
Works == Active \/ ReadsRegister \/ ReadsFrame \/ Done
NextIcap == Inactive \/ Works
SpecIcap == InitIcap /\ [][NextIcap]_icapVars
FairIcap == WF_icapVars(Works)

-----------------------------------------------------------------------------
(* Properties.                                                             *)

\* The port's protocol over whole command sequences (cmd_read_regs.cpp:140-244,
\* cmd_read_bitstreams.cpp:151-226, top.cpp:119-220): it is never turned round while it is
\* selected; between two commands it is deselected and desynchronised, whatever the first
\* one was; a register read takes the register it asked for and not one of the words in
\* front of it; and frame data is read from the frame whose address was on the pins.
IcapDiscipline ==
  /\ ~port.aborted
  /\ top.st \in {"INACTIVE", "ACTIVE", "DONE"} => ~port.on /\ ~port.synced
  /\ top.st = "DONE" /\ top.cmd = 0 => got = top.reg
  /\ rb.st = "READ" => port.FAR = asked

\* Every command comes to its end: the controller does not stay in STATE_OP_START.
CommandsEnd == []<>(top.st = "INACTIVE")
=============================================================================
