----------------------------- MODULE IcapProofs -----------------------------
(***************************************************************************)
(* The configuration port keeps its protocol through whole commands        *)
(* (IcapDiscipline). The inductive invariant IcapInv follows the port word *)
(* by word: in each stage of the nested machines, which way the port may   *)
(* be selected, whether it is synchronised, which write header is open and *)
(* which register can be read.                                             *)
(***************************************************************************)
EXTENDS IcapController, SequenceTheorems, TLAPS

-----------------------------------------------------------------------------
(* The inductive invariant.                                                *)

Positions == [st : {"INACTIVE", "ACTIVE", "OP_START", "DONE"}, nr : Nat, cmd : {0, 2}, reg : {"CRC", "IDCODE"}]
RegsStates == {"IDLE", "WRITE_1", "WRITE_1_TRANSITION", "READ", "READ_TRANSITION", "WRITE_DESYNC"}
RegsMachines == [st : RegsStates, nr_1 : Nat, nr_2 : Nat, read : Nat, header : { R(r) : r \in {"CRC", "IDCODE", "FDRO"} }]
Readbacks == [st : {"IDLE", "WRITE_1", "TRANSITION", "READ", "WRITE_2"}, nr_1 : Nat, nr_2 : Nat, left : Int, far : FrameAddrs \cup {0}]
Headers == {"MASK", "CTL1", "CMD", "FAR"}
Registers == {"CRC", "IDCODE", "FDRO"}
Ports == [on : BOOLEAN, write : BOOLEAN, synced : BOOLEAN, next : Headers \cup {"none"}, reading : Registers \cup {"none"},
          junk : Nat, silent : BOOLEAN, FAR : FrameAddrs \cup {0}, aborted : BOOLEAN]

IcapTypeOK == top \in Positions /\ regs \in RegsMachines /\ rb \in Readbacks /\ port \in Ports

\* Between two commands.
Quiet(p) == ~ p.on /\ ~ p.synced /\ p.next = "none"

\* Only the machine of the command works, and that for registers inside a readback only while
\* it reads.
MachinesInv ==
  /\ top.st # "OP_START" \/ top.cmd = 0 => rb.st = "IDLE"
  /\ top.st # "OP_START" => regs.st = "IDLE"
  /\ top.cmd = 2 /\ regs.st # "IDLE" => rb.st = "READ"
  /\ rb.st = "IDLE" /\ regs.st = "IDLE" => Quiet(port)
  /\ regs.st # "IDLE" => regs.header = IF rb.st = "READ" THEN R("FDRO") ELSE R(top.reg)
  /\ top.st = "DONE" /\ top.cmd = 0 => got = top.reg

\* The port in each stage of a register read: which way it may be selected, what it has decoded.
RegsInv(p, g) ==
  CASE regs.st = "WRITE_1" ->
         /\ p.on => p.write
         /\ regs.nr_1 <= 9 /\ regs.read = 0 /\ regs.nr_2 = 0 /\ p.next = "none"
         /\ regs.nr_1 >= 5 => p.synced
         /\ regs.nr_1 >= 7 => p.reading = regs.header.v /\ p.junk = 0
    [] regs.st = "WRITE_1_TRANSITION" ->
         ~ p.on /\ p.synced /\ p.next = "none" /\ p.reading = regs.header.v /\ p.junk = 0 /\ regs.read = 0 /\ regs.nr_2 = 0
    [] regs.st = "READ" ->
         /\ p.on => ~ p.write
         /\ p.synced /\ p.next = "none" /\ p.reading = regs.header.v /\ p.junk = regs.read /\ regs.read <= MaxJunk /\ regs.nr_2 = 0
    [] regs.st = "READ_TRANSITION" ->
         (p.on => ~ p.write) /\ p.synced /\ p.next = "none" /\ g = regs.header.v /\ regs.nr_2 = 0
    [] regs.st = "WRITE_DESYNC" ->
         /\ p.on => p.write
         /\ regs.nr_2 <= 4 /\ g = regs.header.v
         /\ p.next = IF regs.nr_2 = 1 THEN "CMD" ELSE "none"
         /\ p.synced <=> regs.nr_2 <= 1
    [] regs.st = "IDLE" -> ~ p.on /\ p.next = "none"

\* The write header that the n-th word of a readback leaves open.
OpenHeader(n) ==
  CASE n = 7 -> "MASK" [] n = 9 -> "CTL1" [] n \in {11, 19} -> "CMD" [] n = 22 -> "FAR" [] OTHER -> "none"

\* The port in each stage of a readback.
ReadbackInv ==
  /\ rb.st \in {"IDLE", "READ"} => RegsInv(port, got)
  /\ rb.st \in {"READ", "TRANSITION"} => port.FAR = asked
  /\ rb.st # "IDLE" => rb.far = asked
  /\ rb.st = "WRITE_1" =>
       /\ port.on => port.write
       /\ rb.nr_1 <= 25 + NrPadding /\ port.next = OpenHeader(rb.nr_1) /\ (port.synced <=> rb.nr_1 >= 5)
       /\ rb.nr_1 >= 23 => port.FAR = rb.far
  /\ rb.st = "TRANSITION" => ~ port.on /\ port.next = "none"
  /\ rb.st = "READ" => rb.nr_2 = 0
  /\ rb.st = "TRANSITION" => rb.nr_2 = 0
  /\ rb.st = "WRITE_1" => rb.nr_2 = 0
  /\ rb.st = "WRITE_2" => (port.on => port.write) /\ ~ port.synced /\ port.next = "none" /\ rb.nr_2 <= 15

IcapInv == IcapTypeOK /\ MachinesInv /\ ReadbackInv /\ ~ port.aborted

-----------------------------------------------------------------------------
(* The port.                                                               *)

\* What the pins of a cycle do to it.
LEMMA PortDriven ==
  ASSUME port \in Ports, NEW on \in BOOLEAN, NEW write \in BOOLEAN
  PROVE  LET d == Driven(on, write) IN
         /\ d \in Ports /\ d.on = on /\ d.write = write
         /\ d.synced = port.synced /\ d.next = port.next /\ d.reading = port.reading /\ d.junk = port.junk /\ d.FAR = port.FAR
         /\ d.aborted <=> port.aborted \/ (on /\ port.on /\ write # port.write)
  <1>1. PICK b \in BOOLEAN : b = (port.aborted \/ (on /\ port.on /\ write # port.write))
    OBVIOUS
  <1>2. Driven(on, write) = [port EXCEPT !.on = on, !.write = write, !.aborted = b]
    BY <1>1 DEF Driven, Ports
  <1> QED
    BY <1>1, <1>2 DEF Ports

\* What a word does to the port, by what it has decoded before.
LEMMA WordDecoded ==
  ASSUME NEW p \in Ports, NEW w, w.t = "write" => w.v \in Headers, w.t = "read" => w.v \in Registers,
         p.synced /\ p.next = "FAR" => w.v \in FrameAddrs \cup {0}
  PROVE  LET d == Decoded(p, w) IN
         /\ d \in Ports /\ d.on = p.on /\ d.write = p.write /\ d.aborted = p.aborted
         /\ ~ p.synced => (d.synced <=> w.t = "sync") /\ d.next = p.next /\ d.reading = p.reading /\ d.junk = p.junk /\ d.FAR = p.FAR
         /\ p.synced /\ p.next = "none" /\ w.t \notin {"write", "read"} => d = p
         /\ p.synced /\ p.next = "none" /\ w.t = "write" => d.synced /\ d.next = w.v /\ d.FAR = p.FAR
         /\ p.synced /\ p.next = "none" /\ w.t = "read" => d.synced /\ d.next = "none" /\ d.reading = w.v /\ d.junk = 0 /\ d.FAR = p.FAR
         /\ p.synced /\ p.next # "none" =>
              /\ d.next = "none" /\ d.FAR = (IF p.next = "FAR" THEN w.v ELSE p.FAR)
              /\ d.synced <=> ~ (p.next = "CMD" /\ w.v = "DESYNC")
  <1> DEFINE d == Decoded(p, w)
  <1>1. CASE ~ p.synced
    <2>1. d = [p EXCEPT !.synced = w.t = "sync"]
      BY <1>1 DEF Decoded
    <2>2. d \in Ports /\ d.on = p.on /\ d.write = p.write /\ d.aborted = p.aborted /\ (d.synced <=> w.t = "sync")
      BY <2>1 DEF Ports
    <2>3. d.next = p.next /\ d.reading = p.reading /\ d.junk = p.junk /\ d.FAR = p.FAR
      BY <2>1 DEF Ports
    <2> QED
      BY <1>1, <2>2, <2>3
  <1>2. CASE p.synced /\ p.next # "none"
    <2> DEFINE end == p.next = "CMD" /\ w.v = "DESYNC"
               far == IF p.next = "FAR" THEN w.v ELSE p.FAR
               reg == IF end THEN "none" ELSE p.reading
    <2>1. d = [p EXCEPT !.next = "none", !.FAR = far, !.synced = ~ end, !.reading = reg]
      BY <1>2 DEF Decoded, Ports
    <2>2. far \in FrameAddrs \cup {0} /\ reg \in Registers \cup {"none"} /\ (~ end) \in BOOLEAN
      BY <1>2 DEF Ports
    <2> HIDE DEF far, reg
    <2>3. d \in Ports /\ d.on = p.on /\ d.write = p.write /\ d.aborted = p.aborted /\ d.next = "none" /\ d.FAR = far /\ (d.synced <=> ~ end)
      BY <2>1, <2>2 DEF Ports
    <2>4. d.FAR = IF p.next = "FAR" THEN w.v ELSE p.FAR
      BY <2>3 DEF far
    <2> QED
      BY <1>2, <2>3, <2>4
  <1>3. CASE p.synced /\ p.next = "none" /\ w.t = "write"
    <2>1. d = [p EXCEPT !.next = w.v]
      BY <1>3 DEF Decoded
    <2> QED
      BY <1>3, <2>1 DEF Ports
  <1>4. CASE p.synced /\ p.next = "none" /\ w.t = "read"
    <2>1. PICK z \in Nat, b \in BOOLEAN : z = 0 /\ b = FALSE
      OBVIOUS
    <2>2. d = [p EXCEPT !.reading = w.v, !.junk = z, !.silent = b]
      BY <1>4, <2>1 DEF Decoded
    <2>3. /\ d \in Ports /\ d.on = p.on /\ d.write = p.write /\ d.aborted = p.aborted /\ d.synced = p.synced
          /\ d.next = p.next /\ d.reading = w.v /\ d.junk = z /\ d.FAR = p.FAR
      BY <1>4, <2>2 DEF Ports
    <2>4. d.junk = 0
      BY <2>1, <2>3
    <2> QED
      BY <1>4, <2>3, <2>4
  <1>5. CASE p.synced /\ p.next = "none" /\ w.t \notin {"write", "read"}
    BY <1>5 DEF Decoded
  <1> QED
    BY <1>1, <1>2, <1>3, <1>4, <1>5

\* A cycle that writes a word w: the port does not turn round, and decodes the word.
LEMMA WordWritten ==
  ASSUME port \in Ports, NEW w, w.t = "write" => w.v \in Headers, w.t = "read" => w.v \in Registers,
         port.synced /\ port.next = "FAR" => w.v \in FrameAddrs \cup {0},
         Written(w), ~ port.aborted, port.on => port.write
  PROVE  /\ port' \in Ports /\ port'.on /\ port'.write /\ ~ port'.aborted
         /\ ~ port.synced => (port'.synced <=> w.t = "sync") /\ port'.next = port.next /\ port'.reading = port.reading /\ port'.junk = port.junk /\ port'.FAR = port.FAR
         /\ port.synced /\ port.next = "none" /\ w.t \notin {"write", "read"} =>
              port'.synced /\ port'.next = "none" /\ port'.reading = port.reading /\ port'.junk = port.junk /\ port'.FAR = port.FAR
         /\ port.synced /\ port.next = "none" /\ w.t = "write" => port'.synced /\ port'.next = w.v /\ port'.FAR = port.FAR
         /\ port.synced /\ port.next = "none" /\ w.t = "read" => port'.synced /\ port'.next = "none" /\ port'.reading = w.v /\ port'.junk = 0 /\ port'.FAR = port.FAR
         /\ port.synced /\ port.next # "none" =>
              /\ port'.next = "none" /\ port'.FAR = (IF port.next = "FAR" THEN w.v ELSE port.FAR)
              /\ port'.synced <=> ~ (port.next = "CMD" /\ w.v = "DESYNC")
  <1> DEFINE p == Driven(TRUE, TRUE)
  <1>1. /\ p \in Ports /\ p.on /\ p.write /\ ~ p.aborted
        /\ p.synced = port.synced /\ p.next = port.next /\ p.reading = port.reading /\ p.junk = port.junk /\ p.FAR = port.FAR
    <2>1. TRUE \in BOOLEAN
      OBVIOUS
    <2> QED
      BY <2>1, PortDriven
  <1>2. port' = Decoded(p, w)
    BY DEF Written
  <1> HIDE DEF p
  <1> QED
    BY <1>1, <1>2, WordDecoded

\* A cycle that deselects the port leaves what it has decoded.
LEMMA PortDeselected ==
  ASSUME port \in Ports, NEW write \in BOOLEAN, Deselected(write), ~ port.aborted
  PROVE  /\ port' \in Ports /\ ~ port'.on /\ ~ port'.aborted
         /\ port'.synced = port.synced /\ port'.next = port.next /\ port'.reading = port.reading /\ port'.junk = port.junk /\ port'.FAR = port.FAR
  <1>1. FALSE \in BOOLEAN
    OBVIOUS
  <1> QED
    BY <1>1, PortDriven DEF Deselected

-----------------------------------------------------------------------------
(* cmd_read_regs.                                                          *)

\* The words of a register read.
LEMMA RegsWords ==
  ASSUME NEW h, h = R(h.v)
  PROVE  LET s == COMMAND_regs_1(h) IN
         /\ Len(s) = 9 /\ s[5] = Sync /\ s[7] = h
         /\ \A i \in 1 .. 9 : i \notin {5, 7} => s[i] \in {Dummy, Noop}
  BY DEF COMMAND_regs_1

\* The words that desynchronise the port.
LEMMA DesyncWords ==
  LET s == COMMAND_regs_desync
  IN  Len(s) = 4 /\ s[1] = W("CMD") /\ s[2] = V("DESYNC") /\ s[3] = Noop /\ s[4] = Noop
  BY DEF COMMAND_regs_desync

\* A register read that goes on keeps the port in step with its stage.
LEMMA RegsStep ==
  ASSUME IcapTypeOK, RegsInv(port, got), NEW reg \in Registers, RegsWip(reg), ~ port.aborted,
         regs.st # "IDLE" => regs.header = R(reg)
  PROVE  /\ regs' \in RegsMachines /\ port' \in Ports /\ RegsInv(port, got)' /\ ~ port'.aborted
         /\ port'.FAR = port.FAR /\ regs'.st # "IDLE" /\ regs'.header = R(reg)
  <1>0. regs \in RegsMachines /\ port \in Ports /\ R(reg).v = reg /\ R(reg).t = "read"
        /\ R(reg) \in { R(r) : r \in {"CRC", "IDCODE", "FDRO"} }
    BY DEF IcapTypeOK, R, Registers
  <1>1. CASE RegsIdle(reg)
    <2>1. regs.st = "IDLE" /\ regs' = [st |-> "WRITE_1", nr_1 |-> 0, nr_2 |-> 0, read |-> 0, header |-> R(reg)] /\ Deselected(TRUE) /\ got' = got
      BY <1>1 DEF RegsIdle
    <2>2. ~ port.on /\ port.next = "none"
      BY <2>1 DEF RegsInv
    <2>3. port' \in Ports /\ ~ port'.on /\ ~ port'.aborted /\ port'.next = port.next /\ port'.FAR = port.FAR
      <3>1. TRUE \in BOOLEAN
        OBVIOUS
      <3> QED
        BY <1>0, <2>1, <3>1, PortDeselected
    <2>4. regs' \in RegsMachines /\ regs'.st = "WRITE_1" /\ regs'.nr_1 = 0 /\ regs'.nr_2 = 0 /\ regs'.read = 0 /\ regs'.header = R(reg)
      <3>1. PICK z \in Nat : z = 0
        OBVIOUS
      <3>2. regs' = [st |-> "WRITE_1", nr_1 |-> z, nr_2 |-> z, read |-> z, header |-> R(reg)]
        BY <2>1, <3>1
      <3>3. regs' \in RegsMachines /\ regs'.st = "WRITE_1" /\ regs'.nr_1 = z /\ regs'.nr_2 = z /\ regs'.read = z /\ regs'.header = R(reg)
        BY <1>0, <3>2 DEF RegsMachines, RegsStates
      <3> QED
        BY <3>1, <3>3
    <2>5. RegsInv(port, got)'
      BY <2>2, <2>3, <2>4 DEF RegsInv
    <2> QED
      BY <2>3, <2>4, <2>5
  <1>2. CASE RegsWrite1
    <2> DEFINE s == COMMAND_regs_1(regs.header)
    <2>1. /\ regs.st = "WRITE_1" /\ regs.header = R(reg) /\ got' = got
          /\ (port.on => port.write) /\ regs.nr_1 <= 9 /\ regs.read = 0 /\ regs.nr_2 = 0 /\ port.next = "none"
          /\ regs.nr_1 >= 5 => port.synced
          /\ regs.nr_1 >= 7 => port.reading = reg /\ port.junk = 0
      BY <1>0, <1>2 DEF RegsWrite1, RegsInv
    <2>2. PICK n : n = regs.nr_1
      OBVIOUS
    <2>3. n \in Nat /\ n <= 9 /\ n + 1 \in Nat
      BY <1>0, <2>1, <2>2 DEF RegsMachines
    <2>4. /\ Len(s) = 9 /\ s[5] = Sync /\ s[7] = R(reg)
          /\ \A i \in 1 .. 9 : i \notin {5, 7} => s[i] \in {Dummy, Noop}
      <3>1. R(reg) = R(R(reg).v)
        BY <1>0
      <3> QED
        BY <2>1, <3>1, RegsWords
    <2> HIDE DEF s
    <2>5. CASE n < 9
      <3>1. PICK w : w = s[n + 1]
        OBVIOUS
      <3>2. Written(w) /\ regs' = [regs EXCEPT !.nr_1 = n + 1]
        BY <1>2, <2>2, <2>4, <2>5, <3>1 DEF RegsWrite1, s
      <3>3. regs' \in RegsMachines /\ regs'.st = "WRITE_1" /\ regs'.nr_1 = n + 1 /\ regs'.nr_2 = 0 /\ regs'.read = 0 /\ regs'.header = R(reg)
        BY <1>0, <2>1, <2>3, <3>2 DEF RegsMachines
      <3>4. /\ n + 1 = 5 => w = Sync
            /\ n + 1 = 7 => w = R(reg)
            /\ n + 1 \notin {5, 7} => w \in {Dummy, Noop}
        BY <2>3, <2>4, <2>5, <3>1
      <3>5. /\ n + 1 = 5 => w.t = "sync"
            /\ n + 1 = 7 => w.t = "read" /\ w.v = reg
            /\ n + 1 \notin {5, 7} => w.t \in {"dummy", "noop"}
        BY <1>0, <3>4 DEF Sync, Dummy, Noop
      <3>6. (w.t = "write" => w.v \in Headers) /\ (w.t = "read" => w.v \in Registers) /\ w.t # "write" /\ (w.t = "read" => n + 1 = 7)
            /\ (n + 1 = 7 => w.t = "read") /\ (n + 1 = 5 => w.t = "sync")
        <4>1. n + 1 # 5 \/ n + 1 # 7
          BY <2>3
        <4> QED
          BY <3>5, <4>1, Zenon
      <3>7. /\ port' \in Ports /\ port'.on /\ port'.write /\ ~ port'.aborted
            /\ ~ port.synced => (port'.synced <=> w.t = "sync") /\ port'.next = port.next /\ port'.reading = port.reading /\ port'.junk = port.junk /\ port'.FAR = port.FAR
            /\ port.synced /\ port.next = "none" /\ w.t \notin {"write", "read"} =>
                 port'.synced /\ port'.next = "none" /\ port'.reading = port.reading /\ port'.junk = port.junk /\ port'.FAR = port.FAR
            /\ port.synced /\ port.next = "none" /\ w.t = "read" => port'.synced /\ port'.next = "none" /\ port'.reading = w.v /\ port'.junk = 0 /\ port'.FAR = port.FAR
        BY <1>0, <2>1, <3>2, <3>6, WordWritten
      <3>8. port'.next = "none" /\ port'.FAR = port.FAR
        BY <2>1, <3>6, <3>7
      <3>9. n + 1 >= 5 => port'.synced
        BY <2>1, <2>2, <2>3, <3>6, <3>7
      <3>10. n + 1 >= 7 => port'.reading = reg /\ port'.junk = 0
        <4>1. CASE n + 1 = 7
          <5>1. n >= 5
            BY <2>3, <4>1
          <5> QED
            BY <2>1, <2>2, <3>5, <3>7, <4>1, <5>1
        <4>2. CASE n + 1 > 7
          <5>1. n >= 7 /\ n >= 5 /\ n + 1 # 7
            BY <2>3, <4>2
          <5> QED
            BY <2>1, <2>2, <3>6, <3>7, <5>1
        <4> QED
          BY <2>3, <4>1, <4>2
      <3>11. n + 1 <= 9 /\ regs'.header.v = reg
        BY <1>0, <2>3, <2>5, <3>3
      <3>12. RegsInv(port, got)'
        BY <3>3, <3>7, <3>8, <3>9, <3>10, <3>11 DEF RegsInv
      <3> QED
        BY <3>3, <3>7, <3>8, <3>12
    <2>6. CASE ~ (n < 9)
      <3>1. n = 9 /\ n >= 5 /\ n >= 7
        BY <2>3, <2>6
      <3>2. Deselected(TRUE) /\ regs' = [regs EXCEPT !.st = "WRITE_1_TRANSITION"]
        BY <1>2, <2>2, <2>4, <2>6 DEF RegsWrite1, s
      <3>3. regs' \in RegsMachines /\ regs'.st = "WRITE_1_TRANSITION" /\ regs'.nr_2 = 0 /\ regs'.read = 0 /\ regs'.header = R(reg)
        BY <1>0, <2>1, <3>2 DEF RegsMachines, RegsStates
      <3>4. /\ port' \in Ports /\ ~ port'.on /\ ~ port'.aborted
            /\ port'.synced = port.synced /\ port'.next = port.next /\ port'.reading = port.reading /\ port'.junk = port.junk /\ port'.FAR = port.FAR
        <4>1. TRUE \in BOOLEAN
          OBVIOUS
        <4> QED
          BY <1>0, <3>2, <4>1, PortDeselected
      <3>5. RegsInv(port, got)'
        BY <1>0, <2>1, <2>2, <3>1, <3>3, <3>4 DEF RegsInv
      <3> QED
        BY <3>3, <3>4, <3>5
    <2> QED
      BY <2>5, <2>6
  <1>3. CASE RegsTurn
    <2>1. regs.st \in {"WRITE_1_TRANSITION", "READ_TRANSITION"} /\ Deselected(FALSE) /\ got' = got /\ regs.header = R(reg)
      BY <1>3 DEF RegsTurn
    <2>2. /\ port' \in Ports /\ ~ port'.on /\ ~ port'.aborted
          /\ port'.synced = port.synced /\ port'.next = port.next /\ port'.reading = port.reading /\ port'.junk = port.junk /\ port'.FAR = port.FAR
      <3>1. FALSE \in BOOLEAN
        OBVIOUS
      <3> QED
        BY <1>0, <2>1, <3>1, PortDeselected
    <2>3. PICK st \in {"WRITE_DESYNC", "READ"} : regs' = [regs EXCEPT !.st = st] /\ (st = "READ" <=> regs.st # "READ_TRANSITION")
      BY <1>0, <1>3 DEF RegsTurn, RegsMachines
    <2>4. regs' \in RegsMachines /\ regs'.st = st /\ regs'.nr_2 = regs.nr_2 /\ regs'.read = regs.read /\ regs'.header = R(reg)
      BY <1>0, <2>1, <2>3 DEF RegsMachines, RegsStates
    <2>5. CASE regs.st = "READ_TRANSITION"
      <3>1. port.synced /\ port.next = "none" /\ got = reg /\ regs.nr_2 = 0
        BY <1>0, <2>1, <2>5 DEF RegsInv
      <3>2. /\ regs'.st = "WRITE_DESYNC" /\ regs'.nr_2 = 0 /\ regs'.header.v = reg /\ got' = reg
            /\ port'.synced /\ port'.next = "none" /\ ~ port'.on
        BY <1>0, <2>1, <2>2, <2>3, <2>4, <2>5, <3>1
      <3>3. RegsInv(port, got)'
        BY <3>2 DEF RegsInv
      <3> QED
        BY <2>2, <2>3, <2>4, <3>3
    <2>6. CASE regs.st = "WRITE_1_TRANSITION"
      <3>1. port.synced /\ port.next = "none" /\ port.reading = reg /\ port.junk = 0 /\ regs.read = 0 /\ regs.nr_2 = 0
        BY <1>0, <2>1, <2>6 DEF RegsInv
      <3>2. 0 <= MaxJunk
        BY IcapAssumption
      <3>3. RegsInv(port, got)'
        BY <1>0, <2>1, <2>2, <2>3, <2>4, <2>6, <3>1, <3>2 DEF RegsInv
      <3> QED
        BY <2>2, <2>3, <2>4, <3>3
    <2> QED
      BY <2>1, <2>5, <2>6
  <1>4. CASE RegsRead
    <2>1. regs.st = "READ" /\ regs.header = R(reg)
      BY <1>4 DEF RegsRead
    <2>2. /\ port.on => ~ port.write
          /\ port.synced /\ port.next = "none" /\ port.reading = reg /\ port.junk = regs.read /\ regs.read <= MaxJunk /\ regs.nr_2 = 0
      BY <1>0, <2>1 DEF RegsInv
    <2>3. PICK d : d = Driven(TRUE, FALSE)
      OBVIOUS
    <2>4. /\ d \in Ports /\ d.on /\ ~ d.write /\ ~ d.aborted
          /\ d.synced = port.synced /\ d.next = port.next /\ d.reading = port.reading /\ d.junk = port.junk /\ d.FAR = port.FAR
      <3>1. TRUE \in BOOLEAN /\ FALSE \in BOOLEAN
        OBVIOUS
      <3>2. /\ d \in Ports /\ d.on = TRUE /\ d.write = FALSE
            /\ d.synced = port.synced /\ d.next = port.next /\ d.reading = port.reading /\ d.junk = port.junk /\ d.FAR = port.FAR
            /\ d.aborted <=> port.aborted \/ (TRUE /\ port.on /\ FALSE # port.write)
        BY <1>0, <2>3, <3>1, PortDriven
      <3>3. port.on => port.write = FALSE
        BY <1>0, <2>2 DEF Ports
      <3> QED
        BY <3>2, <3>3
    <2>5. PICK word \in PortWords :
            /\ port' = [d EXCEPT !.silent = word = "nothing", !.junk = IF word = "junk" THEN @ + 1 ELSE @]
            /\ IF word = "nothing" THEN UNCHANGED <<regs, got>>
               ELSE LET n == regs.read + 1
                        skip == Skipped(word, n)
                    IN  /\ regs' = [regs EXCEPT !.read = n, !.st = IF skip THEN @ ELSE AfterRead]
                        /\ got' = IF skip THEN got ELSE word
      BY <1>4, <2>3 DEF RegsRead
    <2>6. PICK k, b : k = (IF word = "junk" THEN d.junk + 1 ELSE d.junk) /\ b = (word = "nothing")
      OBVIOUS
    <2>7. port' = [d EXCEPT !.silent = b, !.junk = k]
      BY <2>4, <2>5, <2>6 DEF Ports
    <2>8. d.junk \in Nat /\ k \in Nat /\ b \in BOOLEAN /\ regs.read \in Nat /\ MaxJunk \in Nat /\ MaxJunk <= 5
      BY <1>0, <2>4, <2>6, IcapAssumption DEF Ports, RegsMachines
    <2>9. /\ port' \in Ports /\ port'.on /\ ~ port'.write /\ ~ port'.aborted
          /\ port'.synced = port.synced /\ port'.next = port.next /\ port'.reading = port.reading /\ port'.junk = k /\ port'.FAR = port.FAR
      BY <2>4, <2>7, <2>8 DEF Ports
    <2>10. word = "nothing" \/ (word = "junk" /\ port.junk < MaxJunk) \/ word = reg
      BY <2>2, <2>5 DEF PortWords
    <2>11. reg # "junk" /\ reg # "nothing"
      BY DEF Registers
    <2>12. CASE word = "nothing"
      <3>1. regs' = regs /\ got' = got /\ k = port.junk
        BY <2>4, <2>5, <2>6, <2>12
      <3>2. RegsInv(port, got)'
        BY <1>0, <2>1, <2>2, <2>9, <3>1 DEF RegsInv
      <3> QED
        BY <1>0, <2>1, <2>9, <3>1, <3>2
    <2>13. CASE word = "junk"
      <3>1. port.junk < MaxJunk /\ k = port.junk + 1
        BY <2>4, <2>6, <2>10, <2>11, <2>13
      <3>2. PICK n : n = regs.read + 1
        OBVIOUS
      <3>3. n \in Nat /\ n = k /\ n <= MaxJunk /\ n <= 5
        BY <2>2, <2>8, <3>1, <3>2
      <3>4. Skipped(word, n)
        BY <2>13, <3>3 DEF Skipped
      <3>5. regs' = [regs EXCEPT !.read = n, !.st = regs.st] /\ got' = got
        BY <1>0, <2>5, <2>13, <3>2, <3>4 DEF RegsMachines
      <3>6. regs' \in RegsMachines /\ regs'.st = "READ" /\ regs'.read = n /\ regs'.nr_2 = 0 /\ regs'.header = R(reg)
        BY <1>0, <2>1, <2>2, <3>3, <3>5 DEF RegsMachines
      <3>7. RegsInv(port, got)'
        BY <1>0, <2>2, <2>9, <3>3, <3>6 DEF RegsInv
      <3> QED
        BY <2>9, <3>6, <3>7
    <2>14. CASE word = reg
      <3>1. PICK n : n = regs.read + 1
        OBVIOUS
      <3>2. ~ Skipped(word, n) /\ n \in Nat
        BY <2>8, <2>11, <2>14, <3>1 DEF Skipped
      <3>3. regs' = [regs EXCEPT !.read = n, !.st = "READ_TRANSITION"] /\ got' = reg
        BY <1>0, <2>5, <2>11, <2>14, <3>1, <3>2 DEF RegsMachines, AfterRead
      <3>4. regs' \in RegsMachines /\ regs'.st = "READ_TRANSITION" /\ regs'.nr_2 = 0 /\ regs'.header = R(reg)
        BY <1>0, <2>1, <2>2, <3>2, <3>3 DEF RegsMachines, RegsStates
      <3>5. RegsInv(port, got)'
        BY <1>0, <2>2, <2>9, <3>3, <3>4 DEF RegsInv
      <3> QED
        BY <2>9, <3>4, <3>5
    <2> QED
      BY <2>10, <2>12, <2>13, <2>14
  <1>5. CASE RegsDesync
    <2> DEFINE s == COMMAND_regs_desync
    <2>1. PICK n, w : n = regs.nr_2 /\ w = s[n + 1]
      OBVIOUS
    <2>2. /\ regs.st = "WRITE_DESYNC" /\ n < Len(s) /\ Written(w) /\ regs' = [regs EXCEPT !.nr_2 = n + 1] /\ got' = got /\ regs.header = R(reg)
      BY <1>0, <1>5, <2>1 DEF RegsDesync, RegsMachines
    <2>3. /\ port.on => port.write
          /\ got = reg /\ port.next = (IF n = 1 THEN "CMD" ELSE "none") /\ (port.synced <=> n <= 1)
      BY <1>0, <2>1, <2>2 DEF RegsInv
    <2>4. Len(s) = 4 /\ s[1] = W("CMD") /\ s[2] = V("DESYNC") /\ s[3] = Noop /\ s[4] = Noop
      BY DesyncWords
    <2> HIDE DEF s
    <2>5. n \in {0, 1, 2, 3}
      BY <1>0, <2>1, <2>2, <2>4 DEF RegsMachines
    <2>6. /\ n = 0 => w.t = "write" /\ w.v = "CMD"
          /\ n = 1 => w.t = "value" /\ w.v = "DESYNC"
          /\ n \in {2, 3} => w.t = "noop"
      BY <2>1, <2>4 DEF W, V, Noop
    <2>7. w.t # "read" /\ (w.t = "write" => w.v \in Headers) /\ (n # 0 => w.t # "write") /\ w.t # "sync"
      BY <2>5, <2>6 DEF Headers
    <2>8. /\ port' \in Ports /\ port'.on /\ port'.write /\ ~ port'.aborted
          /\ ~ port.synced => (port'.synced <=> w.t = "sync") /\ port'.next = port.next /\ port'.FAR = port.FAR
          /\ port.synced /\ port.next = "none" /\ w.t = "write" => port'.synced /\ port'.next = w.v /\ port'.FAR = port.FAR
          /\ port.synced /\ port.next # "none" =>
               /\ port'.next = "none" /\ port'.FAR = (IF port.next = "FAR" THEN w.v ELSE port.FAR)
               /\ port'.synced <=> ~ (port.next = "CMD" /\ w.v = "DESYNC")
      <3>1. port.next # "FAR"
        BY <2>3
      <3> QED
        BY <1>0, <2>2, <2>3, <2>7, <3>1, WordWritten
    <2>9. port'.FAR = port.FAR /\ port'.next = (IF n = 0 THEN "CMD" ELSE "none") /\ (port'.synced <=> n = 0)
      <3>1. CASE n = 0
        BY <2>3, <2>6, <2>8, <3>1
      <3>2. CASE n = 1
        BY <2>3, <2>6, <2>8, <3>2
      <3>3. CASE n \in {2, 3}
        BY <2>3, <2>7, <2>8, <3>3
      <3> QED
        BY <2>5, <3>1, <3>2, <3>3
    <2>10. n + 1 \in Nat /\ n + 1 <= 4 /\ (n + 1 = 1 <=> n = 0) /\ (n + 1 <= 1 <=> n = 0)
      BY <2>5
    <2>11. regs' \in RegsMachines /\ regs'.st = "WRITE_DESYNC" /\ regs'.nr_2 = n + 1 /\ regs'.header = R(reg)
      BY <1>0, <2>2, <2>10 DEF RegsMachines
    <2>12. RegsInv(port, got)'
      BY <1>0, <2>2, <2>3, <2>8, <2>9, <2>10, <2>11 DEF RegsInv
    <2> QED
      BY <2>8, <2>9, <2>11, <2>12
  <1> QED
    BY <1>1, <1>2, <1>3, <1>4, <1>5 DEF RegsWip

\* A register read that ends leaves the port quiet, and has taken its register.
LEMMA RegsEnd ==
  ASSUME IcapTypeOK, RegsInv(port, got), RegsDone, ~ port.aborted
  PROVE  /\ regs' \in RegsMachines /\ port' \in Ports /\ regs'.st = "IDLE" /\ Quiet(port') /\ ~ port'.aborted
         /\ port'.FAR = port.FAR /\ got' = regs.header.v
  <1>1. regs \in RegsMachines /\ port \in Ports /\ regs.st = "WRITE_DESYNC" /\ regs.nr_2 = 4 /\ Deselected(FALSE) /\ got' = got
        /\ regs' = [regs EXCEPT !.st = "IDLE"]
    BY DesyncWords DEF IcapTypeOK, RegsDone
  <1>2. got = regs.header.v /\ port.next = "none" /\ ~ port.synced
    BY <1>1 DEF RegsInv
  <1>3. regs' \in RegsMachines /\ regs'.st = "IDLE"
    BY <1>1 DEF RegsMachines, RegsStates
  <1>4. FALSE \in BOOLEAN
    OBVIOUS
  <1>5. /\ port' \in Ports /\ ~ port'.on /\ ~ port'.aborted
        /\ port'.synced = port.synced /\ port'.next = port.next /\ port'.FAR = port.FAR
    BY <1>1, <1>4, PortDeselected
  <1> QED
    BY <1>1, <1>2, <1>3, <1>5 DEF Quiet

-----------------------------------------------------------------------------
(* cmd_read_bitstreams.                                                    *)

\* A command c put together from two lists of words of T.
Joins(T, c, a, b) ==
  /\ c \in Seq(T) /\ Len(c) = Len(a) + Len(b)
  /\ \A i \in 1 .. Len(a) : c[i] = a[i]
  /\ \A i \in 1 .. Len(b) : c[Len(a) + i] = b[i]

LEMMA Joined ==
  ASSUME NEW T, NEW x \in Seq(T), NEW y \in Seq(T), NEW c, c = x \o y
  PROVE  Joins(T, c, x, y)
  <1>0. PICK m, n : m = Len(x) /\ n = Len(y)
    OBVIOUS
  <1>1. c \in Seq(T) /\ Len(c) = m + n /\ \A i \in 1 .. m + n : c[i] = IF i <= m THEN x[i] ELSE y[i - m]
    BY <1>0, ConcatProperties
  <1>2. m \in Nat /\ n \in Nat
    BY <1>0
  <1>3. /\ \A i \in 1 .. m : i \in 1 .. m + n /\ i <= m
        /\ \A i \in 1 .. n : m + i \in 1 .. m + n /\ ~ (m + i <= m) /\ (m + i) - m = i
    BY <1>2
  <1>4. \A i \in 1 .. m : c[i] = x[i]
    BY <1>1, <1>3, Zenon
  <1>5. ASSUME NEW i \in 1 .. n PROVE c[m + i] = y[i]
    <2>1. m + i \in 1 .. m + n /\ ~ (m + i <= m) /\ (m + i) - m = i
      BY <1>3
    <2>2. c[m + i] = IF m + i <= m THEN x[m + i] ELSE y[(m + i) - m]
      BY <1>1, <2>1, Zenon
    <2> QED
      BY <2>1, <2>2, Zenon
  <1> QED
    BY <1>0, <1>1, <1>4, <1>5 DEF Joins

HeaderPlaces == {7, 9, 11, 19, 22}

\* The words of the first part of a readback: where the sync word, the headers and the frame
\* address are.
LEMMA ReadbackWords ==
  ASSUME NEW far
  PROVE  LET s == COMMAND_readback_1(far) IN
         /\ Len(s) = 25 + NrPadding
         /\ s[5].t = "sync"
         /\ \A i \in HeaderPlaces : s[i].t = "write" /\ s[i].v = OpenHeader(i)
         /\ s[24].t = "read" /\ s[24].v = "FDRO"
         /\ s[12].v # "DESYNC" /\ s[20].v # "DESYNC" /\ s[23].v = far
         /\ \A i \in 1 .. 25 + NrPadding : i \notin HeaderPlaces \cup {5, 24} => s[i].t \in {"dummy", "noop", "value"}
  <1> DEFINE S == {Dummy, Sync, Noop, W("MASK"), V("CAPTURE"), W("CTL1"), W("CMD"), V("RCRC"), V("RCFG"), W("FAR"), V(0), R("FDRO"), V(NrWords)}
             a == <<Dummy, Dummy, Dummy, Dummy, Sync, Noop,
                    W("MASK"), V("CAPTURE"), W("CTL1"), V("CAPTURE"), W("CMD"), V("RCRC"), Noop>>
             b == Noops(5)
             c == <<W("CMD"), V("RCFG"), Noop, W("FAR"), V(0), R("FDRO"), V(NrWords)>>
             d == Noops(NrPadding)
  <1>1. NrPadding \in Nat
    BY IcapAssumption
  <1>2. a \in Seq(S) /\ c \in Seq(S)
    OBVIOUS
  <1>3. b \in Seq(S) /\ Len(b) = 5 /\ \A i \in 1 .. 5 : b[i] = Noop
    BY DEF Noops
  <1>4. d \in Seq(S) /\ Len(d) = NrPadding /\ \A i \in 1 .. NrPadding : d[i] = Noop
    BY <1>1 DEF Noops
  <1>5. /\ Len(a) = 13 /\ a[1] = Dummy /\ a[2] = Dummy /\ a[3] = Dummy /\ a[4] = Dummy /\ a[5] = Sync /\ a[6] = Noop
        /\ a[7] = W("MASK") /\ a[8] = V("CAPTURE") /\ a[9] = W("CTL1") /\ a[10] = V("CAPTURE") /\ a[11] = W("CMD") /\ a[12] = V("RCRC") /\ a[13] = Noop
    OBVIOUS
  <1>6. /\ Len(c) = 7 /\ c[1] = W("CMD") /\ c[2] = V("RCFG") /\ c[3] = Noop /\ c[4] = W("FAR") /\ c[5] = V(0) /\ c[6] = R("FDRO") /\ c[7] = V(NrWords)
    OBVIOUS
  <1> HIDE DEF S, a, b, c, d
  <1>p. PICK p : p = a \o b
    OBVIOUS
  <1>q. PICK q : q = p \o c
    OBVIOUS
  <1>w. PICK words : words = q \o d
    OBVIOUS
  <1>7. p \in Seq(S) /\ Len(p) = 13 + 5 /\ (\A i \in 1 .. 13 : p[i] = a[i]) /\ (\A i \in 1 .. 5 : p[13 + i] = b[i])
    <2>1. PICK m \in Nat, n \in Nat : m = 13 /\ n = 5
      OBVIOUS
    <2>2. a \in Seq(S) /\ b \in Seq(S) /\ Len(a) = m /\ Len(b) = n
      BY <1>2, <1>3, <1>5, <2>1
    <2>3. p \in Seq(S) /\ Len(p) = m + n /\ (\A i \in 1 .. m : p[i] = a[i]) /\ (\A i \in 1 .. n : p[m + i] = b[i])
      <3>1. Joins(S, p, a, b)
        BY <1>p, <2>2, Joined, Zenon
      <3> QED
        BY <2>2, <3>1 DEF Joins
    <2> QED
      BY <2>1, <2>3
  <1>8. q \in Seq(S) /\ Len(q) = 18 + 7 /\ (\A i \in 1 .. 18 : q[i] = p[i]) /\ (\A i \in 1 .. 7 : q[18 + i] = c[i])
    <2>1. PICK m \in Nat, n \in Nat : m = 18 /\ n = 7
      OBVIOUS
    <2>2. p \in Seq(S) /\ c \in Seq(S) /\ Len(p) = m /\ Len(c) = n
      BY <1>2, <1>6, <1>7, <2>1
    <2>3. q \in Seq(S) /\ Len(q) = m + n /\ (\A i \in 1 .. m : q[i] = p[i]) /\ (\A i \in 1 .. n : q[m + i] = c[i])
      <3>1. Joins(S, q, p, c)
        BY <1>q, <2>2, Joined, Zenon
      <3> QED
        BY <2>2, <3>1 DEF Joins
    <2> QED
      BY <2>1, <2>3
  <1>9. /\ words \in Seq(S) /\ Len(words) = 25 + NrPadding /\ (\A i \in 1 .. 25 : words[i] = q[i])
        /\ \A i \in 1 .. NrPadding : words[25 + i] = d[i]
    <2>1. PICK m \in Nat, n \in Nat : m = 25 /\ n = NrPadding
      BY <1>1
    <2>2. q \in Seq(S) /\ d \in Seq(S) /\ Len(q) = m /\ Len(d) = n
      BY <1>4, <1>8, <2>1
    <2>3. words \in Seq(S) /\ Len(words) = m + n /\ (\A i \in 1 .. m : words[i] = q[i]) /\ (\A i \in 1 .. n : words[m + i] = d[i])
      <3>1. Joins(S, words, q, d)
        BY <1>w, <2>2, Joined, Zenon
      <3> QED
        BY <2>2, <3>1 DEF Joins
    <2> QED
      BY <2>1, <2>3
  <1>10. COMMAND_readback_1(far) = [words EXCEPT ![23] = V(far)]
    BY <1>p, <1>q, <1>w DEF COMMAND_readback_1, FarIndex, a, b, c, d
  <1> DEFINE s == COMMAND_readback_1(far)
  <1>11. Len(s) = 25 + NrPadding /\ s[23] = V(far) /\ \A i \in 1 .. 25 + NrPadding : i # 23 => s[i] = words[i]
    <2>1. PICK n \in Nat : n = 25 + NrPadding
      BY <1>1
    <2>2. words \in Seq(S) /\ Len(words) = n
      BY <1>9, <2>1
    <2>3. DOMAIN words = 1 .. n /\ 23 \in 1 .. n
      BY <1>1, <2>1, <2>2
    <2>4. s = [i \in 1 .. n |-> IF i = 23 THEN V(far) ELSE words[i]]
      BY <1>10, <2>3
    <2>5. Len(s) = n /\ s[23] = V(far) /\ \A i \in 1 .. n : i # 23 => s[i] = words[i]
      BY <2>3, <2>4
    <2> QED
      BY <2>1, <2>5
  <1> HIDE DEF s
  <1>12. /\ \A i \in 1 .. 25 : i # 23 => s[i] = words[i]
         /\ \A i \in 1 .. NrPadding : s[25 + i] = words[25 + i]
    <2>1. \A i \in 1 .. 25 : i \in 1 .. 25 + NrPadding
      BY <1>1
    <2>2. \A i \in 1 .. NrPadding : 25 + i \in 1 .. 25 + NrPadding /\ 25 + i # 23
      BY <1>1
    <2> QED
      BY <1>11, <2>1, <2>2
  <1>e. /\ \A i \in 1 .. 13 : p[i] = a[i]
        /\ \A i \in 1 .. 5 : p[13 + i] = Noop
        /\ \A i \in 1 .. 18 : q[i] = p[i]
        /\ \A i \in 1 .. 7 : q[18 + i] = c[i]
        /\ \A i \in 1 .. 25 : words[i] = q[i]
        /\ \A i \in 1 .. NrPadding : words[25 + i] = Noop
    <2>1. /\ \A i \in 1 .. 5 : b[i] = Noop
          /\ \A i \in 1 .. NrPadding : d[i] = Noop
      BY <1>3, <1>4
    <2>2. \A i \in 1 .. 5 : p[13 + i] = Noop
      BY <1>7, <2>1, Zenon
    <2>3. \A i \in 1 .. NrPadding : words[25 + i] = Noop
      BY <1>9, <2>1, Zenon
    <2> QED
      BY <1>7, <1>8, <1>9, <2>2, <2>3
  <1>13. \A i \in 1 .. 13 : s[i] = a[i]
    <2>1. \A i \in 1 .. 13 : i \in 1 .. 18 /\ i \in 1 .. 25 /\ i # 23
      OBVIOUS
    <2> SUFFICES ASSUME NEW i \in 1 .. 13 PROVE s[i] = a[i]
      OBVIOUS
    <2>2. s[i] = words[i]
      BY <1>12, <2>1, Zenon
    <2>3. words[i] = q[i] /\ q[i] = p[i] /\ p[i] = a[i]
      BY <1>e, <2>1, Zenon
    <2> QED
      BY <2>2, <2>3
  <1>14. \A i \in 1 .. 5 : s[13 + i] = Noop
    <2>1. \A i \in 1 .. 5 : 13 + i \in 1 .. 18 /\ 13 + i \in 1 .. 25 /\ 13 + i # 23
      OBVIOUS
    <2>2. ASSUME NEW i \in 1 .. 5 PROVE s[13 + i] = Noop
      <3>1. s[13 + i] = words[13 + i]
        BY <1>12, <2>1
      <3>2. words[13 + i] = q[13 + i] /\ q[13 + i] = p[13 + i] /\ p[13 + i] = Noop
        BY <1>e, <2>1
      <3> QED
        BY <3>1, <3>2
    <2> QED
      BY <2>2
  <1>15. s[19] = c[1] /\ s[20] = c[2] /\ s[21] = c[3] /\ s[22] = c[4] /\ s[24] = c[6] /\ s[25] = c[7]
    <2>1. \A i \in 1 .. 7 : 18 + i \in 1 .. 25 /\ (i # 5 => 18 + i # 23)
      OBVIOUS
    <2>2. ASSUME NEW i \in 1 .. 7, i # 5 PROVE s[18 + i] = c[i]
      <3>1. s[18 + i] = words[18 + i]
        BY <1>12, <2>1, <2>2
      <3>2. words[18 + i] = q[18 + i] /\ q[18 + i] = c[i]
        BY <1>e, <2>1
      <3> QED
        BY <3>1, <3>2
    <2>3. s[18 + 1] = c[1] /\ s[18 + 2] = c[2] /\ s[18 + 3] = c[3] /\ s[18 + 4] = c[4] /\ s[18 + 6] = c[6] /\ s[18 + 7] = c[7]
      BY <2>2
    <2> QED
      BY <2>3
  <1>16. \A i \in 1 .. NrPadding : s[25 + i] = Noop
    BY <1>e, <1>12, Zenon
  <1>17. /\ s[1].t = "dummy" /\ s[2].t = "dummy" /\ s[3].t = "dummy" /\ s[4].t = "dummy" /\ s[5].t = "sync" /\ s[6].t = "noop"
         /\ s[7] = W("MASK") /\ s[8].t = "value" /\ s[9] = W("CTL1") /\ s[10].t = "value" /\ s[11] = W("CMD") /\ s[12] = V("RCRC") /\ s[13].t = "noop"
    BY <1>5, <1>13 DEF Dummy, Sync, Noop, V
  <1>18. s[19] = W("CMD") /\ s[20] = V("RCFG") /\ s[21] = Noop /\ s[22] = W("FAR") /\ s[24] = R("FDRO") /\ s[25] = V(NrWords)
    BY <1>6, <1>15
  <1>19. \A i \in HeaderPlaces : s[i].t = "write" /\ s[i].v = OpenHeader(i)
    BY <1>17, <1>18 DEF HeaderPlaces, OpenHeader, W
  <1>20. s[24].t = "read" /\ s[24].v = "FDRO" /\ s[12].v # "DESYNC" /\ s[20].v # "DESYNC" /\ s[23].v = far
    BY <1>11, <1>17, <1>18 DEF R, V
  <1>21. \A i \in 1 .. 25 + NrPadding : i \notin HeaderPlaces \cup {5, 24} => s[i].t \in {"dummy", "noop", "value"}
    <2> SUFFICES ASSUME NEW i \in 1 .. 25 + NrPadding, i \notin HeaderPlaces \cup {5, 24} PROVE s[i].t \in {"dummy", "noop", "value"}
      OBVIOUS
    <2>1. i \in {1, 2, 3, 4, 6, 8, 10, 12, 13} \/ i - 13 \in 1 .. 5 \/ i \in {20, 21, 23, 25} \/ i - 25 \in 1 .. NrPadding
      BY <1>1 DEF HeaderPlaces
    <2>2. CASE i \in {1, 2, 3, 4, 6, 8, 10, 12, 13}
      BY <1>17, <2>2 DEF V
    <2>3. CASE i - 13 \in 1 .. 5 \/ i - 25 \in 1 .. NrPadding
      <3>1. 13 + (i - 13) = i /\ 25 + (i - 25) = i
        BY <1>1
      <3> QED
        BY <1>14, <1>16, <2>3, <3>1 DEF Noop
    <2>4. CASE i \in {20, 21, 23, 25}
      BY <1>11, <1>18, <2>4 DEF Noop, V
    <2> QED
      BY <2>1, <2>2, <2>3, <2>4
  <1> QED
    BY <1>11, <1>17, <1>19, <1>20, <1>21 DEF s

\* The second part has no sync word and no read header.
LEMMA ClosingWords ==
  LET s == COMMAND_readback_2
  IN  Len(s) = 15 /\ \A i \in 1 .. 15 : s[i].t \in {"write", "value", "noop"} /\ (s[i].t = "write" => s[i].v \in Headers)
  <1> DEFINE s == COMMAND_readback_2
  <1>1. Len(s) = 15
    BY DEF COMMAND_readback_2
  <1>2. \A i \in 1 .. 15 : s[i] \in {W("MASK"), W("CTL1"), W("CMD"), Noop, V("CAPTURE"), V(0), V("START"), V("RCRC"), V("DESYNC")}
    BY DEF COMMAND_readback_2
  <1>3. ASSUME NEW w \in {W("MASK"), W("CTL1"), W("CMD"), Noop, V("CAPTURE"), V(0), V("START"), V("RCRC"), V("DESYNC")}
        PROVE  w.t \in {"write", "value", "noop"} /\ (w.t = "write" => w.v \in Headers)
    BY DEF W, V, Noop, Headers
  <1> HIDE DEF s
  <1> QED
    BY <1>1, <1>2, <1>3 DEF s

\* Where a header is open.
LEMMA HeadersOpen ==
  ASSUME NEW n \in Nat
  PROVE  /\ n \in HeaderPlaces => OpenHeader(n) \in Headers /\ OpenHeader(n) # "none" /\ OpenHeader(n + 1) = "none" /\ n >= 5 /\ n < 23
         /\ n \notin HeaderPlaces => OpenHeader(n) = "none"
         /\ OpenHeader(n) = "CMD" => n \in {11, 19}
         /\ OpenHeader(n) = "FAR" <=> n = 22
  BY DEF HeaderPlaces, OpenHeader, Headers

\* A word of the first part: the port is synchronised by the fifth, follows the headers, and
\* has the frame address from the twenty-third on.
LEMMA CommandWritten ==
  ASSUME IcapTypeOK, ReadbackInv, ~ port.aborted, ReadbackWrite1
  PROVE  /\ rb' \in Readbacks /\ port' \in Ports /\ ~ port'.aborted /\ ReadbackInv'
         /\ rb'.st \in {"WRITE_1", "TRANSITION"}
  <1> DEFINE s == COMMAND_readback_1(rb.far)
  <1>0. NrPadding \in Nat
    BY IcapAssumption
  <1>1. PICK n : n = rb.nr_1
    OBVIOUS
  <1>2. /\ rb \in Readbacks /\ port \in Ports /\ n \in Nat /\ rb.far \in FrameAddrs \cup {0}
        /\ rb.st = "WRITE_1" /\ asked' = asked /\ rb.nr_2 = 0 /\ rb.far = asked
    BY <1>1 DEF IcapTypeOK, ReadbackInv, Readbacks, ReadbackWrite1
  <1>3. /\ port.on => port.write
        /\ n <= 25 + NrPadding /\ port.next = OpenHeader(n)
        /\ port.synced <=> n >= 5
        /\ n >= 23 => port.FAR = asked
    BY <1>1, <1>2 DEF ReadbackInv
  <1>4. /\ Len(s) = 25 + NrPadding /\ s[5].t = "sync"
        /\ \A i \in HeaderPlaces : s[i].t = "write" /\ s[i].v = OpenHeader(i)
        /\ s[24].t = "read" /\ s[24].v = "FDRO"
        /\ s[12].v # "DESYNC" /\ s[20].v # "DESYNC" /\ s[23].v = rb.far
        /\ \A i \in 1 .. 25 + NrPadding : i \notin HeaderPlaces \cup {5, 24} => s[i].t \in {"dummy", "noop", "value"}
    BY ReadbackWords
  <1> HIDE DEF s
  <1>5. CASE n < 25 + NrPadding
    <2>1. PICK w, i : w = s[i] /\ i = n + 1
      OBVIOUS
    <2>2. Written(w) /\ rb' = [rb EXCEPT !.nr_1 = i]
      BY <1>1, <1>2, <1>4, <1>5, <2>1 DEF ReadbackWrite1, s
    <2>3. i \in Nat /\ i \in 1 .. 25 + NrPadding
      BY <1>0, <1>2, <1>5, <2>1
    <2>4. rb' \in Readbacks /\ rb'.st = "WRITE_1" /\ rb'.nr_1 = i /\ rb'.nr_2 = 0 /\ rb'.far = asked'
      BY <1>2, <2>2, <2>3 DEF Readbacks
    <2>5. /\ i = 5 => w.t = "sync"
          /\ i \in HeaderPlaces => w.t = "write" /\ w.v = OpenHeader(i)
          /\ i = 24 => w.t = "read" /\ w.v = "FDRO"
          /\ i \notin HeaderPlaces \cup {5, 24} => w.t \in {"dummy", "noop", "value"}
      BY <1>4, <2>1, <2>3
    <2>6. /\ w.t = "sync" <=> i = 5
          /\ w.t = "write" <=> i \in HeaderPlaces
          /\ w.t = "read" <=> i = 24
      BY <2>5 DEF HeaderPlaces
    <2>7. (w.t = "write" => w.v \in Headers) /\ (w.t = "read" => w.v \in Registers)
      BY <2>3, <2>5, <2>6, HeadersOpen DEF Registers
    <2>8. port.next = "FAR" => n = 22 /\ w.v = rb.far
      <3>1. port.next = "FAR" => n = 22
        BY <1>2, <1>3, HeadersOpen
      <3>2. n = 22 => i = 23
        BY <2>1
      <3> QED
        BY <1>4, <2>1, <3>1, <3>2
    <2>9. /\ port' \in Ports /\ port'.on /\ port'.write /\ ~ port'.aborted
          /\ ~ port.synced => (port'.synced <=> w.t = "sync") /\ port'.next = port.next /\ port'.FAR = port.FAR
          /\ port.synced /\ port.next = "none" /\ w.t \notin {"write", "read"} =>
               port'.synced /\ port'.next = "none" /\ port'.FAR = port.FAR
          /\ port.synced /\ port.next = "none" /\ w.t = "write" => port'.synced /\ port'.next = w.v /\ port'.FAR = port.FAR
          /\ port.synced /\ port.next = "none" /\ w.t = "read" => port'.synced /\ port'.next = "none" /\ port'.FAR = port.FAR
          /\ port.synced /\ port.next # "none" =>
               /\ port'.next = "none" /\ port'.FAR = (IF port.next = "FAR" THEN w.v ELSE port.FAR)
               /\ port'.synced <=> ~ (port.next = "CMD" /\ w.v = "DESYNC")
      <3>1. port.synced /\ port.next = "FAR" => w.v \in FrameAddrs \cup {0}
        BY <1>2, <2>8
      <3> QED
        BY <1>2, <1>3, <2>2, <2>7, <3>1, WordWritten
    <2>10. /\ port'.next = OpenHeader(i)
           /\ port'.synced <=> i >= 5
           /\ i >= 23 => port'.FAR = asked
      <3>1. CASE n < 5
        <4>1. ~ port.synced /\ n \notin HeaderPlaces /\ i \notin HeaderPlaces /\ (i = 5 <=> i >= 5) /\ ~ (i >= 23)
          BY <1>2, <1>3, <2>1, <3>1 DEF HeaderPlaces
        <4>2. OpenHeader(n) = "none" /\ OpenHeader(i) = "none"
          BY <1>2, <2>3, <4>1, HeadersOpen
        <4> QED
          BY <1>3, <2>6, <2>9, <4>1, <4>2
      <3>2. CASE n >= 5 /\ n \notin HeaderPlaces
        <4>1. port.synced /\ port.next = "none" /\ i # 5 /\ i >= 5
          BY <1>2, <1>3, <2>1, <3>2, HeadersOpen
        <4>2. i >= 23 => port.FAR = asked
          <5>1. i >= 23 => n >= 23
            BY <1>2, <2>1, <3>2 DEF HeaderPlaces
          <5> QED
            BY <1>3, <5>1
        <4>3. CASE i \in HeaderPlaces
          BY <2>5, <2>6, <2>9, <4>1, <4>2, <4>3
        <4>4. CASE i \notin HeaderPlaces
          <5>1. OpenHeader(i) = "none"
            BY <2>3, <4>4, HeadersOpen
          <5> QED
            BY <2>6, <2>9, <4>1, <4>2, <4>4, <5>1
        <4> QED
          BY <4>3, <4>4
      <3>3. CASE n \in HeaderPlaces
        <4>1. port.synced /\ port.next # "none" /\ OpenHeader(i) = "none" /\ i >= 5 /\ (i >= 23 => n = 22)
          BY <1>2, <1>3, <2>1, <3>3, HeadersOpen
        <4>2. port.next = "CMD" => w.v # "DESYNC"
          <5>1. port.next = "CMD" => i \in {12, 20}
            <6>1. port.next = "CMD" => n \in {11, 19}
              BY <1>2, <1>3, HeadersOpen
            <6> QED
              BY <2>1, <6>1
          <5> QED
            BY <1>4, <2>1, <5>1
        <4>3. n = 22 => port.next = "FAR"
          BY <1>2, <1>3, HeadersOpen
        <4> QED
          BY <1>2, <2>8, <2>9, <4>1, <4>2, <4>3
      <3> QED
        BY <1>2, <3>1, <3>2, <3>3
    <2>11. i <= 25 + NrPadding
      BY <1>0, <2>3
    <2>12. ReadbackInv'
      BY <1>2, <2>4, <2>9, <2>10, <2>11 DEF ReadbackInv
    <2> QED
      BY <2>4, <2>9, <2>12
  <1>6. CASE ~ (n < 25 + NrPadding)
    <2>1. n \notin HeaderPlaces /\ n >= 23
      BY <1>0, <1>2, <1>6 DEF HeaderPlaces
    <2>2. Deselected(TRUE) /\ rb' = [rb EXCEPT !.st = "TRANSITION"]
      BY <1>1, <1>4, <1>6 DEF ReadbackWrite1, s
    <2>3. TRUE \in BOOLEAN
      OBVIOUS
    <2>4. /\ port' \in Ports /\ ~ port'.on /\ ~ port'.aborted
          /\ port'.next = port.next /\ port'.FAR = port.FAR
      BY <1>2, <2>2, <2>3, PortDeselected
    <2>5. port'.next = "none" /\ port'.FAR = asked
      BY <1>2, <1>3, <2>1, <2>4, HeadersOpen
    <2>6. rb' \in Readbacks /\ rb'.st = "TRANSITION" /\ rb'.nr_2 = 0 /\ rb'.far = asked'
      BY <1>2, <2>2 DEF Readbacks
    <2>7. ReadbackInv'
      BY <1>2, <2>4, <2>5, <2>6 DEF ReadbackInv
    <2> QED
      BY <2>4, <2>6, <2>7
  <1> QED
    BY <1>5, <1>6

\* A call of cmd_read_bitstreams.
LEMMA ReadbackStep ==
  ASSUME IcapInv, ReadsFrame
  PROVE  IcapInv'
  <1>1. /\ top \in Positions /\ regs \in RegsMachines /\ rb \in Readbacks /\ port \in Ports
        /\ top.st = "OP_START" /\ top.cmd = 2 /\ ~ port.aborted
        /\ regs.st # "IDLE" => rb.st = "READ"
    BY DEF IcapInv, IcapTypeOK, MachinesInv, ReadsFrame
  <1>2. TRUE \in BOOLEAN /\ FALSE \in BOOLEAN
    OBVIOUS
  <1>3. CASE ReadbackIdle /\ top' = top
    <2>1. PICK a \in FrameAddrs : rb' = [rb EXCEPT !.st = "WRITE_1", !.nr_1 = 0, !.nr_2 = 0, !.far = a] /\ asked' = a
      BY <1>3 DEF ReadbackIdle
    <2>2. rb.st = "IDLE" /\ Deselected(TRUE) /\ regs' = regs /\ got' = got
      BY <1>3 DEF ReadbackIdle
    <2>3. regs.st = "IDLE"
      BY <1>1, <2>2
    <2>4. Quiet(port)
      BY <2>2, <2>3 DEF IcapInv, MachinesInv
    <2>5. rb' \in Readbacks /\ rb'.st = "WRITE_1" /\ rb'.nr_1 = 0 /\ rb'.nr_2 = 0 /\ rb'.far = a
      <3>1. PICK z \in Nat : z = 0
        OBVIOUS
      <3>2. rb' = [rb EXCEPT !.st = "WRITE_1", !.nr_1 = z, !.nr_2 = z, !.far = a] /\ a \in FrameAddrs \cup {0}
        BY <2>1, <3>1
      <3>3. rb' \in Readbacks /\ rb'.st = "WRITE_1" /\ rb'.nr_1 = z /\ rb'.nr_2 = z /\ rb'.far = a
        BY <1>1, <3>2 DEF Readbacks
      <3> QED
        BY <3>1, <3>3
    <2>6. port' \in Ports /\ ~ port'.on /\ ~ port'.aborted /\ port'.synced = port.synced /\ port'.next = port.next
      BY <1>1, <1>2, <2>2, PortDeselected
    <2>7. OpenHeader(0) = "none" /\ 0 <= 25 + NrPadding
      BY IcapAssumption DEF OpenHeader
    <2>8. IcapTypeOK'
      BY <1>1, <1>3, <2>2, <2>5, <2>6 DEF IcapTypeOK
    <2>9. MachinesInv'
      BY <1>1, <1>3, <2>2, <2>3, <2>5 DEF MachinesInv
    <2>10. ReadbackInv'
      BY <2>1, <2>4, <2>5, <2>6, <2>7 DEF ReadbackInv, Quiet
    <2> QED
      BY <2>6, <2>8, <2>9, <2>10 DEF IcapInv
  <1>4. CASE ReadbackWrite1 /\ top' = top
    <2>1. rb' \in Readbacks /\ port' \in Ports /\ ~ port'.aborted /\ ReadbackInv' /\ rb'.st \in {"WRITE_1", "TRANSITION"}
      BY <1>4, CommandWritten DEF IcapInv
    <2>2. rb.st = "WRITE_1" /\ regs' = regs /\ got' = got
      BY <1>4 DEF ReadbackWrite1
    <2>3. IcapTypeOK' /\ MachinesInv'
      BY <1>1, <1>4, <2>1, <2>2 DEF IcapTypeOK, MachinesInv
    <2> QED
      BY <2>1, <2>3 DEF IcapInv
  <1>5. CASE ReadbackTurn /\ top' = top
    <2>1. rb.st = "TRANSITION" /\ rb' = [rb EXCEPT !.st = "READ"] /\ Deselected(FALSE) /\ regs' = regs /\ got' = got /\ asked' = asked
      BY <1>5 DEF ReadbackTurn
    <2>2. regs.st = "IDLE" /\ port.FAR = asked /\ rb.far = asked /\ port.next = "none" /\ rb.nr_2 = 0
      BY <1>1, <2>1 DEF IcapInv, ReadbackInv
    <2>3. port' \in Ports /\ ~ port'.on /\ ~ port'.aborted /\ port'.next = port.next /\ port'.FAR = port.FAR
      BY <1>1, <1>2, <2>1, PortDeselected
    <2>4. rb' \in Readbacks /\ rb'.st = "READ" /\ rb'.nr_2 = 0 /\ rb'.far = asked'
      BY <1>1, <2>1, <2>2 DEF Readbacks
    <2>5. IcapTypeOK' /\ MachinesInv'
      BY <1>1, <1>5, <2>1, <2>2, <2>3, <2>4 DEF IcapTypeOK, MachinesInv
    <2>6. RegsInv(port, got)'
      BY <2>1, <2>2, <2>3 DEF RegsInv
    <2>7. ReadbackInv'
      BY <2>1, <2>2, <2>3, <2>4, <2>6 DEF ReadbackInv
    <2> QED
      BY <2>3, <2>5, <2>7 DEF IcapInv
  <1>6. CASE ReadbackRead /\ top' = top
    <2>1. rb.st = "READ" /\ asked' = asked /\ RegsInv(port, got) /\ port.FAR = asked /\ rb.far = asked /\ rb.nr_2 = 0
      BY <1>6 DEF ReadbackRead, IcapInv, ReadbackInv
    <2>2. CASE RegsWip("FDRO") /\ rb' = rb
      <3>1. "FDRO" \in Registers /\ (regs.st # "IDLE" => regs.header = R("FDRO")) /\ IcapTypeOK
        BY <2>1 DEF Registers, IcapInv, MachinesInv
      <3>2. /\ regs' \in RegsMachines /\ port' \in Ports /\ RegsInv(port, got)' /\ ~ port'.aborted
            /\ port'.FAR = port.FAR /\ regs'.st # "IDLE" /\ regs'.header = R("FDRO")
        BY <1>1, <2>1, <2>2, <3>1, RegsStep
      <3>3. IcapTypeOK' /\ MachinesInv'
        BY <1>1, <1>6, <2>1, <2>2, <3>2 DEF IcapTypeOK, MachinesInv
      <3>4. ReadbackInv'
        BY <2>1, <2>2, <3>2 DEF ReadbackInv
      <3> QED
        BY <3>2, <3>3, <3>4 DEF IcapInv
    <2>3. CASE RegsDone /\ rb' = IF rb.left = 0 THEN [rb EXCEPT !.st = "WRITE_2"] ELSE [rb EXCEPT !.left = @ - 1]
      <3>1. regs' \in RegsMachines /\ port' \in Ports /\ regs'.st = "IDLE" /\ Quiet(port') /\ ~ port'.aborted /\ port'.FAR = port.FAR
        <4>1. IcapTypeOK
          BY DEF IcapInv
        <4> QED
          BY <1>1, <2>1, <2>3, <4>1, RegsEnd
      <3>2. rb' \in Readbacks /\ rb'.st \in {"WRITE_2", "READ"} /\ rb'.nr_2 = 0 /\ rb'.far = asked'
        <4>1. CASE rb.left = 0
          BY <1>1, <2>1, <2>3, <4>1 DEF Readbacks
        <4>2. CASE rb.left # 0
          <5>1. PICK k : k = rb.left - 1
            OBVIOUS
          <5>2. k \in Int /\ rb' = [rb EXCEPT !.left = k]
            BY <1>1, <2>3, <4>2, <5>1 DEF Readbacks
          <5> QED
            BY <1>1, <2>1, <5>2 DEF Readbacks
        <4> QED
          BY <4>1, <4>2
      <3>3. IcapTypeOK' /\ MachinesInv'
        BY <1>1, <1>6, <3>1, <3>2 DEF IcapTypeOK, MachinesInv
      <3>4. RegsInv(port, got)'
        BY <3>1 DEF RegsInv, Quiet
      <3>5. ReadbackInv'
        BY <2>1, <3>1, <3>2, <3>4 DEF ReadbackInv, Quiet
      <3> QED
        BY <3>1, <3>3, <3>5 DEF IcapInv
    <2> QED
      BY <1>6, <2>2, <2>3 DEF ReadbackRead
  <1>7. CASE ReadbackWrite2 /\ top' = top
    <2> DEFINE s == COMMAND_readback_2
    <2>1. PICK n, w : n = rb.nr_2 /\ w = s[n + 1]
      OBVIOUS
    <2>2. rb.st = "WRITE_2" /\ n < Len(s) /\ Written(w) /\ rb' = [rb EXCEPT !.nr_2 = n + 1] /\ regs' = regs /\ got' = got /\ asked' = asked
      BY <1>1, <1>7, <2>1 DEF ReadbackWrite2, Readbacks
    <2>3. Len(s) = 15 /\ \A i \in 1 .. 15 : s[i].t \in {"write", "value", "noop"} /\ (s[i].t = "write" => s[i].v \in Headers)
      BY ClosingWords
    <2> HIDE DEF s
    <2>4. n \in Nat /\ n + 1 \in Nat /\ n + 1 \in 1 .. 15 /\ n + 1 <= 15
      BY <1>1, <2>1, <2>2, <2>3 DEF Readbacks
    <2>5. w.t \in {"write", "value", "noop"} /\ (w.t = "write" => w.v \in Headers)
      BY <2>1, <2>3, <2>4
    <2>6. w.t # "read" /\ w.t # "sync"
      BY <2>5
    <2>7. (port.on => port.write) /\ ~ port.synced /\ port.next = "none" /\ rb.far = asked
      BY <2>2 DEF IcapInv, ReadbackInv
    <2>8. /\ port' \in Ports /\ port'.on /\ port'.write /\ ~ port'.aborted
          /\ ~ port.synced => (port'.synced <=> w.t = "sync") /\ port'.next = port.next
      BY <1>1, <2>2, <2>5, <2>6, <2>7, WordWritten
    <2>9. rb' \in Readbacks /\ rb'.st = "WRITE_2" /\ rb'.nr_2 = n + 1 /\ rb'.far = asked'
      BY <1>1, <2>2, <2>4, <2>7 DEF Readbacks
    <2>10. IcapTypeOK' /\ MachinesInv'
      BY <1>1, <1>7, <2>2, <2>8, <2>9 DEF IcapTypeOK, MachinesInv
    <2>11. ReadbackInv'
      BY <2>4, <2>6, <2>7, <2>8, <2>9 DEF ReadbackInv
    <2> QED
      BY <2>8, <2>10, <2>11 DEF IcapInv
  <1>8. CASE ReadbackDone /\ top' = [top EXCEPT !.st = "DONE"]
    <2>1. rb.st = "WRITE_2" /\ rb' = [rb EXCEPT !.st = "IDLE"] /\ Deselected(FALSE) /\ regs' = regs /\ got' = got /\ asked' = asked
      BY <1>8 DEF ReadbackDone
    <2>2. regs.st = "IDLE" /\ ~ port.synced /\ port.next = "none"
      BY <1>1, <2>1 DEF IcapInv, ReadbackInv
    <2>3. port' \in Ports /\ ~ port'.on /\ ~ port'.aborted /\ port'.next = port.next /\ port'.synced = port.synced
      BY <1>1, <1>2, <2>1, PortDeselected
    <2>4. rb' \in Readbacks /\ rb'.st = "IDLE"
      BY <1>1, <2>1 DEF Readbacks
    <2>5. top' \in Positions /\ top'.st = "DONE" /\ top'.cmd = 2
      BY <1>1, <1>8 DEF Positions
    <2>6. Quiet(port')
      BY <2>2, <2>3 DEF Quiet
    <2>7. IcapTypeOK'
      BY <1>1, <2>1, <2>3, <2>4, <2>5 DEF IcapTypeOK
    <2>8. MachinesInv'
      BY <2>1, <2>2, <2>4, <2>5, <2>6 DEF MachinesInv
    <2>9. RegsInv(port, got)'
      BY <2>1, <2>2, <2>6 DEF RegsInv, Quiet
    <2>10. ReadbackInv'
      BY <2>4, <2>9 DEF ReadbackInv
    <2> QED
      BY <2>3, <2>7, <2>8, <2>10 DEF IcapInv
  <1> QED
    BY <1>3, <1>4, <1>5, <1>6, <1>7, <1>8 DEF ReadsFrame, ReadbackWip

-----------------------------------------------------------------------------
(* icap_controller_hls.                                                    *)

\* A call that starts or ends a command moves neither machine.
LEMMA Rests ==
  ASSUME IcapInv, top.st # "OP_START", Deselected(FALSE), UNCHANGED <<regs, rb, got, asked>>,
         top' \in Positions, top'.st # "DONE"
  PROVE  IcapInv'
  <1>1. /\ regs \in RegsMachines /\ rb \in Readbacks /\ port \in Ports /\ ~ port.aborted
        /\ regs.st = "IDLE" /\ rb.st = "IDLE" /\ Quiet(port)
    BY DEF IcapInv, IcapTypeOK, MachinesInv
  <1>2. FALSE \in BOOLEAN
    OBVIOUS
  <1>3. port' \in Ports /\ ~ port'.on /\ ~ port'.aborted /\ port'.next = port.next /\ port'.synced = port.synced
    BY <1>1, <1>2, PortDeselected
  <1>4. Quiet(port')
    BY <1>1, <1>3 DEF Quiet
  <1>5. IcapTypeOK'
    BY <1>1, <1>3 DEF IcapTypeOK
  <1>6. MachinesInv'
    BY <1>1, <1>4 DEF MachinesInv
  <1>7. RegsInv(port, got)'
    BY <1>1, <1>4 DEF RegsInv, Quiet
  <1>8. ReadbackInv'
    BY <1>1, <1>7 DEF ReadbackInv
  <1> QED
    BY <1>3, <1>5, <1>6, <1>8 DEF IcapInv

\* A call of cmd_read_regs for the test sequence.
LEMMA RegisterStep ==
  ASSUME IcapInv, ReadsRegister
  PROVE  IcapInv'
  <1>1. /\ top \in Positions /\ regs \in RegsMachines /\ rb \in Readbacks /\ port \in Ports
        /\ top.st = "OP_START" /\ top.cmd = 0 /\ ~ port.aborted /\ rb.st = "IDLE" /\ RegsInv(port, got)
        /\ rb' = rb /\ asked' = asked /\ IcapTypeOK
        /\ regs.st # "IDLE" => regs.header = R(top.reg)
    BY DEF IcapInv, IcapTypeOK, MachinesInv, ReadbackInv, ReadsRegister
  <1>2. top.reg \in Registers /\ R(top.reg).v = top.reg
    BY <1>1 DEF Positions, Registers, R
  <1>3. CASE RegsWip(top.reg) /\ top' = top
    <2>1. /\ regs' \in RegsMachines /\ port' \in Ports /\ RegsInv(port, got)' /\ ~ port'.aborted
          /\ port'.FAR = port.FAR /\ regs'.st # "IDLE" /\ regs'.header = R(top.reg)
      BY <1>1, <1>2, <1>3, RegsStep
    <2>2. IcapTypeOK' /\ MachinesInv'
      BY <1>1, <1>3, <2>1 DEF IcapTypeOK, MachinesInv
    <2>3. ReadbackInv'
      BY <1>1, <2>1 DEF ReadbackInv
    <2> QED
      BY <2>1, <2>2, <2>3 DEF IcapInv
  <1>4. CASE RegsDone /\ top' = [top EXCEPT !.st = "DONE"]
    <2>1. /\ regs' \in RegsMachines /\ port' \in Ports /\ regs'.st = "IDLE" /\ Quiet(port') /\ ~ port'.aborted
          /\ got' = regs.header.v
      BY <1>1, <1>4, RegsEnd
    <2>2. regs.st # "IDLE"
      BY <1>4 DEF RegsDone
    <2>3. got' = top.reg
      BY <1>1, <1>2, <2>1, <2>2
    <2>4. top' \in Positions /\ top'.st = "DONE" /\ top'.cmd = 0 /\ top'.reg = top.reg
      BY <1>1, <1>4 DEF Positions
    <2>5. IcapTypeOK'
      BY <1>1, <2>1, <2>4 DEF IcapTypeOK
    <2>6. MachinesInv'
      BY <1>1, <2>1, <2>3, <2>4 DEF MachinesInv
    <2>7. RegsInv(port, got)'
      BY <2>1 DEF RegsInv, Quiet
    <2>8. ReadbackInv'
      BY <1>1, <2>7 DEF ReadbackInv
    <2> QED
      BY <2>1, <2>5, <2>6, <2>8 DEF IcapInv
  <1> QED
    BY <1>3, <1>4 DEF ReadsRegister

\* The invariant holds after a reset, and every call keeps it.
LEMMA IcapInitially == InitIcap => IcapInv
  <1> SUFFICES ASSUME InitIcap PROVE IcapInv
    OBVIOUS
  <1>1. top \in Positions /\ top.st = "INACTIVE" /\ top.cmd = 0
    BY DEF InitIcap, Positions
  <1>2. regs \in RegsMachines /\ regs.st = "IDLE"
    BY DEF InitIcap, RegsMachines, RegsStates, R
  <1>3. rb \in Readbacks /\ rb.st = "IDLE"
    BY IcapAssumption DEF InitIcap, Readbacks
  <1>4. port \in Ports /\ Quiet(port) /\ ~ port.aborted
    BY DEF InitIcap, Ports, Quiet
  <1>5. IcapTypeOK /\ MachinesInv
    BY <1>1, <1>2, <1>3, <1>4 DEF IcapTypeOK, MachinesInv
  <1>6. RegsInv(port, got)
    BY <1>2, <1>4 DEF RegsInv, Quiet
  <1>7. ReadbackInv
    BY <1>3, <1>6 DEF ReadbackInv
  <1> QED
    BY <1>4, <1>5, <1>7 DEF IcapInv

LEMMA IcapStep == IcapInv /\ [NextIcap]_icapVars => IcapInv'
  <1> SUFFICES ASSUME IcapInv, [NextIcap]_icapVars PROVE IcapInv'
    OBVIOUS
  <1>0. top \in Positions
    BY DEF IcapInv, IcapTypeOK
  <1>1. CASE Inactive
    <2>1. PICK nr \in Nat, st \in {"ACTIVE", "INACTIVE"} :
            nr < Len(Sequence) /\ top' = [st |-> st, nr |-> nr + 1, cmd |-> Sequence[nr + 1].cmd, reg |-> Sequence[nr + 1].reg]
      <3>1. PICK reset \in BOOLEAN, avail \in BOOLEAN :
              LET nr == IF reset THEN 0 ELSE top.nr
              IN  /\ nr < Len(Sequence)
                  /\ top' = [st |-> IF avail THEN "ACTIVE" ELSE "INACTIVE", nr |-> nr + 1,
                             cmd |-> Sequence[nr + 1].cmd, reg |-> Sequence[nr + 1].reg]
        BY <1>1 DEF Inactive
      <3>2. PICK nr, st : nr = (IF reset THEN 0 ELSE top.nr) /\ st = (IF avail THEN "ACTIVE" ELSE "INACTIVE")
        OBVIOUS
      <3>3. nr \in Nat /\ st \in {"ACTIVE", "INACTIVE"}
        BY <1>0, <3>2 DEF Positions
      <3> QED
        BY <3>1, <3>2, <3>3
    <2>2. nr \in {0, 1, 2}
      BY <2>1 DEF Sequence
    <2>3. PICK c, r, k : c = Sequence[nr + 1].cmd /\ r = Sequence[nr + 1].reg /\ k = nr + 1
      OBVIOUS
    <2>4. c \in {0, 2} /\ r \in {"CRC", "IDCODE"} /\ k \in Nat
      BY <2>2, <2>3 DEF Sequence
    <2>5. top' \in Positions /\ top'.st = st
      BY <2>1, <2>3, <2>4 DEF Positions
    <2>6. top'.st # "DONE" /\ top.st # "OP_START" /\ Deselected(FALSE) /\ UNCHANGED <<regs, rb, got, asked>>
      BY <1>1, <2>1, <2>5 DEF Inactive
    <2> QED
      BY <2>5, <2>6, Rests
  <1>2. CASE Active
    <2>1. PICK st \in {"OP_START", "INACTIVE"} : top' = [top EXCEPT !.st = st]
      BY <1>2 DEF Active
    <2>2. top' \in Positions /\ top'.st # "DONE"
      BY <1>0, <2>1 DEF Positions
    <2>3. top.st # "OP_START" /\ Deselected(FALSE) /\ UNCHANGED <<regs, rb, got, asked>>
      BY <1>2 DEF Active
    <2> QED
      BY <2>2, <2>3, Rests
  <1>3. CASE ReadsRegister
    BY <1>3, RegisterStep
  <1>4. CASE ReadsFrame
    BY <1>4, ReadbackStep
  <1>5. CASE Done
    <2>1. top' \in Positions /\ top'.st # "DONE"
      BY <1>0, <1>5 DEF Done, Positions
    <2>2. top.st # "OP_START" /\ Deselected(FALSE) /\ UNCHANGED <<regs, rb, got, asked>>
      BY <1>5 DEF Done
    <2> QED
      BY <2>1, <2>2, Rests
  <1>6. CASE UNCHANGED icapVars
    BY <1>6 DEF icapVars, IcapInv, IcapTypeOK, MachinesInv, Quiet, ReadbackInv, RegsInv, OpenHeader
  <1> QED
    BY <1>1, <1>2, <1>3, <1>4, <1>5, <1>6 DEF NextIcap, Works

\* The configuration port is used as its protocol asks, for every frame length, padding and
\* number of words that the port returns before the register (at most the five that
\* cmd_read_regs skips): IcapDiscipline, over cmd_read_regs.cpp:140-244,
\* cmd_read_bitstreams.cpp:151-226 and top.cpp:119-220.
THEOREM IcapIsDisciplined == SpecIcap => []IcapDiscipline
  <1>1. IcapInv => IcapDiscipline
    BY DEF IcapInv, IcapTypeOK, MachinesInv, Quiet, ReadbackInv, IcapDiscipline, Positions
  <1> QED
    BY <1>1, IcapInitially, IcapStep, PTL DEF SpecIcap
=============================================================================
