--------------------------- MODULE SystemNetwork ---------------------------
(***************************************************************************)
(* The system network (net/sysnet) and the library network (net/libnet):   *)
(* sysnet_rx hands the frames from the MAC to the application they are     *)
(* for, libnet_rx passes them on and acknowledges each, and sysnet_tx      *)
(* merges what the applications send. There are builds for words of 512,   *)
(* 256 and 64 bits. Each block is called in every cycle and handles one    *)
(* word; a call without input changes nothing and is no step.              *)
(***************************************************************************)
EXTENDS Integers, Sequences, FiniteSets

LOCAL INSTANCE SequencesExt

CONSTANTS
  Widths,       \* the builds considered, among 512, 256 and 64
  RxFrames,     \* frames the MAC may deliver: [w, app, words]
  MaxRxFrames,  \* bound on the frames delivered
  TxFrames,     \* frames an application may send: [app, words]
  MaxTxFrames   \* bound on the frames sent

VARIABLES
  width,     \* the build; never changes
  arrived,   \* the frames that the MAC has begun to deliver
  rx_in,     \* words at sysnet_rx
  rx,        \* sysnet_rx: state and APP_ID
  port,      \* words between sysnet_rx and libnet_rx
  lib,       \* libnet_rx: state and the number of the next acknowledgement
  data_out,  \* what libnet_rx has passed on
  ack_out,   \* the acknowledgements
  handed,    \* the frames that the applications have begun to send
  tx_in,     \* words at sysnet_tx
  tx,        \* sysnet_tx: state and the port it serves
  wire       \* the words sent

nvars == <<width, arrived, rx_in, rx, port, lib, data_out, ack_out, handed, tx_in, tx, wire>>

Apps == {0, 1}
FrameWord(f, k, n) == [frame |-> f, k |-> k, last |-> k = n]
FrameWords(f, n) == [k \in 1 .. n |-> FrameWord(f, k, n)]
\* A local variable of an earlier call: its value is not defined.
UndefinedWord == [frame |-> 0, k |-> 0, last |-> FALSE]

InitNet ==
  /\ width \in Widths
  /\ arrived = << >> /\ rx_in = << >> /\ rx = [st |-> IF width = 64 THEN "ETH0" ELSE "IDLE", app |-> 0]
  /\ port = [a \in Apps |-> << >>] /\ lib = [a \in Apps |-> [st |-> "IDLE", i |-> 1]]
  /\ data_out = [a \in Apps |-> << >>] /\ ack_out = [a \in Apps |-> << >>]
  /\ handed = << >> /\ tx_in = [a \in Apps |-> << >>] /\ tx = [st |-> "IDLE", index |-> 0] /\ wire = << >>

-----------------------------------------------------------------------------
(* Receive.                                                                *)

\* The MAC delivers a frame; the blocks may read its words at any later time.
FrameArrives ==
  /\ Len(arrived) < MaxRxFrames
  /\ \E f \in {g \in RxFrames : g.w = width} :
       /\ arrived' = Append(arrived, f)
       /\ rx_in' = rx_in \o FrameWords(Len(arrived) + 1, f.words)
  /\ UNCHANGED <<width, rx, port, lib, data_out, ack_out, handed, tx_in, tx, wire>>

\* RX_DISPATCH: an unknown application's frames go to the first one.
RX_DISPATCH(app) == IF app = 1 THEN 1 ELSE 0

\* The next state of a block that passes on the words of a frame: the first word of
\* a frame is not taken for its last.
Anywhere(st, w) == IF w.last THEN "IDLE" ELSE "STREAM"
Streaming(st, w) == IF st = "STREAM" /\ w.last THEN "IDLE" ELSE "STREAM"

sysnet_rx_512 ==
  LET w == Head(rx_in)
      app == IF rx.st = "IDLE" THEN arrived[w.frame].app ELSE rx.app
      st == Streaming(rx.st, w)
  IN  /\ width = 512 /\ rx_in # << >>
      /\ rx_in' = Tail(rx_in)
      /\ port' = [port EXCEPT ![RX_DISPATCH(app)] = Append(@, w)]
      /\ rx' = [st |-> st, app |-> IF st = "IDLE" THEN 0 ELSE app]
      /\ UNCHANGED <<width, arrived, lib, data_out, ack_out, handed, tx_in, tx, wire>>

\* The output is the identifier's remainder, and the identifier is a signed char:
\* a negative one may name an output that does not exist.
AsChar(id) == IF id < 128 THEN id ELSE id - 256
Outputs(id) == IF AsChar(id) >= 0 \/ AsChar(id) % 2 = 0 THEN {AsChar(id) % 2} ELSE Apps \cup {-1}

sysnet_rx_256 ==
  LET w == Head(rx_in)
      st == Streaming(rx.st, w)
  IN  /\ width = 256 /\ rx_in # << >>
      /\ rx_in' = Tail(rx_in)
      /\ \E out \in IF rx.st = "IDLE" THEN Outputs(arrived[w.frame].app) ELSE {rx.app} :
           /\ port' = IF out \in Apps THEN [port EXCEPT ![out] = Append(@, w)] ELSE port
           /\ rx' = [st |-> st, app |-> IF st = "IDLE" THEN 0 ELSE out]
      /\ UNCHANGED <<width, arrived, lib, data_out, ack_out, handed, tx_in, tx, wire>>

\* The parser of the 64-bit build: what follows each state while headers are read.
\* Each of the four states writes the word of the call before, whose variable is gone.
Header == [ETH0 |-> "ETH1", ETH1 |-> "IP0", IP0 |-> "IP1", IP1 |-> "UDP", UDP |-> "LEGO"]
ToFirst(w) == port' = [port EXCEPT ![0] = Append(@, w)]

rx_64_header ==
  /\ rx.st \in DOMAIN Header /\ rx_in # << >>
  /\ rx_in' = Tail(rx_in)
  /\ IF rx.st = "ETH0" THEN UNCHANGED port ELSE ToFirst(UndefinedWord)
  /\ rx' = [rx EXCEPT !.st = Header[rx.st]]

\* Both branches on the identifier write to the first output.
rx_64_stream ==
  LET w == Head(rx_in)
  IN  /\ rx.st \in {"LEGO", "SM_STREAM"} /\ rx_in # << >>
      /\ rx_in' = Tail(rx_in)
      /\ ToFirst(w)
      /\ rx' = [rx EXCEPT !.st = IF ~w.last THEN "SM_STREAM" ELSE IF rx.st = "LEGO" THEN "ETH0" ELSE "SM_RESIDUE"]

rx_64_residue ==
  /\ rx.st = "SM_RESIDUE"
  /\ ToFirst(UndefinedWord)
  /\ rx' = [rx EXCEPT !.st = "ETH0"]
  /\ UNCHANGED rx_in

sysnet_rx_64 ==
  /\ width = 64
  /\ rx_64_header \/ rx_64_stream \/ rx_64_residue
  /\ UNCHANGED <<width, arrived, lib, data_out, ack_out, handed, tx_in, tx, wire>>

libnet_rx(a) ==
  LET w == Head(port[a])
  IN  /\ width # 64 /\ port[a] # << >>
      /\ port' = [port EXCEPT ![a] = Tail(@)]
      /\ data_out' = [data_out EXCEPT ![a] = Append(@, w)]
      /\ IF lib[a].st = "IDLE"
         THEN /\ ack_out' = [ack_out EXCEPT ![a] = Append(@, lib[a].i)]
              /\ lib' = [lib EXCEPT ![a] = [st |-> Streaming("IDLE", w), i |-> @.i + 1]]
         ELSE /\ lib' = [lib EXCEPT ![a].st = Streaming("STREAM", w)]
              /\ UNCHANGED ack_out
      /\ UNCHANGED <<width, arrived, rx_in, rx, handed, tx_in, tx, wire>>

-----------------------------------------------------------------------------
(* Send.                                                                   *)

\* An application begins a frame, and sends the next word of the one it has begun. There
\* is no 256-bit sysnet_tx.
Begun(a) == {f \in DOMAIN handed : handed[f].app = a /\ handed[f].sent < handed[f].words}
AppBegins(a) ==
  /\ width # 256 /\ Begun(a) = {} /\ Len(handed) < MaxTxFrames
  /\ \E f \in {g \in TxFrames : g.app = a} :
       /\ handed' = Append(handed, [app |-> a, words |-> f.words, sent |-> 1])
       /\ tx_in' = [tx_in EXCEPT ![a] = Append(@, FrameWord(Len(handed) + 1, 1, f.words))]
  /\ UNCHANGED <<width, arrived, rx_in, rx, port, lib, data_out, ack_out, tx, wire>>

AppContinues(a) ==
  /\ \E f \in Begun(a) :
       /\ handed' = [handed EXCEPT ![f].sent = @ + 1]
       /\ tx_in' = [tx_in EXCEPT ![a] = Append(@, FrameWord(f, handed[f].sent + 1, handed[f].words))]
  /\ UNCHANGED <<width, arrived, rx_in, rx, port, lib, data_out, ack_out, tx, wire>>

\* The 512-bit arbiter: a lower port first, and the port is kept to the frame's end.
LowestPort == CHOOSE a \in Apps : tx_in[a] # << >> /\ \A b \in Apps : tx_in[b] # << >> => a <= b
PortPerWord == LowestPort
Served == IF tx.st = "STREAM" THEN tx.index ELSE LowestPort

sysnet_tx_512 ==
  /\ width = 512 /\ \E a \in Apps : tx_in[a] # << >>
  /\ tx_in[Served] # << >>
  /\ LET w == Head(tx_in[Served])
     IN  /\ wire' = Append(wire, w)
         /\ tx_in' = [tx_in EXCEPT ![Served] = Tail(@)]
         /\ tx' = [st |-> Anywhere(tx.st, w), index |-> Served]
  /\ UNCHANGED <<width, arrived, rx_in, rx, port, lib, data_out, ack_out, handed>>

\* The 64-bit arbiter takes turns, also when its port runs dry inside a frame.
sysnet_tx_64 ==
  /\ width = 64
  /\ IF tx_in[tx.index] = << >>
     THEN tx' = [tx EXCEPT !.index = (@ + 1) % 2] /\ UNCHANGED <<wire, tx_in>>
     ELSE LET w == Head(tx_in[tx.index])
          IN  /\ wire' = Append(wire, w)
              /\ tx_in' = [tx_in EXCEPT ![tx.index] = Tail(@)]
              /\ tx' = IF w.last THEN [tx EXCEPT !.index = (@ + 1) % 2] ELSE tx
  /\ UNCHANGED <<width, arrived, rx_in, rx, port, lib, data_out, ack_out, handed>>

RxWork == sysnet_rx_512 \/ sysnet_rx_256 \/ sysnet_rx_64 \/ \E a \in Apps : libnet_rx(a)
TxWork == sysnet_tx_512 \/ sysnet_tx_64
NextNet == FrameArrives \/ RxWork \/ (\E a \in Apps : AppBegins(a) \/ AppContinues(a)) \/ TxWork

\* The blocks are called in every cycle; an application ends the frame that it has begun.
FairNet == WF_nvars(RxWork) /\ WF_nvars(TxWork) /\ \A a \in Apps : WF_nvars(AppContinues(a))

-----------------------------------------------------------------------------
(* Properties. Frames have at least two words, in the 64-bit build at      *)
(* least six: the code takes shorter ones for the start of a frame.        *)

\* The output an application's frames belong to, and the words of a frame that reach it:
\* the 64-bit parser loses the first five.
Destination(f) == CASE width = 512 -> IF f.app = 1 THEN 1 ELSE 0
                    [] width = 256 -> f.app % 2
                    [] OTHER -> 0
Delivered(i) == SubSeq(FrameWords(i, arrived[i].words), IF width = 64 THEN 6 ELSE 1, arrived[i].words)

\* The frames delivered to an output, one behind the other.
FramesFor(a) ==
  FlattenSeq([i \in DOMAIN arrived |-> IF Destination(arrived[i]) = a THEN Delivered(i) ELSE << >>])
Received(a) == data_out[a] \o SelectSeq(port[a], LAMBDA w : w # UndefinedWord)
HandedOver(a) ==
  FlattenSeq([f \in DOMAIN handed |->
    IF handed[f].app = a THEN SubSeq(FrameWords(f, handed[f].words), 1, handed[f].sent) ELSE << >>])

\* The words of two frames never mix (sysnet_rx 42-89, 19-63 and 24-161; libnet_rx 13-58;
\* sysnet_tx 13-65 and 27-67). An application receives the words of its own frames only,
\* in order and without a gap, with one acknowledgement for each; the 512-bit build
\* sends a frame in one piece even if its application pauses inside it; and in no
\* build is a word lost, repeated or overtaken by a later one of its application.
FramesWhole ==
  /\ \A a \in Apps :
       /\ IsPrefix(Received(a), FramesFor(a))
       /\ rx_in = << >> => Len(Received(a)) = Len(FramesFor(a))
       /\ ack_out[a] = [i \in 1 .. Cardinality({j \in DOMAIN data_out[a] : data_out[a][j].k = 1}) |-> i]
       /\ SelectSeq(wire, LAMBDA w : handed[w.frame].app = a) \o tx_in[a] = HandedOver(a)
  /\ width = 512 => \A i \in 2 .. Len(wire) :
       IF wire[i-1].last THEN wire[i].k = 1
       ELSE wire[i].frame = wire[i-1].frame /\ wire[i].k = wire[i-1].k + 1

\* Everything received is passed on, and everything handed over is sent, whichever port
\* the arbiter prefers.
NetDrains ==
  []<>(/\ rx_in = << >> /\ \A a \in Apps : tx_in[a] = << >>
       /\ width # 64 => \A a \in Apps : port[a] = << >>)
=============================================================================
