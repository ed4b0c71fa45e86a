------------------------------- MODULE MCRdm -------------------------------
(***************************************************************************)
(* Instances of RdmMapping, AppRdma and SystemNetwork for TLC. The three   *)
(* versions of the application never meet on a board, and the network      *)
(* blocks treat all frames alike: in a behaviour only one of them takes    *)
(* steps and the others stay in their initial states.                      *)
(***************************************************************************)
EXTENDS RdmMapping

CONSTANTS AppPackets, MaxAppPackets, TestLengths, Depth,
          Widths, RxFrames, MaxRxFrames, TxFrames, MaxTxFrames

VARIABLES
  version,   \* "first", "second" or "net"; never changes
  client, app_sent, app_fifo, app_parser, app_reader, app_writer, app_tester, app_dram,
  width, arrived, rx_in, rx, port, lib, data_out, ack_out, handed, tx_in, tx, wire

netVars == <<width, arrived, rx_in, rx, port, lib, data_out, ack_out, handed, tx_in, tx, wire>>
appVars == <<client, app_sent, app_fifo, app_parser, app_reader, app_writer, app_tester, app_dram>>

A == INSTANCE AppRdma WITH sent <- app_sent, fifo <- app_fifo, parser <- app_parser,
       reader <- app_reader, writer <- app_writer, tester <- app_tester, dram <- app_dram

N == INSTANCE SystemNetwork

P(op, va, units, data) == [op |-> op, va |-> va, units |-> units, data |-> data]
Q(op, va, units, data, aligned) == P(op, va, units, data) @@ [aligned |-> aligned]

\* Pages of two units, the first allocation has address 2. Every packet has the payload
\* its length announces.
WellFormed == {P("ALLOC", 0, 2, 0), P("WRITE", 2, 2, 2), P("READ", 2, 2, 0),
               P("OTHER", 0, 1, 0)}

\* Allocations, and writes to the first two addresses handed out.
Writes == {P("ALLOC", 0, 2, 0), P("WRITE", 2, 1, 1), P("WRITE", 4, 1, 1)}

\* For the first version: payloads of another size than announced, reads that it refuses
\* or that carry a payload, a write that it refuses, and an opcode it ignores, in a packet of
\* three units. Every write has a payload.
Mixed == {Q("READ", 0, 2, 0, TRUE), Q("READ", 1, 1, 0, FALSE), Q("READ", 0, 1, 2, TRUE),
          Q("WRITE", 0, 1, 2, TRUE), Q("WRITE", 2, 2, 2, TRUE), Q("WRITE", 4, 2, 1, FALSE), Q("ALLOC", 0, 1, 1, TRUE)}

Lengths == <<1, 2, 3>>

\* Frames of the shortest length handled, and longer ones; for either application, for one
\* that does not exist (512-bit build) and with an identifier above 127 (256-bit build).
F(w, app, words) == [w |-> w, app |-> app, words |-> words]
SomeFrames == {F(512, 0, 2), F(512, 1, 3), F(512, 7, 2), F(256, 3, 3), F(256, 130, 2), F(64, 0, 6), F(64, 1, 8)}
AppFrames == {[app |-> a, words |-> n] : a \in {0, 1}, n \in {1, 2}}

MCInit ==
  /\ Init /\ A!Init /\ N!InitNet
  /\ version \in {"first", "second", "net"}
  /\ version # "second" => ip = "rdm_mapping"
  /\ version # "first" => client = "host"
  /\ version # "net" => width = 512

\* The two directions of the network share nothing: a behaviour uses one of them.
MCNext ==
  /\ \/ version = "first" /\ A!Next /\ UNCHANGED <<vars, netVars>>
     \/ version = "second" /\ Next /\ UNCHANGED <<appVars, netVars>>
     \/ version = "net" /\ N!NextNet /\ UNCHANGED <<vars, appVars>> /\ (arrived' = << >> \/ handed' = << >>)
  /\ UNCHANGED version

MCSpec == MCInit /\ [][MCNext]_<<vars, appVars, netVars, version>>
MCFairSpec == MCSpec /\ Fairness /\ A!Fairness /\ N!FairNet

\* In both versions memory holds what was written to that address, within the length the
\* header announced, as long as no write was refused; in the first version, a refused write
\* leaves its payload to the next one, and so on (see StoredWhereAddressed of RdmMapping,
\* WritesStayInBounds of AppRdma).
WritesInPlace == StoredWhereAddressed /\ A!WritesStayInBounds

\* The words of two frames never mix, in any build of the network (see FramesWhole of
\* SystemNetwork).
NetFramesWhole == N!FramesWhole

\* Everything gets through: each request is replied to, the on-chip test of the first
\* version finishes its reads and writes, the network blocks drain (see EveryRequestReplied,
\* TestFinishes and NetDrains of the three modules).
RdmProgress == EveryRequestReplied /\ A!TestFinishes /\ N!NetDrains
=============================================================================
