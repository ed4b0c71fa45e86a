------------------------------- MODULE MCXdma -------------------------------
(***************************************************************************)
(* Instances of the PCIe driver for TLC. An engine that transfers, a ring  *)
(* that receives, a device that comes and goes, and the processes at the   *)
(* character devices are checked in turn: in a behaviour one of them takes *)
(* steps and the others stay in their initial states.                      *)
(***************************************************************************)
EXTENDS XdmaEngine, XdmaCyclic, XdmaDevice, XdmaFiles

CONSTANT Parts

VARIABLE part   \* which part takes steps; never changes

AllModes == [poll : BOOLEAN, timeouts : BOOLEAN]
Interrupts == [poll : {FALSE}, timeouts : {TRUE}]
AllCyclic == [credit : BOOLEAN, poll : BOOLEAN, expires : BOOLEAN]
AllDevices == [irq : {"msix", "msi", "legacy"}, poll : BOOLEAN]

\* The orders of BARs that identify_bars tells apart, with 32-bit and 64-bit BARs.
Bars(s) == [i \in 0 .. NBars - 1 |-> IF i < Len(s) THEN s[i + 1] ELSE "absent"]
SomeLayouts ==
  { Bars(s) : s \in {<<"other">>, <<"config">>, <<"config", "other">>, <<"other", "config">>,
                     <<"other", "config", "other">>, <<"other", "other", "config">>, <<"config", "other", "other">>,
                     <<"other", "absent", "config", "other">>, <<"other", "other", "config", "other">>,
                     <<"other", "config", "config", "other">>} }

MCInit ==
  /\ part \in Parts
  /\ InitEngine /\ InitCyclic /\ InitDevice /\ InitFiles
  /\ part # "engine" => emode = CHOOSE m \in EngineModes : TRUE
  /\ part # "cyclic" => cmode = CHOOSE m \in CyclicModes : TRUE
  /\ part # "device" => dmode = CHOOSE m \in DeviceModes : TRUE
  /\ part # "files" => msix = CHOOSE m \in Vectored : TRUE

MCNext ==
  /\ \/ part = "engine" /\ NextEngine /\ UNCHANGED <<cvars, dvars, fvars>>
     \/ part = "cyclic" /\ NextCyclic /\ UNCHANGED <<evars, dvars, fvars>>
     \/ part = "device" /\ NextDevice /\ UNCHANGED <<evars, cvars, fvars>>
     \/ part = "files" /\ NextFiles /\ UNCHANGED <<evars, cvars, dvars>>
  /\ UNCHANGED part

\* The fair steps of a part that stays in its initial state are disabled.
MCSpec == MCInit /\ [][MCNext]_<<evars, cvars, dvars, fvars, part>> /\ FairEngine /\ FairCyclic

-----------------------------------------------------------------------------
\* Every submitted transfer returns and every streamed packet arrives (see SubmitsReturn of
\* XdmaEngine and StreamArrives of XdmaCyclic).
XdmaProgress == SubmitsReturn /\ StreamArrives
=============================================================================
