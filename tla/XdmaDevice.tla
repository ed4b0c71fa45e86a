----------------------------- MODULE XdmaDevice -----------------------------
(***************************************************************************)
(* A device of the PCIe driver from probe to removal (xdma_mod.c, the open,*)
(* close, offline and online of libxdma.c, the character devices of        *)
(* xdma_cdev.c). Each call that takes a resource may fail; held counts how *)
(* often each resource is held, and a release of what is not held shows as *)
(* a negative count. The kernel behind these calls is external: request_irq*)
(* refuses a line that is taken, unless it is shared.                      *)
(***************************************************************************)
EXTENDS Integers, FiniteSets, SequencesExt

CONSTANTS
  NBars,        \* XDMA_BAR_NUM
  Channels,     \* engines of each direction in the device
  UserMax,      \* MAX_USER_IRQ
  MaxProbes,    \* bound on probe_one
  MaxCycles,    \* bound on going offline and online
  Layouts,      \* contents of the BARs: [0 .. NBars - 1 -> {"absent", "other", "config"}]
  DeviceModes   \* [irq : {"msix", "msi", "legacy"}, poll : BOOLEAN]

ASSUME DeviceAssumption ==
  /\ NBars \in Nat /\ Channels \in Nat /\ UserMax \in Nat
  /\ Layouts \subseteq [0 .. NBars - 1 -> {"absent", "other", "config"}]
  /\ DeviceModes \subseteq [irq : {"msix", "msi", "legacy"}, poll : BOOLEAN]

VARIABLES
  dmode,     \* interrupt_mode and capability, poll_mode
  pc,        \* the next step of probe_one
  bar,       \* config_bar_idx, user_bar_idx, bypass_bar_idx; the number of BARs and config_bar_pos
  chan,      \* h2c_channel_max, c2h_channel_max
  held,      \* how often each resource is held
  lines,     \* the engines with msix_irq_line # 0; "irq" when irq_line # -1
  groups,    \* XDF_CDEV_* flags
  off,       \* XDEV_FLAG_OFFLINE
  userMask,  \* mask_irq_user
  irqOnD,    \* enabled interrupts: [channel : BOOLEAN, user : set]
  irqsUp,    \* history: the last irq_setup succeeded and was not torn down
  probes,
  cycles,
  trouble    \* history: what went wrong in a way the driver does not handle

dvars == <<dmode, pc, bar, chan, held, lines, groups, off, userMask, irqOnD, irqsUp, probes, cycles, trouble>>

Index == 0 .. Channels - 1
Engines == {"h2c", "c2h"} \X Index
UserLines == {"user"} \X (0 .. UserMax - 1)
OneLine == <<"line", 0>>
Groups == {"ctrl", "event", "sg", "bypass", "user", "xvc"}

\* A resource is its kind, a name, and an index.
Single(S) == { <<n, n, 0>> : n \in S }
EngineRes(S) == { <<"engine", e[1], e[2]>> : e \in S }
IrqOf(S) == { <<"irq", e[1], e[2]>> : e \in S }
Major == <<"cdev", "major", 0>>
Resources ==
  Single({"xpdev", "list", "enable", "regions", "bars", "vectors"}) \cup EngineRes(Engines)
    \cup IrqOf(Engines \cup UserLines \cup {OneLine})
    \cup ({"cdev"} \X Groups \X (0 .. 2 * Channels + UserMax)) \cup {Major}

Took(S) == [r \in Resources |-> held[r] + IF r \in S THEN 1 ELSE 0]
Gave(h, S) == [r \in Resources |-> h[r] - IF r \in S THEN 1 ELSE 0]

NoBar == [config |-> -1, user |-> -1, bypass |-> -1, n |-> 0, pos |-> 0]

InitDevice ==
  /\ dmode \in DeviceModes
  /\ pc = "none" /\ bar = NoBar /\ chan = [h2c |-> 0, c2h |-> 0]
  /\ held = [r \in Resources |-> 0] /\ lines = {} /\ groups = {}
  /\ off = TRUE /\ userMask = {} /\ irqOnD = [channel |-> FALSE, user |-> {}]
  /\ irqsUp = FALSE /\ probes = 0 /\ cycles = 0 /\ trouble = {}

-----------------------------------------------------------------------------
(* BARs.                                                                   *)

\* The mapped BARs, bar_id_list in ascending order; the config BARs among them.
Mapped(l) == { i \in 0 .. NBars - 1 : l[i] # "absent" }
Configs(l) == { i \in Mapped(l) : l[i] = "config" }
FirstOf(S) == CHOOSE i \in S : \A j \in S : i <= j
LastOf(S) == CHOOSE i \in S : \A j \in S : j <= i

\* The first config BAR is the one; its position is the number of BARs before it.
FoundBar(l) ==
  LET c == FirstOf(Configs(l))
  IN [config |-> c, user |-> -1, bypass |-> -1, n |-> Cardinality(Mapped(l)), pos |-> Cardinality({ i \in Mapped(l) : i < c })]

\* Only the first and the last entry of bar_id_list are looked at.
identify_bars(l) ==
  LET c == FoundBar(l) IN
  CASE c.n = 2 /\ c.pos = 0 -> [c EXCEPT !.bypass = LastOf(Mapped(l))]
    [] c.n = 2 /\ c.pos = 1 -> [c EXCEPT !.user = FirstOf(Mapped(l))]
    [] c.n \in {3, 4} /\ c.pos \in {1, 2} -> [c EXCEPT !.user = FirstOf(Mapped(l)), !.bypass = LastOf(Mapped(l))]
    [] OTHER -> c

-----------------------------------------------------------------------------
(* Interrupts.                                                             *)

\* The engines that engine_init has set up, when it was successful c times in each direction.
Initialised(c) == { e \in Engines : e[2] < c[e[1]] }
ActiveEngines == Initialised(chan)

\* The engines in the order of their vectors: first all of H2C.
Order == SetToSortSeq(ActiveEngines, LAMBDA d, e : (d[1] = "h2c" /\ e[1] = "c2h") \/ (d[1] = e[1] /\ d[2] < e[2]))
UserOrder == SetToSortSeq(UserLines, LAMBDA d, e : d[2] < e[2])
Firsts(s, k) == { s[i] : i \in 1 .. k }
Free(S) == \A e \in S : held[<<"irq", e[1], e[2]>>] = 0

\* Each possible end of irq_setup: success or not, the lines it leaves requested, and the engines
\* that have been given a line.
irq_setup_ends ==
  IF dmode.irq = "msix"
  THEN { r \in {[ok |-> TRUE, got |-> ActiveEngines \cup UserLines, lines |-> lines \cup ActiveEngines]} : Free(r.got) }
       \cup { [ok |-> FALSE, got |-> Firsts(Order, k), lines |-> lines \cup Firsts(Order, k)]
                : k \in { n \in 0 .. Len(Order) - 1 : Free(Firsts(Order, n)) } }
       \cup { [ok |-> FALSE, got |-> ActiveEngines, lines |-> lines \cup ActiveEngines]
                : k \in { n \in 0 .. UserMax - 1 : Free(ActiveEngines \cup Firsts(UserOrder, n)) } }
  ELSE { [ok |-> b, got |-> IF b THEN {OneLine} ELSE {}, lines |-> {OneLine}]
           : b \in { x \in BOOLEAN : x => dmode.irq = "legacy" \/ Free({OneLine}) } }

\* irq_msix_channel_teardown stops in each direction at an engine without a line;
\* irq_msix_user_teardown frees all; msix_irq_line and irq_line keep their values.
Freed ==
  IF dmode.irq = "msix"
  THEN { e \in ActiveEngines : \A i \in 0 .. e[2] : <<e[1], i>> \in lines } \cup UserLines
  ELSE lines

irq_teardown(h) == Gave(h, IrqOf(Freed))

-----------------------------------------------------------------------------
(* probe_one.                                                              *)

\* xpdev_alloc, alloc_dev_instance and xdev_list_add.
Probe ==
  /\ pc = "none" /\ probes < MaxProbes
  /\ probes' = probes + 1
  /\ \/ held' = Took(Single({"xpdev", "list"})) /\ pc' = "enable" /\ trouble' = trouble
     \/ held' = Took(Single({"xpdev"})) /\ pc' = "none" /\ trouble' = trouble \cup {"xpdev"}
     \/ UNCHANGED <<held, pc, trouble>>
  /\ bar' = NoBar /\ lines' = {} /\ groups' = {} /\ off' = TRUE /\ userMask' = {} /\ irqsUp' = FALSE
  /\ UNCHANGED <<dmode, chan, irqOnD, cycles>>

\* Seeded fault: the label err_map jumps over the release of the regions.
KeepRegions(label) ==
  CASE label = "err_enable" -> Single({"list"})
    [] label = "err_regions" -> Single({"list"})
    [] label = "err_map" -> Single({"list", "enable"})
    [] label = "err_mask" -> Single({"list", "enable", "bars"})
    [] OTHER -> Single({"list", "enable", "bars"}) \cup EngineRes(ActiveEngines)

\* The labels of xdma_device_open: what is released from here on. A device whose regions are in
\* use by somebody else is not disabled; map_bars has unmapped its BARs itself.
Unwound(label) ==
  CASE label = "err_enable" -> Single({"list"})
    [] label = "err_regions" -> Single({"list"})
    [] label = "err_map" -> Single({"list", "enable", "regions"})
    [] label = "err_mask" -> Single({"list", "enable", "regions", "bars"})
    [] OTHER -> Single({"list", "enable", "regions", "bars"}) \cup EngineRes(ActiveEngines)

\* probe_one returns without freeing xpdev.
OpenFails(label) ==
  /\ held' = Gave(held, Unwound(label))
  /\ pc' = "none" /\ trouble' = trouble \cup {"xpdev"}
  /\ UNCHANGED <<bar, chan, lines, irqsUp>>

OpenRest == UNCHANGED <<dmode, groups, off, userMask, irqOnD, probes, cycles>>

pci_enable_device ==
  /\ pc = "enable"
  /\ \/ held' = Took(Single({"enable"})) /\ pc' = "regions" /\ UNCHANGED <<bar, chan, lines, irqsUp, trouble>>
     \/ OpenFails("err_enable")
  /\ OpenRest

\* regions_in_use: the device stays enabled, on purpose.
request_regions ==
  /\ pc = "regions"
  /\ \/ held' = Took(Single({"regions"})) /\ pc' = "bars" /\ UNCHANGED <<bar, chan, lines, irqsUp, trouble>>
     \/ /\ held' = Gave(held, Unwound("err_regions"))
        /\ pc' = "none" /\ trouble' = trouble \cup {"xpdev", "enable"}
        /\ UNCHANGED <<bar, chan, lines, irqsUp>>
  /\ OpenRest

map_bars ==
  /\ pc = "bars"
  /\ \/ /\ \E l \in Layouts : Configs(l) # {} /\ bar' = identify_bars(l)
        /\ held' = Took(Single({"bars"})) /\ pc' = "mask"
        /\ UNCHANGED <<chan, lines, irqsUp, trouble>>
     \/ OpenFails("err_map")
  /\ OpenRest

\* set_dma_mask, all interrupts off, probe_engines: each direction ends at the first engine that
\* is missing or gets no memory (engine_alloc_resource gives back what it had).
probe_engines ==
  /\ pc = "mask"
  /\ \/ /\ chan' \in [{"h2c", "c2h"} -> 0 .. Channels]
        /\ held' = Took(EngineRes(Initialised(chan')))
        /\ pc' = "vectors"
        /\ irqOnD' = [channel |-> FALSE, user |-> {}]
        /\ UNCHANGED <<bar, lines, irqsUp, trouble>>
     \/ OpenFails("err_mask") /\ UNCHANGED irqOnD
  /\ UNCHANGED <<dmode, groups, off, userMask, probes, cycles>>

\* A failed enable is undone by disable_msi_msix, which the kernel takes for a no-op.
enable_msi_msix ==
  /\ pc = "vectors"
  /\ \/ /\ held' = IF dmode.irq = "legacy" THEN held ELSE Took(Single({"vectors"}))
        /\ pc' = "irqs"
        /\ UNCHANGED <<bar, chan, lines, irqsUp, trouble>>
     \/ dmode.irq # "legacy" /\ OpenFails("err_enable_msix")
  /\ OpenRest

Vectors == IF dmode.irq = "legacy" THEN {} ELSE Single({"vectors"})

\* irq_setup; its failure takes down lines it has never requested, or has freed already.
open_irq_setup ==
  /\ pc = "irqs"
  /\ \E r \in irq_setup_ends :
       /\ lines' = r.lines
       /\ \/ /\ r.ok
             /\ held' = Took(IrqOf(r.got)) /\ pc' = "isr" /\ irqsUp' = TRUE
             /\ off' = FALSE /\ irqOnD' = [irqOnD EXCEPT !.channel = ~ dmode.poll]
             /\ UNCHANGED trouble
          \/ /\ ~ r.ok
             /\ LET taken == Took(IrqOf(r.got))
                    torn  == IF dmode.irq = "msix"
                             THEN { e \in ActiveEngines : \A i \in 0 .. e[2] : <<e[1], i>> \in r.lines } \cup UserLines
                             ELSE r.lines
                IN held' = Gave(Gave(taken, IrqOf(torn)), Vectors \cup Unwound("err_interrupts"))
             /\ pc' = "none" /\ trouble' = trouble \cup {"xpdev", "irq"}
             /\ UNCHANGED <<irqsUp, off, irqOnD>>
  /\ UNCHANGED <<dmode, bar, chan, groups, userMask, probes, cycles>>

-----------------------------------------------------------------------------
(* The character devices.                                                  *)

GroupOrder == <<"ctrl", "event", "sg", "bypass", "user", "xvc">>

\* The devices of a group: one per engine (and one for the whole BAR), per user interrupt, or one.
EngineNo(e) == IF e[1] = "h2c" THEN e[2] ELSE Channels + e[2]
Members(g) ==
  {"cdev"} \X {g} \X
    CASE g \in {"ctrl", "user", "xvc"} -> {0}
      [] g = "event" -> 0 .. UserMax - 1
      [] g = "sg" -> { EngineNo(e) : e \in ActiveEngines }
      [] g = "bypass" -> { EngineNo(e) : e \in ActiveEngines } \cup {2 * Channels}
CdevOf(G) == UNION { Members(g) : g \in G }
Wanted ==
  { g \in Groups : (g = "bypass" => bar.bypass > 0) /\ (g \in {"user", "xvc"} => bar.user >= 0) }

\* xpdev_destroy_interfaces: by the flags, which it does not clear.
xpdev_destroy_interfaces(G) == CdevOf(G) \cup {Major}

\* xdma_device_close, apart from irq_teardown.
ClosedRes == Single({"list", "enable", "regions", "bars"}) \cup Vectors \cup EngineRes(ActiveEngines)

\* xpdev_free with xdma_device_close, from the resources h.
xpdev_free(h) ==
  /\ held' = Gave(irq_teardown(Gave(h, xpdev_destroy_interfaces(groups'))), ClosedRes \cup Single({"xpdev"}))
  /\ irqOnD' = [channel |-> FALSE, user |-> {}]
  /\ irqsUp' = FALSE
  /\ pc' = "none"

\* xdma_user_isr_enable: the mask has one bit more than there are user interrupts.
AllUser == 0 .. UserMax
isr_enable ==
  /\ pc = "isr"
  /\ userMask' = userMask \cup AllUser
  /\ irqOnD' = [irqOnD EXCEPT !.user = @ \cup AllUser]
  /\ pc' = "cdevs"
  /\ UNCHANGED <<dmode, bar, chan, held, lines, groups, off, irqsUp, probes, cycles, trouble>>

\* xpdev_create_interfaces. When a device of a group fails, the flag of the group is not set yet,
\* the flagged groups are destroyed here and once more by xpdev_free.
xpdev_create_interfaces ==
  /\ pc = "cdevs"
  /\ \/ /\ groups' = Wanted
        /\ held' = Took(CdevOf(Wanted) \cup {Major})
        /\ pc' = "open"
        /\ UNCHANGED <<irqOnD, irqsUp, trouble>>
     \/ \E g \in Wanted : \E fails \in Members(g) : LET made == { m \in Members(g) : m[3] < fails[3] } IN
          /\ groups' = { f \in Wanted : \E i, j \in DOMAIN GroupOrder : GroupOrder[i] = f /\ GroupOrder[j] = g /\ i < j }
          /\ trouble' = trouble \cup {"cdev"}
          /\ xpdev_free(Gave(Took(CdevOf(groups') \cup made \cup {Major}), xpdev_destroy_interfaces(groups')))
  /\ UNCHANGED <<dmode, bar, chan, lines, off, userMask, probes, cycles>>

remove_one ==
  /\ pc \in {"open", "frozen"}
  /\ groups' = groups
  /\ trouble' = trouble \cup (IF irqsUp THEN {} ELSE {"irq"}) \cup (IF pc = "frozen" THEN {"enable"} ELSE {})
  /\ xpdev_free(held)
  /\ UNCHANGED <<dmode, bar, chan, lines, off, userMask, probes, cycles>>

-----------------------------------------------------------------------------
(* Offline and online: ioctls, resets and PCI errors.                      *)

xdma_device_offline ==
  /\ cycles < MaxCycles /\ cycles' = cycles + 1
  /\ off' = TRUE /\ irqOnD' = [channel |-> FALSE, user |-> {}]
  /\ trouble' = IF irqsUp THEN trouble ELSE trouble \cup {"irq"}
  /\ irqsUp' = FALSE

RestoredIrqs == [channel |-> TRUE, user |-> irqOnD.user \cup userMask]

\* The result of irq_setup is not looked at.
xdma_device_online ==
  /\ cycles < MaxCycles /\ cycles' = cycles + 1
  /\ off' = FALSE
  /\ IF dmode.poll THEN UNCHANGED <<held, lines, irqOnD, irqsUp, trouble>>
     ELSE \E r \in irq_setup_ends :
            /\ held' = Took(IrqOf(r.got)) /\ lines' = r.lines
            /\ irqOnD' = RestoredIrqs
            /\ irqsUp' = (r.ok /\ ~ irqsUp)
            /\ trouble' = IF r.ok /\ ~ irqsUp THEN trouble ELSE trouble \cup {"irq"}

\* XDMA_IOCOFFLINE, xdma_reset_prepare.
GoOffline ==
  /\ pc = "open"
  /\ xdma_device_offline
  /\ held' = irq_teardown(held)
  /\ UNCHANGED <<dmode, pc, bar, chan, lines, groups, userMask, probes>>

\* XDMA_IOCONLINE, xdma_reset_done.
GoOnline ==
  /\ pc = "open"
  /\ xdma_device_online
  /\ UNCHANGED <<dmode, pc, bar, chan, groups, userMask, probes>>

\* xdma_error_detected for a frozen channel, also disables the device.
xdma_error_detected ==
  /\ pc = "open"
  /\ xdma_device_offline
  /\ held' = Gave(irq_teardown(held), Single({"enable"}))
  /\ pc' = "frozen"
  /\ UNCHANGED <<dmode, bar, chan, lines, groups, userMask, probes>>

pci_enable_device_mem ==
  /\ pc = "frozen"
  /\ held' = Took(Single({"enable"})) /\ pc' = "reset"
  /\ UNCHANGED <<dmode, bar, chan, lines, groups, off, userMask, irqOnD, irqsUp, probes, cycles, trouble>>

xdma_slot_reset ==
  /\ pc = "reset"
  /\ xdma_device_online
  /\ pc' = "open"
  /\ UNCHANGED <<dmode, bar, chan, groups, userMask, probes>>

\* xdma_user_isr_enable and xdma_user_isr_disable, of other modules.
user_isr ==
  /\ pc = "open" /\ ~ off
  /\ \/ /\ userMask' = userMask \cup AllUser
        /\ irqOnD' = [irqOnD EXCEPT !.user = @ \cup AllUser]
     \/ /\ userMask' = userMask \ {0}
        /\ irqOnD' = [irqOnD EXCEPT !.user = @ \ {0}]
  /\ UNCHANGED <<dmode, pc, bar, chan, held, lines, groups, off, irqsUp, probes, cycles, trouble>>

NextDevice ==
  \/ Probe \/ pci_enable_device \/ request_regions \/ map_bars \/ probe_engines \/ enable_msi_msix
  \/ open_irq_setup \/ isr_enable \/ xpdev_create_interfaces \/ remove_one
  \/ GoOffline \/ GoOnline \/ xdma_error_detected \/ pci_enable_device_mem \/ xdma_slot_reset \/ user_isr

SpecDevice == InitDevice /\ [][NextDevice]_dvars

-----------------------------------------------------------------------------
(* Properties.                                                             *)

\* No resource is released twice or taken twice, and once the device is gone all are released,
\* wherever an open failed: with the exceptions in trouble, which end the claim for their kind of
\* resource only.
ResourcesBalanced ==
  \A r \in Resources : r[1] \notin trouble =>
    held[r] \in {0, 1} /\ (pc = "none" => held[r] = 0)

\* config, user and bypass BAR are different ones, unless of three BARs the last is the config BAR:
\* "When both are present, the XDMA config BAR will be the 2nd BAR detected" (libxdma.c:1541).
BarsSeparate ==
  ~ (bar.n = 3 /\ bar.pos = 2) =>
    /\ bar.user >= 0 => bar.user # bar.config
    /\ bar.bypass >= 0 => bar.bypass # bar.config /\ bar.bypass # bar.user

\* A device that is online and not polled has the interrupts of its channels and those in
\* mask_irq_user enabled, whatever offline, online, reset and PCI error came before.
InterruptsRestored ==
  ~ off /\ ~ dmode.poll /\ pc \in {"open", "cdevs"} => irqOnD = [channel |-> TRUE, user |-> userMask]

\* All three: probe, remove, offline and online leave regions, BARs and interrupts as they must
\* be, whichever step of them fails (libxdma.c:1532-2090, 3293-3800).
DeviceSound == ResourcesBalanced /\ BarsSeparate /\ InterruptsRestored
=============================================================================
