---------------------------- MODULE GenetDriver -----------------------------
(***************************************************************************)
(* The GENET driver at register level (drivers/genet.rs over the contracts *)
(* of kernel-core/src/genet.rs): probe, reset, the programming order of    *)
(* ADR-0107, enabling, the bounded bring-up witness, and recovery.  A      *)
(* driver call is the list of register steps it still has to take; the DMA *)
(* engines, the PHY and its link partner move between any two of them.     *)
(***************************************************************************)
EXTENDS GenetWords, FiniteSets

CONSTANTS
    MAX_CALLS,      \* driver calls in one behaviour
    GENET_WINDOWS,  \* the binding's DMA apertures
    Descriptors     \* buffers a client may configure

VARIABLES
    greg,     \* the controller's registers and what its engines are doing
    gdrv,     \* struct Genet: phase, queue, length of the stored TX buffer (0: none)
    gtodo,    \* steps left of the running call
    gcall,    \* the running (or last) call and its result so far
    gplane,   \* GenetNet.dataplane; "none" when the bring-up witness is the client
    gphy,     \* the PHY's sampled registers
    gcalls

gvars == <<greg, gdrv, gtodo, gcall, gplane, gphy, gcalls>>

Engines == {"rdma", "tdma"}

\* Register groups programmed before DMA_EN, in Linux's order (ADR-0107 1).
Baseline == <<"umac", "tbuf", "tbuf_size", "rbuf", "rbuf_chk", "rgmii", "hfb", "flush">>

Arbitration == <<"rings14", "arb", "prio">>

ResetSteps == <<"mask", "halt rdma", "await rdma", "halt tdma", "await tdma", "release",
                "assert", "deassert", "idle">>

Steps(call) ==
    CASE call = "probe" -> <<"present">> \o ResetSteps
      [] call = "identify" -> <<"identify", "classify">>
      [] call = "init_phy" -> <<"identify", "reset_phy", "require_up">>
      [] call = "boot_after_program" ->
           Baseline \o <<"rings">> \o Arbitration
               \o <<"enable", "tx", "datapath", "send", "mib", "rx", "datapath", "receive",
                    "state", "recover">>
      [] call = "start_network" ->
           <<"programmed">> \o Baseline \o <<"rings">> \o Arbitration \o <<"enable">>
      [] call = "recover" -> <<"recover">>
      [] call = "start" ->
           <<"fresh", "link">> \o Baseline \o <<"service_rings">> \o Arbitration
               \o <<"plane", "enable", "datapath", "on">>
      [] call = "reset" -> ResetSteps \o <<"unplane">>
      [] OTHER -> <<>>

\* Static groups this driver has to own before an engine runs.
Owned == {"umac", "tbuf", "tbuf_size", "rbuf", "rbuf_chk", "rgmii", "hfb", "arb", "prio", "burst"}

NoSpan == [start |-> 1, end |-> 0]

Rings == 0..V5_TX_QUEUES \cup {DESC_RING}

\* What firmware that booted over the network may leave: running engines, the
\* SYS latch or UMAC_CMD holding the MAC, enabled filters, any ring geometry.
FirmwareLeft ==
    {[masked |-> FALSE, latch |-> held, reset |-> held, mac |-> on, speed |-> "Unknown",
      mine |-> {}, filters |-> {HfbEnableSlot(f) : f \in stale},
      spans |-> [e \in Engines |-> [q \in Rings |-> NoSpan]],
      ctrl |-> [e \in Engines |-> IF on THEN Rings ELSE {}],
      en |-> [e \in Engines |-> on],
      active |-> [e \in Engines |-> on]]
     : held \in BOOLEAN, on \in BOOLEAN, stale \in {{}, {0, 40}}}

\* The sampled PHY: link and negotiation, the partner's abilities.
Samples ==
    {[link |-> l, aneg |-> a, ctrl1000 |-> TRUE, stat1000 |-> t, lpa100 |-> h, lpa10 |-> FALSE]
     : l \in BOOLEAN, a \in BOOLEAN, t \in BOOLEAN, h \in BOOLEAN}

IdleDriver == [phase |-> "none", queue |-> 0, tx_len |-> 0]

GenetInit ==
    /\ greg \in FirmwareLeft
    /\ gdrv = IdleDriver
    /\ gtodo = <<>>
    /\ gcall = [name |-> "none", result |-> "none", lines |-> {}]
    /\ gplane \in {"none", "Fresh"}
    /\ gphy \in {p \in Samples : p.link /\ p.aneg /\ p.stat1000 /\ ~p.lpa100}
    /\ gcalls = 0

-----------------------------------------------------------------------------
(* Calls and how they return.                                              *)

\* Which call its clients may issue now: discovery probes once; the witness
\* boots with the report of a configuration that was accepted; the network
\* service claims the controller by value, so the two never share it.
Allowed(call) ==
    CASE call = "probe" -> gcall.name = "none"
      [] call = "boot_after_program" -> gcall.name = "configure" /\ gcall.result = "ok"
      [] call = "identify" -> gdrv.phase # "none"
      [] call \in {"start", "reset"} -> gdrv.phase # "none" /\ gplane # "none"
      [] OTHER -> gdrv.phase # "none" /\ gplane = "none"

Call(call) ==
    /\ gtodo = <<>> /\ gcalls < MAX_CALLS
    /\ Allowed(call)
    /\ gcalls' = gcalls + 1
    /\ gcall' = [name |-> call, result |-> "running", lines |-> {}]
    /\ gtodo' = Steps(call)
    /\ UNCHANGED <<greg, gdrv, gplane, gphy>>

Doing(step) == gtodo # <<>> /\ Head(gtodo) = step

\* A step adds its report lines; the last one completes the call.
StepWith(lines) ==
    /\ gtodo' = Tail(gtodo)
    /\ gcall' = [gcall EXCEPT !.lines = @ \cup lines,
                              !.result = IF Len(gtodo) = 1 THEN "ok" ELSE @]
    /\ UNCHANGED gcalls

Step == StepWith({})

Return(result) ==
    /\ gtodo' = <<>> /\ gcall' = [gcall EXCEPT !.result = result]
    /\ UNCHANGED gcalls

\* GenetBoot: the witness goes on to a later step with this line reported.
SkipTo(step, line, value) ==
    /\ gtodo' = SubSeq(gtodo, step, Len(gtodo))
    /\ gcall' = [gcall EXCEPT !.lines = @ \cup {<<line, value>>}]
    /\ UNCHANGED gcalls

-----------------------------------------------------------------------------
(* DmaPhase.                                                               *)

PhaseProgram(p) == IF p = "Enabled" THEN "AlreadyEnabled" ELSE "Programmed"

\* configure_named_ring: the phase moves before the descriptors are checked
\* against the apertures, and stays moved when one is refused.
Configure(queue, tx) ==
    LET accepted == ValidateWindows(tx, GENET_WINDOWS) IN
    /\ gtodo = <<>> /\ gcalls < MAX_CALLS
    /\ gdrv.phase # "none" /\ gplane = "none"
    /\ gcalls' = gcalls + 1
    /\ gcall' = [name |-> "configure", lines |-> {},
                 result |-> IF PhaseProgram(gdrv.phase) = "AlreadyEnabled" THEN "AlreadyEnabled"
                            ELSE IF accepted THEN "ok" ELSE "Descriptor"]
    /\ gdrv' = IF PhaseProgram(gdrv.phase) = "AlreadyEnabled" THEN gdrv
               ELSE IF accepted
                 THEN [phase |-> "Programmed", queue |-> queue, tx_len |-> tx.length]
               ELSE [gdrv EXCEPT !.phase = "Programmed"]
    /\ UNCHANGED <<greg, gtodo, gplane, gphy>>

-----------------------------------------------------------------------------
(* Probe and reset.                                                        *)

\* Genet::probe before its reset: an absent block or another revision refuses.
Present ==
    /\ Doing("present")
    /\ \/ Return("NotPresent")
       \/ \E encoded \in {5, 6} :
             IF RevisionAccepted(encoded) THEN Step ELSE Return("Unsupported")
    /\ UNCHANGED <<greg, gdrv, gplane, gphy>>

MaskInterrupts(r) == [r EXCEPT !.masked = TRUE]

\* release_umac_reset pulses the SYS latch, then reset zeroes the register.
ReleaseUmacReset(r) == [r EXCEPT !.latch = FALSE]

AssertMacReset(r) == [r EXCEPT !.reset = TRUE, !.mac = FALSE, !.speed = "Ten"]

DeassertMacReset(r) == [r EXCEPT !.reset = FALSE]

\* stop_dma clears the V5 rings' bits and DMA_EN, leaving any other ring's bit.
HaltCtrl(engine, rings) ==
    rings \ (IF engine = "tdma" THEN TdmaRingSet(0) ELSE RdmaRingSet(0))

HaltDma(r, engine) ==
    [r EXCEPT !.ctrl[engine] = HaltCtrl(engine, @), !.en[engine] = FALSE]

ResetStep ==
    \E s \in {"mask", "release", "assert", "deassert"} :
        /\ Doing(s)
        /\ greg' = CASE s = "mask" -> MaskInterrupts(greg)
                     [] s = "release" -> ReleaseUmacReset(greg)
                     [] s = "assert" -> AssertMacReset(greg)
                     [] s = "deassert" -> DeassertMacReset(greg)
        /\ Step
        /\ UNCHANGED <<gdrv, gplane, gphy>>

StopDma ==
    \E e \in Engines :
        /\ Doing(IF e = "rdma" THEN "halt rdma" ELSE "halt tdma")
        /\ greg' = HaltDma(greg, e)
        /\ Step
        /\ UNCHANGED <<gdrv, gplane, gphy>>

\* Mutant: the engine is taken to have stopped once its bit is cleared.
AwaitNothing(e) == TRUE

\* The bounded poll of the engine's DISABLED bits.
AwaitStopped(e) == ~greg.active[e]

AwaitDma ==
    \E e \in Engines :
        /\ Doing(IF e = "rdma" THEN "await rdma" ELSE "await tdma")
        /\ \/ AwaitStopped(e) /\ Step
           \/ greg.active[e] /\ Return("Timeout")
        /\ UNCHANGED <<greg, gdrv, gplane, gphy>>

Quiesced ==
    /\ Doing("idle")
    /\ gdrv' = [phase |-> "Idle", queue |-> 0, tx_len |-> 0]
    /\ Step
    /\ UNCHANGED <<greg, gplane, gphy>>

\* recover refuses an idle controller; otherwise the reset decides the report.
Recover ==
    /\ Doing("recover")
    /\ \/ gdrv.phase = "Idle" /\ Return("NotEnabled")
       \/ /\ gdrv.phase # "Idle"
          /\ gtodo' = ResetSteps
          /\ UNCHANGED <<gcall, gcalls>>
    /\ UNCHANGED <<greg, gdrv, gplane, gphy>>

\* GenetNet::reset after the controller's.
Unplane ==
    /\ Doing("unplane")
    /\ gplane' = "Fresh"
    /\ Step
    /\ UNCHANGED <<greg, gdrv, gphy>>

-----------------------------------------------------------------------------
(* Programming.                                                            *)

\* clear_hfb: both enable words zeroed, then filter 0 alone for the default flow.
ClearHfb(r) == [r EXCEPT !.filters = {HfbEnableSlot(0)}, !.mine = @ \cup {"hfb"}]

\* flush_before_rings restores the latch word it read.
FlushBeforeRings(r) == r

Program(r, group) ==
    CASE group = "hfb" -> ClearHfb(r)
      [] group = "flush" -> FlushBeforeRings(r)
      [] OTHER -> [r EXCEPT !.mine = @ \cup {group}]

\* program_priority_tx_rings: TDMA rings 1-4, 32 descriptors each from 128.
ProgramPriorityRings(r) ==
    [r EXCEPT !.spans["tdma"] =
        [q \in Rings |-> IF q \in 1..V5_TX_QUEUES THEN PriorityRing(q) ELSE @[q]]]

\* write_ring on both engines after the burst policy.
WriteRings(r, queue) ==
    [r EXCEPT !.mine = @ \cup {"burst"},
              !.spans["tdma"][queue] = RingProgram("tdma", queue),
              !.spans["rdma"][queue] = RingProgram("rdma", queue)]

\* The lines of the bring-up report a group adds; the flush has none.
GroupReport(s) ==
    IF s \in {"umac", "tbuf", "tbuf_size", "rbuf", "rgmii"} THEN {<<s, "Programmed">>} ELSE {}

ArbitrationReport(s) ==
    IF s \in {"hfb", "rbuf_chk", "rings14", "arb", "prio"} THEN {<<s, "Programmed">>} ELSE {}

BaselineStep ==
    \E s \in Owned \cup {"flush", "rings14"} :
        /\ Doing(s)
        /\ greg' = IF s = "rings14" THEN ProgramPriorityRings(greg) ELSE Program(greg, s)
        /\ StepWith(GroupReport(s) \cup ArbitrationReport(s))
        /\ UNCHANGED <<gdrv, gplane, gphy>>

\* program_rings: the stored descriptors are encoded after the rings are
\* written, so without buffers the call fails with the rings in place.
ProgramRings ==
    /\ Doing("rings")
    /\ greg' = WriteRings(greg, gdrv.queue)
    /\ IF gdrv.tx_len > 0 THEN Step ELSE Return("NotProgrammed")
    /\ UNCHANGED <<gdrv, gplane, gphy>>

ProgramServiceRings ==
    /\ Doing("service_rings")
    /\ IF PhaseProgram(gdrv.phase) = "AlreadyEnabled"
       THEN Return("AlreadyEnabled") /\ UNCHANGED <<greg, gdrv>>
       ELSE /\ gdrv' = [gdrv EXCEPT !.phase = "Programmed", !.queue = DEFAULT_TX_RING]
            /\ greg' = WriteRings(greg, DEFAULT_TX_RING)
            /\ Step
    /\ UNCHANGED <<gplane, gphy>>

\* Guards of start_network and of GenetNet::ensure_dataplane_programmed.
Guard ==
    /\ \/ /\ Doing("programmed")
          /\ IF gdrv.phase = "Programmed" THEN Step ELSE Return("NotProgrammed")
       \/ /\ Doing("fresh")
          /\ CASE gplane = "Fresh" -> Step
               [] gplane = "LinkUp" -> Return("NotProgrammed")
               [] gplane = "Programmed" ->
                    gtodo' = <<"enable", "datapath", "on">> /\ UNCHANGED <<gcall, gcalls>>
               [] gplane = "Enabled" -> Return("ok")
    /\ UNCHANGED <<greg, gdrv, gplane, gphy>>

\* acquire_link: an MDIO error or the five-second window ends it.
AcquireLink ==
    /\ Doing("link")
    /\ \/ gphy.link /\ Step /\ gplane' = "LinkUp"
       \/ ~gphy.link /\ Return("LinkDown") /\ UNCHANGED gplane
       \/ Return("Timeout") /\ UNCHANGED gplane
    /\ UNCHANGED <<greg, gdrv, gphy>>

PlaneStep ==
    /\ \/ Doing("plane") /\ gplane' = "Programmed"
       \/ Doing("on") /\ gplane' = "Enabled"
    /\ Step
    /\ UNCHANGED <<greg, gdrv, gphy>>

\* enable_named_ring: only the programmed queue, only from Programmed.
MayEnable(queue) == gdrv.queue = queue /\ gdrv.phase = "Programmed"

EnabledRegs(r, queue) ==
    [r EXCEPT !.ctrl = [rdma |-> RdmaRingSet(queue), tdma |-> TdmaRingSet(queue)],
              !.en = [e \in Engines |-> TRUE], !.active = [e \in Engines |-> TRUE]]

EnableQueue0 ==
    /\ Doing("enable")
    /\ IF MayEnable(DEFAULT_TX_RING)
       THEN /\ gdrv' = [gdrv EXCEPT !.phase = "Enabled"]
            /\ greg' = EnabledRegs(greg, DEFAULT_TX_RING)
            /\ StepWith({<<"enabled", "Enabled">>})
       ELSE Return("NotProgrammed") /\ UNCHANGED <<greg, gdrv>>
    /\ UNCHANGED <<gplane, gphy>>

-----------------------------------------------------------------------------
(* The datapath and the witness's one frame each way.                      *)

\* The line of the frame in flight, and where the witness goes after it.
Direction == IF Head(gtodo) \in {"tx", "send"} THEN "tx"
             ELSE IF Head(gtodo) \in {"rx", "receive"} THEN "rx"
             ELSE IF gtodo[2] = "send" THEN "tx" ELSE "rx"

\* The probe frame with its status block; the RX buffer, stored together with
\* the TX one, only has to be there.
TX_DMA_BYTES == 124
BufferFits == gdrv.tx_len >= (IF Direction = "tx" THEN TX_DMA_BYTES ELSE 1)

\* What submit_one_tx and submit_one_rx refuse for, in their order.
Refusal ==
    CASE gdrv.phase # "Enabled" -> "NotEnabled"
      [] gdrv.phase = "Enabled" /\ ~gphy.link -> "LinkDown"
      [] gdrv.phase = "Enabled" /\ gphy.link /\ ~BufferFits -> "NotEnabled"
      [] OTHER -> "none"

\* submit_one_tx and submit_one_rx before UMAC_CMD and the doorbell: BMSR is
\* read first, which may fail, and last the consumer index, which an engine
\* that has already retired something has moved.
Submit ==
    /\ Doing("tx") \/ Doing("rx")
    /\ \/ SkipTo(4, Direction, "Timeout")
       \/ Refusal # "none" /\ SkipTo(4, Direction, Refusal)
       \/ Refusal = "none" /\ SkipTo(4, Direction, "ImplausibleCons")
       \/ Refusal = "none" /\ Step
    /\ UNCHANGED <<greg, gdrv, gplane, gphy>>

\* umac_cmd_datapath: the resolved speed, TX/RX enables, out of SW_RESET.
UmacDatapath(r, speed) == [r EXCEPT !.speed = speed, !.mac = TRUE, !.reset = FALSE]

\* program_umac_datapath then assert_rgmii_link; an MDIO timeout, a lost link
\* or no common speed leaves UMAC_CMD alone.
ProgramDatapath ==
    /\ Doing("datapath")
    /\ \/ /\ ClassifySpeed(gphy) \in Speeds
          /\ greg' = UmacDatapath(greg, ClassifySpeed(gphy))
          /\ Step
       \/ \E refused \in {ClassifySpeed(gphy), "MdioTimeout"} \ Speeds :
             /\ UNCHANGED greg
             /\ IF gcall.name = "start" THEN Return(refused)
                ELSE SkipTo(3, Direction, refused)
    /\ UNCHANGED <<gdrv, gplane, gphy>>

\* The doorbells: the report is what the bounded wait saw of the consumer index
\* and, for a receive, of the descriptor's ownership.
Doorbell ==
    /\ \/ Doing("send") /\ \E r \in {"Complete", "Timeout"} : StepWith({<<"tx", r>>})
       \/ Doing("receive")
            /\ \E r \in {"Complete", "Timeout", "StillOwned"} : StepWith({<<"rx", r>>})
    /\ UNCHANGED <<greg, gdrv, gplane, gphy>>

\* StateDump: a held latch or UMAC_CMD reset explains a silent datapath.
StateReport(r) ==
    IF r.latch \/ r.reset THEN "held" ELSE IF r.mac THEN "enabled" ELSE "disabled"

\* settle_umac_tsv and read_state only read.
ReadBack ==
    /\ \/ Doing("mib") /\ StepWith({<<"mib", "read">>})
       \/ Doing("state") /\ StepWith({<<"state", StateReport(greg)>>})
    /\ UNCHANGED <<greg, gdrv, gplane, gphy>>

-----------------------------------------------------------------------------
(* PHY queries.                                                            *)

\* identify_phy and classify_link: an MDIO failure or a PHY id that cannot be
\* one ends the queries; neither moves a register of the controller.
Query ==
    /\ \/ /\ Doing("identify")
          /\ \E hi, lo \in {0, 65535} :
                IF PhyIdAccepted(hi, lo) THEN Step ELSE Return("unavailable")
       \/ Doing("classify") /\ Step
       \/ (Doing("identify") \/ Doing("classify")) /\ Return("Timeout")
    /\ UNCHANGED <<greg, gdrv, gplane, gphy>>

\* reset_phy restarts autonegotiation: the link it samples next is down.
ResetPhy ==
    /\ Doing("reset_phy")
    /\ gphy' = [gphy EXCEPT !.link = FALSE, !.aneg = FALSE]
    /\ Step \/ Return("Timeout")
    /\ UNCHANGED <<greg, gdrv, gplane>>

RequireUp ==
    /\ Doing("require_up")
    /\ IF gphy.link THEN Step ELSE Return("LinkDown")
    /\ UNCHANGED <<greg, gdrv, gplane, gphy>>

-----------------------------------------------------------------------------
(* The device and its link partner.                                        *)

EngineStops ==
    \E e \in Engines :
        /\ ~greg.en[e] /\ greg.active[e]
        /\ greg' = [greg EXCEPT !.active[e] = FALSE]
        /\ UNCHANGED <<gdrv, gtodo, gcall, gplane, gphy, gcalls>>

LinkMoves ==
    /\ gphy' \in Samples
    /\ gphy' # gphy
    /\ UNCHANGED <<greg, gdrv, gtodo, gcall, gplane, gcalls>>

GenetNext ==
    \/ \E c \in {"probe", "identify", "init_phy", "boot_after_program", "start_network",
                  "recover", "start", "reset"} : Call(c)
    \/ \E q \in {DEFAULT_TX_RING, DESC_RING}, d \in Descriptors : Configure(q, d)
    \/ Present \/ ResetStep \/ StopDma \/ AwaitDma \/ Quiesced \/ Recover \/ Unplane
    \/ BaselineStep \/ ProgramRings \/ ProgramServiceRings \/ Guard \/ AcquireLink
    \/ PlaneStep \/ EnableQueue0 \/ Submit \/ ProgramDatapath \/ Doorbell \/ ReadBack
    \/ Query \/ ResetPhy \/ RequireUp
    \/ EngineStops \/ LinkMoves

GenetSpec == GenetInit /\ [][GenetNext]_gvars

-----------------------------------------------------------------------------
(* Properties.                                                             *)

Quiet == \A e \in Engines : ~greg.active[e]

StaticSteps == Owned \cup {"flush", "rings", "rings14", "service_rings", "release", "assert"}

\* A register group that configures the datapath - UniMAC, buffers, filters,
\* ring geometry, the MAC's reset - is only written while neither DMA engine
\* runs: stop_dma waits for the engines' acknowledgement, a running controller
\* is not reprogrammed, and enabling comes last (ADR-0107 1).
ProgrammedQuiet ==
    [][(gtodo # <<>> /\ gtodo' # gtodo /\ Head(gtodo) \in StaticSteps) => Quiet]_gvars

\* Engines the driver enabled run only rings it has programmed, over spans of
\* descriptor RAM that do not overlap, with nothing of the firmware's filters,
\* buffers or arbitration left; and a MAC it turned on is out of reset, at a
\* speed the PHY reported.
EnabledComplete ==
    gdrv.phase = "Enabled" =>
        /\ Owned \subseteq greg.mine
        /\ {f \in Filters : HfbEnableSlot(f) \in greg.filters} = {0}
        /\ \A e \in Engines : greg.en[e] =>
              \A p, q \in greg.ctrl[e] :
                  /\ greg.spans[e][p] # NoSpan
                  /\ p # q => SpansApart(greg.spans[e][p], greg.spans[e][q])
        /\ greg.mac => ~greg.reset /\ ~greg.latch /\ greg.speed \in Speeds

\* The reports claim no more than the controller does.  A reset, recovery or
\* probe that succeeds - and the witness's last line - leaves no engine running,
\* the MAC off and out of reset, interrupts masked and the driver idle; a
\* timed-out one claims nothing.  A frame is only reported complete while the
\* MAC that moved it is on.
ReportsHold ==
    /\ (gcall.name \in {"probe", "recover", "reset", "boot_after_program"} /\ gcall.result = "ok") =>
          /\ Quiet /\ ~greg.mac /\ ~greg.reset /\ ~greg.latch /\ greg.masked
          /\ gdrv.phase = "Idle"
    /\ (gtodo # <<>> /\ Head(gtodo) \in {"mib", "rx", "state"}
          /\ {<<"tx", "Complete">>, <<"rx", "Complete">>} \cap gcall.lines # {}) =>
          /\ greg.mac /\ ~greg.reset /\ ~greg.latch
          /\ \A e \in Engines : greg.active[e]
=============================================================================
