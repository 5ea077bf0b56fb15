------------------------------- MODULE Genet -------------------------------
(***************************************************************************)
(* The GENET backend (bsp/rpi4/net.rs, drivers/genet.rs) over the pure     *)
(* ring and phase machines of kernel-core/src/genet.rs.  `tx' and `rx' are *)
(* the driver's bounded rings, `hw' the controller: its two DMA engines,   *)
(* the descriptor RAM and the UniMAC.  Register words are abstracted to    *)
(* what they switch; a set of device failures chosen by the environment    *)
(* decides which bounded wait inside an operation gives up:                *)
(*   "mdio"   an MDIO read times out or fails (link classification too)    *)
(*   "speed"  the link is gone or unresolved when the MAC is programmed    *)
(*   "report" the link read after the data plane came up fails             *)
(*   "stop"   a DMA engine does not acknowledge its stop.                  *)
(* The controller counts descriptors in an index space larger than its     *)
(* rings (16 bits over 128 and 256), the driver's cursors wrap at the ring *)
(* and are written to the doorbell and compared with the controller's      *)
(* index as they are; `lapped' remembers that a ring's producer has come   *)
(* round since the ring was programmed.                                    *)
(***************************************************************************)
EXTENDS PacketPool

CONSTANTS
    OUTSTANDING,    \* descriptors the bounded ring keeps at once
    TX_RING_COUNT,  \* descriptors of queue 0's TDMA ring
    RX_RING_COUNT,  \* descriptors of queue 0's RDMA ring
    TX_INDEX_SPACE, \* where the controller's TDMA indices wrap (2^16)
    RX_INDEX_SPACE  \* where the controller's RDMA indices wrap (2^16)

Failures == {"mdio", "speed", "report", "stop"}

-----------------------------------------------------------------------------
(* Bounded rings (genet.rs RingLayout, BoundedRingState).                  *)

NewRing(count) ==
    [count |-> count, producer |-> 0, consumer |-> 0, lapped |-> FALSE,
     device |-> [i \in 0..(OUTSTANDING - 1) |-> FALSE],
     tok |-> [i \in 0..(count - 1) |-> NoToken]]

NextIndex(r, i) == IF i + 1 = r.count THEN 0 ELSE i + 1

RingSlot(i) == i % OUTSTANDING

RingFull(r) == r.device[RingSlot(r.producer)]

Post(r) ==
    [r EXCEPT !.device[RingSlot(r.producer)] = TRUE,
              !.producer = NextIndex(r, r.producer),
              !.lapped = @ \/ NextIndex(r, r.producer) = 0]

\* complete: the status word must decode and belong to the driver, and the
\* descriptor at the consumer cursor must be the device's.
NothingToComplete(r) == ~r.device[RingSlot(r.consumer)]

Complete(r) ==
    [r EXCEPT !.device[RingSlot(r.consumer)] = FALSE,
              !.tok[r.consumer] = NoToken,
              !.consumer = NextIndex(r, r.consumer)]

-----------------------------------------------------------------------------
(* The controller (external) and the phases of the driver.                 *)

NewEngine(count, space) ==
    [space |-> space, on |-> FALSE, prod |-> 0, cons |-> 0,
     desc |-> [i \in 0..(count - 1) |-> NoToken],
     status |-> [i \in 0..(count - 1) |-> "empty"]]

\* A probed controller: DMA stopped, interrupts masked, MAC out of reset.
NewGenet ==
    [kind |-> "genet", phase |-> "Idle", plane |-> "Fresh",
     tx |-> NewRing(TX_RING_COUNT), rx |-> NewRing(RX_RING_COUNT),
     htx |-> NewEngine(TX_RING_COUNT, TX_INDEX_SPACE),
     hrx |-> NewEngine(RX_RING_COUNT, RX_INDEX_SPACE),
     mac |-> FALSE, spins |-> FALSE, rxReady |-> <<>>, txReady |-> <<>>]

\* write_ring: both indices to zero, the descriptor RAM as it was.
WriteRing(e) == [e EXCEPT !.prod = 0, !.cons = 0]

\* program_dataplane: UniMAC, buffers, RGMII, filters, flush, rings, arbiter.
ProgramDataplane(n) ==
    IF n.phase = "Enabled"
    THEN Fail(n)
    ELSE Done([n EXCEPT !.phase = "Programmed", !.htx = WriteRing(@), !.hrx = WriteRing(@)])

\* acquire_link within its window, then the program; a failed program leaves
\* the dataplane at LinkUp.
EnsureProgrammed(n, up, failures) ==
    IF n.plane \in {"Programmed", "Enabled"} THEN Done(n)
    ELSE IF n.plane # "Fresh" \/ ~up \/ "mdio" \in failures THEN Fail(n)
    ELSE Then(ProgramDataplane([n EXCEPT !.plane = "LinkUp"]),
              LAMBDA m : Done([m EXCEPT !.plane = "Programmed"]))

\* enable_queue0 turns both engines on; enable_datapath then needs a resolved
\* link, and its refusal leaves the engines on and the dataplane Programmed.
\* The last report reads the link again and may fail with all of it enabled.
EnableDataplane(n, up, failures) ==
    IF n.plane = "Enabled" THEN Done(n)
    ELSE IF n.plane # "Programmed" \/ n.phase # "Programmed" THEN Fail(n)
    ELSE Then(Done([n EXCEPT !.phase = "Enabled", !.htx.on = TRUE, !.hrx.on = TRUE]),
              LAMBDA m : IF ~up \/ "speed" \in failures
                         THEN Fail(m)
                         ELSE [ok |-> "report" \notin failures,
                               nic |-> [m EXCEPT !.mac = TRUE, !.plane = "Enabled"]])

\* post_rx_slot: an address-only descriptor; the status word is the device's.
PostRxSlot(n, tok) ==
    IF RingFull(n.rx)
    THEN Fail(n)
    ELSE Done([n EXCEPT !.rx = [Post(@) EXCEPT !.tok[n.rx.producer] = tok],
                        !.hrx.desc[n.rx.producer] = tok])

\* The doorbell writes the ring's producer index as it is.
Doorbell(n) == [n EXCEPT !.hrx.prod = n.rx.producer]

\* return_rx: program a fresh controller, post, enable, ring the doorbell.
GReturnRx(n, tok, up, failures) ==
    Then(Then(Then(EnsureProgrammed(n, up, failures),
                   LAMBDA m : PostRxSlot(m, tok)),
              LAMBDA m : EnableDataplane(m, up, failures)),
         LAMBDA m : Done(Doorbell(m)))

\* submit_frame: the ring takes the descriptor before its words are encoded;
\* a length the status word cannot carry is refused in between.
SubmitFrame(n, tok, len) ==
    LET i == n.tx.producer IN
    IF ~FrameOk(len) \/ RingFull(n.tx) THEN Fail(n)
    ELSE IF len = "long" THEN Fail([n EXCEPT !.tx = Post(@)])
    ELSE Done([n EXCEPT !.tx = [Post(@) EXCEPT !.tok[i] = tok],
                        !.htx = [@ EXCEPT !.desc[i] = tok, !.status[i] = "ok",
                                          !.prod = NextIndex(n.tx, i)]])

\* submit_tx re-reads the link before it accepts a frame.
GSubmitTx(n, tok, len, up, failures) ==
    IF n.plane # "Enabled" \/ "mdio" \in failures \/ ~up
    THEN Fail(n)
    ELSE SubmitFrame(n, tok, len)

\* The transmit half of advance_rings, from the consumer index read once.
GRetireTx(n, tok) ==
    [n EXCEPT !.tx = Complete(@),
              !.txReady = IF tok = NoToken THEN @ ELSE Append(@, tok)]

RECURSIVE GAdvanceTx(_)
GAdvanceTx(n) ==
    LET i == n.tx.consumer IN
    IF i = n.htx.cons THEN Done(n)
    ELSE IF n.htx.status[i] # "ok" THEN Fail(n)
    ELSE IF NothingToComplete(n.tx) THEN Done(n)
    ELSE Then(Done(GRetireTx(n, n.tx.tok[i])), LAMBDA m : GAdvanceTx(m))

\* The receive half: an undecodable status ends the pass with an error, a
\* decodable frame of the wrong length goes back to the ring.
GRetireRx(n, tok, len, up, failures) ==
    IF tok = NoToken THEN [n EXCEPT !.rx = Complete(@)]
    ELSE IF FrameOk(len) THEN [n EXCEPT !.rx = Complete(@), !.rxReady = Append(@, tok)]
    ELSE Then(Done([n EXCEPT !.rx = Complete(@)]),
              LAMBDA m : GReturnRx(m, tok, up, failures)).nic

\* A pass that retired more than the ring holds has come back to where it was
\* and never ends.
RECURSIVE GAdvanceRx(_, _, _, _)
GAdvanceRx(n, up, failures, left) ==
    LET i == n.rx.consumer IN
    IF i = n.hrx.cons THEN Done(n)
    ELSE IF left = 0 THEN Done([n EXCEPT !.spins = TRUE])
    ELSE IF n.hrx.status[i] = "empty" THEN Fail(n)
    ELSE IF NothingToComplete(n.rx) THEN Done(n)
    ELSE Then(Done(GRetireRx(n, n.rx.tok[i], n.hrx.status[i], up, failures)),
              LAMBDA m : GAdvanceRx(m, up, failures, left - 1))

GPoll(n, up, failures) ==
    Then(GAdvanceTx(n), 
         LAMBDA m : GAdvanceRx(m, up, failures, RX_RING_COUNT + OUTSTANDING))

\* Genet::reset and the backend's: stop both engines, reset the MAC, forget
\* every ring, identity and completion.  The engines keep their indices and
\* the descriptor RAM until the rings are programmed again.
GReset(n, failures) ==
    IF "stop" \in failures
    THEN Fail(n)
    ELSE Done([NewGenet EXCEPT !.htx = [n.htx EXCEPT !.on = FALSE],
                               !.hrx = [n.hrx EXCEPT !.on = FALSE]])

RECURSIVE GPostAll(_, _)
GPostAll(n, toks) ==
    IF toks = <<>>
    THEN Done(n)
    ELSE Then(PostRxSlot(n, Head(toks)), LAMBDA m : GPostAll(m, Tail(toks)))

\* start: program, post every receive slot, doorbell, enable, probe frame.
GStart(n, toks, up, failures) ==
    Then(Then(Then(EnsureProgrammed(n, up, failures),
                   LAMBDA m : GPostAll(m, toks)),
              LAMBDA m : EnableDataplane(Doorbell(m), up, failures)),
         LAMBDA m : SubmitFrame(m, Probe, "ok"))

-----------------------------------------------------------------------------
(* The controller's own steps: an engine that is on works through the      *)
(* descriptors between its consumer and its producer index.                *)

EngineMayRun(e) == e.on /\ e.cons # e.prod

EngineIndex(e, count) == e.cons % count

\* The descriptors an engine still has to work through.
EngineHas(e, count) ==
    IF e.on THEN {(e.cons + k) % count : k \in 0..(((e.prod - e.cons) % e.space) - 1)} ELSE {}

\* Transmit leaves the status word as posted; receive writes it.
Transmit(e) == [e EXCEPT !.cons = (@ + 1) % e.space]

Receive(e, len, count) ==
    [e EXCEPT !.cons = (@ + 1) % e.space, !.status[EngineIndex(e, count)] = len]
=============================================================================
