----------------------------- MODULE NetService -----------------------------
(***************************************************************************)
(* The resident network service: the transport lease                       *)
(* (bootstrap/network_runtime.rs), the server task that drives it          *)
(* (bootstrap/network_server.rs), and one of the two transports            *)
(* underneath, chosen at boot.  Every runtime call holds the LEASE lock    *)
(* from end to end, so each is one action; the device, the link and the    *)
(* idle loop's own poll (console_loop.rs, virtio board only) step between  *)
(* the calls.  The agent may have sent anything, or nothing, and may or    *)
(* may not have made room in the endpoints the service sends to, so the    *)
(* endpoints are choices of the actions that use them.                     *)
(***************************************************************************)
EXTENDS VirtQueue, Genet, FiniteSets

CONSTANTS
    MAX_FAILURES,   \* device failures in one behaviour
    MAX_RECOVERIES, \* pool resets in one behaviour
    MAX_EVENTS,     \* frames received and device failures in one behaviour, by NIC
    PAST_LAP        \* whether the service goes on once a GENET ring came round

VARIABLES
    nic,        \* the transport and its device
    carrier,    \* the Ethernet link
    lease,      \* "none", "held", or "freed" after a failed start
    pool,       \* the packet pool
    serviceTx,  \* the token in flight, or NoToken
    txEvent,    \* a completion the server has not taken yet
    rxEvent,    \* a frame the server has not taken yet
    offered,    \* the frame the server has taken and not passed on yet
    server,     \* where the server's loop is
    recycled,   \* SESSION_RECYCLED
    failed,     \* device failures spent
    frames      \* frames the device has received

netVars == <<nic, carrier, lease, pool, serviceTx, txEvent, rxEvent, offered, server,
             recycled, failed, frames>>

NetInit ==
    /\ nic \in {NewVirtio, NewGenet}
    /\ carrier \in BOOLEAN /\ (nic.kind = "virtio" => carrier)
    /\ lease = "none"
    /\ pool = NewPool
    /\ serviceTx = NoToken /\ txEvent = NoToken /\ rxEvent = NoToken /\ offered = NoToken
    /\ server = "boot"
    /\ recycled = FALSE
    /\ failed = 0 /\ frames = 0

-----------------------------------------------------------------------------
(* The transport contract (bsp/net.rs), one branch per board.              *)

TransportReturn(n, tok, failures) ==
    IF n.kind = "genet" THEN GReturnRx(n, tok, carrier, failures) ELSE VPostRx(n, tok)

TransportSubmit(n, tok, len, failures) ==
    IF n.kind = "genet" THEN GSubmitTx(n, tok, len, carrier, failures) ELSE VSubmitTx(n, tok, len)

TransportPoll(n, failures) ==
    IF n.kind = "genet" THEN GPoll(n, carrier, failures) ELSE VPoll(n)

\* A virtio device that refuses the handshake is the one failure of its reset.
TransportReset(n, failures) ==
    IF n.kind = "genet" THEN GReset(n, failures) ELSE VReset(n, failures # {})

TransportStart(n, toks, failures) ==
    IF n.kind = "genet" THEN GStart(n, toks, carrier, failures) ELSE VStart(n, toks)

\* At most one bounded wait gives up in one call, and only so often.
MayFail == failed < MAX_FAILURES /\ failed + frames < MAX_EVENTS[nic.kind]

SomeFailures == {{}} \union (IF MayFail THEN {{f} : f \in Failures} ELSE {})

Spend(failures) == failed' = failed + Cardinality(failures)

-----------------------------------------------------------------------------
(* The runtime.                                                            *)

RxTokens(p) == [i \in 1..Len(RxSlots) |-> Token(RxSlots[i], p.gen)]

\* The mutant that frees the pages of a transport it left running.
StartFailsRunning(n, failures) == n

\* start: a transport that refuses is reset, whatever that returns, and every
\* page goes back.
StartFails(n, failures) == TransportReset(n, failures).nic

NetStart ==
    /\ lease = "none"
    /\ \E failures, late \in SomeFailures :
        LET r == TransportStart(nic, RxTokens(pool), failures) IN
        /\ failed + Cardinality(failures) + Cardinality(late) <= MAX_FAILURES
        /\ nic' = IF r.ok THEN r.nic ELSE StartFails(r.nic, late)
        /\ lease' = IF r.ok THEN "held" ELSE "freed"
        /\ failed' = failed + Cardinality(failures) + Cardinality(late)
    /\ UNCHANGED <<carrier, pool, serviceTx, txEvent, rxEvent, offered, server, recycled,
                   frames>>

\* The reposting half of recover: the first refusal ends it.
RECURSIVE Repost(_, _, _)
Repost(n, toks, failures) ==
    IF toks = <<>>
    THEN Done(n)
    ELSE Then(TransportReturn(n, Head(toks), failures),
              LAMBDA m : Repost(m, Tail(toks), failures))

\* recover: device, pool, in-flight state, then every receive slot afresh.
Recovered(reset, p, failures) ==
    IF reset.ok
    THEN LET fresh == ResetPool(p)
             posted == Repost(reset.nic, RxTokens(fresh), failures)
         IN {[ok |-> r.ok, reset |-> TRUE, nic |-> r.nic, pool |-> fresh] : r \in {posted}}
    ELSE {[ok |-> FALSE, reset |-> FALSE, nic |-> reset.nic, pool |-> p]}

\* The set of the one outcome of a recovery.
Recover(n, p, failures) ==
    UNION {Recovered(reset, p, failures) : reset \in {TransportReset(n, failures)}}

\* What a recovery leaves of the in-flight state.
AfterRecovery(r) ==
    /\ nic' = r.nic
    /\ pool' = r.pool
    /\ serviceTx' = IF r.reset THEN NoToken ELSE serviceTx
    /\ txEvent' = IF r.reset THEN NoToken ELSE txEvent
    /\ rxEvent' = IF r.reset THEN NoToken ELSE rxEvent

\* enable_service: set for good when the server task starts.
ServiceActive == server # "boot"

\* poll's receive loop: the first frame is offered to an active service, the
\* others go back, and a refused return loses the buffer.
RECURSIVE Deliver(_, _, _, _)
Deliver(n, p, event, failures) ==
    IF n.rxReady = <<>>
    THEN {[nic |-> n, pool |-> p, event |-> event]}
    ELSE LET tok == Head(n.rxReady) IN
         UNION {IF PublishesRx(p, tok[1]) /\ event = NoToken /\ ServiceActive
                THEN Deliver(m, PublishRx(p, tok[1]), Token(tok[1], p.gen), failures)
                ELSE UNION {Deliver(r.nic, p, event, failures) :
                                r \in {TransportReturn(m, tok, failures)}}
                : m \in {[n EXCEPT !.rxReady = Tail(@)]}}

\* The transmit loop: our token comes home, the probe's is only counted.
Sent(n) == serviceTx # NoToken /\ \E i \in 1..Len(n.txReady) : n.txReady[i] = serviceTx

\* A receive pass that never ends keeps the lock, and the caller with it.
RuntimePoll(failures) ==
    \E r \in {TransportPoll(nic, failures)} :
        /\ nic.kind = "genet" => ~r.nic.spins
        /\ \/ /\ ~r.ok
              /\ \E again \in Recover(r.nic, pool, failures) : AfterRecovery(again)
           \/ /\ r.ok
              /\ \E d \in Deliver(r.nic, pool, rxEvent, failures) :
                   /\ nic' = [d.nic EXCEPT !.txReady = <<>>]
                   /\ rxEvent' = d.event
                   /\ serviceTx' = IF Sent(d.nic) THEN NoToken ELSE serviceTx
                   /\ txEvent' = IF Sent(d.nic) THEN serviceTx ELSE txEvent
                   /\ pool' = IF Sent(d.nic) THEN CompleteTx(d.pool, serviceTx) ELSE d.pool

-----------------------------------------------------------------------------
(* The server's loop, one action per stage.                                *)

MayRecover == pool.gen < MAX_RECOVERIES

\* Tokens an agent may name: any slot, this generation or an earlier one.
AgentTokens == {Token(s, g) : s \in Slots, g \in 0..pool.gen}

\* A length the GENET ring trips over ends in a recovery and is bounded so.
AgentLens == IF MayRecover THEN Lens ELSE Lens \ {"long"}

\* The mutant that takes a second frame while one is in flight.
TakesFrameBusy(tok) == AcceptsTx(pool, tok)

\* submit_service_tx copies the frame into the service's transmit page once
\* none is in flight and the pool accepts it, before the transport is asked.
TakesFrame(tok) == serviceTx = NoToken /\ AcceptsTx(pool, tok)

\* A frame the transport refuses goes back to the agent, whose endpoint may
\* lose the refusal.
SubmitServiceTx(tok, len, failures) ==
    IF ~TakesFrame(tok)
    THEN UNCHANGED <<nic, pool, serviceTx>>
    ELSE \E r \in {TransportSubmit(nic, tok, len, failures)} :
            /\ nic' = r.nic
            /\ pool' = IF r.ok THEN AcceptTx(pool, tok) ELSE pool
            /\ serviceTx' = IF r.ok THEN tok ELSE serviceTx

\* return_service_rx: the pool first, then the transport; a transport that
\* refuses leaves the slot with the service and the buffer with nobody.
RuntimeReturn(tok, failures) ==
    IF ReturnsRx(pool, tok)
    THEN {[ok |-> r.ok, nic |-> r.nic, pool |-> ReturnRx(pool, tok)] :
              r \in {TransportReturn(nic, tok, failures)}}
    ELSE {[ok |-> FALSE, nic |-> nic, pool |-> pool]}

ServerMoves(from, to) == server = from /\ server' = to

\* enable_service, before the loop.
EnableService ==
    /\ lease = "held"
    /\ ServerMoves("boot", "request")
    /\ UNCHANGED <<nic, carrier, lease, pool, serviceTx, txEvent, rxEvent, offered,
                   recycled, failed, frames>>

\* The server's half of a return: the first one that succeeds goes on to
\* recycle the session, a runtime call of its own.
ReturnServiceRx(from, recycle, next) ==
    \E tok \in AgentTokens, failures \in SomeFailures :
        \E r \in RuntimeReturn(tok, failures) :
            /\ nic' = r.nic
            /\ pool' = r.pool
            /\ ServerMoves(from, IF r.ok /\ ~recycled THEN recycle ELSE next)
            /\ Spend(failures)
            /\ UNCHANGED <<serviceTx, txEvent, rxEvent>>

RecycleAfterSession(from, next) ==
    /\ ServerMoves(from, next)
    /\ \E failures \in SomeFailures :
        \E again \in Recover(nic, pool, failures) :
            AfterRecovery(again) /\ recycled' = again.ok /\ Spend(failures)
    /\ UNCHANGED <<carrier, lease, offered, frames>>

NoMessage(from, next) ==
    /\ ServerMoves(from, next)
    /\ UNCHANGED <<nic, pool, serviceTx, txEvent, rxEvent, failed>>

\* The request endpoint takes both kinds of message; one that does not decode
\* is refused and changes nothing.
ServeRequest ==
    /\ \/ /\ ServerMoves("request", "return")
          /\ \E tok \in AgentTokens, len \in AgentLens, failures \in SomeFailures :
                SubmitServiceTx(tok, len, failures) /\ Spend(failures)
          /\ UNCHANGED <<txEvent, rxEvent>>
       \/ ReturnServiceRx("request", "recycle", "return")
       \/ NoMessage("request", "return")
    /\ UNCHANGED <<carrier, lease, offered, recycled, frames>>

ServeReturn ==
    /\ \/ ReturnServiceRx("return", "recycle return", "poll")
       \/ NoMessage("return", "poll")
    /\ UNCHANGED <<carrier, lease, offered, recycled, frames>>

ServeRecycle ==
    RecycleAfterSession("recycle", "return") \/ RecycleAfterSession("recycle return", "poll")

ServePoll ==
    /\ ServerMoves("poll", "complete")
    /\ \E failures \in SomeFailures : RuntimePoll(failures) /\ Spend(failures)
    /\ UNCHANGED <<carrier, lease, offered, recycled, frames>>

\* On the virtio board the idle loop polls too, between any two runtime calls.
IdlePoll ==
    /\ lease = "held" /\ nic.kind = "virtio"
    /\ RuntimePoll({})
    /\ UNCHANGED <<carrier, lease, offered, server, recycled, failed, frames>>

\* take_tx_complete: the parked event, or a completion the transport still
\* holds because the recovery that should have dropped it did not happen.
ServeComplete ==
    /\ ServerMoves("complete", "available")
    /\ LET late == txEvent = NoToken /\ nic.txReady # <<>>
           ours == late /\ Head(nic.txReady) = serviceTx
       IN /\ nic' = IF late THEN [nic EXCEPT !.txReady = Tail(@)] ELSE nic
          /\ serviceTx' = IF ours THEN NoToken ELSE serviceTx
          /\ pool' = IF ours THEN CompleteTx(pool, serviceTx) ELSE pool
    /\ txEvent' = NoToken
    /\ UNCHANGED <<carrier, lease, rxEvent, offered, recycled, failed, frames>>

\* take_rx_available.
ServeAvailable ==
    /\ ServerMoves("available", IF rxEvent = NoToken THEN "request" ELSE "offer")
    /\ offered' = rxEvent
    /\ rxEvent' = NoToken
    /\ UNCHANGED <<nic, carrier, lease, pool, serviceTx, txEvent, recycled, failed, frames>>

\* A frame the agent's endpoint has no room for goes back to the device.
ServeOffer ==
    /\ ServerMoves("offer", "request")
    /\ offered' = NoToken
    /\ \/ UNCHANGED <<nic, pool, failed>>
       \/ \E failures \in SomeFailures : \E r \in RuntimeReturn(offered, failures) :
                nic' = r.nic /\ pool' = r.pool /\ Spend(failures)
    /\ UNCHANGED <<carrier, lease, serviceTx, txEvent, rxEvent, recycled, frames>>

-----------------------------------------------------------------------------
(* The devices.  Receive lengths are any the device can write; a status    *)
(* word that does not decode ends the poll with a recovery, so it is       *)
(* bounded like one.                                                       *)

DeviceTransmits ==
    /\ \/ /\ nic.kind = "virtio" /\ DeviceMayUse(nic, nic.tx)
          /\ nic' = [nic EXCEPT !.tx = DeviceUse(@, "ok")]
       \/ /\ nic.kind = "genet" /\ EngineMayRun(nic.htx)
          /\ nic' = [nic EXCEPT !.htx = Transmit(@)]
    /\ UNCHANGED <<carrier, lease, pool, serviceTx, txEvent, rxEvent, offered, server,
                   recycled, failed, frames>>

DeviceReceives ==
    /\ frames + failed < MAX_EVENTS[nic.kind]
    /\ frames' = frames + 1
    /\ \/ /\ nic.kind = "virtio" /\ DeviceMayUse(nic, nic.rx)
          /\ \E len \in {"ok", "short"} : nic' = [nic EXCEPT !.rx = DeviceUse(@, len)]
       \/ /\ nic.kind = "genet" /\ nic.mac /\ carrier /\ EngineMayRun(nic.hrx)
          /\ \E len \in {"ok", "short"} \union (IF MayRecover THEN {"empty"} ELSE {}) :
                nic' = [nic EXCEPT !.hrx = Receive(@, len, RX_RING_COUNT)]
    /\ UNCHANGED <<carrier, lease, pool, serviceTx, txEvent, rxEvent, offered, server,
                   recycled, failed>>

\* A lost carrier counts as a device failure.
CarrierChanges ==
    /\ nic.kind = "genet"
    /\ carrier => MayFail
    /\ carrier' = ~carrier
    /\ failed' = IF carrier THEN failed + 1 ELSE failed
    /\ UNCHANGED <<nic, lease, pool, serviceTx, txEvent, rxEvent, offered, server,
                   recycled, frames>>

\* The producer of one of GENET's rings has come round.
Lapped == nic.kind = "genet" /\ (nic.tx.lapped \/ nic.rx.lapped)

ServerStep ==
    /\ Lapped => PAST_LAP
    /\ \/ EnableService \/ ServeRequest \/ ServeReturn \/ ServeRecycle
       \/ ServePoll \/ ServeComplete \/ ServeAvailable \/ ServeOffer

NetNext ==
    \/ NetStart \/ ServerStep \/ IdlePoll
    \/ DeviceTransmits \/ DeviceReceives \/ CarrierChanges

\* The server is a task the scheduler always runs again; a device works
\* through what it was given.
NetSpec ==
    NetInit /\ [][NetNext]_netVars /\ WF_netVars(ServerStep) /\ WF_netVars(DeviceTransmits)

-----------------------------------------------------------------------------
(* Properties.                                                             *)

\* The receive identities the transport keyed by descriptor.
HeldRx == IF nic.kind = "genet" THEN nic.rx.tok ELSE nic.rx.pend

Delivered == {nic.rxReady[i][1] : i \in 1..Len(nic.rxReady)}
AgentHas == {s \in RxSet : pool.state[s] = "RxAgent"}

\* How many owners a receive slot has: the driver's books once for every
\* descriptor that names it, the completions not yet delivered, and the agent.
Places(s) ==
      Cardinality({p \in DOMAIN HeldRx : HeldRx[p][1] = s})
    + Cardinality({i \in 1..Len(nic.rxReady) : nic.rxReady[i][1] = s})
    + (IF s \in AgentHas THEN 1 ELSE 0)

\* What the device, by its own indices, will still write to or read from.
DeviceRx ==
    IF nic.kind = "genet"
    THEN {nic.hrx.desc[i][1] : i \in EngineHas(nic.hrx, RX_RING_COUNT)}
    ELSE {nic.rx.desc[p][1] : p \in DeviceHas(nic, nic.rx)}

DeviceTx ==
    IF nic.kind = "genet"
    THEN {nic.htx.desc[i] : i \in EngineHas(nic.htx, TX_RING_COUNT)}
    ELSE {nic.tx.desc[p] : p \in DeviceHas(nic, nic.tx)}

\* The device and the driver count the same descriptors: a virtio queue until
\* the first restart, a GENET ring until its producer comes round.
InStep(ring) == IF nic.kind = "genet" THEN ~ring.lapped ELSE pool.gen = 0

\* A receive buffer has at most one owner among the device, the undelivered
\* completions and the agent, whatever tokens the agent sends and whenever the
\* transport is reset: the driver's books say so always, and the device's own
\* indices agree with the books as long as the two are in step.  The transport
\* holds no token of an earlier generation (bsp/net.rs: "tokens from before
\* the reset are never reported again").
RxSlotOnePlace ==
    /\ \A s \in RxSet : Places(s) <= 1
    /\ \A p \in DOMAIN HeldRx : HeldRx[p] = NoToken \/ HeldRx[p][2] = pool.gen
    /\ InStep(nic.rx) => DeviceRx \subseteq {HeldRx[p][1] : p \in DOMAIN HeldRx}

\* On GENET no receive buffer is lost: as long as the device has not failed
\* and the carrier held, every slot has an owner, across malformed frames,
\* refused and dropped frames, undecodable status words and recoveries
\* (network_runtime.rs recover reposts every slot).
RxBuffersKept ==
    nic.kind = "genet" /\ lease = "held" /\ failed = 0 => \A s \in RxSet : Places(s) = 1

\* The same for virtio-net, where it fails: restart rebinds the queues over
\* ring pages that still hold the old used index, so the first repost is
\* refused as QueueFull and the service never receives again.
RecycleRestoresReceive ==
    nic.kind = "virtio" /\ lease = "held" /\ failed = 0 => \A s \in RxSet : Places(s) = 1

\* A descriptor of the service's transmit page that the device has not read
\* yet (the probe has a page of its own).
PageInFlight == DeviceTx \ {NoToken, Probe} # {}

\* The service's one transmit page is never overwritten with a new frame while
\* the device, by its own indices, has still to read the old one, whether or
\* not the transport then takes the new one: submit_service_tx copies only
\* when no token is in flight.
TxPageStable ==
    InStep(nic.tx) /\ server = "request" /\ PageInFlight => \A tok \in AgentTokens : ~TakesFrame(tok)

\* What the driver takes as completed the device has finished with, on a
\* controller that works: no buffer that was delivered, and no page that is
\* free for the next frame, is still between the device's indices (bsp/rpi4/
\* net.rs: "the device ownership ended when the consumer index advanced").
OwnershipEnded ==
    nic.kind = "genet" /\ failed = 0 =>
        /\ DeviceRx \intersect (Delivered \union AgentHas) = {}
        /\ serviceTx = NoToken => ~PageInFlight

\* One device failure during start never returns the packet pages to the
\* frame pool under a running DMA engine: the refused transport is reset
\* first.  (Two failures, a refused start and an engine that then does not
\* stop, do.)
PagesFreedQuiet ==
    lease = "freed" /\ failed <= 1 /\ nic.kind = "genet" => ~nic.htx.on /\ ~nic.hrx.on
=============================================================================
