------------------------------ MODULE MCServices ------------------------------
(***************************************************************************)
(* The parts that answer to somebody, one scene per behaviour (chosen at   *)
(* the start): the boot of both cores ("boot"), the console line           *)
(* ("console"), the durable region on its card ("media"), the loader and   *)
(* its agents ("loader") and the packet service over virtio or GENET       *)
(* ("net").  The parts not on the scene stay as they start.                *)
(***************************************************************************)
EXTENDS Bringup, DurableMedia, Loader

VARIABLES
    scene,
    rxline, rxbase, locks, tx, uart, rxring, bytes, ctodo, isr, lent, panicking,
    locked, ccalls,
    nic, carrier, lease, pool, serviceTx, txEvent, rxEvent, offered, server, recycled,
    failed, frames

-----------------------------------------------------------------------------
(* A durable region of two sectors, with two sizes of value. *)

SmallSectorOf == <<1, 2, 2>>
SmallWireValues == {<<4, 7>>, <<2, 1>>}
SmallRecords == {<<28, 1>>}

(* Stores of one to three agents: one that resolves, one with a window, one *)
(* with the pool, one whose slots and one whose window cannot be bound, a   *)
(* store that does not parse and one whose header is bad.                   *)

Agent(name, slots, home, window) ==
    [name |-> name, named |-> TRUE, text |-> 1, stack |-> 1, reserved |-> 0,
     home |-> home, resolve |-> FALSE, pool |-> FALSE, window |-> window,
     va |-> IF window = -1 THEN 0 ELSE 8, truncated |-> FALSE, image |-> 2,
     slots |-> slots]
Chirp == Agent("chirp", <<0, -1>>, 1, -1)
Store1 == <<[Agent("beacon", <<0, 1>>, 0, -1) EXCEPT !.resolve = TRUE],
            Agent("screen", <<2, -1>>, 1, 1), Chirp>>
Store2 == <<[Agent("net", <<3, 5>>, 1, 0) EXCEPT !.pool = TRUE],
            Agent("bad", <<9, 4>>, 0, -1), Agent("screen", <<0, -1>>, 0, 1)>>
SmallStores == {[header |-> TRUE, agents |-> Store1],
                [header |-> TRUE, agents |-> Store2],
                [header |-> TRUE, agents |-> <<[Chirp EXCEPT !.text = 0]>>],
                [header |-> FALSE, agents |-> <<Chirp>>]}
Entry(a) == [f \in DOMAIN a \ {"named", "reserved", "truncated"} |-> a[f]]

SmallBuiltin == <<Entry(Chirp), Entry([Chirp EXCEPT !.stack = 0])>>
SmallFramebuffers == {[pa |-> 8, len |-> 8], [pa |-> 4, len |-> 8], [pa |-> 9, len |-> 4]}
SmallRngWindow == [pa |-> 4, len |-> 4]

Console == INSTANCE ConsoleLine WITH RX_CAP <- 3, MAX_BYTES <- 3, MAX_CALLS <- 2

Net == INSTANCE NetService WITH
    TxSlots <- {0, 1}, RxSlots <- <<2, 3>>, GENERATIONS <- 8, QUEUE_SIZE <- 2,
    INDEX_SPACE <- 8, OUTSTANDING <- 2, TX_RING_COUNT <- 4, RX_RING_COUNT <- 4,
    TX_INDEX_SPACE <- 8, RX_INDEX_SPACE <- 8, MAX_FAILURES <- 0, MAX_RECOVERIES <- 0,
    MAX_EVENTS <- [genet |-> 1, virtio |-> 1], PAST_LAP <- TRUE

-----------------------------------------------------------------------------
lineVars == <<rxline, rxbase, locks, tx, uart, rxring, bytes, ctodo, isr, lent,
              panicking, locked, ccalls>>
packetVars == <<nic, carrier, lease, pool, serviceTx, txEvent, rxEvent, offered, server,
                recycled, failed, frames>>
serviceVars == <<scene, bootvars, lineVars, storeVars, loaderVars, packetVars>>

ServicesInit ==
    /\ scene \in {"boot", "console", "media", "loader", "net"}
    /\ BootInit /\ (scene = "boot" \/ (c1 = "absent" /\ gic = NewGic([c \in {0, 1} |-> {}])))
    /\ Console!LineInit
    /\ StoreInit /\ (scene = "media" \/ image = "product")
    /\ LoaderInit /\ (scene = "loader" \/ ~network)
    /\ Net!NetInit /\ (scene = "net" \/ (nic = Net!NewVirtio /\ carrier))

Only(s) ==
    /\ scene = s /\ UNCHANGED scene
    /\ s = "boot" \/ UNCHANGED bootvars
    /\ s = "console" \/ UNCHANGED lineVars
    /\ s = "media" \/ UNCHANGED storeVars
    /\ s = "loader" \/ UNCHANGED loaderVars
    /\ s = "net" \/ UNCHANGED packetVars

ServicesNext ==
    \/ Only("boot") /\ BootNext
    \/ Only("console") /\ Console!LineNext
    \/ Only("media") /\ StoreNext
    \/ Only("loader") /\ LoaderNext
    \/ Only("net") /\ Net!NetNext

\* The fairness of BootSpec, LineSpec, StoreSpec, LoaderSpec and NetSpec, each
\* in its scene.
ServicesSpec ==
    /\ ServicesInit /\ [][ServicesNext]_serviceVars
    /\ WF_bootvars(scene = "boot" /\ Core0)
    /\ WF_bootvars(scene = "boot" /\ Core1)
    /\ \A c \in {0, 1} : /\ WF_bootvars(scene = "boot" /\ TimerFires(c))
                         /\ WF_bootvars(scene = "boot" /\ TakeIrq(c))
    /\ WF_lineVars(scene = "console" /\ Console!ReceiveTimeout)
    /\ WF_lineVars(scene = "console" /\ Console!UartIrq)
    /\ WF_lineVars(scene = "console" /\ Console!UartDrain)
    /\ WF_lineVars(scene = "console" /\ Console!UartAck)
    /\ \A c \in {0, 1} : WF_lineVars(scene = "console" /\ Console!Step(c))
    /\ WF_storeVars(scene = "media" /\ BootStoreStep)
    /\ WF_loaderVars(scene = "loader" /\ LoaderStep)
    /\ \A s \in {1, 2} : WF_loaderVars(scene = "loader" /\ AgentStep(s))
    /\ WF_loaderVars(scene = "loader" /\ LoaderTick)
    /\ WF_packetVars(scene = "net" /\ Net!ServerStep)
    /\ WF_packetVars(scene = "net" /\ Net!DeviceTransmits)

-----------------------------------------------------------------------------
(* Properties of one scene.  IrqFindsHandler, AckedKept, CardSteps and      *)
(* AgentRunsItsEntry are the components' own: they hold of parts that are  *)
(* not on the scene too.                                                   *)

\* The receive line is never armed without a view to drain it through, nor
\* after a panic took it; bytes are echoed in order, once, and only the byte an
\* echo had in hand when it gave up goes uncounted (rxline.rs, console.rs,
\* ring.rs, console_loop.rs).
LineKept ==
    scene = "console" =>
        Console!ArmedHasView /\ Console!PanicKeepsLineMasked /\ Console!BytesInOrder

-----------------------------------------------------------------------------
(* What must happen.  Each is one leads-to over all scenes: the scene never *)
(* changes, so it says the scene's own disjunct of the one leads to the     *)
(* scene's own disjunct of the other.                                       *)

Starting ==
    \/ scene = "boot" /\ boot = "map"
    \/ scene = "media" /\ pc = "init"
    \/ scene = "console" /\ panicking
Started ==
    \/ scene = "boot" /\ boot \in {"loop", "refused"}
    \/ scene = "media" /\ pc \in {"running", "off"}
    \/ scene = "console" /\ (Console!Reported \/ locked)

\* The boot ends in its loop or in a refusal, whether core 1 answers or not
\* (smp.rs); no SD card, present, absent or stuck in its walk, keeps it from
\* running (sdcard.rs, witness.rs); and a panic is reported unless a core died
\* inside a console lock (console.rs).
BootAndPanicEnd == Starting ~> Started

Waiting(s) ==
    \/ scene = "boot" /\ marker = "queued" /\ c1 # "absent"
    \/ scene = "console" /\ uart.fifo # <<>> /\ uart.imsc /\ rxbase # 0
    \/ scene = "loader" /\ task[s].state \in {"ready", "drain"}
    \/ scene = "net" /\ serviceTx # Net!NoToken
Served(s) ==
    \/ scene = "boot" /\ marker = "ran"
    \/ scene = "console" /\ (uart.fifo = <<>> \/ ~uart.imsc \/ panicking)
    \/ scene = "loader" /\ task[s].state \in {"run", "empty"}
    \/ scene = "net" /\ (\/ serviceTx = Net!NoToken
                         \/ nic.kind = "virtio" /\ pool.gen > 0)

\* A task queued for core 1 runs although its wake-up may fall between the idle
\* loop's look for work and its sleep (smp.rs); a received byte is taken while
\* the kernel owns the line (console.rs); a task the loader spawned runs its
\* agent or, refused, drains and ends (loader.rs); a transmission on a device
\* that works ends unless virtio was recycled (network_runtime.rs).
WorkIsServed == \A s \in {1, 2} : Waiting(s) ~> Served(s)
=============================================================================
