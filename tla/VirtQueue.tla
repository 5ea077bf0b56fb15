------------------------------ MODULE VirtQueue ------------------------------
(***************************************************************************)
(* The virtio-net backend (drivers/virtio_mmio.rs, bsp/qemu_virt/net.rs)   *)
(* and the device behind it.  A queue is one record: the driver's cursors  *)
(* and the identities it keyed by descriptor position, the ring pages in   *)
(* memory (availIdx, desc, usedIdx, usedRing), and the device's own two    *)
(* indices.  The driver always writes descriptor p at available position   *)
(* p, so the available ring's entries are left out; rx_cursor and          *)
(* tx_cursor move with the queue cursor's avail and are that field.        *)
(***************************************************************************)
EXTENDS PacketPool

CONSTANTS
    QUEUE_SIZE,     \* descriptors of one queue
    INDEX_SPACE     \* ring indices wrap modulo this (2^16 in the code)

Positions == 0..(QUEUE_SIZE - 1)

Wrap(i) == i % INDEX_SPACE

Outstanding(a, b) == Wrap(a - b)

NewQueue ==
    [avail |-> 0, used |-> 0, pend |-> [p \in Positions |-> NoToken],
     availIdx |-> 0, desc |-> [p \in Positions |-> NoToken],
     usedIdx |-> 0, usedRing |-> [p \in Positions |-> <<0, "ok">>],
     devAvail |-> 0, devUsed |-> 0]

\* configure of the first modern network slot the aperture holds: zeroed ring
\* pages, both queues bound, DRIVER_OK.
NewVirtio ==
    [kind |-> "virtio", up |-> TRUE, rx |-> NewQueue, tx |-> NewQueue,
     rxReady |-> <<>>, txReady |-> <<>>]

\* publish refuses by the distance from the device's used index in memory.
QueueFull(q) == Outstanding(q.avail, q.usedIdx) >= QUEUE_SIZE

Publish(q, tok) ==
    LET p == q.avail % QUEUE_SIZE IN
    [q EXCEPT !.desc[p] = tok, !.pend[p] = tok,
              !.avail = Wrap(q.avail + 1), !.availIdx = Wrap(q.avail + 1)]

VPostRx(n, tok) ==
    IF QueueFull(n.rx)
    THEN Fail(n)
    ELSE Done([n EXCEPT !.rx = Publish(@, tok)])

VSubmitTx(n, tok, len) ==
    IF ~FrameOk(len) \/ QueueFull(n.tx)
    THEN Fail(n)
    ELSE Done([n EXCEPT !.tx = Publish(@, tok)])

\* poll_used: the element at the used cursor, whatever page content is there.
UsedAt(q) == q.usedRing[q.used % QUEUE_SIZE]

PollUsed(q) ==
    [q EXCEPT !.used = Wrap(q.used + 1), !.pend[UsedAt(q)[1]] = NoToken]

\* advance_tx: retire until the used cursor meets the device's index; an
\* element whose position holds no identity is skipped.
RetireTx(n, tok) ==
    [n EXCEPT !.tx = PollUsed(@),
              !.txReady = IF tok = NoToken THEN @ ELSE Append(@, tok)]

RECURSIVE VAdvanceTx(_)
VAdvanceTx(n) ==
    IF n.tx.used = n.tx.usedIdx
    THEN Done(n)
    ELSE Then(Done(RetireTx(n, n.tx.pend[UsedAt(n.tx)[1]])), LAMBDA m : VAdvanceTx(m))

\* advance_rx: the same walk; a frame of the wrong length goes straight back
\* to the device, and a refused repost loses the buffer silently.
RetireRx(n, tok, len) ==
    IF tok = NoToken THEN [n EXCEPT !.rx = PollUsed(@)]
    ELSE IF FrameOk(len) THEN [n EXCEPT !.rx = PollUsed(@), !.rxReady = Append(@, tok)]
    ELSE Then(Done([n EXCEPT !.rx = PollUsed(@)]), LAMBDA m : VPostRx(m, tok)).nic

RECURSIVE VAdvanceRx(_)
VAdvanceRx(n) ==
    IF n.rx.used = n.rx.usedIdx
    THEN Done(n)
    ELSE Then(Done(RetireRx(n, n.rx.pend[UsedAt(n.rx)[1]], UsedAt(n.rx)[2])),
              LAMBDA m : VAdvanceRx(m))

VPoll(n) == Then(VAdvanceTx(n), VAdvanceRx)

\* The device forgets its own indices; the ring pages keep what they held.
DeviceReset(q) == [q EXCEPT !.devAvail = 0, !.devUsed = 0]

\* The driver's half of a restart: cursors to zero, identities dropped.
DropState(q) ==
    [q EXCEPT !.avail = 0, !.used = 0, !.pend = [p \in Positions |-> NoToken]]

\* restart: status 0, identity, features, queue addresses, DRIVER_OK; a device
\* that refuses a step is left in reset and the driver's state is untouched.
VReset(n, refused) ==
    IF refused
    THEN Fail([n EXCEPT !.up = FALSE, !.rx = DeviceReset(@), !.tx = DeviceReset(@)])
    ELSE Done([n EXCEPT !.up = TRUE,
                        !.rx = DropState(DeviceReset(@)), !.tx = DropState(DeviceReset(@)),
                        !.rxReady = <<>>, !.txReady = <<>>])

\* start: every receive slot, then the probe frame.
RECURSIVE VPostAll(_, _)
VPostAll(n, toks) ==
    IF toks = <<>>
    THEN Done(n)
    ELSE Then(VPostRx(n, Head(toks)), LAMBDA m : VPostAll(m, Tail(toks)))

VStart(n, toks) == Then(VPostAll(n, toks), LAMBDA m : VSubmitTx(m, Probe, "ok"))

-------------------------------------------------------------------------------
(* The device: it takes descriptors in order and finishes them in order.   *)

DeviceMayUse(n, q) == n.up /\ q.devAvail # q.availIdx

\* The positions the device still has to work through.
DeviceHas(n, q) ==
    IF n.up
    THEN {(q.devAvail + k) % QUEUE_SIZE : k \in 0..(Outstanding(q.availIdx, q.devAvail) - 1)}
    ELSE {}

DeviceUse(q, len) ==
    LET p == q.devAvail % QUEUE_SIZE IN
    [q EXCEPT !.devAvail = Wrap(@ + 1), !.devUsed = Wrap(@ + 1),
              !.usedRing[q.devUsed % QUEUE_SIZE] = <<p, len>>,
              !.usedIdx = Wrap(q.devUsed + 1)]
===============================================================================
