--------------------------- MODULE VirtioTransport ---------------------------
(***************************************************************************)
(* claim walks the virtio-mmio aperture (bsp/qemu_virt/net.rs) and takes   *)
(* the first slot whose handshake completes (begin_transport and           *)
(* configure_queues of drivers/virtio_mmio.rs, over the status mirror of   *)
(* kernel-core virtio.rs).  Every slot is offered the same six ring pages. *)
(* One step is one register exchange with the slot; what the device        *)
(* answers is chosen at the exchange.  The ring pages are frames, so they  *)
(* are never null or misaligned and the InvalidRing refusal cannot happen. *)
(***************************************************************************)
EXTENDS Naturals

CONSTANTS
    VIRTIO_MMIO_SLOTS,  \* slots of the aperture
    MAX_RESTARTS        \* bound: recoveries of the claimed transport

ASSUME VirtioAssumption ==
    /\ VIRTIO_MMIO_SLOTS \in Nat \ {0}
    /\ MAX_RESTARTS \in Nat

VARIABLES
    vtdev,      \* what each slot's device holds: status, ready queues, features
    vtslot,     \* the slot the driver is at
    vtstep,     \* the next exchange
    vtbits,     \* DriverStatus: the mirror of the status bits
    vtowned,    \* claim has returned this transport to the lease
    vtrestarts

vtVars == <<vtdev, vtslot, vtstep, vtbits, vtowned, vtrestarts>>

VtSlots == 1..VIRTIO_MMIO_SLOTS

Queues == {"rx", "tx"}

\* What the identity and feature registers say: magic, version, device id and
\* VERSION_1 all as required, or a wrong one.
Identities == {"modern", "foreign"}

InReset == [status |-> {}, ready |-> {}, features |-> FALSE]

VirtioInit ==
    /\ vtdev = [s \in VtSlots |-> InReset]
    /\ vtslot = 1 /\ vtstep = "reset" /\ vtbits = {}
    /\ vtowned = FALSE /\ vtrestarts = 0

\* write_status: zero resets the device, any other value is stored.
WriteStatus(d, bits) == IF bits = {} THEN InReset ELSE [d EXCEPT !.status = bits]

At(step) == vtstep = step

Exchange(d, next, bits) ==
    /\ vtdev' = [vtdev EXCEPT ![vtslot] = d]
    /\ vtstep' = next
    /\ vtbits' = bits
    /\ UNCHANGED <<vtslot, vtowned, vtrestarts>>

\* A refusal leaves device d behind.  During the scan claim goes on to the next
\* slot, and gives up after the last; a restart reports to the lease instead.
RefuseWith(d) ==
    /\ vtdev' = [vtdev EXCEPT ![vtslot] = d]
    /\ vtbits' = {}
    /\ IF ~vtowned /\ vtslot < VIRTIO_MMIO_SLOTS
       THEN vtslot' = vtslot + 1 /\ vtstep' = "reset"
       ELSE vtslot' = vtslot /\ vtstep' = "refused"
    /\ UNCHANGED <<vtowned, vtrestarts>>

\* MUTANT of RefuseAndReset: the device is left with what it was given so far.
RefuseInPlace == RefuseWith(vtdev[vtslot])

RefuseAndReset == RefuseWith(WriteStatus(vtdev[vtslot], {}))

BeginReset ==
    /\ At("reset")
    /\ Exchange(WriteStatus(vtdev[vtslot], {}), "identity", {})

\* probe_device and negotiate_features, before the first status bit.
ProbeDevice ==
    /\ At("identity")
    /\ \E identity \in Identities :
         IF identity = "modern"
         THEN Exchange(vtdev[vtslot], "acknowledge", {})
         ELSE RefuseWith(vtdev[vtslot])

\* DriverStatus: a bit is added only on top of exactly the bits before it.
Advances(step, required, bit, next) ==
    /\ At(step)
    /\ IF vtbits = required
       THEN Exchange(WriteStatus(vtdev[vtslot], vtbits \union {bit}), next, vtbits \union {bit})
       ELSE RefuseWith(vtdev[vtslot])

Acknowledge == Advances("acknowledge", {}, "ACKNOWLEDGE", "driver")

Driver == Advances("driver", {"ACKNOWLEDGE"}, "DRIVER", "write_features")

WriteFeatures ==
    /\ At("write_features")
    /\ Exchange([vtdev[vtslot] EXCEPT !.features = TRUE], "features_ok", vtbits)

FeaturesOk == Advances("features_ok", {"ACKNOWLEDGE", "DRIVER"}, "FEATURES_OK", "read_status")

\* The device may have cleared FEATURES_OK.
ReadStatus ==
    /\ At("read_status")
    /\ \/ Exchange(vtdev[vtslot], "rx", vtbits)
       \/ RefuseAndReset

\* One queue: its size limit, its three addresses, QUEUE_READY and its read
\* back.  The device may be too small, or not take the queue.
ConfigureQueue(q, next) ==
    /\ At(q)
    /\ \/ Exchange([vtdev[vtslot] EXCEPT !.ready = @ \union {q}], next, vtbits)
       \/ RefuseAndReset

DriverOk ==
    /\ At("driver_ok")
    /\ Exchange([vtdev[vtslot] EXCEPT !.status = vtbits \union {"DRIVER_OK"}],
                "observe", vtbits)

\* DRIVER_OK is read back before the transport is handed over.
Observe ==
    /\ At("observe")
    /\ \/ /\ vtstep' = "live" /\ vtowned' = TRUE
          /\ UNCHANGED <<vtdev, vtslot, vtbits, vtrestarts>>
       \/ RefuseAndReset

\* Recovery: restart goes through the same exchanges on the slot it holds.
Restart ==
    /\ vtowned /\ vtstep \in {"live", "refused"} /\ vtrestarts < MAX_RESTARTS
    /\ vtstep' = "reset" /\ vtrestarts' = vtrestarts + 1
    /\ UNCHANGED <<vtdev, vtslot, vtbits, vtowned>>

\* Drop for Virtio: the lease gives the transport up, the frames are freed next.
DropVirtio ==
    /\ vtowned /\ vtstep \in {"live", "refused"}
    /\ vtdev' = [vtdev EXCEPT ![vtslot] = WriteStatus(@, {})]
    /\ vtstep' = "dropped"
    /\ UNCHANGED <<vtslot, vtbits, vtowned, vtrestarts>>

VirtioNext ==
    \/ BeginReset \/ ProbeDevice \/ Acknowledge \/ Driver \/ WriteFeatures
    \/ FeaturesOk \/ ReadStatus
    \/ ConfigureQueue("rx", "tx") \/ ConfigureQueue("tx", "driver_ok")
    \/ DriverOk \/ Observe \/ Restart \/ DropVirtio

VirtioSpec == VirtioInit /\ [][VirtioNext]_vtVars

-------------------------------------------------------------------------------
\* Six ring pages are offered to one slot after another (claim), so a slot that
\* is no longer being tried, or was refused, or was dropped, must hold no queue
\* over them; and a transport handed to the lease has both queues bound and all
\* four status bits, features accepted first.
OneSlotBound ==
    /\ \A s \in VtSlots :
         (s # vtslot \/ vtstep \in {"refused", "dropped"}) => vtdev[s] = InReset
    /\ vtstep = "live" =>
         vtdev[vtslot] = [status |-> {"ACKNOWLEDGE", "DRIVER", "FEATURES_OK", "DRIVER_OK"},
                          ready |-> Queues, features |-> TRUE]
===============================================================================
