----------------------------- MODULE GenetWords -----------------------------
(***************************************************************************)
(* The arithmetic contracts of kernel-core/src/genet.rs: DMA apertures,    *)
(* descriptors and their status words, ring geometry, the packed filter    *)
(* and priority registers, and the PHY's resolved speed.                   *)
(* Words are naturals or the fields they pack; an address is a natural up  *)
(* to ADDRESS_MAX (u64::MAX in the code).                                  *)
(***************************************************************************)
EXTENDS Integers, Sequences

CONSTANT ADDRESS_MAX

ASSUME AddressAssumption == ADDRESS_MAX \in Nat

Refused == -1

-----------------------------------------------------------------------------
(* DMA apertures: `base' is the device's address of `cpu_base'.            *)

\* DmaWindow::mapped: no empty aperture, neither end past the address space.
WindowAccepted(w) ==
    w.len # 0 /\ w.base + w.len <= ADDRESS_MAX /\ w.cpu_base + w.len <= ADDRESS_MAX

DmaContains(w, address, len) ==
    /\ address + len <= ADDRESS_MAX
    /\ address >= w.base
    /\ address + len <= w.base + w.len

MapCpuIn(w, cpu, len) ==
    IF cpu + len <= ADDRESS_MAX /\ cpu >= w.cpu_base /\ cpu + len <= w.cpu_base + w.len
    THEN w.base + (cpu - w.cpu_base)
    ELSE Refused

\* DmaWindows: the first aperture that covers the buffer translates it.
MapCpu(windows, cpu, len) ==
    LET covering == {i \in DOMAIN windows : MapCpuIn(windows[i], cpu, len) # Refused} IN
    IF covering = {}
    THEN Refused
    ELSE MapCpuIn(windows[CHOOSE i \in covering : \A j \in covering : i <= j], cpu, len)

WindowsContain(windows, address, len) ==
    \E i \in DOMAIN windows : DmaContains(windows[i], address, len)

-----------------------------------------------------------------------------
(* Descriptors.                                                            *)

MAX_FRAME_BYTES == 1536
RX_BUF_LENGTH == 2048

ValidateBelow(limit, d, windows) ==
    /\ d.length # 0 /\ d.length <= limit
    /\ d.address + d.length <= ADDRESS_MAX
    /\ WindowsContain(windows, d.address, d.length)

\* validate_windows bounds by the frame, validate_service_windows by the slot.
ValidateWindows(d, windows) == ValidateBelow(MAX_FRAME_BYTES, d, windows)

ValidateServiceWindows(d, windows) == ValidateBelow(RX_BUF_LENGTH, d, windows)

\* DescriptorStatus: the frame length and four bits, 1 when set; ownership is
\* the device's when its bit is.  The length sits in bits 16..27, OWN, EOP, SOP
\* and WRAP in 15..12.
EncodeStatus(length, device, end, start, wrap) ==
    length * 65536 + device * 32768 + end * 16384 + start * 8192 + wrap * 4096

StatusLength(word) == (word \div 65536) % 4096

StatusDevice(word) == (word \div 32768) % 2

StatusEnd(word) == (word \div 16384) % 2

StatusStart(word) == (word \div 8192) % 2

StatusWrap(word) == (word \div 4096) % 2

\* write_descriptor and tx_desc_status: a TX word carries SOP, EOP, the CRC
\* request and the queue tag.  An RX descriptor is its address alone.
TX_APPEND_CRC == 64
TX_QTAG == 63 * 128

TxStatusWord(length) ==
    EncodeStatus(length, 0, 1, 1, 0) + TX_APPEND_CRC + TX_QTAG

-----------------------------------------------------------------------------
(* Ring geometry in descriptor RAM.                                        *)

TOTAL_DESCRIPTORS == 256
DEFAULT_TX_RING == 0
DESC_RING == 16
V5_TX_QUEUES == 4
V5_TX_BDS_PER_Q == 32
V5_Q0_TX_BD_CNT == TOTAL_DESCRIPTORS - V5_TX_QUEUES * V5_TX_BDS_PER_Q
V5_Q0_RX_BD_CNT == TOTAL_DESCRIPTORS
WORDS_PER_DESCRIPTOR == 3

RingProgrammable(block, queue) ==
    queue \in {DEFAULT_TX_RING, DESC_RING} \/ (block = "tdma" /\ queue \in 1..V5_TX_QUEUES)

V5PriorityTxFirst(queue) == V5_Q0_TX_BD_CNT + (queue - 1) * V5_TX_BDS_PER_Q

RingProgramAccepted(block, queue, first, count, bytes) ==
    /\ RingProgrammable(block, queue)
    /\ count # 0 /\ count <= TOTAL_DESCRIPTORS /\ first < TOTAL_DESCRIPTORS
    /\ first + count <= TOTAL_DESCRIPTORS
    /\ bytes # 0 /\ bytes <= RX_BUF_LENGTH

RingWords(first, count) ==
    [start |-> first * WORDS_PER_DESCRIPTOR,
     end |-> (first + count) * WORDS_PER_DESCRIPTOR - 1]

\* Mutant: ring 0 takes all of descriptor RAM on both engines.
RingProgramWhole(block, queue) == RingWords(0, TOTAL_DESCRIPTORS)

\* ring_program: ring 0 owns the queue-0 counts, any other ring one descriptor.
RingProgram(block, queue) ==
    RingWords(0, IF queue # DEFAULT_TX_RING THEN 1
                 ELSE IF block = "tdma" THEN V5_Q0_TX_BD_CNT ELSE V5_Q0_RX_BD_CNT)

PriorityRing(queue) == RingWords(V5PriorityTxFirst(queue), V5_TX_BDS_PER_Q)

TdmaSpan(queue) ==
    IF queue \in 1..V5_TX_QUEUES THEN PriorityRing(queue) ELSE RingProgram("tdma", queue)

SpansApart(a, b) == a.end < b.start \/ b.end < a.start

\* TxRingSet: TDMA takes rings 0-4 beside the doorbell, RDMA the doorbell only.
TdmaRingSet(queue) == IF queue = DEFAULT_TX_RING THEN 0..V5_TX_QUEUES ELSE {queue}

RdmaRingSet(queue) == {queue}

-----------------------------------------------------------------------------
(* Packed registers.                                                       *)

HFB_FILTER_COUNT == 48
Filters == 0..(HFB_FILTER_COUNT - 1)

\* The length words run backwards over the filters, the bytes in one forwards.
HfbLengthSlot(filter) == <<(HFB_FILTER_COUNT - 1 - filter) \div 4, filter % 4>>

\* Filters below 32 sit in the second enable word.
HfbEnableSlot(filter) == <<IF filter < 32 THEN 1 ELSE 0, filter % 32>>

\* Five bits of weight per ring, six rings to a priority word.
DmaPrioSlot(queue) == <<queue \div 6, (queue % 6) * 5>>

DmaPrioWeight(queue) == IF queue = 0 THEN 1 ELSE 4

-----------------------------------------------------------------------------
(* The PHY.                                                                *)

\* classify_phy_id: all zeroes is an absent PHY, all ones a stuck bus.
PhyIdAccepted(hi, lo) == ~(hi = 0 /\ lo = 0) /\ ~(hi = 65535 /\ lo = 65535)

\* classify_aneg_speed over the four sampled registers.
ClassifySpeed(p) ==
    IF ~p.link THEN "LinkDown"
    ELSE IF ~p.aneg THEN "Unknown"
    ELSE IF p.stat1000 /\ p.ctrl1000 THEN "Thousand"
    ELSE IF p.lpa100 THEN "Hundred"
    ELSE IF p.lpa10 THEN "Ten"
    ELSE "Unknown"

Speeds == {"Ten", "Hundred", "Thousand"}

\* SYS_REV_CTRL's encoded majors of the v5 family.
RevisionAccepted(encoded) == encoded \in {6, 7}
=============================================================================
