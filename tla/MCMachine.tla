------------------------------ MODULE MCMachine ------------------------------
(***************************************************************************)
(* The parts of the machine below the scheduler that run no protocol with  *)
(* a client, one scene per behaviour (chosen at the start): the kernel     *)
(* map, heap and task stacks ("memory"), the agents' address spaces        *)
(* ("spaces"), the device-tree reader ("tree"), the GENET controller's     *)
(* driver ("genet"), the virtio handshake ("virtio"), the packet service   *)
(* over either ("net"), the tick ("ticks") and the queue of wake tokens    *)
(* ("ring").  The parts not on the scene stay as they start.               *)
(***************************************************************************)
EXTENDS Ticks, SpscRing, VirtioTransport, GenetDriver, AddressSpaces

VARIABLES
    scene,
    board, kboot, kmap, root, extra, cached, clone, heap, stacks, boxes, mapLock,
    broken, counters,
    dtpath, dttrue, dtx, dtg, dtreport,
    nic, carrier, lease, pool, serviceTx, txEvent, rxEvent, offered, server, recycled,
    failed, received

-----------------------------------------------------------------------------
(* Small boards: a page is two grains, a table has four entries, a block   *)
(* covers four pages and the heap four to twelve.                          *)

Pi(tables, dtb) ==
    LET pt == 8 + 2 * tables
    IN [ram_start |-> 0, image_start |-> 2, text |-> <<2, 4>>, rodata |-> <<4, 6>>,
        data |-> <<6, 8>>, pagetables |-> <<8, pt>>,
        exception_guard |-> <<pt, pt + 2>>, exception_stack |-> <<pt + 2, 46>>,
        kernel_guard |-> <<46, 48>>, kernel_stack |-> <<48, 50>>, heap_start |-> 50,
        devices |-> <<<<96, 98>>>>, dtb |-> dtb]
Virt ==
    [ram_start |-> 32, image_start |-> 34, text |-> <<34, 36>>, rodata |-> <<36, 38>>,
     data |-> <<38, 40>>, pagetables |-> <<98, 126>>,
     exception_guard |-> <<40, 42>>, exception_stack |-> <<42, 44>>,
     kernel_guard |-> <<44, 46>>, kernel_stack |-> <<46, 48>>, heap_start |-> 48,
     devices |-> <<<<4, 6>>, <<24, 26>>>>, dtb |-> << >>]
SmallBoards == {Pi(14, <<86, 88>>), Pi(16, <<66, 68>>), Pi(13, <<86, 88>>),
                [Pi(16, << >>) EXCEPT !.kernel_guard = <<48, 48>>], Virt}

Memory == INSTANCE TaskStacks WITH
    boot <- kboot, PAGE_SIZE <- 2, ENTRIES_PER_TABLE <- 4, PA_LIMIT <- 128,
    TLBI_PAGE_LIMIT <- 3, HEAP_SIZE <- 16, FRAME_POOL_BYTES <- 4, IDENTITY_RAM_END <- 84,
    Boards <- SmallBoards, MIN_SPARE_TABLES <- 2, StackSlots <- {1, 2},
    StackClasses <- {"Full", "Thin", "Mini"}, FULL_BYTES <- 4, Boxes <- {3}, BoxSizes <- {7}

\* Three tasks, entries that fit, that need more text, that are granted a
\* device page and the packet pool, and two whose device page is refused.
Small == [text |-> 1, stack |-> 1, image |-> 1, device |-> << >>, packet_pool |-> FALSE]
SmallEntries ==
    {Small, [Small EXCEPT !.text = 2, !.image = 2],
     [Small EXCEPT !.device = <<24>>, !.packet_pool = TRUE],
     [Small EXCEPT !.device = <<18>>], [Small EXCEPT !.device = <<4>>]}
SmallTables == {<<2, 0>>}
SmallBlocks == {<<0, 8>>}
SmallPool == <<26>>

Tree == INSTANCE DeviceTree WITH
    MAX_DEPTH <- 5, MAX_NODES <- 6, MAX_MEM_RANGES <- 2, MAX_RANGES <- 4, WORD <- 16,
    COMPILED_RAM <- 3, COMPILED_CPUS <- 1, MMIO_LEN <- 2

Net == INSTANCE NetService WITH
    frames <- received, TxSlots <- {0, 1}, RxSlots <- <<2, 3>>, GENERATIONS <- 8,
    QUEUE_SIZE <- 2, INDEX_SPACE <- 8, OUTSTANDING <- 2, TX_RING_COUNT <- 4,
    RX_RING_COUNT <- 4, TX_INDEX_SPACE <- 8, RX_INDEX_SPACE <- 8, MAX_FAILURES <- 1,
    MAX_RECOVERIES <- 1, MAX_EVENTS <- [genet |-> 3, virtio |-> 2], PAST_LAP <- FALSE

\* One aperture of 256 addresses; a buffer inside it, one too short for the
\* probe frame, one past its end and one longer than a frame.
SmallWindows == <<[base |-> 512, cpu_base |-> 0, len |-> 256]>>
SmallDescriptors == {[address |-> 512, length |-> 124], [address |-> 512, length |-> 60],
                     [address |-> 700, length |-> 124], [address |-> 512, length |-> 1600]}

-----------------------------------------------------------------------------
memoryVars == <<board, kboot, kmap, root, extra, cached, clone, heap, stacks, boxes,
                mapLock, broken, counters>>
treeVars == <<dtpath, dttrue, dtx, dtg, dtreport>>
packetVars == <<nic, carrier, lease, pool, serviceTx, txEvent, rxEvent, offered, server,
                recycled, failed, received>>
machineVars == <<scene, tickvars, ringVars, vtVars, gvars, memoryVars, spaceVars,
                 treeVars, packetVars>>

MachineInit ==
    /\ scene \in {"memory", "spaces", "tree", "genet", "virtio", "net", "ticks", "ring"}
    /\ TicksInit /\ RingInit /\ VirtioInit
    /\ GenetInit
    /\ scene = "genet" \/ (/\ gplane = "none"
                            /\ greg = CHOOSE g \in FirmwareLeft : TRUE)
    /\ Memory!MemoryInit /\ (scene = "memory" \/ board = Virt)
    /\ SpacesInit
    /\ Tree!DtInit
    /\ Net!NetInit /\ (scene = "net" \/ (nic = Net!NewVirtio /\ carrier))

Only(s) ==
    /\ scene = s /\ UNCHANGED scene
    /\ s = "ticks" \/ UNCHANGED tickvars
    /\ s = "ring" \/ UNCHANGED ringVars
    /\ s = "virtio" \/ UNCHANGED vtVars
    /\ s = "genet" \/ UNCHANGED gvars
    /\ s = "memory" \/ UNCHANGED memoryVars
    /\ s = "spaces" \/ UNCHANGED spaceVars
    /\ s = "tree" \/ UNCHANGED treeVars
    /\ s = "net" \/ UNCHANGED packetVars

MachineNext ==
    \/ Only("ticks") /\ TicksNext
    \/ Only("ring") /\ RingNext
    \/ Only("virtio") /\ VirtioNext
    \/ Only("genet") /\ GenetNext
    \/ Only("memory") /\ Memory!MemoryNext
    \/ Only("spaces") /\ SpacesNext
    \/ Only("tree") /\ Tree!DtNext
    \/ Only("net") /\ Net!NetNext

MachineSpec == MachineInit /\ [][MachineNext]_machineVars

\* Free frames are alike (all of them hold leftovers), so in its scene a state
\* of the spaces is what each one has and how many frames are free.
SpacesView ==
    <<Len(frames), Cardinality(lost), asids, creates,
      [b \in {1, 2, 3} |->
          IF spaces[b].pc \in {"none", "retire"}
          THEN <<spaces[b]>>
          ELSE <<spaces[b].pc, spaces[b].asid, spaces[b].entry, spaces[b].at,
                 spaces[b].mapped, Len(spaces[b].needs), Len(spaces[b].owned),
                 [i \in spaces[b].at..Len(spaces[b].owned) |-> contents[spaces[b].owned[i]]]>>],
      {<<e[1], e[2], \E b \in {1, 2, 3} : /\ spaces[b].pc \in {"out", "el0"}
                                          /\ spaces[b].asid = e[1]
                                          /\ <<e[2], e[3]>> \in Leaves(spaces[b])>> : e \in tlb}>>
\* The parts off the scene do not change, so a state is its scene's part.
MachineView ==
    <<scene,
      CASE scene = "spaces" -> SpacesView
        [] scene = "memory" -> memoryVars
        [] scene = "tree" -> treeVars
        [] scene = "genet" -> gvars
        [] scene = "net" -> packetVars
        [] scene = "virtio" -> vtVars
        [] scene = "ticks" -> tickvars
        [] scene = "ring" -> ringVars>>

-----------------------------------------------------------------------------
(* Properties of one scene *)

\* Whatever blocks were split, unmapped and restored before, in whatever order
\* two cores did it: outside a split the live map gives every page exactly what
\* its region asks for, the guard of a live stack nothing, and a translation a
\* core may still cache never has other attributes (mmu.rs).
MapAgrees ==
    scene = "memory" => Memory!MapMatchesLayout /\ Memory!CachedAgrees

\* The heap's blocks tile its arena and the free list is exactly the free ones,
\* merged; no free is refused, no stack abandoned, and the tables reserved at
\* boot cover every split (heap.rs, task_stack.rs, assert_table_reserve).
HeapKept == scene = "memory" => Memory!HeapTiled /\ Memory!NoneLost

\* Whatever order the tree's nodes and properties come in, the reader's memory
\* map and CPU count are the tree's, and a GENET binding takes everything from
\* one Ethernet node (fdt.rs, genet_fdt.rs).
TreeRead == scene = "tree" => Tree!ExtractIsTree /\ Tree!BindingFromOneNode

\* While the data plane is enabled every ring is programmed whole, and what a
\* call of the driver reported still holds (drivers/genet.rs).
GenetSound == EnabledComplete /\ ReportsHold

\* A receive buffer never has two owners among the device, the completions and
\* the agent, whatever tokens come back and whenever the transport is reset;
\* over GENET none is without one either while the device works (net.rs,
\* network_runtime.rs).
RxSlotOnePlace == scene = "net" => Net!RxSlotOnePlace /\ Net!RxBuffersKept

\* One device failure during start never frees the DMA pages under a running
\* engine (network_runtime.rs start).
PagesFreedQuiet == scene = "net" => Net!PagesFreedQuiet

\* A page handed to the device for transmission is not submitted again before
\* its completion (network_runtime.rs SERVICE_TX).
TxPageStable == scene = "net" => Net!TxPageStable
=============================================================================
