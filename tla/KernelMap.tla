------------------------------ MODULE KernelMap ------------------------------
(***************************************************************************)
(* The kernel's identity map (arch/aarch64/mmu.rs) and the part of the     *)
(* boot that builds it (bootstrap/mod.rs): translation tables in a bump    *)
(* arena, regions mapped as chunks, blocks split when a page inside them   *)
(* is unmapped.                                                            *)
(*                                                                         *)
(* A table is named by its address.  `cached` is every translation the     *)
(* TLBs may hold: the walkers of both cores may cache whatever an          *)
(* installed root maps, at any time, and only a TLB invalidation takes it  *)
(* away.  `clone` is what the root of a prepared address space maps; it is *)
(* a copy (aspace.rs), so later changes of the kernel map pass it by.      *)
(***************************************************************************)
EXTENDS Layout, FiniteSetsExt

CONSTANTS
    Boards,             \* the boards a boot may meet
    MIN_SPARE_TABLES    \* tables that must be left when the boot is done

VARIABLES
    board,      \* the board of this boot
    boot,       \* "early", "mapped", "running" or "refused"
    kmap,       \* the arena: tables, the next free one, blocks split
    root,       \* address of the root table, 0 before activate
    extra,      \* regions added to the live map by mmu::map
    cached,     \* <<page, leaf>> pairs a TLB may hold
    clone       \* <<page, leaf>> pairs mapped by a prepared address space

mapVars == <<board, boot, kmap, root, extra, cached, clone>>

-----------------------------------------------------------------------------
(* Tables and walks.                                                       *)

Pages == {PAGE_SIZE * i : i \in 0..(AddressSpan \div PAGE_SIZE - 1)}
EmptyTable == [i \in 0..(ENTRIES_PER_TABLE - 1) |-> Zero]

ArenaInit(b) == [tables |-> << >>, next |-> b.pagetables[1], end |-> b.pagetables[2], splits |-> 0]
ArenaFull(m) == m.next + PAGE_SIZE > m.end
AllocTable(m) == [m EXCEPT !.next = @ + PAGE_SIZE, !.tables = (m.next :> EmptyTable) @@ @]
TablesFree(m) == (m.end - m.next) \div PAGE_SIZE

\* Where a walk from table r stops: the table, the level and the entry.
Below(m, table, l, va) ==
    LET e == m.tables[table][Index(l, va)]
    IN IF IsTable(e, l) THEN DescriptorAddress(e) ELSE 0
Locate(m, r, va) ==
    LET second == Below(m, r, 1, va)
        third == IF second = 0 THEN 0 ELSE Below(m, second, 2, va)
        at == <<r, second, third>>
        stop == IF third # 0 THEN 3 ELSE IF second # 0 THEN 2 ELSE 1
    IN [table |-> at[stop], level |-> stop, entry |-> m.tables[at[stop]][Index(stop, va)]]

EnsureMapped(m, r, va) ==
    LET w == Locate(m, r, va) IN va < AddressSpan /\ IsLeaf(w.entry, w.level)

\* What the walker makes of a page: the leaf over it, or nothing.
Translation(m, r, page) ==
    LET w == Locate(m, r, page)
    IN IF IsLeaf(w.entry, w.level)
       THEN {[DecodeLeaf(w.entry) EXCEPT !.pa = @ + page - AlignDown(page, EntrySize(w.level))]}
       ELSE {}
Mapped(m, r) == UNION {{p} \X Translation(m, r, p) : p \in Pages}

-----------------------------------------------------------------------------
(* Mapping a region: chunk by chunk, tables made on the way down.          *)

Descend(s, l, va) ==
    LET e == s.m.tables[s.table][Index(l, va)]
    IN CASE s.err # "Ok" -> s
         [] s.err = "Ok" /\ IsInvalid(e) ->
                IF ArenaFull(s.m)
                THEN [s EXCEPT !.err = "OutOfTables"]
                ELSE [s EXCEPT !.table = s.m.next,
                               !.m = [AllocTable(s.m) EXCEPT
                                   !.tables[s.table][Index(l, va)] = TableDescriptor(s.m.next)]]
         [] s.err = "Ok" /\ IsTable(e, l) -> [s EXCEPT !.table = DescriptorAddress(e)]
         [] OTHER -> [s EXCEPT !.err = "BlockAlreadyMapped"]

MapChunk(s, r, chunk, region) ==
    LET d == FoldLeft(LAMBDA a, l : Descend(a, l, chunk.va),
                      [s EXCEPT !.table = r], [l \in 1..(chunk.level - 1) |-> l])
        i == Index(chunk.level, chunk.va)
        leaf == Leaf(chunk.level, chunk.pa, region.kind, region.perms)
    IN CASE s.err # "Ok" -> s
         [] s.err = "Ok" /\ chunk.va >= AddressSpan -> [s EXCEPT !.err = "OutOfRange"]
         [] OTHER ->
                IF d.err # "Ok" THEN d
                ELSE IF ~IsInvalid(d.m.tables[d.table][i])
                THEN [d EXCEPT !.err = "AlreadyMapped"]
                ELSE IF leaf = Unencodable
                THEN [d EXCEPT !.err = "BadDescriptor"]
                ELSE [d EXCEPT !.m.tables[d.table][i] = leaf]

MapRegion(s, r, region) ==
    IF s.err # "Ok" THEN s
    ELSE IF ~Chunkable(region.base, region.base, region.len)
    THEN [s EXCEPT !.err = "Unaligned"]
    ELSE FoldLeft(LAMBDA a, c : MapChunk(a, r, c, region), s,
                  Chunks(region.base, region.base, region.len))

-----------------------------------------------------------------------------
(* Unmapping a page, splitting the blocks that cover it.                   *)

\* The table that replaces a split block: the same memory, the same attributes.
ChildLeaves(w) ==
    LET block == DecodeLeaf(w.entry)
    IN [i \in 0..(ENTRIES_PER_TABLE - 1) |->
           Leaf(w.level + 1, block.pa + i * EntrySize(w.level + 1), block.kind, block.perms)]

\* split_block up to the break: the child is built, the block is gone.
BreakBlock(m, w, va) ==
    [m EXCEPT !.tables = (m.next :> ChildLeaves(w))
                          @@ [@ EXCEPT ![w.table][Index(w.level, va)] = Zero],
              !.next = @ + PAGE_SIZE,
              !.splits = @ + 1]
\* ... and the make: the child takes the block's place.
MakeTable(m, w, va, child) ==
    [m EXCEPT !.tables[w.table][Index(w.level, va)] = TableDescriptor(child)]
ClearPage(m, w, va) == [m EXCEPT !.tables[w.table][Index(3, va)] = Zero]

\* The TLBs after a change of [va, va + len) was published: what the plan
\* drops is gone, what an installed root maps may be back at once.
Invalidated(va, len, m, r) ==
    {c \in cached : ~TlbiDrops(va, len, c[1])} \cup Mapped(m, r) \cup clone

-----------------------------------------------------------------------------
(* The boot.                                                               *)

\* The early map's level-1 blocks: those with a device in them are device
\* memory, the others normal memory, writable and executable.
EarlyDevice(page) ==
    \E d \in ToSet(board.devices) : d[1] \div EntrySize(1) = page \div EntrySize(1)
EarlyLeaf(page) ==
    IF EarlyDevice(page)
    THEN [pa |-> page, kind |-> "Device", perms |-> RW]
    ELSE [pa |-> page, kind |-> "NormalWb",
          perms |-> [write |-> TRUE, execute |-> TRUE, user |-> FALSE]]

MapInit ==
    /\ board \in Boards
    /\ boot = "early"
    /\ kmap = ArenaInit(board)
    /\ root = 0
    /\ extra = {}
    /\ cached = {<<p, EarlyLeaf(p)>> : p \in Pages}
    /\ clone = {}

\* Mutant: what the early map left in the TLBs is not dropped.
RetireNothing(m, r) == cached \cup Mapped(m, r)
RetireEarlyMap(m, r) == Mapped(m, r)

\* activate with everything establish_kernel_map does before and after it.
EstablishKernelMap ==
    LET end == HeapEnd(board)
        regions == KernelRegions(board, end)
        r == kmap.next
        s == FoldLeft(LAMBDA a, g : MapRegion(a, r, g),
                      [m |-> AllocTable(kmap), table |-> r, err |-> "Ok"], regions)
        ok == FramePoolFits(end) /\ LayoutValid(regions, board) /\ ~ArenaFull(kmap) /\ s.err = "Ok"
    IN /\ boot = "early"
       /\ boot' = IF ok THEN "mapped" ELSE "refused"
       /\ kmap' = IF ok THEN s.m ELSE kmap
       /\ root' = IF ok THEN r ELSE 0
       /\ cached' = IF ok THEN RetireEarlyMap(s.m, r) ELSE cached
       /\ UNCHANGED <<board, extra, clone>>

\* mmu::map of one region on the live map, for whoever holds the MAP lock.
LiveMap(region, s) ==
    /\ kmap' = s.m
    /\ cached' = IF s.err = "Ok" THEN Invalidated(region.base, region.len, s.m, root)
                 ELSE cached \cup Mapped(s.m, root)
    /\ UNCHANGED <<board, root, clone>>
MapResult(region) == MapRegion([m |-> kmap, table |-> root, err |-> "Ok"], root, region)

\* assert_table_reserve: enough tables are left for every split to come.
TableReserve(m) == TablesFree(m) >= MIN_SPARE_TABLES

\* map_dtb_and_discover, then assert_table_reserve.
MapDeviceTree ==
    LET region == Region(board.dtb, "NormalWb", RO, "device tree")
        s == MapResult(region)
    IN /\ boot = "mapped"
       /\ IF board.dtb = << >>
          THEN UNCHANGED <<board, kmap, root, extra, cached, clone>>
          ELSE /\ LiveMap(region, s)
               /\ extra' = IF s.err = "Ok" THEN {region} ELSE {}
       /\ boot' = IF TableReserve(kmap') THEN "running" ELSE "refused"

\* prepare_for_el0 copies the kernel's leaves; the space may be on a core
\* from then on, so the TLBs may hold what it maps.
CloneKernelMap ==
    /\ boot = "running" /\ clone = {}
    /\ clone' = Mapped(kmap, root)
    /\ cached' = cached \cup clone'
    /\ UNCHANGED <<board, boot, kmap, root, extra>>
DropClone ==
    /\ clone # {}
    /\ clone' = {}
    /\ UNCHANGED <<board, boot, kmap, root, extra, cached>>

=============================================================================
