----------------------------- MODULE TaskStacks -----------------------------
(***************************************************************************)
(* Task stacks (mm/task_stack.rs) on the kernel heap and the kernel map.   *)
(* A spawner takes a block from the heap, then unmaps its first page; an   *)
(* exit maps the page again and gives the block back.  The heap and the    *)
(* map have a lock each, so two cores interleave between the two, and the  *)
(* other core walks the tables while a block is being split.               *)
(***************************************************************************)
EXTENDS KernelMap, Heap

CONSTANTS
    StackSlots,     \* stacks that may exist at a time
    StackClasses,   \* classes asked for, of "Full", "Thin" and "Mini"
    FULL_BYTES,     \* usable bytes of a full stack
    Boxes,          \* other allocations that may be live at a time
    BoxSizes        \* their sizes

VARIABLES
    heap,       \* HEAP: the allocator and its arena
    stacks,     \* each slot's stack: where it is in its life, its base, its kind
    boxes,      \* payload of each live other allocation, or NIL
    mapLock,    \* slot that holds MAP across a split, or NIL
    broken,     \* the split in progress: where the walk stopped, and the child
    counters    \* REFUSED_FREES, ABANDONED, and spawns an empty arena refused

stackVars == <<heap, stacks, boxes, mapLock, broken, counters>>
memoryVars == <<mapVars, stackVars>>

NoStack == [pc |-> "none", base |-> NIL, guarded |-> FALSE]
NoSplit == [table |-> 0]
HeapBase == board.heap_start
Guard(s) == HeapBase + stacks[s].base
GuardRegion(s) == [base |-> Guard(s), len |-> PAGE_SIZE, kind |-> "NormalWb",
                   perms |-> RW, name |-> "task stack guard restore"]

MemoryInit ==
    /\ MapInit
    /\ heap = NoHeap
    /\ stacks = [s \in StackSlots |-> NoStack]
    /\ boxes = [b \in Boxes |-> NIL]
    /\ mapLock = NIL
    /\ broken = NoSplit
    /\ counters = [refused |-> 0, abandoned |-> 0, starved |-> 0]

-----------------------------------------------------------------------------
(* The heap under its lock.                                                *)

InitHeap ==
    /\ boot = "running" /\ heap = NoHeap
    /\ heap' = NewHeap(MinOf(HeapEnd(board), IDENTITY_RAM_END) - HeapBase)
    /\ UNCHANGED <<mapVars, stacks, boxes, mapLock, broken, counters>>

\* mm::dealloc, with its count of refusals.
Free(payload, tally) ==
    /\ heap' = AfterDealloc(heap, payload)
    /\ counters' = [tally EXCEPT !.refused = @ + IF Refused(heap, payload) THEN 1 ELSE 0]

BoxAlloc(b, size) ==
    /\ heap # NoHeap /\ boxes[b] = NIL
    /\ Payload(heap, size, 1) # NIL
    /\ boxes' = [boxes EXCEPT ![b] = Payload(heap, size, 1)]
    /\ heap' = AfterAlloc(heap, size, 1)
    /\ UNCHANGED <<mapVars, stacks, mapLock, broken, counters>>
BoxFree(b) ==
    /\ boxes[b] # NIL
    /\ Free(boxes[b], counters)
    /\ boxes' = [boxes EXCEPT ![b] = NIL]
    /\ UNCHANGED <<mapVars, stacks, mapLock, broken>>

-----------------------------------------------------------------------------
(* TaskStack::allocate and allocate_mini.                                  *)

UsableBytes(class) == IF class = "Full" THEN FULL_BYTES ELSE PAGE_SIZE

StackBlock(s, size, pc, guarded) ==
    /\ Payload(heap, size, PAGE_SIZE) # NIL
    /\ stacks' = [stacks EXCEPT ![s] =
           [pc |-> pc, base |-> Payload(heap, size, PAGE_SIZE), guarded |-> guarded]]
    /\ heap' = AfterAlloc(heap, size, PAGE_SIZE)
    /\ UNCHANGED <<mapVars, boxes, mapLock, broken, counters>>

StackAlloc(s, usable) == StackBlock(s, usable + PAGE_SIZE, "fresh", TRUE)

\* One page, no guard to unmap: the stack is ready at once.
StackAllocMini(s) == StackBlock(s, PAGE_SIZE, "live", FALSE)

\* spawn_inner up to its stack.  A table without a free slot gives the finished
\* stack straight back: GuardRestore may follow at once.
SpawnInner(s, class) ==
    /\ heap # NoHeap /\ stacks[s].pc = "none"
    /\ IF class = "Mini" THEN StackAllocMini(s) ELSE StackAlloc(s, UsableBytes(class))

\* mmu::unmap of the guard, up to its next visible step: the page is cleared,
\* or the block over it is broken, or the call fails and the block goes back.
GuardUnmap(s) ==
    LET w == Locate(kmap, root, Guard(s))
        blockVa == AlignDown(Guard(s), EntrySize(w.level))
    IN /\ stacks[s].pc = "fresh" /\ mapLock \in {NIL, s} /\ broken = NoSplit
       /\ IF ~EnsureMapped(kmap, root, Guard(s)) \/ (w.level < 3 /\ ArenaFull(kmap))
          THEN /\ Free(stacks[s].base, [counters EXCEPT !.starved = @ + 1])
               /\ stacks' = [stacks EXCEPT ![s] = NoStack]
               /\ mapLock' = NIL
               /\ UNCHANGED <<kmap, cached, broken>>
          ELSE IF w.level = 3
          THEN /\ kmap' = ClearPage(kmap, w, Guard(s))
               /\ cached' = Invalidated(Guard(s), PAGE_SIZE, kmap', root)
               /\ stacks' = [stacks EXCEPT ![s].pc = "live"]
               /\ mapLock' = NIL
               /\ UNCHANGED <<heap, broken, counters>>
          ELSE /\ kmap' = BreakBlock(kmap, w, Guard(s))
               /\ cached' = Invalidated(blockVa, EntrySize(w.level), kmap', root)
               /\ mapLock' = s
               /\ broken' = [table |-> w.table, level |-> w.level, child |-> kmap.next]
               /\ UNCHANGED <<heap, stacks, counters>>
       /\ UNCHANGED <<board, boot, root, extra, clone, boxes>>

SplitMake(s) ==
    /\ mapLock = s /\ broken # NoSplit
    /\ kmap' = MakeTable(kmap, broken, Guard(s), broken.child)
    /\ cached' = cached \cup Mapped(kmap', root)
    /\ broken' = NoSplit
    /\ UNCHANGED <<board, boot, root, extra, clone, heap, stacks, boxes, mapLock, counters>>

-----------------------------------------------------------------------------
(* TaskStack::release.                                                     *)

GuardRestore(s) ==
    LET r == MapResult(GuardRegion(s))
    IN /\ stacks[s].pc = "live" /\ mapLock = NIL
       /\ IF stacks[s].guarded
          THEN /\ LiveMap(GuardRegion(s), r)
               /\ stacks' = [stacks EXCEPT ![s].pc = IF r.err = "Ok" THEN "restored" ELSE "lost"]
               /\ counters' = [counters EXCEPT !.abandoned = @ + IF r.err = "Ok" THEN 0 ELSE 1]
               /\ UNCHANGED <<boot, extra>>
          ELSE /\ stacks' = [stacks EXCEPT ![s].pc = "restored"]
               /\ UNCHANGED <<mapVars, counters>>
       /\ UNCHANGED <<heap, boxes, mapLock, broken>>

StackFree(s) ==
    /\ stacks[s].pc = "restored"
    /\ Free(stacks[s].base, counters)
    /\ stacks' = [stacks EXCEPT ![s] = NoStack]
    /\ UNCHANGED <<mapVars, boxes, mapLock, broken>>

-----------------------------------------------------------------------------
BootStep == (EstablishKernelMap \/ MapDeviceTree) /\ UNCHANGED stackVars
CloneStep == (CloneKernelMap \/ DropClone) /\ UNCHANGED stackVars

MemoryNext ==
    \/ BootStep
    \/ CloneStep
    \/ InitHeap
    \/ \E b \in Boxes : BoxFree(b) \/ \E size \in BoxSizes : BoxAlloc(b, size)
    \/ \E s \in StackSlots :
           \/ \E class \in StackClasses : SpawnInner(s, class)
           \/ GuardUnmap(s) \/ SplitMake(s) \/ GuardRestore(s) \/ StackFree(s)

-----------------------------------------------------------------------------
(* Properties.                                                             *)

GuardPages == {Guard(s) : s \in {t \in StackSlots : stacks[t].guarded /\ stacks[t].pc \in {"live", "lost"}}}
\* What a page should translate to, from the regions of the layout and those
\* added later and the guards of the live stacks.
AllRegions == ToSet(KernelRegions(board, HeapEnd(board))) \cup extra
Expected(p, regions) ==
    IF p \in GuardPages THEN {}
    ELSE {[pa |-> p, kind |-> r.kind, perms |-> r.perms] :
              r \in {g \in regions : g.base <= p /\ p < RegionEnd(g)}}

\* Whenever no split is under way, a page of the live map translates to
\* itself with the attributes its region asked for, and to nothing when it is
\* in no region or is the guard of a live stack: whatever blocks were split,
\* unmapped and restored before, in whatever order two cores did it.
MapMatchesLayout ==
    (boot \in {"mapped", "running"} /\ broken = NoSplit) =>
        LET regions == AllRegions
        IN \A p \in Pages : Translation(kmap, root, p) = Expected(p, regions)

\* No core can use a translation of a mapped page with attributes other than
\* the live map's: the early map's writable and executable blocks are gone
\* with the switch, and a copied or a split mapping agrees with its origin.
CachedAgrees ==
    (boot \in {"mapped", "running"} /\ broken = NoSplit) =>
        \A c \in cached : Translation(kmap, root, c[1]) \subseteq {c[2]}

\* The heap's blocks tile its arena and the free list holds exactly the free
\* ones, merged and in order; a stack and its guard lie inside their block.
HeapTiled == heap # NoHeap => Tiled(heap)

\* A free the kernel makes is never refused, no stack is abandoned because
\* its guard cannot come back, and the reserve checked at boot covers every
\* split that spawning can need.
NoneLost == counters = [refused |-> 0, abandoned |-> 0, starved |-> 0]
=============================================================================
