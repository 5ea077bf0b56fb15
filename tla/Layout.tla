------------------------------- MODULE Layout -------------------------------
(***************************************************************************)
(* The kernel's memory layout (kernel-core/src/layout.rs, mm/layout.rs,    *)
(* and the part of bootstrap/mod.rs that chooses the heap's end): linker   *)
(* boundaries and device windows become a sorted list of regions to        *)
(* identity-map, or the layout is refused and the machine does not boot.   *)
(***************************************************************************)
EXTENDS Paging, SequencesExt

CONSTANTS
    HEAP_SIZE,          \* what the heap wants
    FRAME_POOL_BYTES,   \* the frame pool, whole or not at all
    IDENTITY_RAM_END    \* first address above the RAM the kernel maps

\* A board: the linker's symbols, the device windows and where the firmware
\* put the device tree.  A range is <<first, end>>; no tree is << >>.
Span(r) == r[2] - r[1]
Overlap(r, s) == r[1] < s[2] /\ s[1] < r[2]
MinOf(a, b) == IF a < b THEN a ELSE b

-----------------------------------------------------------------------------
(* Where the heap ends and the frame pool begins.                          *)

HeapEndAvoidingDeviceTree(board, desired) ==
    IF \/ board.dtb = << >>
       \/ ~Overlap(<<board.heap_start, desired + FRAME_POOL_BYTES>>, board.dtb)
    THEN desired
    ELSE AlignDown(IF board.dtb[1] < FRAME_POOL_BYTES
                   THEN 0 ELSE board.dtb[1] - FRAME_POOL_BYTES, PAGE_SIZE)

HeapEnd(board) ==
    HeapEndAvoidingDeviceTree(board, MinOf(board.heap_start + HEAP_SIZE, IDENTITY_RAM_END))

FramePoolFits(heapEnd) ==
    IsAligned(heapEnd, PAGE_SIZE) /\ heapEnd + FRAME_POOL_BYTES <= IDENTITY_RAM_END

-----------------------------------------------------------------------------
(* The regions, and the checks that refuse a layout.                       *)

Region(range, kind, perms, name) ==
    [base |-> range[1], len |-> IF range[2] > range[1] THEN Span(range) ELSE 0,
     kind |-> kind, perms |-> perms, name |-> name]
RegionEnd(r) == r.base + r.len
IsWriteExecute(r) == r.perms.write /\ r.perms.execute

\* validate_guarded_stack: the guard is a page at least, right below its stack.
GuardEffective(guard, stack) ==
    /\ guard[2] >= guard[1] + PAGE_SIZE
    /\ guard[2] = stack[1]
    /\ stack[2] > stack[1]
    /\ \A x \in {guard[1], stack[1], stack[2]} : IsAligned(x, PAGE_SIZE)

Candidates(board, heapEnd) ==
    << Region(<<board.ram_start, board.image_start>>, "NormalWb", RW, "low RAM"),
       Region(board.text, "NormalWb", RX, ".text"),
       Region(board.rodata, "NormalWb", RO, ".rodata"),
       Region(board.data, "NormalWb", RW, ".data/.bss"),
       Region(board.pagetables, "NormalWb", RW, "page tables"),
       Region(board.exception_stack, "NormalWb", RW, "exception stack"),
       Region(board.kernel_stack, "NormalWb", RW, "stack"),
       Region(<<board.heap_start, heapEnd>>, "NormalWb", RW, "heap"),
       Region(<<heapEnd, heapEnd + FRAME_POOL_BYTES>>, "NormalWb", RW, "frame pool") >>
    \o [i \in DOMAIN board.devices |-> Region(board.devices[i], "Device", RW, "device")]

\* Sorted by base, as sort_unstable_by_key leaves them.
KernelRegions(board, heapEnd) ==
    SortSeq(Candidates(board, heapEnd), LAMBDA r, s : r.base < s.base)

LayoutValid(regions, board) ==
    LET guards == {board.exception_guard, board.kernel_guard}
    IN /\ GuardEffective(board.exception_guard, board.exception_stack)
       /\ GuardEffective(board.kernel_guard, board.kernel_stack)
       /\ \A i \in DOMAIN regions :
              LET r == regions[i]
              IN /\ r.len > 0
                 /\ IsAligned(r.base, PAGE_SIZE) /\ IsAligned(r.len, PAGE_SIZE)
                 /\ ~IsWriteExecute(r)
                 /\ \A g \in guards : ~Overlap(<<r.base, RegionEnd(r)>>, g)
       /\ \A i \in 1..(Len(regions) - 1) : regions[i + 1].base >= RegionEnd(regions[i])

-----------------------------------------------------------------------------
(* The private window of an EL0 agent: text pages, then its stack.         *)

WindowValid(window) == window.text_pages > 0 /\ window.pages > window.text_pages
IsTextPage(window, index) == index < window.text_pages
BoundTextWrite(window, offset, len) == offset + len <= window.text_pages * PAGE_SIZE
=============================================================================
