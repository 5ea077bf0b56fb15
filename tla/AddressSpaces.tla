--------------------------- MODULE AddressSpaces ----------------------------
(***************************************************************************)
(* User address spaces (mm/aspace.rs) over the frame pool, the ASID pool   *)
(* and the TLB.  Several tasks build, run and tear down a space each, as   *)
(* the loader's run does, and interleave at every pool lock.  The tables   *)
(* of a space are kept as the list of frames its construction asks for;    *)
(* the kernel coverage it clones is a constant.                            *)
(***************************************************************************)
EXTENDS Layout, FiniteSetsExt

CONSTANTS
    Builders,       \* tasks that own a space, numbered from 1
    Entries,        \* geometries and grants a manifest may ask for
    FRAMES,         \* frames in the pool
    FRAME_BASE,     \* physical address of the first
    ASID_COUNT,     \* ASID values, 0 included
    MAX_AS_FRAMES,  \* entries of a space's ledger
    MAX_TEXT_PAGES,
    USER_VA_BASE,
    KernelTables,   \* tables below the kernel root: <<level, first address>>
    KernelBlocks,   \* ranges the kernel root maps by blocks
    PoolPages,      \* virtual pages of the packet pool
    MAX_CREATES     \* bound on the spaces created

ASSUME SpacesAssumption ==
    /\ FRAMES \in Nat /\ ASID_COUNT \in Nat \ {0} /\ Builders \subseteq Nat \ {0}
    /\ PAGE_SIZE \in Nat \ {0} /\ FRAME_BASE \in Nat /\ PA_LIMIT \in Nat
    /\ USER_VA_BASE \in Nat
    /\ \A f \in 0..(FRAMES - 1) :    \* a descriptor can name every frame
           /\ IsAligned(FRAME_BASE + f * PAGE_SIZE, PAGE_SIZE)
           /\ FRAME_BASE + f * PAGE_SIZE < PA_LIMIT
    /\ IsFiniteSet(KernelTables) /\ PoolPages \in Seq(Nat)
    /\ \A e \in Entries : /\ e.text \in Nat /\ e.stack \in Nat /\ e.image \in Nat
                           /\ e.device \in Seq(Nat)

VARIABLES
    frames,     \* the pool's free stack, its top last
    asids,      \* the ASID pool: free tags and the scan hint
    spaces,     \* each task's space and how far its life has come
    tlb,        \* entries some TLB may hold: ASID, virtual page, descriptor
    contents,   \* what each frame holds
    lost,       \* frames taken that a full ledger could not record
    creates     \* spaces created so far

spaceVars == <<frames, asids, spaces, tlb, contents, lost, creates>>

Frames == 0..(FRAMES - 1)
KERNEL_ASID == 0
NoSpace == [pc |-> "none"]
\* Contents of a frame: a piece of a task's image, its stack, or nobody's.
ZEROES == <<0, 0>>
DIRTY == <<0, 1>>
STACK == -1
PhysOf(f) == FRAME_BASE + f * PAGE_SIZE

-----------------------------------------------------------------------------
(* What a space asks for, page by page.  A need is a frame for a page of   *)
(* the window, a frame for a table, or a mapping the walk refuses.         *)

TableAt(level, va) == <<level, AlignDown(va, EntrySize(level - 1))>>
BlockOver(va) == \E b \in KernelBlocks : b[1] <= va /\ va < b[2]
NeedKinds == {"page", "table", "bad"}

Window(entry) == [base |-> USER_VA_BASE, pages |-> entry.text + entry.stack,
                  text_pages |-> entry.text]
WindowVa(i) == USER_VA_BASE + i * PAGE_SIZE
WindowPages(entry) == [i \in 1..Window(entry).pages |-> WindowVa(i - 1)]

\* map_user_window, map_device_region, map_packet_pool: the pages in order.
Pages(entry) == WindowPages(entry) \o entry.device
                    \o (IF entry.packet_pool THEN PoolPages ELSE << >>)

\* clone_table_into: a frame for each table below the kernel root.
CloneNeeds == [i \in 1..Cardinality(KernelTables) |-> "table"]

\* map_l3_page for page n, after the pages before it: the tables still missing
\* on the way down, then the leaf.
TablesBefore(entry, n) ==
    KernelTables \cup {TableAt(l, Pages(entry)[m]) : l \in {2, 3}, m \in 1..(n - 1)}
MapNeeds(entry, n) ==
    LET va == Pages(entry)[n]
        Missing(l) == IF TableAt(l, va) \in TablesBefore(entry, n) THEN << >> ELSE <<"table">>
    IN (IF BlockOver(va) THEN <<"bad">> ELSE Missing(2) \o Missing(3))
           \o (IF \E m \in 1..(n - 1) : Pages(entry)[m] = va THEN <<"bad">> ELSE << >>)

\* A page of the window has a frame of its own first.
PageNeeds(entry, n) ==
    (IF n <= Window(entry).pages THEN <<"page">> ELSE << >>) \o MapNeeds(entry, n)

-----------------------------------------------------------------------------
(* The pools, each under its lock.                                         *)

AsidAfter(start) ==
    CHOOSE a \in asids.free :
        \A b \in asids.free : (a + ASID_COUNT - start) % ASID_COUNT
                                  <= (b + ASID_COUNT - start) % ASID_COUNT
AsidAlloc(a) == [free |-> asids.free \ {a}, next |-> (a + 1) % ASID_COUNT]
AsidFree(a) == [asids EXCEPT !.free = IF a = KERNEL_ASID THEN @ ELSE @ \cup {a}]

FrameTop == Last(frames)
\* FramePool::free refuses a frame that is not handed out.
FrameFree(f) == IF f \in Range(frames) THEN frames ELSE Append(frames, f)

SpacesInit ==
    /\ frames = [i \in 1..FRAMES |-> FRAMES - i]
    /\ asids = [free |-> 1..(ASID_COUNT - 1), next |-> 1]
    /\ spaces = [b \in Builders |-> NoSpace]
    /\ tlb = {}
    /\ contents = [f \in Frames |-> DIRTY]
    /\ lost = {}
    /\ creates = 0

-----------------------------------------------------------------------------
(* Creation: the ASID, the root, then frame by frame.                      *)

\* The refusals of AgentEntry::validate and of create_with_packet_pool come
\* before anything is taken.
Acceptable(entry) ==
    /\ entry.image <= entry.text
    /\ entry.text <= MAX_TEXT_PAGES
    /\ WindowValid(Window(entry))

Create(b, entry) ==
    /\ spaces[b] = NoSpace /\ creates < MAX_CREATES
    /\ Acceptable(entry) /\ asids.free # {}
    /\ LET a == AsidAfter(asids.next)
       IN /\ asids' = AsidAlloc(a)
          /\ spaces' = [spaces EXCEPT ![b] =
                 [pc |-> "root", asid |-> a, entry |-> entry, owned |-> << >>,
                  needs |-> CloneNeeds, mapped |-> 0, window |-> << >>, at |-> 1]]
    /\ creates' = creates + 1
    /\ UNCHANGED <<frames, tlb, contents, lost>>

CreateRoot(b) ==
    /\ spaces[b].pc = "root"
    /\ IF frames = << >>
       THEN /\ asids' = AsidFree(spaces[b].asid)
            /\ spaces' = [spaces EXCEPT ![b] = NoSpace]
            /\ UNCHANGED <<frames, contents>>
       ELSE /\ frames' = Front(frames)
            /\ contents' = [contents EXCEPT ![FrameTop] = DIRTY]
            /\ spaces' = [spaces EXCEPT ![b].pc = "build", ![b].owned = <<FrameTop>>]
            /\ UNCHANGED asids
    /\ UNCHANGED <<tlb, lost, creates>>

LedgerFull(b) == Len(spaces[b].owned) = MAX_AS_FRAMES

\* Mutant: the frame of a table is not entered in the ledger.
TakeTableUntracked(b) ==
    LET need == Head(spaces[b].needs)
    IN /\ spaces[b].pc = "build" /\ spaces[b].needs # << >> /\ need # "bad"
       /\ frames # << >> /\ ~LedgerFull(b)
       /\ frames' = Front(frames)
       /\ contents' = [contents EXCEPT ![FrameTop] =
              IF need = "page" THEN ZEROES ELSE DIRTY]
       /\ spaces' = [spaces EXCEPT
              ![b].needs = Tail(@),
              ![b].owned = IF need = "page" THEN Append(@, FrameTop) ELSE @,
              ![b].window = IF need = "page" THEN Append(@, FrameTop) ELSE @]
       /\ UNCHANGED <<asids, tlb, lost, creates>>

\* frames::alloc, track, zero, and the descriptor: the space is not installed,
\* so only the two pools are shared.
Take(b) ==
    LET need == Head(spaces[b].needs)
    IN /\ spaces[b].pc = "build" /\ spaces[b].needs # << >> /\ need # "bad"
       /\ frames # << >> /\ ~LedgerFull(b)
       /\ frames' = Front(frames)
       /\ contents' = [contents EXCEPT ![FrameTop] =
              IF need = "page" THEN ZEROES ELSE DIRTY]
       /\ spaces' = [spaces EXCEPT
              ![b].needs = Tail(@),
              ![b].owned = Append(@, FrameTop),
              ![b].window = IF need = "page" THEN Append(@, FrameTop) ELSE @]
       /\ UNCHANGED <<asids, tlb, lost, creates>>

\* The mapping loops: on to the next page, which may need no frame at all.
NextPage(b) ==
    /\ spaces[b].pc = "build" /\ spaces[b].needs = << >>
    /\ spaces[b].mapped < Len(Pages(spaces[b].entry))
    /\ spaces' = [spaces EXCEPT
           ![b].mapped = @ + 1,
           ![b].needs = PageNeeds(spaces[b].entry, spaces[b].mapped + 1)]
    /\ UNCHANGED <<frames, asids, tlb, contents, lost, creates>>

\* OutOfFrames, LedgerFull or BadTable: the caller destroys what there is.  A
\* frame the ledger refused belongs to nobody.
BuildFails(b) ==
    /\ spaces[b].pc = "build" /\ spaces[b].needs # << >>
    /\ LET bad == Head(spaces[b].needs) = "bad"
           full == ~bad /\ frames # << >> /\ LedgerFull(b)
       IN /\ bad \/ full \/ frames = << >>
          /\ frames' = IF full THEN Front(frames) ELSE frames
          /\ lost' = IF full THEN lost \cup {FrameTop} ELSE lost
    /\ spaces' = [spaces EXCEPT ![b].pc = "free"]
    /\ UNCHANGED <<asids, tlb, contents, creates>>

-----------------------------------------------------------------------------
(* The life of a space that was built.                                     *)

\* The frame that page i of the image goes to.
TextFrame(b, i) == spaces[b].window[i + 1]

PokeUser(b) ==
    LET image == spaces[b].entry.image
    IN /\ spaces[b].pc = "build" /\ spaces[b].needs = << >>
       /\ spaces[b].mapped = Len(Pages(spaces[b].entry))
       /\ BoundTextWrite(Window(spaces[b].entry), 0, image * PAGE_SIZE)
       /\ contents' = [f \in Frames |->
              IF \E i \in 0..(image - 1) : TextFrame(b, i) = f
              THEN <<b, CHOOSE i \in 0..(image - 1) : TextFrame(b, i) = f>>
              ELSE contents[f]]
       /\ spaces' = [spaces EXCEPT ![b].pc = "out"]
       /\ UNCHANGED <<frames, asids, tlb, lost, creates>>

WindowPerms(entry, i) == IF IsTextPage(Window(entry), i) THEN USER_RX ELSE USER_RW
Leaves(s) ==
    {<<WindowVa(i), Leaf(3, PhysOf(s.window[i + 1]), "NormalWb", WindowPerms(s.entry, i))>>
        : i \in 0..(Window(s.entry).pages - 1)}

\* switch_ttbr0 to the space on the way to EL0: from here the walker may cache
\* any of its pages under its tag.  No TLB entry is dropped.
Enter(b) ==
    /\ spaces[b].pc = "out"
    /\ spaces' = [spaces EXCEPT ![b].pc = "el0"]
    /\ tlb' = tlb \cup {<<spaces[b].asid, l[1], l[2]>> : l \in Leaves(spaces[b])}
    /\ UNCHANGED <<frames, asids, contents, lost, creates>>

\* The agent has written its stack when the kernel gets the core back.
StackFrames(b) ==
    {spaces[b].window[i + 1] :
        i \in spaces[b].entry.text..(Window(spaces[b].entry).pages - 1)}
Leave(b) ==
    /\ spaces[b].pc = "el0"
    /\ spaces' = [spaces EXCEPT ![b].pc = "out"]
    /\ contents' = [f \in Frames |->
           IF f \in StackFrames(b) THEN <<b, STACK>> ELSE contents[f]]
    /\ UNCHANGED <<frames, asids, tlb, lost, creates>>

-----------------------------------------------------------------------------
(* destroy and Drop.                                                       *)

Destroy(b) ==
    /\ spaces[b].pc = "out"
    /\ spaces' = [spaces EXCEPT ![b].pc = "free"]
    /\ UNCHANGED <<frames, asids, tlb, contents, lost, creates>>

FreeOwned(b) ==
    LET f == spaces[b].owned[spaces[b].at]
    IN /\ spaces[b].pc = "free" /\ spaces[b].at <= Len(spaces[b].owned)
       /\ frames' = FrameFree(f)
       /\ contents' = [contents EXCEPT ![f] = DIRTY]
       /\ spaces' = [spaces EXCEPT ![b].at = @ + 1]
       /\ UNCHANGED <<asids, tlb, lost, creates>>

\* Mutant: the ASID goes back first, and the entries it tags stay.
InvalidateNothing(b) ==
    /\ spaces[b].pc = "free" /\ spaces[b].at = Len(spaces[b].owned) + 1
    /\ spaces' = [spaces EXCEPT ![b] = [pc |-> "retire", asid |-> spaces[b].asid]]
    /\ UNCHANGED <<frames, asids, tlb, contents, lost, creates>>

InvalidateAsid(b) ==
    /\ spaces[b].pc = "free" /\ spaces[b].at = Len(spaces[b].owned) + 1
    /\ spaces' = [spaces EXCEPT ![b] = [pc |-> "retire", asid |-> spaces[b].asid]]
    /\ tlb' = {e \in tlb : e[1] # spaces[b].asid}
    /\ UNCHANGED <<frames, asids, contents, lost, creates>>

ReturnAsid(b) ==
    /\ spaces[b].pc = "retire"
    /\ asids' = AsidFree(spaces[b].asid)
    /\ spaces' = [spaces EXCEPT ![b] = NoSpace]
    /\ UNCHANGED <<frames, tlb, contents, lost, creates>>

SpacesNext ==
    \E b \in Builders :
        \/ \E entry \in Entries : Create(b, entry)
        \/ CreateRoot(b)
        \/ Take(b)
        \/ NextPage(b)
        \/ BuildFails(b)
        \/ PokeUser(b)
        \/ Enter(b)
        \/ Leave(b)
        \/ Destroy(b)
        \/ FreeOwned(b)
        \/ InvalidateAsid(b)
        \/ ReturnAsid(b)

SpacesSpec == SpacesInit /\ [][SpacesNext]_spaceVars

-----------------------------------------------------------------------------
OwnedBy(s) ==
    IF s.pc \in {"none", "retire"} THEN {} ELSE {s.owned[i] : i \in s.at..Len(s.owned)}

\* Whatever a TLB may still hold under the tag of a space that is running at
\* EL0 is that space's own mapping, with the rights its window gives the page:
\* switch_ttbr0 drops nothing, so a reused ASID is clean only because destroy
\* invalidates before it frees.
TlbHitsOwnPages ==
    \A b \in Builders : spaces[b].pc = "el0" =>
        \A e \in tlb : e[1] = spaces[b].asid =>
            \E i \in 0..(Window(spaces[b].entry).pages - 1) :
                LET d == DecodeLeaf(e[3])
                IN /\ e[2] = WindowVa(i)
                   /\ d.pa = PhysOf(spaces[b].window[i + 1])
                   /\ d.perms = WindowPerms(spaces[b].entry, i)

\* A space that runs finds its image in its text pages, piece by piece, and in
\* the rest of its window nothing but zeroes and what it wrote itself, whatever
\* frames it was given and whoever had them before (poke_user, map_user_window).
WindowIsOwn ==
    \A b \in Builders : spaces[b].pc = "el0" =>
        \A i \in 0..(Window(spaces[b].entry).pages - 1) :
            contents[spaces[b].window[i + 1]] \in
                IF i < spaces[b].entry.image THEN {<<b, i>>} ELSE {ZEROES, <<b, STACK>>}

\* Every frame is free, or in one space's ledger, or was refused by a full
\* ledger; never in two of these places and never in none, whichever step of
\* a construction failed.
FramesAccounted ==
    \A f \in Frames :
        Cardinality({i \in DOMAIN frames : frames[i] = f})
            + Cardinality({b \in Builders : f \in OwnedBy(spaces[b])})
            + Cardinality({f} \cap lost) = 1

\* A space that runs finds its image and otherwise only zeroes and what it
\* wrote, and every frame is free, in one ledger or refused by a full one,
\* whichever step of a construction failed (aspace.rs, frame.rs).
FramesKept == WindowIsOwn /\ FramesAccounted
=============================================================================
