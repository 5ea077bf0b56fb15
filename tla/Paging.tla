------------------------------- MODULE Paging -------------------------------
(***************************************************************************)
(* The stage-1 translation encodings of kernel-core/src/paging.rs.  A      *)
(* descriptor is a record of the fields the kernel writes; what the walker *)
(* makes of an entry is decided by its two low bits and the level, as in   *)
(* the source.  Addresses are counted in heap grains, so that a page holds *)
(* a few of them and an unaligned address can be expressed.                *)
(***************************************************************************)
EXTENDS Integers, Sequences, FiniteSets

CONSTANTS
    PAGE_SIZE,          \* grains in a page
    ENTRIES_PER_TABLE,  \* entries in a table, at every level
    PA_LIMIT,           \* first address that does not fit a descriptor
    TLBI_PAGE_LIMIT     \* pages above which the whole TLB is dropped

Levels == 1..3
EntrySize(level) ==
    CASE level = 1 -> PAGE_SIZE * ENTRIES_PER_TABLE * ENTRIES_PER_TABLE
      [] level = 2 -> PAGE_SIZE * ENTRIES_PER_TABLE
      [] level = 3 -> PAGE_SIZE
Index(level, va) == (va \div EntrySize(level)) % ENTRIES_PER_TABLE
IsAligned(x, n) == x % n = 0
AlignDown(x, n) == n * (x \div n)
AlignUp(x, n) == AlignDown(x + n - 1, n)
AddressSpan == EntrySize(1) * ENTRIES_PER_TABLE

RW == [write |-> TRUE, execute |-> FALSE, user |-> FALSE]
RX == [write |-> FALSE, execute |-> TRUE, user |-> FALSE]
RO == [write |-> FALSE, execute |-> FALSE, user |-> FALSE]
USER_RW == [write |-> TRUE, execute |-> FALSE, user |-> TRUE]
USER_RX == [write |-> FALSE, execute |-> TRUE, user |-> TRUE]

-----------------------------------------------------------------------------
(* Descriptors.                                                            *)

DESC_BLOCK == 1
DESC_TABLE == 3
DESC_PAGE == 3
Zero == [type |-> 0]                \* the all-zero entry
Unencodable == [type |-> -1]        \* None of table_descriptor and leaf

TableDescriptor(pa) ==
    IF ~IsAligned(pa, PAGE_SIZE) \/ pa >= PA_LIMIT
    THEN Unencodable
    ELSE [type |-> DESC_TABLE, pa |-> pa]

\* AP[2:1]: read-only is bit 1, EL0 access is bit 0.
AccessBits(perms) == (IF perms.write THEN 0 ELSE 2) + (IF perms.user THEN 1 ELSE 0)

Leaf(level, pa, kind, perms) ==
    IF ~IsAligned(pa, EntrySize(level)) \/ pa >= PA_LIMIT
    THEN Unencodable
    ELSE [type |-> IF level = 3 THEN DESC_PAGE ELSE DESC_BLOCK,
          pa |-> pa,
          kind |-> kind,
          ap |-> AccessBits(perms),
          uxn |-> ~(perms.execute /\ perms.user),
          pxn |-> ~perms.execute \/ perms.user,
          ng |-> perms.user]

IsInvalid(entry) == entry.type = 0
IsTable(entry, level) == level \in {1, 2} /\ entry.type = DESC_TABLE
IsLeaf(entry, level) == entry.type = IF level = 3 THEN DESC_PAGE ELSE DESC_BLOCK
DescriptorAddress(entry) == entry.pa

\* decode_leaf, for an entry that is a leaf at its level.
DecodeLeaf(entry) ==
    LET user == entry.ap \in {1, 3}
    IN [pa |-> entry.pa,
        kind |-> entry.kind,
        perms |-> [write |-> entry.ap \in {0, 1},
                   execute |-> IF user THEN ~entry.uxn ELSE ~entry.pxn,
                   user |-> user]]

-----------------------------------------------------------------------------
(* Splitting a request into the largest naturally aligned chunks, and the  *)
(* TLB maintenance a change needs.                                         *)

Chunkable(va, pa, len) == \A x \in {va, pa, len} : IsAligned(x, PAGE_SIZE)

\* The level of the next chunk: the coarsest that fits.
ChunkLevel(va, pa, remaining) ==
    CHOOSE l \in Levels :
        LET Fits(k) == /\ IsAligned(va, EntrySize(k))
                       /\ IsAligned(pa, EntrySize(k))
                       /\ remaining >= EntrySize(k)
        IN (Fits(l) \/ l = 3) /\ \A k \in 1..(l - 1) : ~Fits(k)

Chunks(va, pa, len) ==
    LET from[remaining \in 0..len] ==
            IF remaining = 0
            THEN << >>
            ELSE LET done == len - remaining
                     l == ChunkLevel(va + done, pa + done, remaining)
                 IN <<[level |-> l, va |-> va + done, pa |-> pa + done]>>
                        \o from[remaining - EntrySize(l)]
    IN from[len]

\* tlbi_plan with the operations it stands for: the pages whose cached
\* translations go, or every one of them.
TlbiDrops(va, len, page) ==
    \/ ~IsAligned(va, PAGE_SIZE) \/ ~IsAligned(len, PAGE_SIZE) \/ len = 0
    \/ len \div PAGE_SIZE > TLBI_PAGE_LIMIT
    \/ page \in {va + i * PAGE_SIZE : i \in 0..(len \div PAGE_SIZE - 1)}
=============================================================================
