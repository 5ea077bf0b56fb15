-------------------------------- MODULE Heap --------------------------------
(***************************************************************************)
(* The kernel heap: the first-fit free list of kernel-core/src/heap.rs     *)
(* behind mm::alloc and mm::dealloc (mm/mod.rs).  Offsets and sizes are    *)
(* counted in grains, and a header is one grain.  A block's header is a    *)
(* record; `back` is the word in front of a payload that names its block.  *)
(***************************************************************************)
EXTENDS Paging, FiniteSetsExt, TLC

HEADER == 1
MIN_BLOCK == HEADER + 1
NIL == -1
NoHeap == [len |-> 0, head |-> NIL, blocks |-> << >>, back |-> << >>]

NewHeap(len) ==
    IF len < MIN_BLOCK THEN NoHeap
    ELSE [len |-> len, head |-> 0, back |-> << >>,
          blocks |-> 0 :> [size |-> len, allocated |-> FALSE, next |-> NIL]]

BlockEnd(h, b) == b + h.blocks[b].size
Relink(h, prev, target) ==
    IF prev = NIL THEN [h EXCEPT !.head = target] ELSE [h EXCEPT !.blocks[prev].next = target]

\* The blocks on the free list, in list order.
FreeList(h) ==
    LET from[b \in DOMAIN h.blocks \cup {NIL}] ==
            IF b = NIL THEN << >> ELSE <<b>> \o from[h.blocks[b].next]
    IN from[h.head]

-----------------------------------------------------------------------------
(* alloc: the payload, or NIL.                                             *)

PayloadAt(b, align) == AlignUp(b + HEADER, align)
FirstFit(h, size, align) ==
    LET list == FreeList(h)
        fits == {i \in DOMAIN list : PayloadAt(list[i], align) + size <= BlockEnd(h, list[i])}
    IN IF fits = {} THEN NIL ELSE list[Min(fits)]
PrevFree(h, b) ==
    LET before == {c \in DOMAIN h.blocks : ~h.blocks[c].allocated /\ h.blocks[c].next = b}
    IN IF h.head = b \/ before = {} THEN NIL ELSE CHOOSE c \in before : TRUE

Payload(h, size, align) ==
    LET b == FirstFit(h, size, align) IN IF b = NIL THEN NIL ELSE PayloadAt(b, align)

\* Mutant: a remainder too small for a header is split off all the same.
AfterAllocAlwaysSplits(h, size, align) ==
    LET b == FirstFit(h, size, align)
        tail == PayloadAt(b, align) + size
        next == h.blocks[b].next
        split == [Relink(h, PrevFree(h, b), tail) EXCEPT
                      !.blocks = (tail :> [size |-> BlockEnd(h, b) - tail,
                                           allocated |-> FALSE, next |-> next]) @@ @]
    IN IF b = NIL THEN h
       ELSE [split EXCEPT !.blocks[b] = [size |-> tail - b, allocated |-> TRUE, next |-> NIL],
                          !.back = (PayloadAt(b, align) :> b) @@ @]

AfterAlloc(h, size, align) ==
    LET b == FirstFit(h, size, align)
        tail == PayloadAt(b, align) + size
        rest == BlockEnd(h, b) - tail
        next == h.blocks[b].next
        prev == PrevFree(h, b)
        cut == IF rest >= MIN_BLOCK
               THEN [Relink(h, prev, tail) EXCEPT
                        !.blocks = (tail :> [size |-> rest, allocated |-> FALSE, next |-> next])
                                   @@ [@ EXCEPT ![b].size = tail - b]]
               ELSE Relink(h, prev, next)
    IN IF b = NIL THEN h
       ELSE [cut EXCEPT !.back = (PayloadAt(b, align) :> b) @@ @,
                        !.blocks[b].allocated = TRUE, !.blocks[b].next = NIL]

-----------------------------------------------------------------------------
(* dealloc: refused, or linked in by address and merged with neighbours.   *)

Refused(h, payload) ==
    \/ payload \notin DOMAIN h.back
    \/ LET b == h.back[payload]
       IN \/ b \notin DOMAIN h.blocks
          \/ ~h.blocks[b].allocated
          \/ h.blocks[b].size < MIN_BLOCK
          \/ BlockEnd(h, b) > h.len
          \/ payload >= BlockEnd(h, b)

Drop(f, k) == [x \in DOMAIN f \ {k} |-> f[x]]
MergeNext(h, b) ==
    LET n == h.blocks[b].next
    IN IF n # NIL /\ BlockEnd(h, b) = n
       THEN [h EXCEPT !.blocks = Drop([@ EXCEPT ![b].size = @ + h.blocks[n].size,
                                                ![b].next = h.blocks[n].next], n)]
       ELSE h

AfterDealloc(h, payload) ==
    LET b == h.back[payload]
        before == {c \in DOMAIN h.blocks : ~h.blocks[c].allocated /\ c < b}
        prev == IF before = {} THEN NIL ELSE Max(before)
        cursor == IF prev = NIL THEN h.head ELSE h.blocks[prev].next
        linked == [Relink(h, prev, b) EXCEPT !.blocks[b].allocated = FALSE,
                                             !.blocks[b].next = cursor,
                                             !.back = Drop(@, payload)]
        forward == MergeNext(linked, b)
    IN IF Refused(h, payload) THEN h
       ELSE IF prev = NIL THEN forward ELSE MergeNext(forward, prev)

-----------------------------------------------------------------------------
(* What the allocator keeps true of its arena.                             *)

\* The blocks tile the arena, every payload lies in its own block behind the
\* header, the free list is exactly the free blocks in address order, and no
\* two free blocks touch.
Tiled(h) ==
    LET starts == DOMAIN h.blocks
        list == FreeList(h)
    IN /\ 0 \in starts
       /\ \A b \in starts :
              /\ h.blocks[b].size >= MIN_BLOCK
              /\ BlockEnd(h, b) \in starts \cup {h.len}
              /\ \A c \in starts : b < c => BlockEnd(h, b) <= c
       /\ {list[i] : i \in DOMAIN list} = {b \in starts : ~h.blocks[b].allocated}
       /\ \A i, j \in DOMAIN list : i < j => BlockEnd(h, list[i]) < list[j]
       /\ \A p \in DOMAIN h.back :
              LET b == h.back[p]
              IN h.blocks[b].allocated /\ b + HEADER <= p /\ p < BlockEnd(h, b)
=============================================================================
