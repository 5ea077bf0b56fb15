----------------------------- MODULE SpacesProof -----------------------------
(***************************************************************************)
(* Proofs about user address spaces: whatever frames, tags and cached      *)
(* translations pass from one space to the next, each finds only its own.  *)
(***************************************************************************)
EXTENDS AddressSpaces, FiniteSetTheorems, SequenceTheorems, TLAPS

-----------------------------------------------------------------------------
(* The inductive invariant.                                                *)

Live == {"root", "build", "out", "el0", "free"}
Tags == 1..(ASID_COUNT - 1)

\* What a task's record of its space may be, by how far its life has come.
LiveSpace ==
    [pc : Live, asid : Tags, entry : Entries, owned : Seq(Frames), needs : Seq(NeedKinds),
     mapped : Nat, window : Seq(Frames), at : Nat \ {0}]
RetiredSpace == [pc : {"retire"}, asid : Tags]

SpaceTyped(b) ==
    spaces[b] = NoSpace \/ spaces[b] \in RetiredSpace \/ spaces[b] \in LiveSpace

SpacesTyped ==
    /\ frames \in Seq(Frames) /\ lost \subseteq Frames
    /\ asids \in [free : SUBSET Tags, next : Nat]
    /\ spaces = [b \in Builders |-> spaces[b]] /\ \A b \in Builders : SpaceTyped(b)
    /\ contents \in [Frames -> Nat \X Int]

Injective(s) == \A i, j \in DOMAIN s : s[i] = s[j] => i = j
Pooled(f) == \E i \in DOMAIN frames : frames[i] = f

\* A frame has one place: the pool, one ledger, or none that is known.
OnePlace ==
    /\ Injective(frames)
    /\ \A f \in Frames : Pooled(f) \/ f \in lost \/ \E b \in Builders : f \in OwnedBy(spaces[b])
    /\ \A f \in Frames : ~(Pooled(f) /\ f \in lost)
    /\ \A b \in Builders : \A f \in OwnedBy(spaces[b]) : ~Pooled(f) /\ f \notin lost
    /\ \A b, c \in Builders : \A f \in OwnedBy(spaces[b]) \cap OwnedBy(spaces[c]) : b = c

\* The pages of the window taken so far, and whether the next need is one.
WindowSoFar(s) ==
    LET next == IF s.needs # << >> /\ s.needs[1] = "page" THEN 1 ELSE 0
    IN /\ s.mapped \in 0..Len(Pages(s.entry))
       /\ \A i \in 2..Len(s.needs) : s.needs[i] # "page"
       /\ next = 1 => s.mapped \in 1..Window(s.entry).pages
       /\ Len(s.window) = MinOf(s.mapped, Window(s.entry).pages) - next

\* What a live space's record says of itself.
Sound(s) ==
    /\ Acceptable(s.entry)
    /\ s.at <= Len(s.owned) + 1 /\ (s.pc # "free" => s.at = 1)
    /\ Injective(s.owned) /\ Injective(s.window)
    /\ \A k \in DOMAIN s.window : \E i \in DOMAIN s.owned : s.owned[i] = s.window[k]
    /\ s.pc = "root" => s.owned = << >> /\ s.window = << >>
    /\ s.pc \in {"root", "build"} => WindowSoFar(s)
    /\ s.pc \in {"out", "el0"} => Len(s.window) = Window(s.entry).pages
SpaceSound(b) == spaces[b].pc \in Live => Sound(spaces[b])

\* What the pages of b's window hold.
Expected(b, k) == IF k - 1 < spaces[b].entry.image THEN {<<b, k - 1>>} ELSE {ZEROES, <<b, STACK>>}
WindowHolds(b) ==
    /\ spaces[b].pc = "build" =>
           \A k \in DOMAIN spaces[b].window : contents[spaces[b].window[k]] = ZEROES
    /\ spaces[b].pc \in {"out", "el0"} =>
           \A k \in DOMAIN spaces[b].window : contents[spaces[b].window[k]] \in Expected(b, k)

\* A tag is free or names one space.
TagsApart ==
    /\ \A b \in Builders : spaces[b].pc # "none" => spaces[b].asid \notin asids.free
    /\ \A b, c \in Builders :
           spaces[b].pc # "none" /\ spaces[c].pc # "none" /\ spaces[b].asid = spaces[c].asid => b = c

\* A cached entry is a page of a space that was entered and is not yet retired.
CachedFor(e, b) ==
    /\ spaces[b].pc \in {"out", "el0", "free"}
    /\ e[1] = spaces[b].asid /\ <<e[2], e[3]>> \in Leaves(spaces[b])
TlbOwned == \A e \in tlb : \E b \in Builders : CachedFor(e, b)

SpacesInv ==
    /\ SpacesTyped /\ OnePlace /\ TagsApart /\ TlbOwned
    /\ \A b \in Builders : SpaceSound(b) /\ WindowHolds(b)

-----------------------------------------------------------------------------
(* Numbers and sequences.                                                  *)

\* A set of naturals with an element has a least one.
LEMMA LeastExists ==
  ASSUME NEW T, T \subseteq Nat, T # {}
  PROVE  \E x \in T : \A y \in T : x <= y
<1>1. PICK x \in T : \A y \in T : ~(<<y, x>> \in OpToRel(<, Nat))
  BY WFMin, NatLessThanWellFounded, Zenon
<1>2. \A y \in T : ~(y < x)
  BY <1>1, Zenon DEF OpToRel
<1> QED BY <1>2

\* The scan for a tag finds a free one when there is one (asid.rs alloc).
LEMMA AsidAfterFree ==
  ASSUME asids.free \subseteq Tags, asids.free # {}, NEW start \in Nat
  PROVE  AsidAfter(start) \in asids.free
<1> DEFINE D(a) == (a + ASID_COUNT - start) % ASID_COUNT
           T == {D(a) : a \in asids.free}
<1>1. \A a \in asids.free : D(a) \in Nat
  BY SpacesAssumption DEF Tags
<1>2. T \subseteq Nat /\ T # {}
  BY <1>1, Zenon
<1> HIDE DEF D
<1>3. PICK x \in T : \A y \in T : x <= y
  BY <1>2, LeastExists, Zenon
<1>4. \E a \in asids.free : \A b \in asids.free : D(a) <= D(b)
  BY <1>3, Zenon
<1> QED BY <1>4, Zenon DEF AsidAfter, D

\* Front takes the last element away and keeps the rest in place.
LEMMA FrontFacts ==
  ASSUME NEW S, NEW s \in Seq(S), s # << >>
  PROVE  /\ Front(s) \in Seq(S) /\ Len(Front(s)) = Len(s) - 1
         /\ Len(s) \in Nat \ {0} /\ Last(s) = s[Len(s)] /\ Last(s) \in S
         /\ \A i \in 1..(Len(s) - 1) : Front(s)[i] = s[i]
<1>1. Len(s) \in Nat \ {0}
  OBVIOUS
<1> DEFINE n == Len(s) - 1
<1>2. n \in Int /\ 1 \in Int /\ \A i \in 1..n : s[i] \in S
  BY <1>1
<1>3. /\ SubSeq(s, 1, n) \in Seq(S) /\ Len(SubSeq(s, 1, n)) = IF 1 <= n THEN n - 1 + 1 ELSE 0
      /\ \A i \in 1..(n - 1 + 1) : SubSeq(s, 1, n)[i] = s[1 + i - 1]
  <2> HIDE DEF n
  <2> QED BY <1>2, SubSeqProperties
<1>4. n \in Nat /\ \A i \in 1..n : i \in 1..(n - 1 + 1) /\ 1 + i - 1 = i
  BY <1>1
<1>5. Len(SubSeq(s, 1, n)) = n /\ \A i \in 1..n : SubSeq(s, 1, n)[i] = s[i]
  <2> DEFINE t == SubSeq(s, 1, n)
  <2>1. Len(t) = (IF 1 <= n THEN n - 1 + 1 ELSE 0) /\ \A i \in 1..(n - 1 + 1) : t[i] = s[1 + i - 1]
    BY <1>3, Zenon
  <2> HIDE DEF n, t
  <2>2. Len(t) = n /\ \A i \in 1..n : t[i] = s[i]
    BY <1>4, <2>1
  <2> QED BY <2>2, Zenon DEF t
<1> QED BY <1>1, <1>3, <1>5 DEF Front, Last

-----------------------------------------------------------------------------
(* Every frame keeps one place.                                            *)

\* No frame moves.
LEMMA PlacesStay ==
  ASSUME OnePlace, frames' = frames, lost' = lost,
         \A c \in Builders : OwnedBy(spaces'[c]) = OwnedBy(spaces[c])
  PROVE  OnePlace'
BY Zenon DEF OnePlace, Pooled, Injective

\* The top of the pool goes to b's ledger, or to nobody.
LEMMA PlaceTaken ==
  ASSUME OnePlace, frames \in Seq(Frames), frames # << >>, frames' = Front(frames),
         NEW b \in Builders,
         \A c \in Builders : c # b => OwnedBy(spaces'[c]) = OwnedBy(spaces[c]),
         \/ lost' = lost /\ OwnedBy(spaces'[b]) = OwnedBy(spaces[b]) \cup {FrameTop}
         \/ lost' = lost \cup {FrameTop} /\ OwnedBy(spaces'[b]) = OwnedBy(spaces[b])
  PROVE  OnePlace'
<1>1. /\ frames' \in Seq(Frames) /\ Len(frames') = Len(frames) - 1 /\ Len(frames) \in Nat \ {0}
      /\ FrameTop = frames[Len(frames)] /\ FrameTop \in Frames
      /\ \A i \in 1..(Len(frames) - 1) : frames'[i] = frames[i]
  BY FrontFacts, Zenon DEF FrameTop
<1>2. Injective(frames) /\ Pooled(FrameTop)
  BY <1>1 DEF OnePlace, Pooled
<1>3. Injective(frames')
  BY <1>1, <1>2 DEF Injective
<1>4. \A f \in Frames : Pooled(f)' <=> Pooled(f) /\ f # FrameTop
  BY <1>1, <1>2 DEF Injective, Pooled
<1> HIDE DEF FrameTop, Pooled
<1>5. /\ FrameTop \notin lost
      /\ \A c \in Builders : FrameTop \notin OwnedBy(spaces[c])
  BY <1>1, <1>2, Zenon DEF OnePlace
<1>6. \A f \in Frames : Pooled(f)' \/ f \in lost' \/ \E c \in Builders : f \in OwnedBy(spaces'[c])
  <2> SUFFICES ASSUME NEW f \in Frames
               PROVE Pooled(f)' \/ f \in lost' \/ \E c \in Builders : f \in OwnedBy(spaces'[c])
    BY Zenon
  <2>1. CASE f = FrameTop
    BY <2>1, Zenon
  <2>2. CASE f # FrameTop
    BY <2>2, <1>4, Zenon DEF OnePlace
  <2> QED BY <2>1, <2>2, Zenon
<1>7. \A f \in Frames : ~(Pooled(f)' /\ f \in lost')
  BY <1>4, Zenon DEF OnePlace
<1>8. \A c \in Builders : \A f \in OwnedBy(spaces'[c]) : ~Pooled(f)' /\ f \notin lost'
  <2> SUFFICES ASSUME NEW c \in Builders, NEW f \in OwnedBy(spaces'[c])
               PROVE ~Pooled(f)' /\ f \notin lost'
    BY Zenon
  <2>1. CASE f = FrameTop
    BY <2>1, <1>1, <1>4, <1>5, Zenon
  <2>2. CASE f # FrameTop
    <3>1. ~Pooled(f) /\ f \notin lost
      BY <2>2, Zenon DEF OnePlace
    <3> QED BY <2>2, <3>1, <1>1 DEF Pooled
  <2> QED BY <2>1, <2>2, Zenon
<1>9. \A c, d \in Builders : \A f \in OwnedBy(spaces'[c]) \cap OwnedBy(spaces'[d]) : c = d
  BY <1>5 DEF OnePlace
<1> QED BY <1>3, <1>6, <1>7, <1>8, <1>9, Zenon DEF OnePlace

\* A frame goes back from b's ledger to the pool.
LEMMA PlaceGiven ==
  ASSUME OnePlace, frames \in Seq(Frames), NEW b \in Builders, NEW f \in Frames,
         f \in OwnedBy(spaces[b]), frames' = Append(frames, f), lost' = lost,
         \A c \in Builders : c # b => OwnedBy(spaces'[c]) = OwnedBy(spaces[c]),
         OwnedBy(spaces'[b]) = OwnedBy(spaces[b]) \ {f}
  PROVE  OnePlace'
<1>1. /\ frames' \in Seq(Frames) /\ Len(frames') = Len(frames) + 1 /\ Len(frames) \in Nat
      /\ frames'[Len(frames) + 1] = f
      /\ \A i \in 1..Len(frames) : frames'[i] = frames[i]
  OBVIOUS
<1>2. Injective(frames) /\ ~Pooled(f) /\ f \notin lost
  BY Zenon DEF OnePlace
<1>3. Injective(frames')
  BY <1>1, <1>2 DEF Injective, Pooled
<1>4. \A g \in Frames : Pooled(g)' <=> Pooled(g) \/ g = f
  BY <1>1 DEF Pooled
<1> HIDE DEF Pooled
<1>6. \A g \in Frames : Pooled(g)' \/ g \in lost' \/ \E c \in Builders : g \in OwnedBy(spaces'[c])
  <2> SUFFICES ASSUME NEW g \in Frames
               PROVE Pooled(g)' \/ g \in lost' \/ \E c \in Builders : g \in OwnedBy(spaces'[c])
    BY Zenon
  <2>1. CASE g = f
    BY <2>1, <1>4, Zenon
  <2>2. CASE g # f
    BY <2>2, <1>4, Zenon DEF OnePlace
  <2> QED BY <2>1, <2>2, Zenon
<1>7. \A g \in Frames : ~(Pooled(g)' /\ g \in lost')
  BY <1>2, <1>4, Zenon DEF OnePlace
<1>8. \A c \in Builders : \A g \in OwnedBy(spaces'[c]) : ~Pooled(g)' /\ g \notin lost'
  <2> SUFFICES ASSUME NEW c \in Builders, NEW g \in OwnedBy(spaces'[c])
               PROVE ~Pooled(g)' /\ g \notin lost'
    BY Zenon
  <2>1. g \in OwnedBy(spaces[c]) /\ g # f
    BY DEF OnePlace
  <2>2. ~Pooled(g) /\ g \notin lost
    BY <2>1, Zenon DEF OnePlace
  <2> QED BY <2>1, <2>2, <1>1 DEF Pooled
<1>9. \A c, d \in Builders : \A g \in OwnedBy(spaces'[c]) \cap OwnedBy(spaces'[d]) : c = d
  BY Zenon DEF OnePlace
<1> QED BY <1>3, <1>6, <1>7, <1>8, <1>9, Zenon DEF OnePlace

-----------------------------------------------------------------------------
(* One space changes at a time.                                            *)

Running == {"out", "el0"}

\* The place in its life tells what a task's record is.
LEMMA RecordByPc ==
  ASSUME NEW b \in Builders, SpaceTyped(b)
  PROVE  /\ spaces[b].pc = "none" <=> spaces[b] = NoSpace
         /\ spaces[b].pc = "retire" => spaces[b] \in RetiredSpace
         /\ spaces[b].pc \in Live => spaces[b] \in LiveSpace
         /\ spaces[b].pc \in Live \cup {"none", "retire"}
BY DEF SpaceTyped, NoSpace, RetiredSpace, LiveSpace, Live

\* A step on b's record leaves the others typed and sound.
LEMMA RecordsStay ==
  ASSUME SpacesInv, NEW b \in Builders, NEW s, spaces' = [spaces EXCEPT ![b] = s],
         s = NoSpace \/ s \in RetiredSpace \/ s \in LiveSpace,
         s.pc \in Live => Sound(s)
  PROVE  /\ spaces' = [c \in Builders |-> spaces'[c]] /\ spaces'[b] = s
         /\ \A c \in Builders : c # b => spaces'[c] = spaces[c]
         /\ \A c \in Builders : SpaceTyped(c)' /\ SpaceSound(c)'
<1>1. spaces = [c \in Builders |-> spaces[c]]
  BY Zenon DEF SpacesInv, SpacesTyped
<1>2. /\ spaces' = [c \in Builders |-> spaces'[c]] /\ spaces'[b] = s
      /\ \A c \in Builders : c # b => spaces'[c] = spaces[c]
  BY <1>1, Zenon
<1>3. ASSUME NEW c \in Builders PROVE SpaceTyped(c)' /\ SpaceSound(c)'
  <2>1. SpaceTyped(c) /\ SpaceSound(c)
    BY Zenon DEF SpacesInv, SpacesTyped
  <2>2. CASE c = b
    BY <2>2, <1>2, Zenon DEF SpaceTyped, SpaceSound
  <2>3. CASE c # b
    <3>1. spaces'[c] = spaces[c]
      BY <2>3, <1>2, Zenon
    <3> QED BY <3>1, <2>1, Zenon DEF SpaceTyped, SpaceSound
  <2> QED BY <2>2, <2>3, Zenon
<1> QED BY <1>2, <1>3, Zenon

\* A window's frames are in its space's ledger.
LEMMA WindowOwned ==
  ASSUME SpacesInv, NEW c \in Builders, spaces[c].pc \in {"build"} \cup Running,
         NEW k \in DOMAIN spaces[c].window
  PROVE  spaces[c].window[k] \in OwnedBy(spaces[c]) /\ spaces[c].window[k] \in Frames
<1>1. spaces[c] \in LiveSpace /\ Sound(spaces[c])
  BY RecordByPc, Zenon DEF SpacesInv, SpacesTyped, SpaceSound, Live, Running
<1>2. PICK i \in DOMAIN spaces[c].owned : spaces[c].owned[i] = spaces[c].window[k]
  BY <1>1, Zenon DEF Sound
<1>3. spaces[c].at = 1 /\ spaces[c].owned \in Seq(Frames) /\ spaces[c].window \in Seq(Frames)
  BY <1>1, Zenon DEF Sound, Running, LiveSpace
<1>4. i \in spaces[c].at..Len(spaces[c].owned)
  BY <1>2, <1>3
<1>5. spaces[c].pc \notin {"none", "retire"}
  BY Zenon DEF Running
<1> QED BY <1>2, <1>3, <1>4, <1>5 DEF OwnedBy

\* What is written outside a space's ledger does not show in its window.
LEMMA WindowKept ==
  ASSUME SpacesInv, NEW c \in Builders, spaces'[c] = spaces[c],
         \A f \in OwnedBy(spaces[c]) : contents'[f] = contents[f]
  PROVE  WindowHolds(c)'
<1>1. WindowHolds(c)
  BY Zenon DEF SpacesInv
<1>2. spaces[c].pc \in {"build"} \cup Running =>
          \A k \in DOMAIN spaces[c].window : contents'[spaces[c].window[k]] = contents[spaces[c].window[k]]
  BY WindowOwned, Zenon
<1> QED BY <1>1, <1>2, Zenon DEF WindowHolds, Running, Expected

\* The tag goes with the space.
LEMMA TagsStay ==
  ASSUME TagsApart, asids' = asids, NEW b \in Builders, spaces[b].pc # "none",
         spaces'[b].asid = spaces[b].asid,
         \A c \in Builders : c # b => spaces'[c] = spaces[c]
  PROVE  TagsApart'
<1>1. \A c \in Builders : spaces'[c].pc # "none" => spaces[c].pc # "none" /\ spaces'[c].asid = spaces[c].asid
  BY Zenon
<1> QED BY <1>1 DEF TagsApart

\* A cached entry stays accounted for while its space has it mapped.
LEMMA CachedStay ==
  ASSUME TlbOwned, tlb' = tlb, NEW b \in Builders,
         \A c \in Builders : c # b => spaces'[c] = spaces[c],
         spaces[b].pc \in {"out", "el0", "free"} =>
             /\ spaces'[b].pc \in {"out", "el0", "free"}
             /\ spaces'[b].asid = spaces[b].asid
             /\ Leaves(spaces'[b]) = Leaves(spaces[b])
  PROVE  TlbOwned'
<1> SUFFICES ASSUME NEW e \in tlb PROVE \E c \in Builders : CachedFor(e, c)'
  BY Zenon DEF TlbOwned
<1>1. PICK c \in Builders : CachedFor(e, c)
  BY Zenon DEF TlbOwned
<1>2. CachedFor(e, c)'
  <2>1. CASE c = b
    BY <1>1, <2>1, Zenon DEF CachedFor
  <2>2. CASE c # b
    <3>1. spaces'[c] = spaces[c]
      BY <2>2, Zenon
    <3> QED BY <1>1, <3>1, Zenon DEF CachedFor
  <2> QED BY <2>1, <2>2, Zenon
<1> QED BY <1>2, Zenon

-----------------------------------------------------------------------------
(* What a space asks for.                                                  *)

\* The window comes first among the pages to map.
LEMMA PagesFacts ==
  ASSUME NEW entry \in Entries
  PROVE  /\ Window(entry).pages \in Nat /\ Len(Pages(entry)) \in Nat
         /\ Window(entry).pages <= Len(Pages(entry))
         /\ Window(entry).pages = entry.text + entry.stack
<1>1. /\ entry.text \in Nat /\ entry.stack \in Nat /\ entry.device \in Seq(Nat)
      /\ PoolPages \in Seq(Nat) /\ USER_VA_BASE \in Nat /\ PAGE_SIZE \in Nat
  BY SpacesAssumption, Zenon
<1>2. Window(entry).pages = entry.text + entry.stack
  BY Zenon DEF Window
<1> DEFINE n == Window(entry).pages
           w == WindowPages(entry)
           p == IF entry.packet_pool THEN PoolPages ELSE << >>
<1>3. n \in Nat
  BY <1>1, <1>2
<1>4. \A i \in 1..n : WindowVa(i - 1) \in Nat
  <2> SUFFICES ASSUME NEW i \in 1..n PROVE USER_VA_BASE + (i - 1) * PAGE_SIZE \in Nat
    BY Zenon DEF WindowVa
  <2>1. i - 1 \in Nat
    BY <1>3
  <2>2. \A x, y, z \in Nat : z + x * y \in Nat
    OBVIOUS
  <2> QED BY <1>1, <2>1, <2>2, Zenon
<1>5. w \in Seq(Nat) /\ Len(w) = n
  <2> HIDE DEF n
  <2>1. w = [i \in 1..n |-> WindowVa(i - 1)]
    BY Zenon DEF WindowPages, n
  <2> HIDE DEF w
  <2> QED BY <2>1, <1>3, <1>4
<1>6. p \in Seq(Nat)
  BY <1>1
<1> HIDE DEF n, w, p
<1>7. Len((w \o entry.device) \o p) = Len(w) + Len(entry.device) + Len(p)
  <2> DEFINE v == w \o entry.device
  <2>1. v \in Seq(Nat) /\ Len(v) = Len(w) + Len(entry.device)
    BY <1>1, <1>5, ConcatProperties, Zenon
  <2> HIDE DEF v
  <2>2. Len(v \o p) = Len(v) + Len(p)
    BY <2>1, <1>6, ConcatProperties, Zenon
  <2> QED BY <2>1, <2>2, Zenon DEF v
<1>8. Len(entry.device) \in Nat /\ Len(p) \in Nat
  BY <1>1, <1>6
<1>9. Pages(entry) = (w \o entry.device) \o p
  BY Zenon DEF Pages, w, p
<1> QED BY <1>2, <1>3, <1>5, <1>7, <1>8, <1>9 DEF n

\* The clone asks for tables only.
LEMMA CloneTyped ==
  CloneNeeds \in Seq(NeedKinds) /\ \A i \in 1..Len(CloneNeeds) : CloneNeeds[i] = "table"
<1> DEFINE k == Cardinality(KernelTables)
<1>1. k \in Nat
  BY SpacesAssumption, FS_CardinalityType, Zenon
<1>2. CloneNeeds = [i \in 1..k |-> "table"]
  BY Zenon DEF CloneNeeds
<1> HIDE DEF k
<1> QED BY <1>1, <1>2 DEF NeedKinds

\* A page of the window asks for its frame first and only then; no other page
\* asks for one.
LEMMA PageNeedsFacts ==
  ASSUME NEW entry \in Entries, NEW n \in Nat
  PROVE  /\ PageNeeds(entry, n) \in Seq(NeedKinds)
         /\ \A i \in 2..Len(PageNeeds(entry, n)) : PageNeeds(entry, n)[i] # "page"
         /\ (PageNeeds(entry, n) # << >> /\ PageNeeds(entry, n)[1] = "page")
                <=> n <= Window(entry).pages
<1> DEFINE t == MapNeeds(entry, n)
           NoPage == {"table", "bad"}
           Missing(l) == IF TableAt(l, Pages(entry)[n]) \in TablesBefore(entry, n)
                         THEN << >> ELSE <<"table">>
           first == IF BlockOver(Pages(entry)[n]) THEN <<"bad">> ELSE Missing(2) \o Missing(3)
           last == IF \E m \in 1..(n - 1) : Pages(entry)[m] = Pages(entry)[n]
                   THEN <<"bad">> ELSE << >>
<1>1. t = first \o last
  BY Zenon DEF MapNeeds
<1>2. Missing(2) \in Seq(NoPage) /\ Missing(3) \in Seq(NoPage)
  <2>1. << >> \in Seq(NoPage) /\ <<"table">> \in Seq(NoPage)
    OBVIOUS
  <2> HIDE DEF NoPage
  <2> QED BY <2>1, Zenon
<1>3. first \in Seq(NoPage) /\ last \in Seq(NoPage)
  <2> HIDE DEF Missing, NoPage
  <2>1. Missing(2) \o Missing(3) \in Seq(NoPage)
    BY <1>2
  <2>2. <<"bad">> \in Seq(NoPage) /\ << >> \in Seq(NoPage)
    BY DEF NoPage
  <2> QED BY <2>1, <2>2, Zenon
<1> HIDE DEF first, last
<1>4. t \in Seq(NoPage)
  BY <1>1, <1>3
<1> HIDE DEF t
<1>5. PageNeeds(entry, n) = (IF n <= Window(entry).pages THEN <<"page">> ELSE << >>) \o t
  BY Zenon DEF PageNeeds, t
<1>6. t \in Seq(NeedKinds) /\ \A i \in 1..Len(t) : t[i] # "page"
  BY <1>4 DEF NeedKinds
<1>7. CASE n <= Window(entry).pages
  <2>1. PageNeeds(entry, n) = <<"page">> \o t
    BY <1>5, <1>7, Zenon
  <2>2. <<"page">> \in Seq(NeedKinds) /\ Len(<<"page">>) = 1 /\ <<"page">>[1] = "page"
    BY DEF NeedKinds
  <2> DEFINE u == <<"page">> \o t
  <2>3. /\ u \in Seq(NeedKinds) /\ Len(u) = 1 + Len(t) /\ u[1] = "page"
        /\ \A i \in 2..Len(u) : u[i] = t[i - 1]
    BY <2>2, <1>6
  <2> HIDE DEF u
  <2>4. \A i \in 2..Len(u) : u[i] # "page"
    BY <2>3, <1>6
  <2>5. u # << >>
    BY <2>3, <1>6
  <2> QED BY <2>1, <2>3, <2>4, <2>5, <1>7, Zenon DEF u
<1>8. CASE ~(n <= Window(entry).pages)
  <2>1. PageNeeds(entry, n) = t
    BY <1>5, <1>6, <1>8
  <2>2. t # << >> => 1 \in 1..Len(t)
    BY <1>6
  <2> QED BY <2>1, <2>2, <1>6, <1>8
<1> QED BY <1>7, <1>8, Zenon

-----------------------------------------------------------------------------
(* The steps of a space's life.                                            *)

\* The pools are full and nobody has a space.
LEMMA InitKept == SpacesInit => SpacesInv
<1> SUFFICES ASSUME SpacesInit PROVE SpacesInv
  BY Zenon
<1> USE DEF SpacesInit
<1>1. FRAMES \in Nat /\ frames \in Seq(Frames) /\ Len(frames) = FRAMES
      /\ \A i \in 1..FRAMES : frames[i] = FRAMES - i
  BY SpacesAssumption DEF Frames
<1>2. \A b \in Builders : spaces[b] = NoSpace /\ spaces[b].pc = "none"
  BY Zenon DEF NoSpace
<1>3. SpacesTyped
  <2>1. contents \in [Frames -> Nat \X Int]
    BY DEF DIRTY
  <2>2. asids \in [free : SUBSET Tags, next : Nat]
    BY Zenon DEF Tags
  <2> QED BY <1>1, <1>2, <2>1, <2>2, Zenon DEF SpacesTyped, SpaceTyped
<1>4. OnePlace
  <2>1. Injective(frames)
    BY <1>1 DEF Injective
  <2>2. \A f \in Frames : Pooled(f)
    <3> SUFFICES ASSUME NEW f \in Frames PROVE Pooled(f)
      BY Zenon
    <3>1. FRAMES - f \in 1..FRAMES /\ FRAMES - (FRAMES - f) = f
      BY <1>1 DEF Frames
    <3>2. FRAMES - f \in DOMAIN frames /\ frames[FRAMES - f] = f
      BY <3>1, <1>1, Zenon
    <3> QED BY <3>2, Zenon DEF Pooled
  <2>3. \A b \in Builders : OwnedBy(spaces[b]) = {}
    BY <1>2, Zenon DEF OwnedBy
  <2> QED BY <2>1, <2>2, <2>3, Zenon DEF OnePlace
<1>5. TagsApart /\ TlbOwned /\ \A b \in Builders : SpaceSound(b) /\ WindowHolds(b)
  BY <1>2, Zenon DEF TagsApart, TlbOwned, SpaceSound, WindowHolds, Live
<1> QED BY <1>3, <1>4, <1>5, Zenon DEF SpacesInv

\* create: a free tag goes to a space that owns nothing yet.
LEMMA CreateKept ==
  ASSUME SpacesInv, NEW b \in Builders, NEW entry \in Entries, Create(b, entry)
  PROVE  SpacesInv'
<1> DEFINE a == AsidAfter(asids.next)
           s == [pc |-> "root", asid |-> a, entry |-> entry, owned |-> << >>,
                 needs |-> CloneNeeds, mapped |-> 0, window |-> << >>, at |-> 1]
<1>1. /\ asids \in [free : SUBSET Tags, next : Nat] /\ ASID_COUNT \in Nat \ {0}
      /\ \A c \in Builders : SpaceTyped(c)
  BY SpacesAssumption, Zenon DEF SpacesInv, SpacesTyped
<1>2. a \in asids.free /\ a \in Tags
  <2>1. asids.free \subseteq Tags /\ asids.next \in Nat /\ asids.free # {}
    BY <1>1, Zenon DEF Create
  <2>2. a \in asids.free
    BY <2>1, AsidAfterFree, Zenon
  <2> QED BY <2>1, <2>2, Zenon
<1>3. /\ spaces[b] = NoSpace /\ spaces' = [spaces EXCEPT ![b] = s] /\ asids' = AsidAlloc(a)
      /\ frames' = frames /\ tlb' = tlb /\ contents' = contents /\ lost' = lost /\ Acceptable(entry)
  BY Zenon DEF Create
<1> HIDE DEF a
<1>4. s \in LiveSpace
  BY <1>2, CloneTyped DEF LiveSpace, Live
<1>5. Sound(s)
  <2>1. /\ s.pc = "root" /\ s.entry = entry /\ s.owned = << >> /\ s.needs = CloneNeeds
        /\ s.mapped = 0 /\ s.window = << >> /\ s.at = 1
    BY Zenon
  <2> HIDE DEF s
  <2>2. WindowSoFar(s)
    <3>1. s.needs \in Seq(NeedKinds) /\ \A i \in 1..Len(s.needs) : s.needs[i] = "table"
      BY <2>1, CloneTyped, Zenon
    <3>2. s.needs # << >> => s.needs[1] # "page"
      BY <3>1
    <3>3. \A i \in 2..Len(s.needs) : s.needs[i] # "page"
      BY <3>1
    <3>4. Len(s.window) = 0
      BY <2>1, Zenon
    <3> QED BY <2>1, <3>2, <3>3, <3>4, PagesFacts DEF WindowSoFar, MinOf
  <2>3. DOMAIN s.owned = {} /\ DOMAIN s.window = {} /\ Len(s.owned) = 0
    BY <2>1
  <2> QED BY <1>3, <2>1, <2>2, <2>3 DEF Sound, Injective
<1> HIDE DEF s
<1>6. /\ spaces' = [c \in Builders |-> spaces'[c]] /\ spaces'[b] = s
      /\ \A c \in Builders : c # b => spaces'[c] = spaces[c]
      /\ \A c \in Builders : SpaceTyped(c)' /\ SpaceSound(c)'
  BY <1>3, <1>4, <1>5, RecordsStay, Zenon
<1>7. spaces[b].pc = "none" /\ s.pc = "root" /\ s.asid = a
  BY <1>3 DEF NoSpace, s
<1>8. asids' \in [free : SUBSET Tags, next : Nat] /\ asids'.free = asids.free \ {a}
  <2>1. (a + 1) % ASID_COUNT \in Nat
    BY <1>1, <1>2 DEF Tags
  <2> QED BY <1>1, <1>3, <2>1, Zenon DEF AsidAlloc
<1>9. SpacesTyped'
  BY <1>3, <1>6, <1>8, Zenon DEF SpacesInv, SpacesTyped
<1>10. OnePlace'
  <2>1. OwnedBy(s) = {} /\ OwnedBy(spaces[b]) = {}
    BY <1>7 DEF OwnedBy, s
  <2> QED BY <1>3, <1>6, <2>1, PlacesStay, Zenon DEF SpacesInv
<1>11. TagsApart'
  <2>1. \A c \in Builders : c # b /\ spaces'[c].pc # "none" =>
            /\ spaces[c].pc # "none" /\ spaces'[c].asid = spaces[c].asid
            /\ spaces[c].asid \notin asids.free
    BY <1>6 DEF SpacesInv, TagsApart
  <2> QED BY <1>2, <1>6, <1>7, <1>8, <2>1 DEF SpacesInv, TagsApart
<1>12. TlbOwned'
  BY <1>3, <1>6, <1>7, CachedStay, Zenon DEF SpacesInv
<1>13. ASSUME NEW c \in Builders PROVE WindowHolds(c)'
  <2>1. CASE c = b
    BY <1>6, <1>7, <2>1, Zenon DEF WindowHolds
  <2>2. CASE c # b
    BY <1>3, <1>6, <2>2, WindowKept, Zenon
  <2> QED BY <2>1, <2>2, Zenon
<1> QED BY <1>6, <1>9, <1>10, <1>11, <1>12, <1>13, Zenon DEF SpacesInv

\* A step that leaves the tags alone and moves one live space on.
LEMMA LiveStepKept ==
  ASSUME SpacesInv, NEW b \in Builders, NEW s \in LiveSpace, spaces[b].pc \in Live, Sound(s),
         spaces' = [spaces EXCEPT ![b] = s], s.asid = spaces[b].asid, asids' = asids,
         frames' \in Seq(Frames), lost' \subseteq Frames, contents' \in [Frames -> Nat \X Int],
         \A c \in Builders : c # b => \A f \in OwnedBy(spaces[c]) : contents'[f] = contents[f],
         OnePlace', TlbOwned', WindowHolds(b)'
  PROVE  SpacesInv'
<1>1. /\ spaces' = [c \in Builders |-> spaces'[c]] /\ spaces'[b] = s
      /\ \A c \in Builders : c # b => spaces'[c] = spaces[c]
      /\ \A c \in Builders : SpaceTyped(c)' /\ SpaceSound(c)'
  BY RecordsStay, Zenon
<1>2. SpacesTyped'
  BY <1>1, Zenon DEF SpacesInv, SpacesTyped
<1>3. TagsApart'
  <2>1. spaces[b].pc # "none"
    BY Zenon DEF Live
  <2> QED BY <1>1, <2>1, TagsStay, Zenon DEF SpacesInv
<1>4. ASSUME NEW c \in Builders PROVE WindowHolds(c)'
  <2>1. CASE c = b
    BY <2>1, Zenon
  <2>2. CASE c # b
    BY <1>1, <2>2, WindowKept, Zenon
  <2> QED BY <2>1, <2>2, Zenon
<1> QED BY <1>1, <1>2, <1>3, <1>4, Zenon DEF SpacesInv

\* What a live space starts a step from.
LEMMA LiveFacts ==
  ASSUME SpacesInv, NEW b \in Builders, spaces[b].pc \in Live
  PROVE  /\ spaces[b] \in LiveSpace /\ Sound(spaces[b]) /\ spaces[b].entry \in Entries
         /\ spaces = [c \in Builders |-> spaces[c]]
         /\ frames \in Seq(Frames) /\ lost \subseteq Frames /\ contents \in [Frames -> Nat \X Int]
         /\ OnePlace /\ TlbOwned /\ WindowHolds(b)
         /\ spaces[b].pc # "free" =>
                OwnedBy(spaces[b]) = {spaces[b].owned[i] : i \in DOMAIN spaces[b].owned}
<1>1. spaces[b] \in LiveSpace /\ Sound(spaces[b]) /\ WindowHolds(b)
  BY RecordByPc, Zenon DEF SpacesInv, SpacesTyped, SpaceSound
<1>2. spaces[b].entry \in Entries /\ spaces[b].owned \in Seq(Frames)
  BY <1>1, Zenon DEF LiveSpace
<1>3. ASSUME spaces[b].pc # "free"
      PROVE OwnedBy(spaces[b]) = {spaces[b].owned[i] : i \in DOMAIN spaces[b].owned}
  <2>1. spaces[b].at = 1 /\ DOMAIN spaces[b].owned = 1..Len(spaces[b].owned)
    BY <1>1, <1>2, <1>3 DEF Sound
  <2>2. spaces[b].pc \notin {"none", "retire"}
    BY Zenon DEF Live
  <2> QED BY <2>1, <2>2, Zenon DEF OwnedBy
<1> QED BY <1>1, <1>2, <1>3, Zenon DEF SpacesInv, SpacesTyped

\* The top of the pool is in no ledger, so writing it disturbs no window.
LEMMA TopApart ==
  ASSUME OnePlace, frames \in Seq(Frames), frames # << >>
  PROVE  FrameTop \in Frames /\ Pooled(FrameTop) /\ \A c \in Builders : FrameTop \notin OwnedBy(spaces[c])
<1>1. FrameTop = frames[Len(frames)] /\ FrameTop \in Frames /\ Len(frames) \in DOMAIN frames
  BY FrontFacts DEF FrameTop
<1> QED BY <1>1 DEF OnePlace, Pooled

\* A ledger holds frames.
LEMMA OwnedAreFrames ==
  ASSUME SpacesInv, NEW c \in Builders, NEW f \in OwnedBy(spaces[c])
  PROVE  f \in Frames
<1>1. spaces[c].pc \notin {"none", "retire"}
  BY Zenon DEF OwnedBy
<1>2. spaces[c].pc \in Live
  BY <1>1, RecordByPc, Zenon DEF SpacesInv, SpacesTyped
<1>3. spaces[c].owned \in Seq(Frames) /\ spaces[c].at \in Nat \ {0}
  BY <1>2, LiveFacts, Zenon DEF LiveSpace
<1>4. PICK i \in spaces[c].at..Len(spaces[c].owned) : f = spaces[c].owned[i]
  BY <1>1, Zenon DEF OwnedBy
<1>5. i \in 1..Len(spaces[c].owned)
  BY <1>3
<1> QED BY <1>3, <1>4, <1>5

\* create, when the pool has a frame for the root.
LEMMA CreateRootKept ==
  ASSUME SpacesInv, NEW b \in Builders, CreateRoot(b), frames # << >>
  PROVE  SpacesInv'
<1> DEFINE s == [spaces[b] EXCEPT !.pc = "build", !.owned = <<FrameTop>>]
<1>1. /\ spaces[b].pc = "root" /\ frames' = Front(frames) /\ asids' = asids
      /\ contents' = [contents EXCEPT ![FrameTop] = DIRTY] /\ tlb' = tlb /\ lost' = lost
      /\ spaces' = [spaces EXCEPT ![b].pc = "build", ![b].owned = <<FrameTop>>]
  BY Zenon DEF CreateRoot
<1>2. spaces[b].pc \in Live
  BY <1>1, Zenon DEF Live
<1>3. /\ spaces[b] \in LiveSpace /\ Sound(spaces[b]) /\ frames \in Seq(Frames) /\ OnePlace
      /\ spaces = [c \in Builders |-> spaces[c]] /\ contents \in [Frames -> Nat \X Int]
      /\ lost \subseteq Frames /\ TlbOwned
      /\ OwnedBy(spaces[b]) = {spaces[b].owned[i] : i \in DOMAIN spaces[b].owned}
  BY <1>1, <1>2, LiveFacts, Zenon
<1>4. FrameTop \in Frames /\ \A c \in Builders : FrameTop \notin OwnedBy(spaces[c])
  BY <1>3, TopApart, Zenon
<1>5. spaces' = [spaces EXCEPT ![b] = s]
  BY <1>1, <1>3, Zenon
<1> HIDE DEF FrameTop
<1>6. /\ s \in LiveSpace /\ s.pc = "build" /\ s.owned = <<FrameTop>> /\ s.asid = spaces[b].asid
      /\ s.entry = spaces[b].entry /\ s.needs = spaces[b].needs /\ s.mapped = spaces[b].mapped
      /\ s.window = spaces[b].window /\ s.at = spaces[b].at
  <2>1. <<FrameTop>> \in Seq(Frames)
    BY <1>4
  <2> QED BY <1>3, <2>1, Zenon DEF LiveSpace, Live
<1> HIDE DEF s
<1>7. spaces[b].owned = << >> /\ spaces[b].window = << >>
  BY <1>1, <1>3, Zenon DEF Sound
<1>8. Sound(s)
  <2>1. WindowSoFar(s)
    <3>1. WindowSoFar(spaces[b])
      BY <1>1, <1>3, Zenon DEF Sound
    <3> QED BY <1>6, <3>1, Zenon DEF WindowSoFar
  <2>2. DOMAIN s.window = {} /\ DOMAIN s.owned = {1} /\ Len(s.owned) = 1
    BY <1>6, <1>7
  <2>3. Acceptable(s.entry) /\ s.at = 1
    BY <1>1, <1>3, <1>6, Zenon DEF Sound
  <2> QED BY <1>6, <2>1, <2>2, <2>3 DEF Sound, Injective
<1>9. spaces'[b] = s /\ \A c \in Builders : c # b => spaces'[c] = spaces[c]
  BY <1>3, <1>5, Zenon
<1>10. OnePlace'
  <2>1. OwnedBy(spaces[b]) = {}
    BY <1>3, <1>7
  <2>2. DOMAIN s.owned = 1..1 /\ s.at = 1 /\ Len(s.owned) = 1 /\ s.owned[1] = FrameTop
    BY <1>1, <1>3, <1>6 DEF Sound
  <2>3. OwnedBy(s) = {FrameTop}
    BY <1>6, <2>2 DEF OwnedBy
  <2> QED BY <1>1, <1>3, <1>9, <2>1, <2>3, PlaceTaken
<1>11. TlbOwned'
  BY <1>1, <1>3, <1>9, CachedStay, Zenon
<1>12. WindowHolds(b)'
  <2>1. DOMAIN s.window = {}
    BY <1>6, <1>7
  <2> QED BY <1>6, <1>9, <2>1, Zenon DEF WindowHolds
<1>13. contents' \in [Frames -> Nat \X Int] /\ frames' \in Seq(Frames)
  <2>1. DIRTY \in Nat \X Int
    BY DEF DIRTY
  <2> QED BY <1>1, <1>3, <1>4, <2>1, FrontFacts, Zenon
<1>14. \A c \in Builders : c # b => \A f \in OwnedBy(spaces[c]) : contents'[f] = contents[f]
  BY <1>1, <1>3, <1>4
<1> QED BY <1>1, <1>2, <1>3, <1>5, <1>6, <1>8, <1>10, <1>11, <1>12, <1>13, <1>14,
           LiveStepKept, Zenon

\* The next page of the window, a grant or the pool is asked for.
LEMMA NextPageKept ==
  ASSUME SpacesInv, NEW b \in Builders, NextPage(b)
  PROVE  SpacesInv'
<1> DEFINE n == spaces[b].mapped + 1
           s == [spaces[b] EXCEPT !.mapped = n, !.needs = PageNeeds(spaces[b].entry, n)]
<1>1. /\ spaces[b].pc = "build" /\ spaces[b].needs = << >>
      /\ spaces[b].mapped < Len(Pages(spaces[b].entry))
      /\ spaces' = [spaces EXCEPT ![b].mapped = @ + 1, ![b].needs = PageNeeds(spaces[b].entry, n)]
      /\ UNCHANGED <<frames, asids, tlb, contents, lost>>
  BY Zenon DEF NextPage
<1>2. spaces[b].pc \in Live
  BY <1>1, Zenon DEF Live
<1>3. /\ spaces[b] \in LiveSpace /\ Sound(spaces[b]) /\ frames \in Seq(Frames) /\ OnePlace
      /\ spaces = [c \in Builders |-> spaces[c]] /\ contents \in [Frames -> Nat \X Int]
      /\ lost \subseteq Frames /\ TlbOwned /\ WindowHolds(b) /\ spaces[b].entry \in Entries
  BY <1>1, <1>2, LiveFacts, Zenon
<1>4. n \in Nat /\ spaces[b].mapped \in Nat
  BY <1>3 DEF LiveSpace
<1>5. spaces' = [spaces EXCEPT ![b] = s]
  BY <1>1, <1>3, Zenon
<1>6. PageNeeds(spaces[b].entry, n) \in Seq(NeedKinds)
  BY <1>3, <1>4, PageNeedsFacts, Zenon
<1>7. /\ s \in LiveSpace /\ s.pc = "build" /\ s.owned = spaces[b].owned /\ s.asid = spaces[b].asid
      /\ s.entry = spaces[b].entry /\ s.needs = PageNeeds(spaces[b].entry, n) /\ s.mapped = n
      /\ s.window = spaces[b].window /\ s.at = spaces[b].at
  <2> HIDE DEF n
  <2> QED BY <1>1, <1>3, <1>4, <1>6, Zenon DEF LiveSpace
<1> HIDE DEF s
<1>8. WindowSoFar(s)
  <2>1. WindowSoFar(spaces[b])
    BY <1>1, <1>3, Zenon DEF Sound
  <2> DEFINE P == Window(spaces[b].entry).pages
  <2>2. P \in Nat /\ Len(Pages(spaces[b].entry)) \in Nat
    BY <1>3, PagesFacts, Zenon
  <2>3. Len(spaces[b].window) = MinOf(spaces[b].mapped, P)
    BY <1>1, <1>4, <2>1, <2>2 DEF WindowSoFar, MinOf
  <2>4. /\ \A i \in 2..Len(s.needs) : s.needs[i] # "page"
        /\ (s.needs # << >> /\ s.needs[1] = "page") <=> n <= P
    BY <1>3, <1>4, <1>7, PageNeedsFacts
  <2>5. n \in 0..Len(Pages(spaces[b].entry))
    BY <1>1, <1>4, <2>2
  <2>6. CASE n <= P
    <3>1. n \in 1..P /\ Len(spaces[b].window) = MinOf(n, P) - 1
      BY <1>4, <2>2, <2>3, <2>6 DEF MinOf
    <3> QED BY <1>7, <2>4, <2>5, <2>6, <3>1, Zenon DEF WindowSoFar
  <2>7. CASE ~(n <= P)
    <3>1. Len(spaces[b].window) = MinOf(n, P) - 0
      BY <1>4, <2>2, <2>3, <2>7 DEF MinOf
    <3> QED BY <1>7, <2>4, <2>5, <2>7, <3>1 DEF WindowSoFar
  <2> QED BY <2>6, <2>7, Zenon
<1>9. Sound(s)
  BY <1>1, <1>3, <1>7, <1>8 DEF Sound
<1>10. spaces'[b] = s /\ \A c \in Builders : c # b => spaces'[c] = spaces[c]
  BY <1>3, <1>5, Zenon
<1>11. OnePlace'
  <2>1. OwnedBy(s) = OwnedBy(spaces[b])
    BY <1>1, <1>7, Zenon DEF OwnedBy
  <2> QED BY <1>1, <1>3, <1>10, <2>1, PlacesStay, Zenon
<1>12. TlbOwned'
  BY <1>1, <1>3, <1>10, CachedStay, Zenon
<1>13. WindowHolds(b)'
  BY <1>1, <1>3, <1>7, <1>10 DEF WindowHolds
<1> QED BY <1>1, <1>2, <1>3, <1>5, <1>7, <1>9, <1>11, <1>12, <1>13, LiveStepKept, Zenon

\* A frame goes from the pool to the ledger, zeroed if it is the window's.
LEMMA TakeKept ==
  ASSUME SpacesInv, NEW b \in Builders, Take(b)
  PROVE  SpacesInv'
<1> DEFINE own == Head(spaces[b].needs) = "page"
           w == IF own THEN Append(spaces[b].window, FrameTop) ELSE spaces[b].window
           s == [spaces[b] EXCEPT !.needs = Tail(spaces[b].needs),
                                  !.owned = Append(spaces[b].owned, FrameTop), !.window = w]
<1>1. /\ spaces[b].pc = "build" /\ spaces[b].needs # << >>
      /\ frames # << >> /\ frames' = Front(frames)
      /\ contents' = [contents EXCEPT ![FrameTop] = IF own THEN ZEROES ELSE DIRTY]
      /\ spaces' = [spaces EXCEPT
             ![b].needs = Tail(@), ![b].owned = Append(@, FrameTop),
             ![b].window = IF own THEN Append(@, FrameTop) ELSE @]
      /\ UNCHANGED <<asids, tlb, lost>>
  BY Zenon DEF Take
<1>2. spaces[b].pc \in Live
  BY <1>1, Zenon DEF Live
<1>3. /\ spaces[b] \in LiveSpace /\ Sound(spaces[b]) /\ frames \in Seq(Frames) /\ OnePlace
      /\ spaces = [c \in Builders |-> spaces[c]] /\ contents \in [Frames -> Nat \X Int]
      /\ lost \subseteq Frames /\ TlbOwned /\ WindowHolds(b) /\ spaces[b].entry \in Entries
      /\ OwnedBy(spaces[b]) = {spaces[b].owned[i] : i \in DOMAIN spaces[b].owned}
  BY <1>1, <1>2, LiveFacts, Zenon
<1>4. FrameTop \in Frames /\ \A c \in Builders : FrameTop \notin OwnedBy(spaces[c])
  BY <1>1, <1>3, TopApart, Zenon
<1>5. spaces' = [spaces EXCEPT ![b] = s]
  BY <1>1, <1>3, Zenon
<1> HIDE DEF FrameTop
<1>6. /\ spaces[b].needs \in Seq(NeedKinds) /\ spaces[b].owned \in Seq(Frames)
      /\ spaces[b].window \in Seq(Frames) /\ spaces[b].mapped \in Nat
  BY <1>3, Zenon DEF LiveSpace
<1>7. /\ Tail(spaces[b].needs) \in Seq(NeedKinds) /\ Append(spaces[b].owned, FrameTop) \in Seq(Frames)
      /\ w \in Seq(Frames)
  BY <1>1, <1>4, <1>6
<1>8. /\ s \in LiveSpace /\ s.pc = "build" /\ s.owned = Append(spaces[b].owned, FrameTop)
      /\ s.asid = spaces[b].asid /\ s.entry = spaces[b].entry /\ s.needs = Tail(spaces[b].needs)
      /\ s.mapped = spaces[b].mapped /\ s.window = w /\ s.at = spaces[b].at
  <2> HIDE DEF w
  <2> QED BY <1>1, <1>3, <1>7, Zenon DEF LiveSpace
<1> HIDE DEF s
<1>9. /\ Len(s.owned) = Len(spaces[b].owned) + 1 /\ Len(spaces[b].owned) \in Nat
      /\ s.owned[Len(spaces[b].owned) + 1] = FrameTop
      /\ \A i \in 1..Len(spaces[b].owned) : s.owned[i] = spaces[b].owned[i]
      /\ DOMAIN s.owned = 1..(Len(spaces[b].owned) + 1)
      /\ DOMAIN spaces[b].owned = 1..Len(spaces[b].owned)
  BY <1>4, <1>6, <1>8
<1>10. /\ \A i \in DOMAIN spaces[b].owned : spaces[b].owned[i] # FrameTop
       /\ \A k \in DOMAIN spaces[b].window : spaces[b].window[k] # FrameTop
  <2>1. \A i \in DOMAIN spaces[b].owned : spaces[b].owned[i] # FrameTop
    BY <1>3, <1>4, Zenon
  <2> QED BY <1>3, <2>1, Zenon DEF Sound
<1>11. /\ Len(spaces[b].window) \in Nat /\ DOMAIN spaces[b].window = 1..Len(spaces[b].window)
       /\ \A k \in 1..Len(spaces[b].window) : s.window[k] = spaces[b].window[k]
       /\ own => /\ Len(s.window) = Len(spaces[b].window) + 1
                 /\ s.window[Len(spaces[b].window) + 1] = FrameTop
       /\ ~own => s.window = spaces[b].window
       /\ DOMAIN s.window = 1..Len(s.window)
  BY <1>4, <1>6, <1>8
<1>12. WindowSoFar(s)
  <2>1. WindowSoFar(spaces[b])
    BY <1>1, <1>3, Zenon DEF Sound
  <2> DEFINE P == Window(spaces[b].entry).pages
             next == IF spaces[b].needs # << >> /\ spaces[b].needs[1] = "page" THEN 1 ELSE 0
  <2>2. P \in Nat /\ Len(Pages(spaces[b].entry)) \in Nat
    BY <1>3, PagesFacts, Zenon
  <2>3. /\ spaces[b].mapped \in 0..Len(Pages(spaces[b].entry))
        /\ \A i \in 2..Len(spaces[b].needs) : spaces[b].needs[i] # "page"
        /\ Len(spaces[b].window) = MinOf(spaces[b].mapped, P) - next
    BY <2>1, Zenon DEF WindowSoFar
  <2>4. next = IF own THEN 1 ELSE 0
    BY <1>1, <1>6
  <2>5. \A i \in 1..Len(s.needs) : s.needs[i] # "page"
    <3>1. /\ Len(Tail(spaces[b].needs)) = Len(spaces[b].needs) - 1 /\ Len(spaces[b].needs) \in Nat
          /\ \A i \in 1..(Len(spaces[b].needs) - 1) : Tail(spaces[b].needs)[i] = spaces[b].needs[i + 1]
      BY <1>1, <1>6
    <3>2. \A i \in 1..(Len(spaces[b].needs) - 1) : i + 1 \in 2..Len(spaces[b].needs)
      BY <3>1
    <3> QED BY <1>8, <2>3, <3>1, <3>2
  <2>6. s.needs # << >> => 1 \in 1..Len(s.needs)
    BY <1>7, <1>8
  <2>7. \A i \in 2..Len(s.needs) : i \in 1..Len(s.needs)
    BY <1>7, <1>8
  <2>8. Len(s.window) = MinOf(spaces[b].mapped, P) - 0
    BY <1>6, <1>11, <2>2, <2>3, <2>4 DEF MinOf
  <2>9. (IF s.needs # << >> /\ s.needs[1] = "page" THEN 1 ELSE 0) = 0
    BY <2>5, <2>6, Zenon
  <2>10. \A i \in 2..Len(s.needs) : s.needs[i] # "page"
    BY <2>5, <2>7, Zenon
  <2>11. s.mapped \in 0..Len(Pages(s.entry)) /\ Len(s.window) = MinOf(s.mapped, Window(s.entry).pages) - 0
    BY <1>8, <2>3, <2>8, Zenon
  <2> QED BY <2>9, <2>10, <2>11 DEF WindowSoFar
<1>13. Sound(s)
  <2>1. Injective(s.owned)
    BY <1>3, <1>9, <1>10 DEF Sound, Injective
  <2>2. Injective(s.window)
    <3>1. CASE own
      <4>1. Injective(spaces[b].window)
        BY <1>3, Zenon DEF Sound
      <4>2. DOMAIN s.window = DOMAIN spaces[b].window \cup {Len(spaces[b].window) + 1}
        BY <1>11, <3>1
      <4> QED BY <1>10, <1>11, <3>1, <4>1, <4>2, Zenon DEF Injective
    <3>2. CASE ~own
      BY <1>3, <1>11, <3>2, Zenon DEF Sound
    <3> QED BY <3>1, <3>2, Zenon
  <2>3. ASSUME NEW k \in DOMAIN s.window PROVE \E i \in DOMAIN s.owned : s.owned[i] = s.window[k]
    <3>1. CASE k \in DOMAIN spaces[b].window
      <4>1. PICK i \in DOMAIN spaces[b].owned : spaces[b].owned[i] = spaces[b].window[k]
        BY <1>3, <3>1, Zenon DEF Sound
      <4>2. i \in DOMAIN s.owned
        BY <1>9
      <4>3. s.owned[i] = spaces[b].owned[i] /\ s.window[k] = spaces[b].window[k]
        BY <1>9, <1>11, <3>1, Zenon
      <4> QED BY <4>1, <4>2, <4>3, Zenon
    <3>2. CASE k \notin DOMAIN spaces[b].window
      <4>1. own /\ k = Len(spaces[b].window) + 1
        BY <1>11, <3>2
      <4>2. s.window[k] = FrameTop
        BY <1>11, <4>1, Zenon
      <4>3. Len(spaces[b].owned) + 1 \in DOMAIN s.owned
        BY <1>9
      <4> QED BY <1>9, <4>2, <4>3, Zenon
    <3> QED BY <3>1, <3>2, Zenon
  <2>4. Acceptable(s.entry) /\ s.at = 1
    BY <1>1, <1>3, <1>8, Zenon DEF Sound
  <2> QED BY <1>8, <1>9, <1>12, <2>1, <2>2, <2>3, <2>4 DEF Sound
<1>14. spaces'[b] = s /\ \A c \in Builders : c # b => spaces'[c] = spaces[c]
  BY <1>3, <1>5, Zenon
<1>15. OnePlace'
  <2>1. s.at = 1 /\ s.pc \notin {"none", "retire"}
    BY <1>1, <1>3, <1>8, Zenon DEF Sound
  <2>2. OwnedBy(s) = {s.owned[i] : i \in 1..(Len(spaces[b].owned) + 1)}
    BY <1>9, <2>1, Zenon DEF OwnedBy
  <2>3. OwnedBy(s) = OwnedBy(spaces[b]) \cup {FrameTop}
    <3>1. \A i \in 1..(Len(spaces[b].owned) + 1) :
              i \in DOMAIN spaces[b].owned \/ i = Len(spaces[b].owned) + 1
      BY <1>9
    <3>2. \A f : f \in OwnedBy(s) => f \in OwnedBy(spaces[b]) \cup {FrameTop}
      BY <1>3, <1>9, <2>2, <3>1
    <3>3. \A i \in DOMAIN spaces[b].owned : i \in 1..(Len(spaces[b].owned) + 1)
      BY <1>9
    <3>4. \A f : f \in OwnedBy(spaces[b]) => f \in OwnedBy(s)
      BY <1>3, <1>9, <2>2, <3>3, Zenon
    <3>5. FrameTop \in OwnedBy(s)
      BY <1>9, <2>2
    <3> QED BY <3>2, <3>4, <3>5, Zenon
  <2> QED BY <1>1, <1>3, <1>14, <2>3, PlaceTaken, Zenon
<1>16. TlbOwned'
  BY <1>1, <1>3, <1>14, CachedStay, Zenon
<1>17. contents' \in [Frames -> Nat \X Int] /\ frames' \in Seq(Frames)
  <2>1. DIRTY \in Nat \X Int /\ ZEROES \in Nat \X Int
    BY DEF DIRTY, ZEROES
  <2> QED BY <1>1, <1>3, <1>4, <2>1, FrontFacts, Zenon
<1>18. WindowHolds(b)'
  <2>1. \A k \in DOMAIN spaces[b].window : contents[spaces[b].window[k]] = ZEROES
    BY <1>1, <1>3, Zenon DEF WindowHolds
  <2>2. ASSUME NEW k \in DOMAIN s.window PROVE contents'[s.window[k]] = ZEROES
    <3>1. CASE k \in DOMAIN spaces[b].window
      <4>1. s.window[k] = spaces[b].window[k] /\ s.window[k] # FrameTop /\ s.window[k] \in Frames
        BY <1>6, <1>10, <1>11, <3>1
      <4> QED BY <1>1, <1>3, <2>1, <3>1, <4>1, Zenon
    <3>2. CASE k \notin DOMAIN spaces[b].window
      <4>1. own /\ s.window[k] = FrameTop
        BY <1>11, <3>2
      <4> QED BY <1>1, <1>3, <1>4, <4>1, Zenon
    <3> QED BY <3>1, <3>2, Zenon
  <2> QED BY <1>8, <1>14, <2>2, Zenon DEF WindowHolds
<1>19. \A c \in Builders : c # b => \A f \in OwnedBy(spaces[c]) : contents'[f] = contents[f]
  BY <1>1, <1>3, <1>4
<1> QED BY <1>1, <1>2, <1>3, <1>5, <1>8, <1>13, <1>15, <1>16, <1>17, <1>18, <1>19,
           LiveStepKept, Zenon

\* A construction stops half way, with or without a frame lost.
LEMMA BuildFailsKept ==
  ASSUME SpacesInv, NEW b \in Builders, BuildFails(b)
  PROVE  SpacesInv'
<1> DEFINE s == [spaces[b] EXCEPT !.pc = "free"]
<1>1. /\ spaces[b].pc = "build" /\ spaces' = [spaces EXCEPT ![b].pc = "free"]
      /\ UNCHANGED <<asids, tlb, contents>>
      /\ \/ frames # << >> /\ frames' = Front(frames) /\ lost' = lost \cup {FrameTop}
         \/ frames' = frames /\ lost' = lost
  BY Zenon DEF BuildFails
<1>2. spaces[b].pc \in Live
  BY <1>1, Zenon DEF Live
<1>3. /\ spaces[b] \in LiveSpace /\ Sound(spaces[b]) /\ frames \in Seq(Frames) /\ OnePlace
      /\ spaces = [c \in Builders |-> spaces[c]] /\ contents \in [Frames -> Nat \X Int]
      /\ lost \subseteq Frames /\ TlbOwned
  BY <1>2, LiveFacts, Zenon
<1>4. spaces' = [spaces EXCEPT ![b] = s]
  BY <1>1, <1>3, Zenon
<1>5. /\ s \in LiveSpace /\ s.pc = "free" /\ s.owned = spaces[b].owned /\ s.asid = spaces[b].asid
      /\ s.entry = spaces[b].entry /\ s.window = spaces[b].window /\ s.at = spaces[b].at
  BY <1>3, Zenon DEF LiveSpace, Live
<1> HIDE DEF s
<1>6. Sound(s)
  BY <1>3, <1>5 DEF Sound
<1>7. spaces'[b] = s /\ \A c \in Builders : c # b => spaces'[c] = spaces[c]
  BY <1>3, <1>4, Zenon
<1>8. OwnedBy(s) = OwnedBy(spaces[b])
  BY <1>1, <1>5, Zenon DEF OwnedBy
<1>9. OnePlace' /\ frames' \in Seq(Frames) /\ lost' \subseteq Frames
  <2>1. CASE frames # << >> /\ frames' = Front(frames) /\ lost' = lost \cup {FrameTop}
    BY <1>3, <1>7, <1>8, <2>1, PlaceTaken, FrontFacts, TopApart, Zenon
  <2>2. CASE frames' = frames /\ lost' = lost
    BY <1>3, <1>7, <1>8, <2>2, PlacesStay, Zenon
  <2> QED BY <1>1, <2>1, <2>2, Zenon
<1>10. TlbOwned'
  BY <1>1, <1>3, <1>7, CachedStay, Zenon
<1>11. WindowHolds(b)'
  BY <1>5, <1>7, Zenon DEF WindowHolds
<1> QED BY <1>1, <1>2, <1>3, <1>4, <1>5, <1>6, <1>9, <1>10, <1>11, LiveStepKept, Zenon

\* destroy begins: the window is given up, the ledger stays.
LEMMA DestroyKept ==
  ASSUME SpacesInv, NEW b \in Builders, Destroy(b)
  PROVE  SpacesInv'
<1> DEFINE s == [spaces[b] EXCEPT !.pc = "free"]
<1>1. /\ spaces[b].pc = "out" /\ spaces' = [spaces EXCEPT ![b].pc = "free"]
      /\ UNCHANGED <<frames, asids, tlb, contents, lost>>
  BY Zenon DEF Destroy
<1>2. spaces[b].pc \in Live
  BY <1>1, Zenon DEF Live
<1>3. /\ spaces[b] \in LiveSpace /\ Sound(spaces[b]) /\ frames \in Seq(Frames) /\ OnePlace
      /\ spaces = [c \in Builders |-> spaces[c]] /\ contents \in [Frames -> Nat \X Int]
      /\ lost \subseteq Frames /\ TlbOwned
  BY <1>2, LiveFacts, Zenon
<1>4. spaces' = [spaces EXCEPT ![b] = s]
  BY <1>1, <1>3, Zenon
<1>5. /\ s \in LiveSpace /\ s.pc = "free" /\ s.owned = spaces[b].owned /\ s.asid = spaces[b].asid
      /\ s.entry = spaces[b].entry /\ s.window = spaces[b].window /\ s.at = spaces[b].at
  BY <1>3, Zenon DEF LiveSpace, Live
<1> HIDE DEF s
<1>6. Sound(s)
  BY <1>3, <1>5 DEF Sound
<1>7. spaces'[b] = s /\ \A c \in Builders : c # b => spaces'[c] = spaces[c]
  BY <1>3, <1>4, Zenon
<1>8. OwnedBy(s) = OwnedBy(spaces[b]) /\ Leaves(s) = Leaves(spaces[b])
  BY <1>1, <1>5, Zenon DEF OwnedBy, Leaves
<1>9. OnePlace'
  BY <1>1, <1>3, <1>7, <1>8, PlacesStay, Zenon
<1>10. TlbOwned'
  BY <1>1, <1>3, <1>5, <1>7, <1>8, CachedStay, Zenon
<1>11. WindowHolds(b)'
  BY <1>5, <1>7, Zenon DEF WindowHolds
<1> QED BY <1>1, <1>2, <1>3, <1>4, <1>5, <1>6, <1>9, <1>10, <1>11, LiveStepKept, Zenon

\* A frame goes back from the ledger to the pool.
LEMMA FreeOwnedKept ==
  ASSUME SpacesInv, NEW b \in Builders, FreeOwned(b)
  PROVE  SpacesInv'
<1> DEFINE f == spaces[b].owned[spaces[b].at]
           s == [spaces[b] EXCEPT !.at = spaces[b].at + 1]
<1>1. /\ spaces[b].pc = "free" /\ spaces[b].at <= Len(spaces[b].owned)
      /\ frames' = FrameFree(f) /\ contents' = [contents EXCEPT ![f] = DIRTY]
      /\ spaces' = [spaces EXCEPT ![b].at = @ + 1]
      /\ UNCHANGED <<asids, tlb, lost>>
  BY Zenon DEF FreeOwned
<1>2. spaces[b].pc \in Live
  BY <1>1, Zenon DEF Live
<1>3. /\ spaces[b] \in LiveSpace /\ Sound(spaces[b]) /\ frames \in Seq(Frames) /\ OnePlace
      /\ spaces = [c \in Builders |-> spaces[c]] /\ contents \in [Frames -> Nat \X Int]
      /\ lost \subseteq Frames /\ TlbOwned
  BY <1>2, LiveFacts, Zenon
<1>4. /\ spaces[b].owned \in Seq(Frames) /\ spaces[b].at \in Nat \ {0}
      /\ Len(spaces[b].owned) \in Nat /\ Injective(spaces[b].owned)
      /\ DOMAIN spaces[b].owned = 1..Len(spaces[b].owned)
  BY <1>3 DEF LiveSpace, Sound
<1>5. spaces' = [spaces EXCEPT ![b] = s]
  BY <1>1, <1>3, Zenon
<1>6. /\ s \in LiveSpace /\ s.pc = "free" /\ s.owned = spaces[b].owned /\ s.asid = spaces[b].asid
      /\ s.entry = spaces[b].entry /\ s.window = spaces[b].window /\ s.at = spaces[b].at + 1
  <2> DEFINE n == spaces[b].at + 1
  <2>1. n \in Nat \ {0}
    BY <1>4
  <2> HIDE DEF n
  <2>2. s = [spaces[b] EXCEPT !.at = n]
    BY Zenon DEF n
  <2> HIDE DEF s
  <2>3. /\ s \in LiveSpace /\ s.pc = "free" /\ s.owned = spaces[b].owned /\ s.asid = spaces[b].asid
        /\ s.entry = spaces[b].entry /\ s.window = spaces[b].window /\ s.at = n
    BY <1>1, <1>3, <2>1, <2>2, Zenon DEF LiveSpace
  <2> QED BY <2>3, Zenon DEF n
<1> HIDE DEF s
<1>7. Sound(s)
  <2>1. s.at <= Len(s.owned) + 1
    BY <1>1, <1>4, <1>6
  <2> QED BY <1>3, <1>6, <2>1 DEF Sound
<1>8. spaces'[b] = s /\ \A c \in Builders : c # b => spaces'[c] = spaces[c]
  BY <1>3, <1>5, Zenon
<1>9. spaces[b].at \in 1..Len(spaces[b].owned) /\ f \in Frames
  BY <1>1, <1>4
<1>10. OwnedBy(spaces[b]) = {spaces[b].owned[i] : i \in spaces[b].at..Len(spaces[b].owned)}
  BY <1>1, Zenon DEF OwnedBy
<1>11. OwnedBy(s) = {spaces[b].owned[i] : i \in (spaces[b].at + 1)..Len(spaces[b].owned)}
  BY <1>6, Zenon DEF OwnedBy
<1>12. OwnedBy(s) = OwnedBy(spaces[b]) \ {f} /\ f \in OwnedBy(spaces[b])
  <2>1. f \in OwnedBy(spaces[b])
    BY <1>4, <1>9, <1>10
  <2>2. \A i \in (spaces[b].at + 1)..Len(spaces[b].owned) :
            /\ i \in spaces[b].at..Len(spaces[b].owned)
            /\ spaces[b].owned[i] # f
    BY <1>4, <1>9 DEF Injective
  <2>3. \A i \in spaces[b].at..Len(spaces[b].owned) :
            i \in (spaces[b].at + 1)..Len(spaces[b].owned) \/ spaces[b].owned[i] = f
    BY <1>4
  <2> HIDE DEF f
  <2>4. \A g : g \in OwnedBy(s) => g \in OwnedBy(spaces[b]) \ {f}
    BY <1>10, <1>11, <2>2, Zenon
  <2>5. \A g : g \in OwnedBy(spaces[b]) \ {f} => g \in OwnedBy(s)
    BY <1>10, <1>11, <2>3, Zenon
  <2> QED BY <2>1, <2>4, <2>5, Zenon
<1> HIDE DEF f
<1>13. frames' = Append(frames, f)
  <2>1. ~Pooled(f)
    BY <1>3, <1>12, Zenon DEF OnePlace
  <2>2. f \notin Range(frames)
    BY <2>1, Zenon DEF Pooled, Range
  <2> QED BY <1>1, <2>2, Zenon DEF FrameFree
<1>14. OnePlace'
  BY <1>1, <1>3, <1>8, <1>9, <1>12, <1>13, PlaceGiven, Zenon
<1>15. TlbOwned'
  <2>1. Leaves(s) = Leaves(spaces[b])
    BY <1>6, Zenon DEF Leaves
  <2> QED BY <1>1, <1>3, <1>6, <1>8, <2>1, CachedStay, Zenon
<1>16. WindowHolds(b)'
  BY <1>6, <1>8, Zenon DEF WindowHolds
<1>17. contents' \in [Frames -> Nat \X Int] /\ frames' \in Seq(Frames)
  <2>1. DIRTY \in Nat \X Int
    BY DEF DIRTY
  <2> QED BY <1>1, <1>3, <1>9, <1>13, <2>1
<1>18. \A c \in Builders : c # b => \A g \in OwnedBy(spaces[c]) : contents'[g] = contents[g]
  <2> SUFFICES ASSUME NEW c \in Builders, c # b, NEW g \in OwnedBy(spaces[c])
               PROVE contents'[g] = contents[g]
    BY Zenon
  <2>1. g # f
    BY <1>3, <1>12 DEF OnePlace
  <2> QED BY <1>1, <1>3, <2>1
<1> QED BY <1>1, <1>2, <1>3, <1>5, <1>6, <1>7, <1>14, <1>15, <1>16, <1>17, <1>18,
           LiveStepKept, Zenon

\* The tag's cached translations go before the tag does.
LEMMA InvalidateAsidKept ==
  ASSUME SpacesInv, NEW b \in Builders, InvalidateAsid(b)
  PROVE  SpacesInv'
<1> DEFINE s == [pc |-> "retire", asid |-> spaces[b].asid]
<1>1. /\ spaces[b].pc = "free" /\ spaces[b].at = Len(spaces[b].owned) + 1
      /\ spaces' = [spaces EXCEPT ![b] = s] /\ tlb' = {e \in tlb : e[1] # spaces[b].asid}
      /\ UNCHANGED <<frames, asids, contents, lost>>
  BY Zenon DEF InvalidateAsid
<1>2. spaces[b].pc \in Live
  BY <1>1, Zenon DEF Live
<1>3. spaces[b] \in LiveSpace /\ OnePlace /\ TlbOwned
  BY <1>2, LiveFacts, Zenon
<1>4. s \in RetiredSpace /\ s.pc = "retire" /\ s.asid = spaces[b].asid
  BY <1>3, Zenon DEF LiveSpace, RetiredSpace
<1> HIDE DEF s
<1>5. /\ spaces' = [c \in Builders |-> spaces'[c]] /\ spaces'[b] = s
      /\ \A c \in Builders : c # b => spaces'[c] = spaces[c]
      /\ \A c \in Builders : SpaceTyped(c)' /\ SpaceSound(c)'
  <2>1. s.pc \notin Live
    BY <1>4, Zenon DEF Live
  <2> QED BY <1>1, <1>4, <2>1, RecordsStay, Zenon
<1>6. SpacesTyped'
  BY <1>1, <1>5, Zenon DEF SpacesInv, SpacesTyped
<1>7. OnePlace'
  <2>1. OwnedBy(s) = {}
    BY <1>4, Zenon DEF OwnedBy
  <2>2. spaces[b].owned \in Seq(Frames)
    BY <1>3, Zenon DEF LiveSpace
  <2>3. spaces[b].at..Len(spaces[b].owned) = {}
    BY <1>1, <2>2
  <2>4. OwnedBy(spaces[b]) = {}
    BY <1>1, <2>3, Zenon DEF OwnedBy
  <2> QED BY <1>1, <1>3, <1>5, <2>1, <2>4, PlacesStay, Zenon
<1>8. TagsApart'
  BY <1>1, <1>4, <1>5, TagsStay, Zenon DEF SpacesInv
<1>9. TlbOwned'
  <2> SUFFICES ASSUME NEW e \in tlb, e[1] # spaces[b].asid PROVE \E c \in Builders : CachedFor(e, c)'
    BY <1>1, Zenon DEF TlbOwned
  <2>1. PICK c \in Builders : CachedFor(e, c)
    BY <1>3, Zenon DEF TlbOwned
  <2>2. c # b
    BY <2>1, Zenon DEF CachedFor
  <2>3. spaces'[c] = spaces[c]
    BY <1>5, <2>2, Zenon
  <2> QED BY <2>1, <2>3, Zenon DEF CachedFor
<1>10. ASSUME NEW c \in Builders PROVE WindowHolds(c)'
  <2>1. CASE c = b
    BY <1>4, <1>5, <2>1, Zenon DEF WindowHolds
  <2>2. CASE c # b
    BY <1>1, <1>5, <2>2, WindowKept, Zenon
  <2> QED BY <2>1, <2>2, Zenon
<1> QED BY <1>5, <1>6, <1>7, <1>8, <1>9, <1>10, Zenon DEF SpacesInv

\* A space that has no frame and was not entered, or no longer is, gives its
\* tag back.
LEMMA TagReturned ==
  ASSUME SpacesInv, NEW b \in Builders, spaces[b].pc \in {"root", "retire"},
         asids' = AsidFree(spaces[b].asid), spaces' = [spaces EXCEPT ![b] = NoSpace],
         UNCHANGED <<frames, tlb, contents, lost>>
  PROVE  SpacesInv'
<1>1. SpacesTyped /\ OnePlace /\ TagsApart /\ TlbOwned /\ \A c \in Builders : SpaceTyped(c)
  BY Zenon DEF SpacesInv, SpacesTyped
<1>2. spaces[b].asid \in Tags /\ OwnedBy(spaces[b]) = {}
  <2>1. CASE spaces[b].pc = "root"
    <3>1. spaces[b].pc \in Live
      BY <2>1, Zenon DEF Live
    <3>2. /\ spaces[b] \in LiveSpace /\ Sound(spaces[b])
          /\ OwnedBy(spaces[b]) = {spaces[b].owned[i] : i \in DOMAIN spaces[b].owned}
      BY <2>1, <3>1, LiveFacts, Zenon
    <3>3. spaces[b].owned = << >>
      BY <2>1, <3>2, Zenon DEF Sound
    <3> QED BY <3>2, <3>3 DEF LiveSpace
  <2>2. CASE spaces[b].pc = "retire"
    <3>1. spaces[b] \in RetiredSpace
      BY <1>1, <2>2, RecordByPc, Zenon
    <3> QED BY <2>2, <3>1, Zenon DEF RetiredSpace, OwnedBy
  <2> QED BY <2>1, <2>2, Zenon
<1>3. /\ spaces' = [c \in Builders |-> spaces'[c]] /\ spaces'[b] = NoSpace
      /\ \A c \in Builders : c # b => spaces'[c] = spaces[c]
      /\ \A c \in Builders : SpaceTyped(c)' /\ SpaceSound(c)'
  <2>1. NoSpace.pc \notin Live
    BY Zenon DEF NoSpace, Live
  <2> QED BY <2>1, RecordsStay, Zenon
<1>4. spaces'[b].pc = "none" /\ OwnedBy(spaces'[b]) = {}
  BY <1>3, Zenon DEF NoSpace, OwnedBy
<1>5. asids' \in [free : SUBSET Tags, next : Nat] /\ asids'.free = asids.free \cup {spaces[b].asid}
  <2>1. spaces[b].asid # KERNEL_ASID
    BY <1>2, SpacesAssumption DEF Tags, KERNEL_ASID
  <2>2. asids \in [free : SUBSET Tags, next : Nat]
    BY <1>1, Zenon DEF SpacesTyped
  <2> QED BY <1>2, <2>1, <2>2, Zenon DEF AsidFree
<1>6. SpacesTyped'
  BY <1>1, <1>3, <1>5, Zenon DEF SpacesTyped
<1>7. OnePlace'
  BY <1>1, <1>2, <1>3, <1>4, PlacesStay, Zenon
<1>8. TagsApart'
  <2>1. \A c \in Builders : spaces'[c].pc # "none" =>
            /\ c # b /\ spaces'[c] = spaces[c] /\ spaces[c].asid \notin asids.free
            /\ spaces[c].asid # spaces[b].asid
    BY <1>1, <1>3, <1>4, Zenon DEF TagsApart
  <2> QED BY <1>1, <1>5, <2>1 DEF TagsApart
<1>9. TlbOwned'
  BY <1>1, <1>3, CachedStay, Zenon
<1>10. ASSUME NEW c \in Builders PROVE WindowHolds(c)'
  <2>1. CASE c = b
    BY <1>4, <2>1, Zenon DEF WindowHolds
  <2>2. CASE c # b
    BY <1>3, <2>2, WindowKept, Zenon
  <2> QED BY <2>1, <2>2, Zenon
<1> QED BY <1>3, <1>6, <1>7, <1>8, <1>9, <1>10, Zenon DEF SpacesInv

\* The image goes to the first pages of the window, each its own frame.
LEMMA PokeUserKept ==
  ASSUME SpacesInv, NEW b \in Builders, PokeUser(b)
  PROVE  SpacesInv'
<1> DEFINE s == [spaces[b] EXCEPT !.pc = "out"]
           image == spaces[b].entry.image
           w == spaces[b].window
<1>1. /\ spaces[b].pc = "build" /\ spaces[b].needs = << >>
      /\ spaces[b].mapped = Len(Pages(spaces[b].entry))
      /\ contents' = [f \in Frames |->
              IF \E i \in 0..(image - 1) : w[i + 1] = f
              THEN <<b, CHOOSE i \in 0..(image - 1) : w[i + 1] = f>>
              ELSE contents[f]]
      /\ spaces' = [spaces EXCEPT ![b].pc = "out"]
      /\ UNCHANGED <<frames, asids, tlb, lost>>
  BY Zenon DEF PokeUser, TextFrame
<1>2. spaces[b].pc \in Live
  BY <1>1, Zenon DEF Live
<1>3. /\ spaces[b] \in LiveSpace /\ Sound(spaces[b]) /\ frames \in Seq(Frames) /\ OnePlace
      /\ spaces = [c \in Builders |-> spaces[c]] /\ contents \in [Frames -> Nat \X Int]
      /\ lost \subseteq Frames /\ TlbOwned /\ WindowHolds(b) /\ spaces[b].entry \in Entries
  BY <1>2, LiveFacts, Zenon
<1>4. spaces' = [spaces EXCEPT ![b] = s]
  BY <1>1, <1>3, Zenon
<1>5. /\ s \in LiveSpace /\ s.pc = "out" /\ s.owned = spaces[b].owned /\ s.asid = spaces[b].asid
      /\ s.entry = spaces[b].entry /\ s.window = w /\ s.at = spaces[b].at
  BY <1>3, Zenon DEF LiveSpace, Live
<1> HIDE DEF s
<1>6. /\ w \in Seq(Frames) /\ Len(w) \in Nat /\ DOMAIN w = 1..Len(w) /\ Injective(w)
      /\ spaces[b].mapped \in Nat /\ image \in Nat /\ spaces[b].entry.text \in Nat
      /\ spaces[b].entry.stack \in Nat /\ image <= spaces[b].entry.text
  BY <1>3, SpacesAssumption DEF LiveSpace, Sound, Acceptable
<1>7. Len(w) = Window(spaces[b].entry).pages /\ image <= Len(w)
  <2>1. WindowSoFar(spaces[b])
    BY <1>1, <1>3, Zenon DEF Sound
  <2>2. /\ Window(spaces[b].entry).pages \in Nat /\ Len(Pages(spaces[b].entry)) \in Nat
        /\ Window(spaces[b].entry).pages <= Len(Pages(spaces[b].entry))
        /\ Window(spaces[b].entry).pages = spaces[b].entry.text + spaces[b].entry.stack
    BY <1>3, PagesFacts, Zenon
  <2>3. Len(w) = MinOf(spaces[b].mapped, Window(spaces[b].entry).pages) - 0
    BY <1>1, <2>1, Zenon DEF WindowSoFar
  <2> QED BY <1>1, <1>6, <2>2, <2>3 DEF MinOf
<1>8. Sound(s)
  BY <1>1, <1>3, <1>5, <1>7 DEF Sound
<1>9. spaces'[b] = s /\ \A c \in Builders : c # b => spaces'[c] = spaces[c]
  BY <1>3, <1>4, Zenon
<1>10. OnePlace'
  <2>1. OwnedBy(s) = OwnedBy(spaces[b])
    BY <1>1, <1>5, Zenon DEF OwnedBy
  <2> QED BY <1>1, <1>3, <1>9, <2>1, PlacesStay, Zenon
<1>11. TlbOwned'
  BY <1>1, <1>3, <1>9, CachedStay, Zenon
<1> HIDE DEF w, image
<1>12. ASSUME NEW i \in 0..(image - 1) PROVE i + 1 \in DOMAIN w
  BY <1>6, <1>7
<1>13. ASSUME NEW k \in DOMAIN w, k - 1 < image PROVE contents'[w[k]] = <<b, k - 1>>
  <2>1. k - 1 \in 0..(image - 1) /\ k \in Int /\ (k - 1) + 1 = k /\ w[k] \in Frames
    BY <1>6, <1>13
  <2>2. \A i \in 0..(image - 1) : w[i + 1] = w[k] <=> i = k - 1
    <3> SUFFICES ASSUME NEW i \in 0..(image - 1), w[i + 1] = w[k] PROVE i = k - 1
      BY <2>1, Zenon
    <3>1. i + 1 = k
      BY <1>6, <1>12, Zenon DEF Injective
    <3> QED BY <2>1, <3>1
  <2>3. (CHOOSE i \in 0..(image - 1) : w[i + 1] = w[k]) = k - 1
    BY <2>1, <2>2, Zenon
  <2>4. \E i \in 0..(image - 1) : w[i + 1] = w[k]
    BY <2>1, Zenon
  <2> QED BY <1>1, <2>1, <2>3, <2>4, Zenon
<1>14. ASSUME NEW k \in DOMAIN w, ~(k - 1 < image) PROVE contents'[w[k]] = ZEROES
  <2>1. ~\E i \in 0..(image - 1) : w[i + 1] = w[k]
    <3> SUFFICES ASSUME NEW i \in 0..(image - 1), w[i + 1] = w[k] PROVE FALSE
      BY Zenon
    <3>1. i + 1 = k
      BY <1>6, <1>12, Zenon DEF Injective
    <3> QED BY <1>6, <1>14, <3>1
  <2>2. contents[w[k]] = ZEROES /\ w[k] \in Frames
    BY <1>1, <1>3, <1>6 DEF WindowHolds, w
  <2> QED BY <1>1, <2>1, <2>2, Zenon
<1>15. WindowHolds(b)'
  <2>1. ASSUME NEW k \in DOMAIN w PROVE contents'[w[k]] \in Expected(b, k)'
    <3>1. Expected(b, k)' = IF k - 1 < image THEN {<<b, k - 1>>} ELSE {ZEROES, <<b, STACK>>}
      BY <1>5, <1>9, Zenon DEF Expected, image
    <3> QED BY <1>13, <1>14, <3>1, Zenon
  <2> QED BY <1>5, <1>9, <2>1, Zenon DEF WindowHolds
<1>16. contents' \in [Frames -> Nat \X Int]
  <2> SUFFICES ASSUME NEW f \in Frames PROVE contents'[f] \in Nat \X Int
    BY <1>1, Zenon
  <2>1. CASE \E i \in 0..(image - 1) : w[i + 1] = f
    <3>1. (CHOOSE i \in 0..(image - 1) : w[i + 1] = f) \in Int
      BY <2>1, <1>6
    <3> QED BY <1>1, <2>1, <3>1, SpacesAssumption, Zenon
  <2>2. CASE ~\E i \in 0..(image - 1) : w[i + 1] = f
    BY <1>1, <1>3, <2>2, Zenon
  <2> QED BY <2>1, <2>2, Zenon
<1>17. \A c \in Builders : c # b => \A f \in OwnedBy(spaces[c]) : contents'[f] = contents[f]
  <2> SUFFICES ASSUME NEW c \in Builders, c # b, NEW f \in OwnedBy(spaces[c])
               PROVE contents'[f] = contents[f]
    BY Zenon
  <2>1. ASSUME NEW i \in 0..(image - 1) PROVE w[i + 1] # f
    <3>1. w[i + 1] \in OwnedBy(spaces[b])
      BY <1>1, <1>12, WindowOwned, Zenon DEF w
    <3> QED BY <1>3, <3>1 DEF OnePlace
  <2>2. CASE f \in Frames
    BY <1>1, <2>1, <2>2, Zenon
  <2>3. CASE f \notin Frames
    <3>1. f \in Frames
      BY OwnedAreFrames, Zenon
    <3> QED BY <2>3, <3>1, Zenon
  <2> QED BY <2>2, <2>3, Zenon
<1> QED BY <1>1, <1>2, <1>3, <1>4, <1>5, <1>8, <1>10, <1>11, <1>15, <1>16, <1>17,
           LiveStepKept, Zenon

\* An agent at EL0 has written its stack and nothing else.
LEMMA LeaveKept ==
  ASSUME SpacesInv, NEW b \in Builders, Leave(b)
  PROVE  SpacesInv'
<1> DEFINE s == [spaces[b] EXCEPT !.pc = "out"]
           w == spaces[b].window
           entry == spaces[b].entry
<1>1. /\ spaces[b].pc = "el0" /\ spaces' = [spaces EXCEPT ![b].pc = "out"]
      /\ contents' = [f \in Frames |-> IF f \in StackFrames(b) THEN <<b, STACK>> ELSE contents[f]]
      /\ UNCHANGED <<frames, asids, tlb, lost>>
  BY Zenon DEF Leave
<1>2. spaces[b].pc \in Live
  BY <1>1, Zenon DEF Live
<1>3. /\ spaces[b] \in LiveSpace /\ Sound(spaces[b]) /\ frames \in Seq(Frames) /\ OnePlace
      /\ spaces = [c \in Builders |-> spaces[c]] /\ contents \in [Frames -> Nat \X Int]
      /\ lost \subseteq Frames /\ TlbOwned /\ WindowHolds(b) /\ entry \in Entries
  BY <1>2, LiveFacts, Zenon
<1>4. spaces' = [spaces EXCEPT ![b] = s]
  BY <1>1, <1>3, Zenon
<1>5. /\ s \in LiveSpace /\ s.pc = "out" /\ s.owned = spaces[b].owned /\ s.asid = spaces[b].asid
      /\ s.entry = entry /\ s.window = w /\ s.at = spaces[b].at
  BY <1>3, Zenon DEF LiveSpace, Live
<1> HIDE DEF s
<1>6. /\ w \in Seq(Frames) /\ Len(w) \in Nat /\ DOMAIN w = 1..Len(w) /\ Injective(w)
      /\ Len(w) = Window(entry).pages /\ entry.image \in Nat /\ entry.text \in Nat
      /\ entry.image <= entry.text
  BY <1>1, <1>3, SpacesAssumption DEF LiveSpace, Sound, Acceptable
<1>7. Sound(s)
  BY <1>1, <1>3, <1>5 DEF Sound
<1>8. spaces'[b] = s /\ \A c \in Builders : c # b => spaces'[c] = spaces[c]
  BY <1>3, <1>4, Zenon
<1>9. OwnedBy(s) = OwnedBy(spaces[b]) /\ Leaves(s) = Leaves(spaces[b])
  BY <1>1, <1>5, Zenon DEF OwnedBy, Leaves
<1>10. OnePlace'
  BY <1>1, <1>3, <1>8, <1>9, PlacesStay, Zenon
<1>11. TlbOwned'
  BY <1>1, <1>3, <1>5, <1>8, <1>9, CachedStay, Zenon
<1>12. StackFrames(b) = {w[i + 1] : i \in entry.text..(Len(w) - 1)}
  BY <1>6, Zenon DEF StackFrames
<1>13. \A i \in entry.text..(Len(w) - 1) : i + 1 \in DOMAIN w /\ i \in Int /\ entry.text <= i
  BY <1>6
<1> HIDE DEF w, entry
<1>14. WindowHolds(b)'
  <2>1. ASSUME NEW k \in DOMAIN w PROVE contents'[w[k]] \in Expected(b, k)'
    <3>1. Expected(b, k)' = IF k - 1 < entry.image THEN {<<b, k - 1>>} ELSE {ZEROES, <<b, STACK>>}
      BY <1>5, <1>8, Zenon DEF Expected
    <3>2. contents[w[k]] \in IF k - 1 < entry.image THEN {<<b, k - 1>>} ELSE {ZEROES, <<b, STACK>>}
      BY <1>1, <1>3, Zenon DEF WindowHolds, Expected, w, entry
    <3>3. w[k] \in Frames
      BY <1>6
    <3>4. ASSUME k - 1 < entry.image PROVE w[k] \notin StackFrames(b)
      <4> SUFFICES ASSUME NEW i \in entry.text..(Len(w) - 1), w[i + 1] = w[k] PROVE FALSE
        BY <1>12, Zenon
      <4>1. i + 1 = k
        BY <1>6, <1>13, Zenon DEF Injective
      <4> QED BY <1>6, <1>13, <3>4, <4>1
    <3> QED BY <1>1, <3>1, <3>2, <3>3, <3>4, Zenon
  <2> QED BY <1>5, <1>8, <2>1, Zenon DEF WindowHolds
<1>15. contents' \in [Frames -> Nat \X Int]
  <2>1. <<b, STACK>> \in Nat \X Int
    BY SpacesAssumption DEF STACK
  <2> QED BY <1>1, <1>3, <2>1, Zenon
<1>16. \A c \in Builders : c # b => \A f \in OwnedBy(spaces[c]) : contents'[f] = contents[f]
  <2> SUFFICES ASSUME NEW c \in Builders, c # b, NEW f \in OwnedBy(spaces[c])
               PROVE contents'[f] = contents[f]
    BY Zenon
  <2>1. f \in Frames
    BY OwnedAreFrames, Zenon
  <2>2. ASSUME NEW i \in entry.text..(Len(w) - 1) PROVE w[i + 1] # f
    <3>1. w[i + 1] \in OwnedBy(spaces[b])
      BY <1>1, <1>13, WindowOwned, Zenon DEF w, Running
    <3> QED BY <1>3, <3>1 DEF OnePlace
  <2>3. f \notin StackFrames(b)
    BY <1>12, <2>2, Zenon
  <2> QED BY <1>1, <2>1, <2>3, Zenon
<1> QED BY <1>1, <1>2, <1>3, <1>4, <1>5, <1>7, <1>10, <1>11, <1>14, <1>15, <1>16,
           LiveStepKept, Zenon

\* From its entry on a space's pages may be cached under its tag.
LEMMA EnterKept ==
  ASSUME SpacesInv, NEW b \in Builders, Enter(b)
  PROVE  SpacesInv'
<1> DEFINE s == [spaces[b] EXCEPT !.pc = "el0"]
<1>1. /\ spaces[b].pc = "out" /\ spaces' = [spaces EXCEPT ![b].pc = "el0"]
      /\ tlb' = tlb \cup {<<spaces[b].asid, l[1], l[2]>> : l \in Leaves(spaces[b])}
      /\ UNCHANGED <<frames, asids, contents, lost>>
  BY Zenon DEF Enter
<1>2. spaces[b].pc \in Live
  BY <1>1, Zenon DEF Live
<1>3. /\ spaces[b] \in LiveSpace /\ Sound(spaces[b]) /\ frames \in Seq(Frames) /\ OnePlace
      /\ spaces = [c \in Builders |-> spaces[c]] /\ contents \in [Frames -> Nat \X Int]
      /\ lost \subseteq Frames /\ TlbOwned /\ WindowHolds(b)
  BY <1>2, LiveFacts, Zenon
<1>4. spaces' = [spaces EXCEPT ![b] = s]
  BY <1>1, <1>3, Zenon
<1>5. /\ s \in LiveSpace /\ s.pc = "el0" /\ s.owned = spaces[b].owned /\ s.asid = spaces[b].asid
      /\ s.entry = spaces[b].entry /\ s.window = spaces[b].window /\ s.at = spaces[b].at
  BY <1>3, Zenon DEF LiveSpace, Live
<1> HIDE DEF s
<1>6. Sound(s)
  BY <1>1, <1>3, <1>5 DEF Sound
<1>7. spaces'[b] = s /\ \A c \in Builders : c # b => spaces'[c] = spaces[c]
  BY <1>3, <1>4, Zenon
<1>8. OwnedBy(s) = OwnedBy(spaces[b]) /\ Leaves(s) = Leaves(spaces[b])
  BY <1>1, <1>5, Zenon DEF OwnedBy, Leaves
<1>9. OnePlace'
  BY <1>1, <1>3, <1>7, <1>8, PlacesStay, Zenon
<1>10. ASSUME NEW e \in tlb' PROVE \E c \in Builders : CachedFor(e, c)'
  <2>1. CASE e \in tlb
    <3>1. PICK c \in Builders : CachedFor(e, c)
      BY <1>3, <2>1, Zenon DEF TlbOwned
    <3>2. CASE c = b
      BY <1>5, <1>7, <1>8, <3>1, <3>2, Zenon DEF CachedFor
    <3>3. CASE c # b
      <4>1. spaces'[c] = spaces[c]
        BY <1>7, <3>3, Zenon
      <4> QED BY <3>1, <4>1, Zenon DEF CachedFor
    <3> QED BY <3>2, <3>3, Zenon
  <2>2. CASE e \notin tlb
    <3>1. PICK l \in Leaves(spaces[b]) : e = <<spaces[b].asid, l[1], l[2]>>
      BY <1>1, <2>2, Zenon
    <3>2. <<l[1], l[2]>> = l
      BY DEF Leaves
    <3>3. e[1] = s.asid /\ <<e[2], e[3]>> \in Leaves(s)
      BY <1>5, <1>8, <3>1, <3>2, Zenon
    <3> QED BY <1>5, <1>7, <3>3, Zenon DEF CachedFor
  <2> QED BY <2>1, <2>2, Zenon
<1>11. TlbOwned'
  BY <1>10, Zenon DEF TlbOwned
<1>12. WindowHolds(b)'
  BY <1>1, <1>3, <1>5, <1>7, Zenon DEF WindowHolds, Expected
<1> QED BY <1>1, <1>2, <1>3, <1>4, <1>5, <1>6, <1>9, <1>11, <1>12, LiveStepKept, Zenon

-----------------------------------------------------------------------------
(* What the invariant gives.                                               *)

Permissions == [write : BOOLEAN, execute : BOOLEAN, user : BOOLEAN]

\* decode_leaf reads back the address and the rights that leaf encoded, for
\* every address a descriptor of that level can hold.
THEOREM DecodeReadsLeaf ==
  ASSUME NEW level, NEW pa, NEW kind, NEW perms \in Permissions,
         IsAligned(pa, EntrySize(level)), ~(pa >= PA_LIMIT)
  PROVE  /\ DecodeLeaf(Leaf(level, pa, kind, perms)).pa = pa
         /\ DecodeLeaf(Leaf(level, pa, kind, perms)).perms = perms
<1> DEFINE l == Leaf(level, pa, kind, perms)
<1>1. /\ l.pa = pa /\ l.ap = AccessBits(perms)
      /\ l.uxn = ~(perms.execute /\ perms.user) /\ l.pxn = (~perms.execute \/ perms.user)
  BY Zenon DEF Leaf
<1> HIDE DEF l
<1>2. (l.ap \in {1, 3}) = perms.user /\ (l.ap \in {0, 1}) = perms.write
  BY <1>1 DEF AccessBits, Permissions
<1>3. (IF perms.user THEN ~l.uxn ELSE ~l.pxn) = perms.execute
  BY <1>1, Zenon DEF Permissions
<1>4. DecodeLeaf(l).perms = [write |-> perms.write, execute |-> perms.execute, user |-> perms.user]
  BY <1>2, <1>3, Zenon DEF DecodeLeaf
<1>5. perms = [write |-> perms.write, execute |-> perms.execute, user |-> perms.user]
  BY Zenon DEF Permissions
<1>6. DecodeLeaf(l).pa = pa
  BY <1>1, Zenon DEF DecodeLeaf
<1> QED BY <1>4, <1>5, <1>6, Zenon DEF l

\* A hit under a tag is a hit of the one space that has the tag.
LEMMA InvGivesTlb ==
  ASSUME SpacesInv
  PROVE  TlbHitsOwnPages
<1> SUFFICES ASSUME NEW b \in Builders, spaces[b].pc = "el0",
                    NEW e \in tlb, e[1] = spaces[b].asid
             PROVE  \E i \in 0..(Window(spaces[b].entry).pages - 1) :
                        /\ e[2] = WindowVa(i)
                        /\ DecodeLeaf(e[3]).pa = PhysOf(spaces[b].window[i + 1])
                        /\ DecodeLeaf(e[3]).perms = WindowPerms(spaces[b].entry, i)
  BY Zenon DEF TlbHitsOwnPages
<1>1. PICK c \in Builders : CachedFor(e, c)
  BY Zenon DEF SpacesInv, TlbOwned
<1>2. c = b
  BY <1>1, Zenon DEF SpacesInv, TagsApart, CachedFor
<1>3. PICK i \in 0..(Window(spaces[b].entry).pages - 1) :
         <<e[2], e[3]>> = <<WindowVa(i), Leaf(3, PhysOf(spaces[b].window[i + 1]), "NormalWb",
                                              WindowPerms(spaces[b].entry, i))>>
  BY <1>1, <1>2, Zenon DEF CachedFor, Leaves
<1>4. spaces[b].pc \in Live
  BY Zenon DEF Live
<1>5. spaces[b].window \in Seq(Frames) /\ Len(spaces[b].window) = Window(spaces[b].entry).pages
  BY <1>4, LiveFacts, Zenon DEF LiveSpace, Sound
<1> DEFINE f == spaces[b].window[i + 1]
<1>6. f \in Frames
  <2> DEFINE n == Window(spaces[b].entry).pages
  <2>1. n = Len(spaces[b].window) /\ n \in Nat /\ i \in 0..(n - 1)
    BY <1>5
  <2> HIDE DEF n
  <2>2. i + 1 \in 1..n
    BY <2>1
  <2> QED BY <1>5, <2>1, <2>2
<1> HIDE DEF f
<1>7. IsAligned(PhysOf(f), EntrySize(3)) /\ ~(PhysOf(f) >= PA_LIMIT)
  <2>1. EntrySize(3) = PAGE_SIZE
    BY DEF EntrySize
  <2>2. IsAligned(PhysOf(f), PAGE_SIZE) /\ PhysOf(f) < PA_LIMIT
    BY <1>6, SpacesAssumption, Zenon DEF PhysOf, Frames
  <2>3. PhysOf(f) \in Int /\ PA_LIMIT \in Int
    BY <1>6, SpacesAssumption DEF PhysOf, Frames
  <2> QED BY <2>1, <2>2, <2>3
<1>8. WindowPerms(spaces[b].entry, i) \in Permissions
  BY Zenon DEF WindowPerms, Permissions, USER_RX, USER_RW
<1> QED BY <1>3, <1>7, <1>8, DecodeReadsLeaf DEF f

\* What a space at EL0 finds in its window.
LEMMA InvGivesWindow ==
  ASSUME SpacesInv
  PROVE  WindowIsOwn
<1> SUFFICES ASSUME NEW b \in Builders, spaces[b].pc = "el0",
                    NEW i \in 0..(Window(spaces[b].entry).pages - 1)
             PROVE  contents[spaces[b].window[i + 1]] \in
                        IF i < spaces[b].entry.image THEN {<<b, i>>} ELSE {ZEROES, <<b, STACK>>}
  BY Zenon DEF WindowIsOwn
<1>1. spaces[b].pc \in Live
  BY Zenon DEF Live
<1>2. /\ spaces[b].window \in Seq(Frames) /\ Len(spaces[b].window) = Window(spaces[b].entry).pages
      /\ WindowHolds(b)
  BY <1>1, LiveFacts, Zenon DEF LiveSpace, Sound
<1>3. i + 1 \in DOMAIN spaces[b].window /\ (i + 1) - 1 = i
  <2> DEFINE n == Window(spaces[b].entry).pages
  <2>1. n = Len(spaces[b].window) /\ n \in Nat /\ i \in 0..(n - 1)
    BY <1>2
  <2> HIDE DEF n
  <2>2. i + 1 \in 1..n /\ (i + 1) - 1 = i
    BY <2>1
  <2> QED BY <1>2, <2>1, <2>2
<1> QED BY <1>2, <1>3, Zenon DEF WindowHolds, Expected

\* One place for each frame, counted.
LEMMA InvGivesFrames ==
  ASSUME SpacesInv
  PROVE  FramesAccounted
<1> SUFFICES ASSUME NEW f \in Frames
             PROVE  Cardinality({i \in DOMAIN frames : frames[i] = f})
                        + Cardinality({b \in Builders : f \in OwnedBy(spaces[b])})
                        + Cardinality({f} \cap lost) = 1
  BY Zenon DEF FramesAccounted
<1> DEFINE P == {i \in DOMAIN frames : frames[i] = f}
           O == {b \in Builders : f \in OwnedBy(spaces[b])}
           L == {f} \cap lost
<1>0. OnePlace
  BY Zenon DEF SpacesInv
<1>1. (Pooled(f) <=> P # {}) /\ (f \in lost <=> L # {})
  BY Zenon DEF Pooled
<1>2. P # {} => \E x : P = {x}
  BY <1>0 DEF OnePlace, Injective
<1>3. O # {} => \E x : O = {x}
  <2>1. \A b, c \in O : b = c
    BY <1>0, Zenon DEF OnePlace
  <2> HIDE DEF O
  <2> QED BY <2>1
<1>4. L # {} => \E x : L = {x}
  BY Zenon
<1>5. /\ P # {} \/ O # {} \/ L # {}
      /\ ~(P # {} /\ L # {}) /\ ~(P # {} /\ O # {}) /\ ~(L # {} /\ O # {})
  BY <1>0, <1>1, Zenon DEF OnePlace
<1> HIDE DEF P, O, L
<1>6. Cardinality({}) = 0 /\ \A x : Cardinality({x}) = 1
  BY FS_EmptySet, FS_Singleton, Zenon
<1>7. /\ Cardinality(P) = IF P = {} THEN 0 ELSE 1
      /\ Cardinality(O) = IF O = {} THEN 0 ELSE 1
      /\ Cardinality(L) = IF L = {} THEN 0 ELSE 1
  BY <1>2, <1>3, <1>4, <1>6, Zenon
<1>8. Cardinality(P) + Cardinality(O) + Cardinality(L) = 1
  BY <1>5, <1>7
<1> QED BY <1>8, Zenon DEF P, O, L

-----------------------------------------------------------------------------
(* The theorems.                                                           *)

\* Every operation of mm/aspace.rs, by any task, at any point of the others'
\* constructions and teardowns, keeps the invariant.
THEOREM SpacesStep ==
  ASSUME SpacesInv, [SpacesNext]_spaceVars
  PROVE  SpacesInv'
<1>1. CASE SpacesNext
  <2>1. PICK b \in Builders :
          \/ \E entry \in Entries : Create(b, entry)
          \/ CreateRoot(b) \/ Take(b) \/ NextPage(b) \/ BuildFails(b) \/ PokeUser(b)
          \/ Enter(b) \/ Leave(b) \/ Destroy(b) \/ FreeOwned(b) \/ InvalidateAsid(b)
          \/ ReturnAsid(b)
    BY <1>1, Zenon DEF SpacesNext
  <2>2. ASSUME NEW entry \in Entries, Create(b, entry) PROVE SpacesInv'
    BY <2>2, CreateKept, Zenon
  <2>3. CASE CreateRoot(b) /\ frames # << >>
    BY <2>3, CreateRootKept, Zenon
  <2>4. CASE CreateRoot(b) /\ frames = << >>
    BY <2>4, TagReturned, Zenon DEF CreateRoot
  <2>5. CASE Take(b)
    BY <2>5, TakeKept, Zenon
  <2>6. CASE NextPage(b)
    BY <2>6, NextPageKept, Zenon
  <2>7. CASE BuildFails(b)
    BY <2>7, BuildFailsKept, Zenon
  <2>8. CASE PokeUser(b)
    BY <2>8, PokeUserKept, Zenon
  <2>9. CASE Enter(b)
    BY <2>9, EnterKept, Zenon
  <2>10. CASE Leave(b)
    BY <2>10, LeaveKept, Zenon
  <2>11. CASE Destroy(b)
    BY <2>11, DestroyKept, Zenon
  <2>12. CASE FreeOwned(b)
    BY <2>12, FreeOwnedKept, Zenon
  <2>13. CASE InvalidateAsid(b)
    BY <2>13, InvalidateAsidKept, Zenon
  <2>14. CASE ReturnAsid(b)
    BY <2>14, TagReturned, Zenon DEF ReturnAsid
  <2> QED BY <2>1, <2>2, <2>3, <2>4, <2>5, <2>6, <2>7, <2>8, <2>9, <2>10, <2>11, <2>12,
             <2>13, <2>14, Zenon
<1>2. CASE UNCHANGED spaceVars
  <2> USE <1>2 DEF spaceVars
  <2>1. SpacesTyped' /\ OnePlace' /\ TagsApart' /\ TlbOwned'
    BY Zenon DEF SpacesInv, SpacesTyped, SpaceTyped, OnePlace, Pooled, TagsApart, TlbOwned,
       CachedFor
  <2>2. \A b \in Builders : SpaceSound(b)' /\ WindowHolds(b)'
    BY Zenon DEF SpacesInv, SpaceSound, WindowHolds, Expected
  <2> QED BY <2>1, <2>2, Zenon DEF SpacesInv
<1> QED BY <1>1, <1>2, Zenon

\* The invariant holds for every number of tasks, frames and tags, and every
\* manifest: frames and tags are in one place each, and a cached translation
\* belongs to a space not yet retired.
THEOREM SpacesInvariant == SpacesSpec => []SpacesInv
<1>1. SpacesInit => SpacesInv
  BY InitKept, Zenon
<1>2. SpacesInv /\ [SpacesNext]_spaceVars => SpacesInv'
  BY SpacesStep, Zenon
<1> QED BY <1>1, <1>2, PTL DEF SpacesSpec

\* What a TLB holds under the tag of a space at EL0 is that space's own
\* mapping, with the rights of its window: destroy invalidates before the tag
\* is free again.
THEOREM TlbHitsHold == SpacesSpec => []TlbHitsOwnPages
<1>1. SpacesInv => TlbHitsOwnPages
  BY InvGivesTlb, Zenon
<1> QED BY <1>1, SpacesInvariant, PTL

\* A space at EL0 finds its image, zeroes and what it wrote, and every frame
\* is free, in one ledger or refused by a full one, also after a construction
\* that failed half way.
THEOREM FramesHold == SpacesSpec => []FramesKept
<1>1. SpacesInv => FramesKept
  BY InvGivesWindow, InvGivesFrames, Zenon DEF FramesKept
<1> QED BY <1>1, SpacesInvariant, PTL
=============================================================================
