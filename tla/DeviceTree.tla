----------------------------- MODULE DeviceTree -----------------------------
(***************************************************************************)
(* Reading the firmware's flattened device tree: the closed extraction     *)
(* list (fdt.rs), its reconciliation with the compiled claims (hwdesc.rs), *)
(* and the GENET binding (genet_fdt.rs).  Both readers are one pass over   *)
(* the token stream with a depth counter and a few context flags, no tree  *)
(* and no stack.  Here the firmware's writer emits the tree node by node - *)
(* a begin token with the node's properties, which the format puts before  *)
(* its children - or an end token, and both readers take each token.       *)
(* `dtpath' and `dttrue' are what a reader with a stack would know.        *)
(***************************************************************************)
EXTENDS Integers, Sequences, FiniteSets

CONSTANTS MAX_DEPTH,       \* nodes below this nesting refuse the tree (8 in the code)
          MAX_NODES,       \* nodes one tree has
          MAX_MEM_RANGES, MAX_RANGES,
          WORD,            \* 2^32, the base of a cell
          COMPILED_RAM, COMPILED_CPUS, MMIO_LEN

VARIABLES dtpath,    \* the open nodes, root first
          dttrue,    \* [cpus, ranges, phys, ethernets]: facts of the closed and open nodes
          dtx,       \* fdt::extract: the walk and its Extract
          dtg,       \* genet_fdt::extract: State, and its result
          dtreport   \* the discover: and genet: lines

dtvars == <<dtpath, dttrue, dtx, dtg, dtreport>>

-----------------------------------------------------------------------------
(* Nodes the writer may emit at each depth: a name without its unit        *)
(* address, and the properties some reader looks at.  An absent property   *)
(* is <<>>.                                                                *)
Bare(n) == [name |-> n, cells |-> <<>>, reg |-> <<>>, dev |-> FALSE, ph |-> <<>>,
            map |-> <<>>, bad |-> "none"]

Window(c, p, s) == [child |-> c, parent |-> p, size |-> s]
Maps == {<<Window(4, 12, 4), Window(0, 0, 15)>>, <<Window(4, 4, 0)>>, <<>>}

Nodes(depth) ==
    CASE depth = 1 -> {[Bare("root") EXCEPT !.cells = c] : c \in {<<>>, <<1, 1>>, <<3, 1>>}}
      [] depth = 2 -> {Bare("cpus"), Bare("other")}
            \cup {[Bare("memory") EXCEPT !.reg = r] : r \in {<<0, 3>>, <<0, 0, 3, 0, 4, 1>>}}
            \cup {[Bare("scb") EXCEPT !.map = m] : m \in Maps}
      [] depth = 3 -> {[Bare("memory") EXCEPT !.reg = <<0, 3>>]}
            \cup {[Bare("cpu") EXCEPT !.dev = d] : d \in BOOLEAN}
            \cup {[Bare("ethernet") EXCEPT !.reg = <<5, MMIO_LEN>>, !.ph = <<7>>, !.bad = b]
                  : b \in {"none", "compatible", "status", "interrupts"}}
      [] depth = 4 -> {Bare("mdio"), [Bare("cpu") EXCEPT !.dev = TRUE]}
      [] depth = 5 -> {[Bare("ethernet-phy") EXCEPT !.ph = p, !.reg = r]
                       : p \in {<<>>, <<7>>, <<8>>}, r \in {<<1>>, <<2>>}}
      [] OTHER -> {Bare("other")}

-----------------------------------------------------------------------------
(* bootinfo::survey keeps an aligned address with the magic and a length;  *)
(* both readers check the header again, and only one of them its version.  *)
Headers == [address : {0, 8, 12}, magic : BOOLEAN, len : {0, 16, 64}, version : {16, 17},
            end : {48, 80}]
Survey(h) == h.address # 0 /\ h.address % 8 = 0 /\ h.magic /\ h.len # 0
GenetHeader(h) == IF h.len < 40 \/ h.end > h.len THEN "Truncated" ELSE "walk"
FdtHeader(h) == IF h.len >= 40 /\ h.version < 17 THEN "OldVersion" ELSE GenetHeader(h)

(* fdt::extract.                                                           *)
NewExtract == [depth |-> 0, context |-> "Other", cpu |-> FALSE, cpus |-> 0,
               ac |-> 2, sc |-> 1, ranges |-> <<>>, seen |-> 0, total |-> 0, result |-> "header"]

ContextOf(n) == CASE n = "memory" -> "Memory" [] n = "cpus" -> "Cpus"
                  [] n = "system" -> "System" [] OTHER -> "Other"

Enter(x, n) ==
    IF x.depth = 2 THEN [x EXCEPT !.context = ContextOf(n)]
    ELSE IF x.depth = 3 /\ x.context = "Cpus"
         THEN [x EXCEPT !.context = "CpusChild", !.cpu = FALSE] ELSE x

(* cells, then absorb_memory_reg: whole pairs of the root's cell counts,   *)
(* the first few kept and all of them summed, saturating.                  *)
Cells(words) == IF Len(words) = 2 THEN words[1] * WORD + words[2] ELSE words[1]
Saturated(n) == IF n > WORD * WORD - 1 THEN WORD * WORD - 1 ELSE n

RegRange(x, words, i) ==
    [base |-> Cells(SubSeq(words, i + 1, i + x.ac)),
     len |-> Cells(SubSeq(words, i + x.ac + 1, i + x.ac + x.sc))]

AddRange(x, r) ==
    [x EXCEPT !.ranges = IF x.seen < MAX_MEM_RANGES THEN Append(@, r) ELSE @,
              !.seen = @ + 1, !.total = Saturated(@ + r.len)]

AbsorbMemoryReg(x, words) ==
    IF ~(x.ac \in 1..2 /\ x.sc \in 1..2) THEN [x EXCEPT !.result = "BadCells"]
    ELSE IF Len(words) % (x.ac + x.sc) # 0 THEN [x EXCEPT !.result = "BadStructure"]
    ELSE LET pairs == Len(words) \div (x.ac + x.sc)
             after[k \in 0..pairs] ==
                 IF k = 0 THEN x
                 ELSE AddRange(after[k - 1], RegRange(x, words, (k - 1) * (x.ac + x.sc)))
         IN after[pairs]

Absorb(x, n) ==
    IF x.depth = 1 /\ n.cells # <<>> THEN [x EXCEPT !.ac = n.cells[1], !.sc = n.cells[2]]
    ELSE IF x.context = "Memory" /\ x.depth = 2 /\ n.reg # <<>> THEN AbsorbMemoryReg(x, n.reg)
    ELSE IF x.context = "CpusChild" /\ x.depth = 3 /\ n.dev THEN [x EXCEPT !.cpu = TRUE]
    ELSE x

FdtBegin(x, n) ==
    IF x.result # "walk" THEN x
    ELSE IF x.depth + 1 > MAX_DEPTH THEN [x EXCEPT !.result = "TooDeep"]
    ELSE Absorb(Enter([x EXCEPT !.depth = @ + 1], n.name), n)

FdtEnd(x) ==
    IF x.result # "walk" THEN x
    ELSE IF x.depth = 0 THEN [x EXCEPT !.result = "BadStructure"]
    ELSE IF x.context = "CpusChild"
         THEN [x EXCEPT !.depth = @ - 1, !.context = "Cpus", !.cpu = FALSE,
                        !.cpus = @ + (IF x.cpu THEN 1 ELSE 0)]
         ELSE [x EXCEPT !.depth = @ - 1, !.context = IF x.depth <= 2 THEN "Other" ELSE @]

FdtFinish(x) ==
    IF x.result # "walk" THEN x
    ELSE [x EXCEPT !.result = IF x.depth = 0 THEN "ok" ELSE "BadStructure"]

-----------------------------------------------------------------------------
(* hwdesc::reconcile and the discover: lines; a tree that was refused is   *)
(* reported unknown, never fatal.                                          *)
Compare(seen, claim, more, less) ==
    IF seen = 0 THEN "Unknown" ELSE IF seen = claim THEN "Matches"
    ELSE IF seen > claim THEN more ELSE less

Reconcile(x) ==
    IF x.result # "ok" THEN [memory |-> "Unknown", cpus |-> "Unknown"]
    ELSE [memory |-> Compare(x.total, COMPILED_RAM, "BeyondCompiledMap", "Short"),
          cpus |-> Compare(x.cpus, COMPILED_CPUS, "Differs", "Differs")]

-----------------------------------------------------------------------------
(* genet_fdt::extract.                                                     *)
NewState == [depth |-> 0, scb |-> FALSE, genet |-> FALSE, mdio |-> FALSE, phy |-> FALSE,
             count |-> 0, eth |-> Bare("none"), handle |-> <<>>, candidate |-> <<>>,
             map |-> <<>>, base |-> 0, result |-> "header"]

GenetEnter(s, n) ==
    IF s.depth = 2 /\ n = "scb" THEN [s EXCEPT !.scb = TRUE]
    ELSE IF s.depth = 3 /\ s.scb /\ n = "ethernet" THEN [s EXCEPT !.genet = TRUE, !.count = @ + 1]
    ELSE IF s.depth = 4 /\ s.genet /\ n = "mdio" THEN [s EXCEPT !.mdio = TRUE]
    ELSE IF s.depth = 5 /\ s.mdio /\ n = "ethernet-phy" THEN [s EXCEPT !.phy = TRUE] ELSE s

(* The PHY's two properties each overwrite their half of the candidate.    *)
Half(s, i) == IF s.candidate = <<>> THEN 0 ELSE s.candidate[i]
PhyAbsorb(s, n) ==
    [s EXCEPT !.candidate = <<IF n.ph = <<>> THEN Half(s, 1) ELSE n.ph[1], n.reg[1]>>]

GenetAbsorb(s, n) ==
    IF s.depth = 2 /\ s.scb /\ n.map # <<>> THEN [s EXCEPT !.map = n.map]
    ELSE IF s.depth = 3 /\ s.genet THEN [s EXCEPT !.eth = n, !.handle = n.ph]
    ELSE IF s.depth = 5 /\ s.phy THEN PhyAbsorb(s, n) ELSE s

GenetBegin(s, n) ==
    IF s.result # "walk" THEN s
    ELSE IF s.depth = MAX_DEPTH THEN [s EXCEPT !.result = "TooDeep"]
    ELSE GenetAbsorb(GenetEnter([s EXCEPT !.depth = @ + 1], n.name), n)

\* Mutant: the flag of the bus node outlives it.
GenetEndLeavesScb(s) ==
    IF s.result # "walk" THEN s
    ELSE IF s.depth = 0 THEN [s EXCEPT !.result = "BadStructure"]
    ELSE [s EXCEPT !.depth = @ - 1, !.phy = @ /\ s.depth # 5, !.mdio = @ /\ s.depth # 4,
                   !.genet = @ /\ s.depth # 3]
GenetEnd(s) ==
    IF s.result # "walk" THEN s
    ELSE IF s.depth = 0 THEN [s EXCEPT !.result = "BadStructure"]
    ELSE [s EXCEPT !.depth = @ - 1, !.phy = @ /\ s.depth # 5, !.mdio = @ /\ s.depth # 4,
                   !.genet = @ /\ s.depth # 3, !.scb = @ /\ s.depth # 2]

(* ranges and translate: no empty window; the first one that covers the    *)
(* register block maps it.                                                 *)
RangesAccepted(map) ==
    /\ Len(map) <= MAX_RANGES
    /\ \A i \in DOMAIN map : map[i].size # 0 /\ map[i].child + map[i].size < WORD * WORD
                              /\ map[i].parent + map[i].size < WORD * WORD
Covers(w, address, len) == address >= w.child /\ address + len <= w.child + w.size
Translate(address, len, map) ==
    LET covering == {i \in DOMAIN map : Covers(map[i], address, len)} IN
    IF covering = {} THEN -1
    ELSE LET w == map[CHOOSE i \in covering : \A j \in covering : i <= j] IN
         w.parent + (address - w.child)

GenetResult(s) ==
    CASE s.depth # 0 -> "BadStructure"
      [] s.depth = 0 /\ s.count = 0 -> "Missing"
      [] s.depth = 0 /\ s.count > 1 -> "Ambiguous"
      [] OTHER ->
           IF s.eth.bad = "compatible" THEN "Incompatible"
           ELSE IF s.eth.bad = "status" THEN "Disabled"
           ELSE IF s.map = <<>> THEN "Missing"
           ELSE IF ~RangesAccepted(s.map) THEN "InvalidRange"
           ELSE IF s.eth.reg[2] # MMIO_LEN THEN "Incompatible"
           ELSE IF Translate(s.eth.reg[1], s.eth.reg[2], s.map) = -1 THEN "InvalidRange"
           ELSE IF s.candidate = <<>> \/ Half(s, 1) # s.handle[1] THEN "InvalidPhy"
           ELSE IF s.eth.bad = "interrupts" THEN "InvalidInterrupts" ELSE "ok"

GenetFinish(s) ==
    IF s.result # "walk" THEN s
    ELSE [s EXCEPT !.result = GenetResult(s),
                   !.base = IF GenetResult(s) = "ok"
                            THEN Translate(s.eth.reg[1], s.eth.reg[2], s.map) ELSE 0]

-----------------------------------------------------------------------------
Nowhere == [cpus |-> 0, ranges |-> 0, phys |-> {}, ethernets |-> 0, nodes |-> 0]

DtInit == /\ dtpath = <<>> /\ dttrue = Nowhere /\ dtx = NewExtract /\ dtg = NewState
          /\ dtreport = [memory |-> "none", cpus |-> "none", genet |-> "none"]

ReadHeader ==
    /\ dtx.result = "header" /\ dtreport.genet = "none"
    /\ \E h \in Headers :
          IF Survey(h)
          THEN /\ dtx' = [dtx EXCEPT !.result = FdtHeader(h)]
               /\ dtg' = [dtg EXCEPT !.result = GenetHeader(h)]
               /\ UNCHANGED dtreport
          ELSE /\ dtreport' = [memory |-> "Unknown", cpus |-> "Unknown", genet |-> "NoDtb"]
               /\ UNCHANGED <<dtx, dtg>>
    /\ UNCHANGED <<dtpath, dttrue>>

(* A reader that stopped does not look at the rest.                        *)
Walking == dtreport.genet = "none" /\ "walk" \in {dtx.result, dtg.result}
PathNames == [i \in DOMAIN dtpath |-> dtpath[i].name]
PhyPath == <<"root", "scb", "ethernet", "mdio", "ethernet-phy">>

BeginNode ==
    /\ Walking /\ dttrue.nodes < MAX_NODES
    /\ dtpath = <<>> => dttrue.nodes = 0
    /\ \E n \in Nodes(Len(dtpath) + 1) :
          LET path == Append(PathNames, n.name) IN
          /\ dtpath' = Append(dtpath, n)
          /\ dttrue' = [dttrue EXCEPT
                !.nodes = @ + 1,
                !.ethernets = @ + (IF path = SubSeq(PhyPath, 1, 3) THEN 1 ELSE 0),
                !.phys = @ \cup (IF path = PhyPath THEN {<<n.ph, n.reg[1]>>} ELSE {})]
          /\ dtx' = FdtBegin(dtx, n)
          /\ dtg' = GenetBegin(dtg, n)
    /\ UNCHANGED dtreport

EndNode ==
    /\ Walking /\ dttrue.nodes > 0
    /\ dtx' = FdtEnd(dtx) /\ dtg' = GenetEnd(dtg)
    /\ IF dtpath = <<>>                       \* one end token too many
       THEN dtpath' = <<Bare("broken")>> /\ dttrue' = dttrue
       ELSE LET n == dtpath[Len(dtpath)] IN
            /\ dtpath' = SubSeq(dtpath, 1, Len(dtpath) - 1)
            /\ dttrue' = [dttrue EXCEPT
                 !.cpus = @ + (IF Len(dtpath) = 3 /\ PathNames[2] = "cpus" /\ n.dev THEN 1 ELSE 0),
                 !.ranges = @ + (IF PathNames = <<"root", "memory">>
                                 THEN Len(n.reg) \div (IF dtpath[1].cells = <<>> THEN 3 ELSE 2) ELSE 0)]
    /\ UNCHANGED dtreport

EndTree ==
    /\ dtreport.genet = "none" /\ dtx.result # "header"
    /\ dtx' = FdtFinish(dtx) /\ dtg' = GenetFinish(dtg)
    /\ dtreport' = [memory |-> Reconcile(FdtFinish(dtx)).memory,
                    cpus |-> Reconcile(FdtFinish(dtx)).cpus, genet |-> GenetFinish(dtg).result]
    /\ UNCHANGED <<dtpath, dttrue>>

DtNext == ReadHeader \/ BeginNode \/ EndNode \/ EndTree

DtSpec == DtInit /\ [][DtNext]_dtvars

-----------------------------------------------------------------------------
(* What the one-pass walk extracts is what the tree says: exactly the cpu  *)
(* nodes directly under /cpus and exactly the ranges of the /memory nodes  *)
(* directly under the root are counted - whatever lies below or beside     *)
(* them - and a stream that does not close every node it opens, or closes  *)
(* more, is refused by both readers.                                       *)
ExtractIsTree ==
    /\ dtx.result = "ok" =>
          dtpath = <<>> /\ dtx.cpus = dttrue.cpus /\ dtx.seen = dttrue.ranges
    /\ dtg.result = "ok" => dtpath = <<>>
    /\ dtreport.cpus = "Matches" => dttrue.cpus = COMPILED_CPUS

(* An accepted GENET binding comes from a tree with exactly one ethernet   *)
(* node on the scb bus, and its register block lies wholly inside the      *)
(* parent side of a window that covers it.                                 *)
BindingFromOneNode ==
    dtg.result = "ok" =>
        /\ dttrue.ethernets = 1 /\ dttrue.phys # {}
        /\ \E i \in DOMAIN dtg.map :
              /\ Covers(dtg.map[i], dtg.eth.reg[1], MMIO_LEN)
              /\ dtg.base >= dtg.map[i].parent
              /\ dtg.base + MMIO_LEN <= dtg.map[i].parent + dtg.map[i].size
=============================================================================
