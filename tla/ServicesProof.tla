---------------------------- MODULE ServicesProof ----------------------------
(***************************************************************************)
(* Proofs about what runs around the kernel's core: the bring-up of both   *)
(* cores, the durable region on its card, and the loader of agents.        *)
(***************************************************************************)

EXTENDS Bringup, DurableMedia, Loader, TLAPS

-----------------------------------------------------------------------------
(* Proofs about the bring-up of both cores: whichever core is ahead, and    *)
(* whatever lines the firmware left enabled, interrupts are unmasked only   *)
(* where every line of the kernel's has its handler.                        *)

Lines == {WAKE_SGI, TIMER_IRQ, UART_IRQ}
AllLines == Lines \cup {FIRMWARE_IRQ}
AfterSeal == {"release", "await_ready", "sgi", "await_ipi", "start", "marker", "await_ran",
              "unmask", "loop"}

Plans == [core1 : BOOLEAN, bound : BOOLEAN, started : BOOLEAN]
Handoffs == [root : BOOLEAN, entry : BOOLEAN, alive : BOOLEAN, may : BOOLEAN,
             ready : BOOLEAN, ipi : BOOLEAN, online : BOOLEAN]
Gics == [dist : BOOLEAN, open : [CPUs -> BOOLEAN], en : [CPUs -> SUBSET AllLines],
         pend : [CPUs -> SUBSET AllLines]]
Tables == [table : SUBSET Lines, sealed : BOOLEAN, unhandled : SUBSET {FIRMWARE_IRQ}]

BootTypes ==
    /\ plan \in Plans /\ smp \in Handoffs /\ gic \in Gics /\ irqs \in Tables
    /\ unmasked \in [CPUs -> BOOLEAN]

\* Lines are bound before the seal, interrupts are unmasked and core 1 is
\* released after it, and only when the lines are bound.
BootInv ==
    /\ BootTypes
    /\ plan.bound => irqs.table = Lines
    /\ boot \in AfterSeal => irqs.sealed
    /\ boot \in AfterSeal \ {"unmask", "loop"} => plan.bound
    /\ smp.may => plan.bound /\ boot \in AfterSeal
    /\ c1 \in {"ready", "offline", "check", "doze", "wfi"} => smp.may
    /\ unmasked[0] => plan.bound /\ boot = "loop"
    /\ unmasked[1] => c1 \in {"offline", "check", "doze", "wfi"}

\* A board out of reset, whatever lines the firmware left on either core.
LEMMA BootStarts == BootInit => BootInv
<1> SUFFICES ASSUME BootInit PROVE BootInv
  BY Zenon
<1>1. gic \in Gics
  <2>1. PICK left \in FirmwareLeft : gic = NewGic(left)
    BY Zenon DEF BootInit
  <2>2. left \in [CPUs -> SUBSET AllLines]
    BY Zenon DEF FirmwareLeft, AllLines, Lines
  <2> QED BY <2>1, <2>2, Zenon DEF NewGic, Gics
<1>2. plan \in Plans /\ smp \in Handoffs /\ irqs \in Tables
  BY Zenon DEF BootInit, NoPlan, NewSmp, NewTable, Plans, Handoffs, Tables
<1>3. unmasked \in [CPUs -> BOOLEAN] /\ ~unmasked[0] /\ ~unmasked[1]
  BY Zenon DEF BootInit, CPUs
<1>4. ~plan.bound /\ ~smp.may /\ boot = "map" /\ c1 \in {"parked", "absent"}
  BY Zenon DEF BootInit, NoPlan, NewSmp
<1> QED BY <1>1, <1>2, <1>3, <1>4, Zenon DEF BootInv, BootTypes, AfterSeal

\* Steps of the controller keep its shape.
LEMMA GicShape ==
  ASSUME NEW g \in Gics, NEW c \in CPUs, NEW irq \in AllLines
  PROVE  /\ Enable(g, c, irq) \in Gics /\ Raise(g, c, irq) \in Gics
         /\ InitThisCpu(g, c) \in Gics /\ [g EXCEPT !.dist = TRUE] \in Gics
         /\ [g EXCEPT !.pend[c] = @ \ {irq}] \in Gics
<1>1. PICK r \in CPUs : r = Routed(c, irq)
  BY Zenon DEF Routed, CPUs
<1>2. /\ g.en[r] \cup {irq} \in SUBSET AllLines /\ g.pend[r] \ {irq} \in SUBSET AllLines
      /\ g.pend[c] \cup {irq} \in SUBSET AllLines /\ g.pend[c] \ {irq} \in SUBSET AllLines
  BY Zenon DEF Gics
<1>3. \A x \in SUBSET AllLines, y \in SUBSET AllLines :
        [g EXCEPT !.pend[r] = x, !.en[r] = y] \in Gics
  BY Zenon DEF Gics
<1>4. \A x \in SUBSET AllLines : [g EXCEPT !.pend[c] = x] \in Gics
  BY Zenon DEF Gics
<1>5. Enable(g, c, irq) = [g EXCEPT !.pend[r] = g.pend[r] \ {irq}, !.en[r] = g.en[r] \cup {irq}]
  BY <1>1, Zenon DEF Enable, Gics
<1>6. Enable(g, c, irq) \in Gics
  <2>1. PICK x \in SUBSET AllLines, y \in SUBSET AllLines :
          x = g.pend[r] \ {irq} /\ y = g.en[r] \cup {irq}
    BY <1>2, Zenon
  <2>2. [g EXCEPT !.pend[r] = x, !.en[r] = y] \in Gics
    BY <1>3, Zenon
  <2> QED BY <1>5, <2>1, <2>2, Zenon
<1>7. Raise(g, c, irq) \in Gics /\ [g EXCEPT !.pend[c] = @ \ {irq}] \in Gics
  BY <1>2, <1>4, Zenon DEF Raise
<1>8. InitThisCpu(g, c) \in Gics /\ [g EXCEPT !.dist = TRUE] \in Gics
  BY Zenon DEF InitThisCpu, Gics
<1> QED BY <1>6, <1>7, <1>8, Zenon

\* A step that binds, seals, unmasks and releases nothing.
LEMMA BootQuiet ==
  ASSUME BootInv, UNCHANGED <<irqs, unmasked, c1>>,
         plan' \in Plans, smp' \in Handoffs, gic' \in Gics,
         plan'.bound = plan.bound, smp'.may = smp.may,
         boot' \in AfterSeal => boot \in AfterSeal,
         boot' \in AfterSeal \ {"unmask", "loop"} => boot \in AfterSeal \ {"unmask", "loop"},
         boot \in AfterSeal => boot' \in AfterSeal,
         boot = "loop" => boot' = "loop"
  PROVE  BootInv'
BY Zenon DEF BootInv, BootTypes

\* Phases that only move core 0 on.
LEMMA PhaseMoves ==
  ASSUME BootInv, UNCHANGED <<irqs, unmasked, c1, gic>>,
         plan' = plan \/ (\E b \in BOOLEAN : \/ plan' = [plan EXCEPT !.core1 = b]
                                             \/ plan' = [plan EXCEPT !.started = b]),
         smp' = smp \/ (\E b \in BOOLEAN : \/ smp' = [smp EXCEPT !.root = b]
                                           \/ smp' = [smp EXCEPT !.entry = b]
                                           \/ smp' = [smp EXCEPT !.online = b]),
         \/ boot' = boot
         \/ boot \notin AfterSeal /\ boot' \notin AfterSeal
         \/ /\ boot \in AfterSeal \ {"unmask", "loop"}
            /\ boot' \in AfterSeal \ {"loop"}
  PROVE  BootInv'
<1>1. plan' \in Plans /\ plan'.bound = plan.bound
  BY Zenon DEF BootInv, BootTypes, Plans
<1>2. smp' \in Handoffs /\ smp'.may = smp.may
  BY DEF BootInv, BootTypes, Handoffs
<1>3. gic' \in Gics
  BY Zenon DEF BootInv, BootTypes
<1> QED BY <1>1, <1>2, <1>3, BootQuiet, Zenon DEF AfterSeal

\* Every step of either core, the timers and the controller keeps the
\* invariant.
LEMMA BootStep == BootInv /\ [BootNext]_bootvars => BootInv'
<1> SUFFICES ASSUME BootInv, [BootNext]_bootvars PROVE BootInv'
  BY Zenon
<1>1. /\ plan \in Plans /\ smp \in Handoffs /\ gic \in Gics /\ irqs \in Tables
      /\ unmasked \in [CPUs -> BOOLEAN]
      /\ 0 \in CPUs /\ 1 \in CPUs /\ \A c \in CPUs : c = 0 \/ c = 1
      /\ TIMER_IRQ \in Lines /\ UART_IRQ \in Lines /\ WAKE_SGI \in Lines
      /\ FIRMWARE_IRQ \in AllLines /\ \A irq \in Lines : irq \in AllLines
  BY Zenon DEF BootInv, BootTypes, CPUs, Lines, AllLines
<1>2. CASE UNCHANGED bootvars
  BY <1>2, PhaseMoves, Zenon DEF bootvars
<1>3. CASE EstablishMap
  BY <1>3, PhaseMoves, Zenon DEF EstablishMap, Goto, AfterSeal
<1>4. CASE VerifyCpu
  BY <1>4, PhaseMoves, Zenon DEF VerifyCpu, Goto, AfterSeal
<1>5. CASE PublishRoot \/ PublishEntry
  BY <1>5, PhaseMoves, Zenon DEF PublishRoot, PublishEntry, Goto, AfterSeal
<1>7. CASE AwaitAlive
  BY <1>7, PhaseMoves, Zenon DEF AwaitAlive, Goto, AfterSeal
<1>8. CASE Discover
  BY <1>8, PhaseMoves, Zenon DEF Discover, Goto, AfterSeal
<1>9. CASE InitPools
  BY <1>9, PhaseMoves, Zenon DEF InitPools, Goto, AfterSeal
<1>10. CASE BindInterrupts
  <2> DEFINE t == Register(Register(Register(irqs, TIMER_IRQ), UART_IRQ), WAKE_SGI)
             g == [InitThisCpu(gic, 0) EXCEPT !.dist = TRUE]
  <2>1. t \in Tables
    <3>1. \A u \in Tables, i \in Lines : Register(u, i) \in Tables
      BY Zenon DEF Register, Tables
    <3> QED BY <3>1, <1>1, Zenon
  <2>2. g \in Gics
    BY <1>1, GicShape, Zenon
  <2>3. Enable(Enable(g, 0, TIMER_IRQ), 0, UART_IRQ) \in Gics
    <3> HIDE DEF g
    <3>1. Enable(g, 0, TIMER_IRQ) \in Gics
      BY <1>1, <2>2, GicShape, Zenon
    <3> QED BY <1>1, <3>1, GicShape, Zenon
  <2>4. PICK rate \in BOOLEAN :
          LET bound == rate /\ {TIMER_IRQ, UART_IRQ, WAKE_SGI} \subseteq t.table IN
          /\ plan' = [plan EXCEPT !.bound = bound]
          /\ gic' = IF bound THEN Enable(Enable(g, 0, TIMER_IRQ), 0, UART_IRQ) ELSE g
    BY <1>10, Zenon DEF BindInterrupts
  <2>5. /\ boot = "bind" /\ boot' = "seal" /\ irqs' = t
        /\ UNCHANGED <<smp, marker, c1, unmasked, resched>>
    BY <1>10, Zenon DEF BindInterrupts, Goto
  <2>6. PICK b \in BOOLEAN : /\ plan' = [plan EXCEPT !.bound = b]
                             /\ b => {TIMER_IRQ, UART_IRQ, WAKE_SGI} \subseteq t.table
    <3> HIDE DEF t
    <3> QED BY <2>4, Zenon
  <2>7. gic' \in Gics
    BY <2>2, <2>3, <2>4, Zenon
  <2> HIDE DEF t, g
  <2>8. plan' \in Plans /\ plan'.bound = b
    BY <1>1, <2>6, Zenon DEF Plans
  <2>9. plan'.bound => irqs'.table = Lines
    BY <2>1, <2>5, <2>6, <2>8, Zenon DEF Tables, Lines
  <2>10. ~smp.may /\ ~unmasked[0] /\ ~unmasked[1]
    BY <2>5, Zenon DEF BootInv, AfterSeal
  <2> QED BY <1>1, <2>1, <2>5, <2>7, <2>8, <2>9, <2>10, Zenon DEF BootInv, BootTypes,
             AfterSeal
<1>11. CASE SealDispatch
  <2>1. irqs' \in Tables /\ irqs'.sealed /\ irqs'.table = irqs.table
    BY <1>1, <1>11, Zenon DEF SealDispatch, Tables
  <2>2. boot = "seal" /\ ~smp.may /\ ~unmasked[0] /\ ~unmasked[1]
    BY <1>11, Zenon DEF SealDispatch, BootInv, AfterSeal
  <2>3. /\ boot' = (IF plan.core1 /\ plan.bound THEN "release" ELSE "unmask")
        /\ UNCHANGED <<plan, smp, c1, gic, unmasked>>
    BY <1>11, Zenon DEF SealDispatch, Goto
  <2> QED BY <1>1, <2>1, <2>2, <2>3, Zenon DEF BootInv, AfterSeal, BootTypes
<1>12. CASE Release
  <2>1. smp' \in Handoffs /\ boot = "release" /\ boot' = "await_ready" /\ smp'.may
    BY <1>1, <1>12, Zenon DEF Release, Goto, Handoffs
  <2> QED BY <1>1, <1>12, <2>1, Zenon DEF Release, BootInv, BootTypes, AfterSeal
<1>13. CASE AwaitReady
  BY <1>13, PhaseMoves, Zenon DEF AwaitReady, Goto, AfterSeal
<1>14. CASE SendSgi
  <2>1. gic' \in Gics
    BY <1>1, <1>14, GicShape, Zenon DEF SendSgi
  <2> QED BY <1>1, <1>14, <2>1, BootQuiet, Zenon DEF SendSgi, Goto, AfterSeal
<1>15. CASE AwaitIpi
  BY <1>15, PhaseMoves, Zenon DEF AwaitIpi, Goto, AfterSeal
<1>16. CASE StartCpu1
  <2>1. plan.started \in BOOLEAN
    BY <1>1, Zenon DEF Plans
  <2> QED BY <2>1, <1>16, PhaseMoves, Zenon DEF StartCpu1, Goto, AfterSeal
<1>17. CASE SpawnMarker
  <2>0. gic' = Raise(gic, 1, WAKE_SGI) \/ gic' = gic
    BY <1>17, Zenon DEF SpawnMarker
  <2>1. gic' \in Gics
    BY <1>1, <2>0, GicShape, Zenon
  <2> QED BY <1>1, <1>17, <2>1, BootQuiet, Zenon DEF SpawnMarker, Goto, AfterSeal
<1>18. CASE AwaitRan
  <2>1. boot = "await_ran" /\ boot' = "unmask" /\ UNCHANGED <<plan, smp, c1, gic, irqs, unmasked>>
    BY <1>18, Zenon DEF AwaitRan, Goto
  <2> QED BY <2>1, PhaseMoves, Zenon DEF AfterSeal
<1>19. CASE EnableInterrupts
  <2>1. gic' \in Gics
    BY <1>1, <1>19, GicShape, Zenon DEF EnableInterrupts
  <2>2. plan.bound \in BOOLEAN
    BY <1>1, Zenon DEF Plans
  <2>3. unmasked' \in [CPUs -> BOOLEAN] /\ unmasked'[0] = plan.bound /\ unmasked'[1] = unmasked[1]
    BY <1>1, <1>19, <2>2 DEF EnableInterrupts
  <2>4. boot = "unmask" /\ boot' = "loop" /\ UNCHANGED <<plan, smp, c1, irqs>>
    BY <1>19, Zenon DEF EnableInterrupts, Goto
  <2> QED BY <1>1, <2>1, <2>3, <2>4, Zenon DEF BootInv, BootTypes, AfterSeal
<1>20. CASE SecondaryMain
  <2>1. smp' \in Handoffs /\ smp'.may = smp.may
    BY <1>1, <1>20, Zenon DEF SecondaryMain, Handoffs
  <2>2. c1 = "parked" /\ c1' \in {"alive", "halted"} /\ UNCHANGED <<boot, plan, gic, irqs, unmasked>>
    BY <1>20, Zenon DEF SecondaryMain
  <2> QED BY <1>1, <2>1, <2>2, Zenon DEF BootInv, BootTypes
<1>21. CASE SecondaryGic
  <2>1. gic' \in Gics
    <3>1. InitThisCpu(gic, 1) \in Gics
      BY <1>1, GicShape, Zenon
    <3>2. Enable(InitThisCpu(gic, 1), 1, WAKE_SGI) \in Gics
      BY <1>1, <3>1, GicShape, Zenon
    <3>3. Enable(Enable(InitThisCpu(gic, 1), 1, WAKE_SGI), 1, TIMER_IRQ) \in Gics
      BY <1>1, <3>2, GicShape, Zenon
    <3> QED BY <1>21, <3>3, Zenon DEF SecondaryGic
  <2>2. smp' \in Handoffs /\ smp'.may = smp.may
    BY <1>1, <1>21, Zenon DEF SecondaryGic, Handoffs
  <2>3. c1 = "alive" /\ smp.may /\ c1' = "ready" /\ UNCHANGED <<boot, plan, irqs, unmasked>>
    BY <1>21, Zenon DEF SecondaryGic, MayIrq
  <2> QED BY <1>1, <2>1, <2>2, <2>3, Zenon DEF BootInv, BootTypes
<1>22. CASE SecondaryUnmask
  <2>1. unmasked' \in [CPUs -> BOOLEAN] /\ unmasked'[0] = unmasked[0]
    BY <1>1, <1>22 DEF SecondaryUnmask
  <2>2. c1 = "ready" /\ c1' = "offline" /\ UNCHANGED <<boot, plan, smp, gic, irqs>>
    BY <1>22, Zenon DEF SecondaryUnmask
  <2> QED BY <1>1, <2>1, <2>2, Zenon DEF BootInv, BootTypes
<1>23. CASE SecondaryOnline \/ IdleCheck \/ IdleSleep
  <2>1. /\ c1 \in {"offline", "check", "doze"} /\ c1' \in {"check", "doze", "wfi"}
        /\ UNCHANGED <<boot, plan, smp, gic, irqs, unmasked>>
    BY <1>23, Zenon DEF SecondaryOnline, IdleCheck, IdleSleep
  <2> QED BY <1>1, <2>1, Zenon DEF BootInv, BootTypes
<1>24. ASSUME NEW irq \in AllLines, DeviceRaises(irq) PROVE BootInv'
  BY <1>1, <1>24, BootQuiet, GicShape, Zenon DEF DeviceRaises
<1>25. ASSUME NEW c \in CPUs, TimerFires(c) PROVE BootInv'
  BY <1>1, <1>25, BootQuiet, GicShape, Zenon DEF TimerFires
<1>26. ASSUME NEW c \in CPUs, TakeIrq(c) PROVE BootInv'
  <2>1. PICK irq \in Pending(c) :
          /\ gic' = [gic EXCEPT !.pend[c] = @ \ {irq}]
          /\ irqs' = [irqs EXCEPT !.unhandled = @ \cup ({irq} \ irqs.table)]
          /\ LET woken == irq = WAKE_SGI /\ c = 1 /\ irq \in irqs.table
             IN  smp' = [smp EXCEPT !.ipi = @ \/ woken]
    BY <1>26, Zenon DEF TakeIrq
  <2>2. /\ unmasked[c] /\ UNCHANGED <<boot, plan, unmasked>>
        /\ c1' = IF c = 1 /\ c1 = "wfi" THEN "check" ELSE c1
    BY <1>26, Zenon DEF TakeIrq
  <2>3. irqs.table = Lines
    BY <1>1, <2>2, Zenon DEF BootInv
  <2>4. irq \in AllLines
    BY <1>1, <2>1, Zenon DEF Gics, Pending
  <2>5. irqs' \in Tables /\ irqs'.table = irqs.table /\ irqs'.sealed = irqs.sealed
    <3>1. irqs.unhandled \cup ({irq} \ irqs.table) \in SUBSET {FIRMWARE_IRQ}
      BY <1>1, <2>3, <2>4, Zenon DEF Tables, AllLines
    <3> QED BY <1>1, <2>1, <3>1, Zenon DEF Tables
  <2>6. smp'.may = smp.may /\ smp' \in Handoffs
    BY <1>1, <2>1, Zenon DEF Handoffs
  <2>7. gic' \in Gics
    BY <1>1, <2>1, <2>4, GicShape, Zenon
  <2> QED BY <1>1, <2>2, <2>5, <2>6, <2>7, Zenon DEF BootInv, BootTypes
<1> QED BY <1>2, <1>3, <1>4, <1>5, <1>7, <1>8, <1>9, <1>10, <1>11, <1>12, <1>13, <1>14,
           <1>15, <1>16, <1>17, <1>18, <1>19, <1>20, <1>21, <1>22, <1>23, <1>24, <1>25,
           <1>26, <1>1, Zenon DEF BootNext, Core0, Core1

\* The inductive invariant: lines are bound before the seal, and interrupts are
\* unmasked on either core only after it, for any order of the two cores' steps
\* (irq/mod.rs, smp.rs).
THEOREM BootInvariant == BootSpec => []BootInv
BY BootStarts, BootStep, PTL DEF BootSpec

\* No core takes an interrupt before the dispatch table is sealed, and no line
\* of the kernel's ever arrives without a handler, for any order of the two
\* cores' bring-up and whatever lines the firmware left enabled (irq/mod.rs,
\* smp.rs).
THEOREM IrqAlwaysFindsHandler == BootSpec => []IrqFindsHandler
<1>1. BootInv => IrqFindsHandler
  <2> SUFFICES ASSUME BootInv PROVE IrqFindsHandler
    BY Zenon
  <2>0. unmasked[0] \/ unmasked[1] => plan.bound /\ boot \in AfterSeal
    BY Zenon DEF BootInv, AfterSeal
  <2>1. \A c \in CPUs : unmasked[c] => irqs.sealed /\ irqs.table = Lines
    BY <2>0, Zenon DEF BootInv, CPUs
  <2>2. \A c \in CPUs : gic.en[c] \subseteq Lines \cup {FIRMWARE_IRQ}
    BY Zenon DEF BootInv, BootTypes, Gics, AllLines
  <2>3. irqs.unhandled \subseteq {FIRMWARE_IRQ}
    BY Zenon DEF BootInv, BootTypes, Tables
  <2> QED BY <2>1, <2>2, <2>3, Zenon DEF IrqFindsHandler
<1> QED BY <1>1, BootInvariant, PTL

-----------------------------------------------------------------------------
(* Proofs about the durable region, for any number of sectors, keys and     *)
(* values: a write cut or torn anywhere, a reset at any moment.             *)

Values == Nat \X Nat
Regions == UNION {[D -> Values] : D \in SUBSET Keys}

\* A sector holds some of a region's records, or is torn.
Pieces == Regions \cup {Torn}
Payloads == [1..PAYLOAD_SECTORS -> Pieces]
Headers == [seq : Nat, crc : Payloads \cup {<<>>}]

Other(s) == IF s = "A" THEN "B" ELSE "A"

\* A region with the boot counter in it.
Counted(r) == r \in Regions /\ BOOT \in DOMAIN r /\ r[BOOT][1] = COUNTER_LEN

\* The slot a load would restore from.
Leads(s) ==
  /\ Valid(slot[s]) /\ slot[Other(s)].header.seq < slot[s].header.seq
  /\ \E r : Counted(r) /\ slot[s].payload = Sectors(r)

\* No flush has completed yet, or exactly one slot leads: its checksum holds, and the
\* other one's header, whole or torn, is older.
CardKept ==
  \/ \A s \in Slots : slot[s].header = NoHeader
  \/ \E s \in Slots : Leads(s)

StoreTypes ==
  /\ slot \in [Slots -> [header : Headers, payload : Payloads]]
  /\ region \in Regions \cup {Undecodable}
  /\ pc \in {"off", "init", "load", "display", "demos", "commit", "flush", "running"}
  /\ image \in {"product", "oracle"}
  /\ witness \in BOOLEAN
  /\ winner \in [slot : {"none", "A", "B"}, seq : Nat]
  /\ writing \in [slot : Slots, seq : Nat, payload : Payloads \cup {<<>>},
                  next : 0..(PAYLOAD_SECTORS + 1)]
  /\ acked \in Regions

\* What media_load found is still what a load would find.
WinnerCurrent ==
  \/ winner = NoWinner /\ \A s \in Slots : slot[s].header = NoHeader
  \/ /\ winner.slot \in Slots /\ Leads(winner.slot)
     /\ winner.seq = slot[winner.slot].header.seq

\* The counter of r is one more than the one on the card, if that has one.
OneMore(r) ==
  winner.slot # "none" =>
    r[BOOT][2] = Whole(slot[winner.slot].payload)[BOOT][2] + 1

\* Between open and the flush the region holds the advanced counter.
WillCommit == pc = "commit" \/ (image = "oracle" /\ witness /\ pc \in {"display", "demos"})

CommitKept ==
  /\ WillCommit => WinnerCurrent /\ Counted(region) /\ OneMore(region)
  /\ pc \in {"off", "init", "load"} => ~witness
  /\ pc = "demos" => image = "oracle"

\* The flush writes the slot that does not lead, sector by sector.
FlushKept ==
  pc = "flush" =>
    /\ WinnerCurrent
    /\ writing.slot = NextSlot(winner.slot)
    /\ writing.seq = winner.seq + 1
    /\ writing.next \in 1..(PAYLOAD_SECTORS + 1)
    /\ \E r : Counted(r) /\ OneMore(r) /\ writing.payload = Sectors(r)
    /\ \A i \in 1..PAYLOAD_SECTORS :
         i < writing.next => slot[writing.slot].payload[i] = writing.payload[i]

\* What was acknowledged is in the region.
LedgerKept ==
  /\ \A k \in DOMAIN acked :
       /\ region # Undecodable /\ k \in DOMAIN region
       /\ region[k] = acked[k] /\ acked[k][1] <= CALIBRATION_RECORD_LEN
  /\ pc \in {"off", "init", "load"} => acked = Nothing

StoreInv == StoreTypes /\ CardKept /\ CommitKept /\ FlushKept /\ LedgerKept

-----------------------------------------------------------------------------
USE DEF BOOT, CFG, TOUCH_CAL, COUNTER_LEN, MAX_WIRE_BYTES, CALIBRATION_RECORD_LEN

\* A region is a function from some of the keys to values.
LEMMA RegionShape ==
  /\ \A r \in Regions : /\ r = [k \in DOMAIN r |-> r[k]]
                        /\ DOMAIN r \subseteq Keys
                        /\ \A k \in DOMAIN r : r[k] \in Values
  /\ \A r, D : D \subseteq Keys /\ r \in [D -> Values] => r \in Regions
BY Zenon DEF Regions

\* The three keys the kernel uses are keys, and the two it writes at boot are
\* apart from the clients'.
LEMMA KeyFacts ==
  /\ 0 \notin Keys /\ {1, 2, 3} \subseteq Keys /\ BlobKeys \subseteq Keys /\ 1 \notin BlobKeys
  /\ WireValues \subseteq Values /\ Records \subseteq Values
  /\ PAYLOAD_SECTORS \in Nat /\ PAYLOAD_SECTORS >= 1
  /\ \A k \in Keys : SectorOf[k] \in 1..PAYLOAD_SECTORS
BY StoreAssumption DEF Keys, Values

\* What a decode can fail with is no region; the empty region is one.
LEMMA UndecodableApart == Undecodable \notin Regions /\ Nothing \in Regions
<1>1. DOMAIN Undecodable = {0}
  BY Zenon DEF Undecodable
<1>2. Nothing \in [{} -> Values]
  BY Zenon DEF Nothing
<1> QED BY <1>1, <1>2, RegionShape, KeyFacts, Zenon

\* Cutting a region into sectors and putting it together again gives it back.
LEMMA WholeOfSectors ==
  ASSUME NEW r \in Regions
  PROVE  Sectors(r) \in Payloads /\ Whole(Sectors(r)) = r
<1> DEFINE p == Sectors(r)
           P(i) == {x \in DOMAIN r : SectorOf[x] = i}
<1>1. DOMAIN p = 1..PAYLOAD_SECTORS
  BY Zenon DEF Sectors
<1>2. \A i \in 1..PAYLOAD_SECTORS : p[i] = [k \in P(i) |-> r[k]]
  BY Zenon DEF Sectors
<1>3. \A i \in 1..PAYLOAD_SECTORS : p[i] \in Regions /\ DOMAIN p[i] = P(i)
  <2> SUFFICES ASSUME NEW i \in 1..PAYLOAD_SECTORS PROVE p[i] \in Regions /\ DOMAIN p[i] = P(i)
    BY Zenon
  <2> DEFINE Q == P(i)
  <2>1. Q \subseteq DOMAIN r
    BY Zenon
  <2>2. p[i] = [k \in Q |-> r[k]]
    BY <1>2, Zenon
  <2> HIDE DEF Q, p
  <2>3. p[i] \in [Q -> Values] /\ Q \subseteq Keys /\ DOMAIN p[i] = Q
    BY <2>1, <2>2, RegionShape, Zenon
  <2>4. p[i] \in Regions
    BY <2>3, RegionShape, Zenon
  <2> QED BY <2>3, <2>4, Zenon DEF Q
<1>4. p \in Payloads
  BY <1>1, <1>3, Zenon DEF Payloads, Pieces, Sectors
<1>5. UNION {DOMAIN p[i] : i \in DOMAIN p} = DOMAIN r
  <2>1. \A x \in DOMAIN r : SectorOf[x] \in 1..PAYLOAD_SECTORS /\ x \in P(SectorOf[x])
    BY RegionShape, KeyFacts, Zenon
  <2>2. \A x \in DOMAIN r : \E i \in DOMAIN p : x \in DOMAIN p[i]
    BY <2>1, <1>1, <1>3, Zenon
  <2>3. \A i \in DOMAIN p : DOMAIN p[i] \subseteq DOMAIN r
    BY <1>1, <1>3, Zenon
  <2> HIDE DEF p
  <2> QED BY <2>2, <2>3, Zenon
<1>6. \A k \in DOMAIN r : p[SectorOf[k]][k] = r[k]
  <2> SUFFICES ASSUME NEW k \in DOMAIN r PROVE p[SectorOf[k]][k] = r[k]
    BY Zenon
  <2>1. SectorOf[k] \in 1..PAYLOAD_SECTORS /\ k \in P(SectorOf[k])
    BY RegionShape, KeyFacts, Zenon
  <2> QED BY <2>1, <1>2
<1>7. Whole(p) = [k \in DOMAIN r |-> r[k]]
  BY <1>5, <1>6, Zenon DEF Whole
<1> QED BY <1>4, <1>7, RegionShape, Zenon

\* put: a success is in the region it leaves, and everything else stays.
LEMMA PutKeeps ==
  ASSUME NEW r \in Regions \cup {Undecodable}, NEW k \in Keys, NEW v \in Values
  PROVE  LET put == Put(r, k, v) IN
         /\ put.ok \in BOOLEAN
         /\ Blobs(r) \in Regions
         /\ put.ok => /\ put.region \in Regions
                      /\ DOMAIN put.region = DOMAIN Blobs(r) \cup {k}
                      /\ put.region[k] = v
                      /\ \A x \in DOMAIN Blobs(r) : x # k => put.region[x] = Blobs(r)[x]
         /\ ~put.ok => put.region = r
         /\ k \in DOMAIN Blobs(r) => put.ok
<1> DEFINE b == Blobs(r)
           new == [x \in DOMAIN b \cup {k} |-> IF x = k THEN v ELSE b[x]]
<1>1. b \in Regions
  BY UndecodableApart, Zenon DEF Blobs
<1>2. new \in [DOMAIN b \cup {k} -> Values] /\ DOMAIN b \cup {k} \subseteq Keys
  BY <1>1, RegionShape, Zenon
<1>3. new \in Regions
  BY <1>2, RegionShape, Zenon
<1>4. CASE k \in DOMAIN b \/ Cardinality(DOMAIN b) < MAX_BLOBS
  <2>1. Put(r, k, v) = [ok |-> TRUE, region |-> new]
    BY <1>4, Zenon DEF Put
  <2>2. /\ DOMAIN new = DOMAIN b \cup {k} /\ new[k] = v
        /\ \A x \in DOMAIN b : x # k => new[x] = b[x]
    BY Zenon
  <2> HIDE DEF b, new
  <2>3. Put(r, k, v).ok = TRUE /\ Put(r, k, v).region = new
    BY <2>1
  <2> QED BY <2>3, <2>2, <1>1, <1>3, Zenon DEF b
<1>5. CASE ~(k \in DOMAIN b \/ Cardinality(DOMAIN b) < MAX_BLOBS)
  <2>1. Put(r, k, v) = [ok |-> FALSE, region |-> r]
    BY <1>5, Zenon DEF Put
  <2> QED BY <2>1, <1>1, <1>5
<1> QED BY <1>4, <1>5, Zenon

\* Which slot a load restores from.
LEMMA WinnerIs ==
  ASSUME slot \in [Slots -> [header : Headers, payload : Payloads]]
  PROVE  /\ (\A s \in Slots : slot[s].header = NoHeader) => PickWinner(slot) = "none"
         /\ \A s \in Slots : Leads(s) => PickWinner(slot) = s
<1>1. /\ "A" \in Slots /\ "B" \in Slots /\ \A s \in Slots : s = "A" \/ s = "B"
      /\ slot["A"].header.seq \in Nat /\ slot["B"].header.seq \in Nat
  BY Zenon DEF Slots, Headers
<1>2. (\A s \in Slots : slot[s].header = NoHeader) => PickWinner(slot) = "none"
  BY <1>1, Zenon DEF PickWinner, Valid
<1>3. Leads("A") => PickWinner(slot) = "A"
  BY <1>1 DEF Leads, Other, PickWinner, PickLatest
<1>4. Leads("B") => PickWinner(slot) = "B"
  BY <1>1 DEF Leads, Other, PickWinner, PickLatest
<1> QED BY <1>1, <1>2, <1>3, <1>4, Zenon

\* What a load would find: the leading slot's region, or nothing.
LEMMA OnCardIs ==
  ASSUME slot \in [Slots -> [header : Headers, payload : Payloads]]
  PROVE  /\ (\A s \in Slots : slot[s].header = NoHeader)
               => OnCard = [seq |-> 0, region |-> Nothing]
         /\ \A s \in Slots : Leads(s) =>
               OnCard = [seq |-> slot[s].header.seq, region |-> Whole(slot[s].payload)]
<1>1. "none" \notin Slots
  BY Zenon DEF Slots
<1> QED BY <1>1, WinnerIs, Zenon DEF OnCard

\* The same facts of the next state.
LEMMA OnCardIsNext ==
  ASSUME slot' \in [Slots -> [header : Headers, payload : Payloads]]
  PROVE  /\ (\A s \in Slots : slot'[s].header = NoHeader)
               => OnCard' = [seq |-> 0, region |-> Nothing]
         /\ \A s \in Slots : Leads(s)' =>
               OnCard' = [seq |-> slot'[s].header.seq, region |-> Whole(slot'[s].payload)]
<1>1. "none" \notin Slots
  BY Zenon DEF Slots
<1>2. /\ "A" \in Slots /\ "B" \in Slots /\ \A s \in Slots : s = "A" \/ s = "B"
      /\ slot'["A"].header.seq \in Nat /\ slot'["B"].header.seq \in Nat
  BY Zenon DEF Slots, Headers
<1>3. (\A s \in Slots : slot'[s].header = NoHeader) => PickWinner(slot') = "none"
  BY <1>2, Zenon DEF PickWinner, Valid
<1>4. Leads("A")' => PickWinner(slot') = "A"
  BY <1>2 DEF Leads, Other, PickWinner, PickLatest
<1>5. Leads("B")' => PickWinner(slot') = "B"
  BY <1>2 DEF Leads, Other, PickWinner, PickLatest
<1> QED BY <1>1, <1>2, <1>3, <1>4, <1>5, Zenon DEF OnCard

\* A leading slot holds a region with a counter.
LEMMA LeaderCounts ==
  ASSUME NEW s \in Slots, Leads(s)
  PROVE  /\ Counted(Whole(slot[s].payload))
         /\ slot[s].payload = Sectors(Whole(slot[s].payload))
<1>1. PICK r : Counted(r) /\ slot[s].payload = Sectors(r)
  BY Zenon DEF Leads
<1>2. Whole(slot[s].payload) = r
  BY <1>1, WholeOfSectors, Zenon DEF Counted
<1> QED BY <1>1, <1>2, Zenon

\* Two functions with the same values are the same.
LEMMA SameFunction ==
  ASSUME NEW S, NEW T, NEW p \in [S -> T], NEW q \in [S -> T], \A i \in S : p[i] = q[i]
  PROVE  p = q
OBVIOUS

\* Writing one sector of the flush, whole or torn.
LEMMA WriteKeepsCard ==
  ASSUME StoreInv, pc = "flush", NEW torn \in BOOLEAN, slot' \in Written(slot, writing, torn)
  PROVE  /\ slot' \in [Slots -> [header : Headers, payload : Payloads]]
         /\ CardKept'
         /\ \/ OnCard' = OnCard
            \/ OnCard' = [seq |-> OnCard.seq + 1, region |-> Whole(writing.payload)]
         /\ ~torn /\ writing.next # PAYLOAD_SECTORS + 1 =>
              /\ slot'[writing.slot].payload =
                   [slot[writing.slot].payload EXCEPT ![writing.next] = writing.payload[writing.next]]
              /\ \A s \in Slots : slot'[s].header = slot[s].header
              /\ winner.slot \in Slots => slot'[winner.slot] = slot[winner.slot]
<1> DEFINE T == [Slots -> [header : Headers, payload : Payloads]]
<1>t. PICK t : t = writing.slot
  BY Zenon
<1>w. PICK w : w = winner.slot
  BY Zenon
<1> USE <1>t, <1>w
<1>1. /\ slot \in T /\ t \in Slots /\ writing.next \in 1..(PAYLOAD_SECTORS + 1)
      /\ writing.seq \in Nat /\ winner.seq \in Nat /\ PAYLOAD_SECTORS \in Nat
      /\ writing.seq = winner.seq + 1
      /\ "A" \in Slots /\ "B" \in Slots /\ \A s \in Slots : s = "A" \/ s = "B"
      /\ "none" \notin Slots
  BY KeyFacts, Zenon DEF StoreInv, StoreTypes, FlushKept, Slots
<1>2. PICK r : Counted(r) /\ OneMore(r) /\ writing.payload = Sectors(r)
  BY Zenon DEF StoreInv, FlushKept
<1>3. writing.payload \in Payloads
  BY <1>2, WholeOfSectors, Zenon DEF Counted
<1>4. w \in Slots => t = Other(w) /\ w = Other(t) /\ t # w
  BY <1>1, Zenon DEF StoreInv, FlushKept, NextSlot, Other, Slots
<1>5. NoHeader \in Headers /\ EncodeHeader(writing.seq, writing.payload) \in Headers
  BY <1>1, <1>3, Zenon DEF NoHeader, EncodeHeader, Headers
<1>6. CASE writing.next # PAYLOAD_SECTORS + 1
  <2>1. PICK c \in Pieces : /\ slot' = [slot EXCEPT ![t].payload[writing.next] = c]
                            /\ ~torn => c = writing.payload[writing.next]
    <3>1. ~IsHeader(writing.next)
      BY <1>6, Zenon DEF IsHeader
    <3>2. writing.next \in 1..PAYLOAD_SECTORS
      BY <1>1, <1>6
    <3>3. writing.payload[writing.next] \in Pieces /\ slot[t].payload[writing.next] \in Pieces
      BY <1>1, <1>3, <3>2 DEF Payloads
    <3> QED BY <3>1, <3>3, Zenon DEF Written, AfterWrite, Pieces
  <2>2. /\ slot' \in T
        /\ slot'[t].payload = [slot[t].payload EXCEPT ![writing.next] = c]
        /\ \A s \in Slots : slot'[s].header = slot[s].header
        /\ \A s \in Slots : s # t => slot'[s] = slot[s]
    BY <1>1, <2>1 DEF Payloads
  <2>3. w \in Slots => (Leads(w) => Leads(w)')
    BY <1>1, <1>4, <2>2, Zenon DEF Leads, Valid, Other
  <2>4. CardKept' /\ OnCard' = OnCard
    <3>1. CASE \A s \in Slots : slot[s].header = NoHeader
      BY <3>1, <1>1, <2>2, OnCardIs, OnCardIsNext, Zenon DEF CardKept
    <3>2. CASE w \in Slots /\ Leads(w)
      <4>1. Leads(w)' /\ slot'[w] = slot[w]
        BY <3>2, <2>2, <2>3, <1>4, Zenon
      <4> QED BY <4>1, <3>2, <1>1, <2>2, OnCardIs, OnCardIsNext DEF CardKept
    <3> QED BY <3>1, <3>2, Zenon DEF StoreInv, FlushKept, WinnerCurrent
  <2> QED BY <2>1, <2>2, <2>4, <1>1, <1>4, Zenon
<1>7. CASE writing.next = PAYLOAD_SECTORS + 1
  <2>1. PICK h \in {slot[t].header, NoHeader, EncodeHeader(writing.seq, writing.payload)} :
          slot' = [slot EXCEPT ![t].header = h]
    BY <1>7, Zenon DEF Written, IsHeader
  <2>2. /\ slot' \in T /\ slot'[t].header = h /\ slot'[t].payload = slot[t].payload
        /\ \A s \in Slots : s # t => slot'[s] = slot[s]
    <3>1. h \in Headers
      BY <1>1, <1>5
    <3> QED BY <1>1, <2>1, <3>1
  <2>3. CASE h = EncodeHeader(writing.seq, writing.payload)
    <3>1. slot[t].payload = writing.payload
      <4>1. \A i \in 1..PAYLOAD_SECTORS : slot[t].payload[i] = writing.payload[i]
        BY <1>1, <1>7 DEF StoreInv, FlushKept
      <4>2. slot[t].payload \in Payloads
        BY <1>1, Zenon
      <4>3. \A p, q \in Payloads : (\A i \in 1..PAYLOAD_SECTORS : p[i] = q[i]) => p = q
        BY SameFunction, Zenon DEF Payloads
      <4> QED BY <4>1, <4>2, <4>3, <1>3, Zenon
    <3>2. slot'[Other(t)].header.seq < slot'[t].header.seq
      <4>1. slot'[t].header.seq = winner.seq + 1
        BY <1>1, <2>2, <2>3 DEF EncodeHeader
      <4>2. Other(t) \in Slots /\ Other(t) # t
        BY <1>1, Zenon DEF Other
      <4>3. slot[Other(t)].header.seq = winner.seq
        <5>1. CASE winner = NoWinner /\ \A s \in Slots : slot[s].header = NoHeader
          BY <5>1, <4>2 DEF NoWinner, NoHeader
        <5>2. CASE w \in Slots /\ winner.seq = slot[w].header.seq
          BY <5>2, <1>4, Zenon
        <5> QED BY <5>1, <5>2, Zenon DEF StoreInv, FlushKept, WinnerCurrent
      <4> QED BY <4>1, <4>2, <4>3, <2>2, <1>1
    <3>3. Valid(slot'[t])
      <4>1. h.seq # 0 /\ h.crc = writing.payload
        BY <1>1, <2>3 DEF EncodeHeader
      <4> QED BY <4>1, <3>1, <2>2 DEF Valid, NoHeader
    <3>4. Leads(t)'
      BY <3>1, <3>2, <3>3, <1>2, <2>2, Zenon DEF Leads
    <3>5. OnCard' = [seq |-> winner.seq + 1, region |-> Whole(writing.payload)]
      BY <3>4, <3>1, <2>2, <2>3, <1>1, OnCardIsNext DEF EncodeHeader
    <3>6. OnCard.seq = winner.seq
      <4>1. CASE winner = NoWinner /\ \A s \in Slots : slot[s].header = NoHeader
        BY <4>1, <1>1, OnCardIs DEF NoWinner
      <4>2. CASE w \in Slots /\ Leads(w) /\ winner.seq = slot[w].header.seq
        BY <4>2, <1>1, OnCardIs
      <4> QED BY <4>1, <4>2, Zenon DEF StoreInv, FlushKept, WinnerCurrent
    <3> QED BY <3>4, <3>5, <3>6, <2>2, <1>1, <1>7, Zenon DEF CardKept
  <2>4. CASE h = slot[t].header \/ h = NoHeader
    <3>1. CASE \A s \in Slots : slot[s].header = NoHeader
      <4>1. \A s \in Slots : slot'[s].header = NoHeader
        BY <3>1, <2>2, <2>4, <1>1, Zenon
      <4> QED BY <3>1, <4>1, <1>1, <1>7, <2>2, OnCardIs, OnCardIsNext, Zenon DEF CardKept
    <3>2. CASE w \in Slots /\ Leads(w)
      <4>1. slot'[w] = slot[w]
        BY <3>2, <2>2, <1>4, Zenon
      <4>2. slot'[t].header.seq < slot[w].header.seq
        <5>1. slot[t].header.seq < slot[w].header.seq /\ slot[t].header.seq \in Nat
              /\ slot[w].header.seq \in Nat
          BY <3>2, <1>1, <1>4, Zenon DEF Leads, Headers
        <5> QED BY <5>1, <2>2, <2>4 DEF NoHeader
      <4>3. Leads(w)'
        BY <3>2, <4>1, <4>2, <1>4, Zenon DEF Leads, Valid
      <4> QED BY <4>1, <4>3, <3>2, <1>1, <1>7, <2>2, OnCardIs, OnCardIsNext DEF CardKept
    <3> QED BY <3>1, <3>2, Zenon DEF StoreInv, FlushKept, WinnerCurrent
  <2> QED BY <2>1, <2>3, <2>4, Zenon
<1> QED BY <1>6, <1>7, Zenon

\* A header that reaches the card carries the counter of the one before plus one.
LEMMA FlushCounts ==
  ASSUME StoreInv, pc = "flush", OnCard.seq # 0
  PROVE  Whole(writing.payload)[BOOT][2] = OnCard.region[BOOT][2] + 1
<1>1. slot \in [Slots -> [header : Headers, payload : Payloads]]
  BY Zenon DEF StoreInv, StoreTypes
<1>2. PICK r : Counted(r) /\ OneMore(r) /\ writing.payload = Sectors(r)
  BY Zenon DEF StoreInv, FlushKept
<1>3. Whole(writing.payload) = r
  BY <1>2, WholeOfSectors, Zenon DEF Counted
<1>4. ~\A s \in Slots : slot[s].header = NoHeader
  <2>1. OnCard # [seq |-> 0, region |-> Nothing]
    OBVIOUS
  <2> QED BY <2>1, <1>1, OnCardIs, Zenon
<1>5. winner.slot \in Slots /\ Leads(winner.slot)
  BY <1>4, Zenon DEF StoreInv, FlushKept, WinnerCurrent
<1>6. OnCard.region = Whole(slot[winner.slot].payload) /\ winner.slot # "none"
  BY <1>1, <1>5, OnCardIs DEF Slots
<1> QED BY <1>2, <1>3, <1>6, Zenon DEF OneMore

\* A step that writes nothing to the card leaves what a load would find.
LEMMA SameCard ==
  ASSUME UNCHANGED slot
  PROVE  /\ OnCard' = OnCard /\ (CardKept => CardKept')
         /\ \A s : Leads(s) => Leads(s)'
BY DEF OnCard, CardKept, Leads, Valid, PickWinner, PickLatest, Whole

\* A card nothing was ever written to.
LEMMA StoreStarts == StoreInit => StoreInv
<1> SUFFICES ASSUME StoreInit PROVE StoreInv
  BY Zenon
<1>1. Torn \in Pieces /\ NoHeader \in Headers
  BY Zenon DEF Pieces, NoHeader, Headers
<1>2. slot \in [Slots -> [header : Headers, payload : Payloads]]
  BY <1>1, Zenon DEF StoreInit, Payloads
<1>3. NoWrite \in [slot : Slots, seq : Nat, payload : Payloads \cup {<<>>},
                   next : 0..(PAYLOAD_SECTORS + 1)]
  BY KeyFacts DEF NoWrite, Slots
<1>4. NoWinner \in [slot : {"none", "A", "B"}, seq : Nat]
  BY Zenon DEF NoWinner
<1>5. StoreTypes
  BY <1>2, <1>3, <1>4, UndecodableApart, Zenon DEF StoreInit, StoreTypes
<1>6. CardKept
  BY Zenon DEF StoreInit, CardKept
<1>7. CommitKept /\ FlushKept
  BY Zenon DEF StoreInit, CommitKept, WillCommit, FlushKept
<1>8. LedgerKept
  BY Zenon DEF StoreInit, LedgerKept, Nothing
<1> QED BY <1>5, <1>6, <1>7, <1>8, Zenon DEF StoreInv

\* Steps that touch neither the card nor the ledger nor the flush in progress.
LEMMA QuietKeeps ==
  ASSUME StoreInv, UNCHANGED <<slot, region, winner, witness, image, writing, acked>>,
         pc' \in {"off", "init", "load", "display", "demos", "commit", "flush", "running"},
         pc' = "flush" => pc = "flush", WillCommit' => WillCommit,
         pc' \in {"off", "init", "load"} => acked = Nothing /\ ~witness,
         pc' = "demos" => image = "oracle"
  PROVE  StoreInv'
<1>1. StoreTypes'
  BY Zenon DEF StoreInv, StoreTypes
<1>2. CardKept'
  BY SameCard, Zenon DEF StoreInv
<1>3. WinnerCurrent => WinnerCurrent'
  <2>1. PICK w : w = winner.slot
    BY Zenon
  <2>2. Leads(w) => Leads(w)'
    BY SameCard, Zenon
  <2> QED BY <2>1, <2>2, Zenon DEF WinnerCurrent, Leads
<1>4. CommitKept' /\ FlushKept'
  <2>1. OneMore(region) => OneMore(region)'
    BY DEF OneMore, Whole
  <2>2. \A r : OneMore(r) => OneMore(r)'
    BY DEF OneMore, Whole
  <2>3. CommitKept'
    BY <1>3, <2>1, Zenon DEF StoreInv, CommitKept, Counted
  <2>4. FlushKept'
    BY <1>3, <2>2, Zenon DEF StoreInv, FlushKept
  <2> QED BY <2>3, <2>4, Zenon
<1>5. LedgerKept'
  BY Zenon DEF StoreInv, LedgerKept
<1> QED BY <1>1, <1>2, <1>3, <1>4, <1>5, Zenon DEF StoreInv

\* Power on and the card's start-up walk write nothing.
LEMMA PowerOnKeeps == ASSUME StoreInv, PowerOn PROVE StoreInv'
<1>1. acked = Nothing /\ ~witness
  BY Zenon DEF PowerOn, StoreInv, LedgerKept, CommitKept
<1> QED BY <1>1, QuietKeeps, Zenon DEF PowerOn, WillCommit

\* The card's start-up walk, whatever the card answers (sdcard.rs).
LEMMA InitCardKeeps == ASSUME StoreInv, InitCard PROVE StoreInv'
<1>1. acked = Nothing /\ pc = "init" /\ ~witness
  BY Zenon DEF InitCard, StoreInv, LedgerKept, CommitKept
<1>2. pc' \in {"init", "load", "display"} /\ UNCHANGED <<slot, region, winner, witness, image, writing, acked>>
  BY Zenon DEF InitCard
<1> QED BY <1>1, <1>2, QuietKeeps, Zenon DEF WillCommit

\* Reading the calibration back (durable.rs).
LEMMA CalibrationLoadKeeps == ASSUME StoreInv, LoadTouchCalibration PROVE StoreInv'
<1>0. image \in {"product", "oracle"}
  BY Zenon DEF StoreInv, StoreTypes
<1>1. /\ pc = "display" /\ pc' = IF image = "product" THEN "running" ELSE "demos"
      /\ UNCHANGED <<slot, region, winner, witness, image, writing, acked>>
  BY Zenon DEF LoadTouchCalibration
<1> QED BY <1>0, <1>1, QuietKeeps, Zenon DEF WillCommit

\* open: the counter is read from what was restored, and put back one higher.
LEMMA OpenCounts ==
  ASSUME NEW r \in Regions \cup {Undecodable}, NEW n,
         LET prev == Get(r, BOOT, COUNTER_LEN)
         IN  n = IF prev[1] = COUNTER_LEN THEN prev[2] ELSE 0
  PROVE  /\ n \in Nat
         /\ Counted(r) => n = r[BOOT][2]
         /\ LET put == Put(r, BOOT, <<COUNTER_LEN, n + 1>>)
            IN  /\ put.ok => Counted(put.region) /\ put.region[BOOT][2] = n + 1
                /\ Counted(r) => put.ok
                /\ put.region \in Regions \cup {Undecodable}
                /\ put.ok \in BOOLEAN
<1>1. BOOT \in Keys
  BY KeyFacts, Zenon
<1>2. n \in Nat /\ (Counted(r) => n = r[BOOT][2])
  <2>1. CASE r = Undecodable
    BY <2>1, UndecodableApart, Zenon DEF Get, DEFAULT, Counted
  <2>2. CASE r \in Regions
    <3>1. r # Undecodable
      BY <2>2, UndecodableApart, Zenon
    <3>2. BOOT \in DOMAIN r => r[BOOT] \in Nat \X Nat
      BY <2>2, RegionShape, Zenon DEF Values
    <3>3. BOOT \in DOMAIN r => r[BOOT][1] \in Nat /\ r[BOOT][2] \in Nat
      BY <3>2, Zenon
    <3> QED BY <3>1, <3>3 DEF Get, DEFAULT, Counted
  <2> QED BY <2>1, <2>2, Zenon
<1>3. <<COUNTER_LEN, n + 1>> \in Values
  BY <1>2 DEF Values
<1>4. Counted(r) => BOOT \in DOMAIN Blobs(r)
  BY UndecodableApart, Zenon DEF Counted, Blobs
<1> DEFINE v == <<COUNTER_LEN, n + 1>>
           put == Put(r, BOOT, v)
<1>5. v[1] = COUNTER_LEN /\ v[2] = n + 1 /\ v \in Values
  BY <1>3, Zenon
<1> HIDE DEF v
<1>6. /\ put.ok \in BOOLEAN
      /\ put.ok => put.region \in Regions /\ BOOT \in DOMAIN put.region /\ put.region[BOOT] = v
      /\ ~put.ok => put.region = r
      /\ BOOT \in DOMAIN Blobs(r) => put.ok
  <2> HIDE DEF put
  <2>1. put = Put(r, BOOT, v)
    BY Zenon DEF put
  <2> QED BY <2>1, <1>1, <1>5, PutKeeps
<1> HIDE DEF put
<1>7. /\ put.ok => Counted(put.region) /\ put.region[BOOT][2] = n + 1
      /\ Counted(r) => put.ok
      /\ put.region \in Regions \cup {Undecodable}
      /\ put.ok \in BOOLEAN
  BY <1>4, <1>5, <1>6, Zenon DEF Counted
<1> QED BY <1>2, <1>7, Zenon DEF put, v

\* open: the winner is noted, the region restored, the counter advanced.
LEMMA OpenKeeps == ASSUME StoreInv, Open PROVE StoreInv'
<1>1. /\ pc = "load" /\ acked = Nothing /\ ~witness /\ acked' = acked /\ UNCHANGED <<slot, image, writing>>
  BY Zenon DEF Open, StoreInv, LedgerKept, CommitKept
<1>2. CASE pc' = "display" /\ UNCHANGED <<region, winner, witness>>
  BY <1>1, <1>2, QuietKeeps, Zenon DEF WillCommit
<1>3. CASE ~(pc' = "display" /\ UNCHANGED <<region, winner, witness>>)
  <2> DEFINE P == PickWinner(slot)
             r == IF P = "none" THEN region ELSE Whole(slot[P].payload)
             prev == Get(r, BOOT, COUNTER_LEN)
             n == IF prev[1] = COUNTER_LEN THEN prev[2] ELSE 0
             put == Put(r, BOOT, <<COUNTER_LEN, n + 1>>)
  <2>1. /\ region' = put.region
        /\ winner' = IF P = "none" THEN NoWinner ELSE [slot |-> P, seq |-> slot[P].header.seq]
        /\ witness' = put.ok
        /\ pc' = IF put.ok /\ image = "product" THEN "commit" ELSE "display"
    BY <1>3, Zenon DEF Open, OpenRegion
  <2>2. slot \in [Slots -> [header : Headers, payload : Payloads]] /\ region \in Regions \cup {Undecodable}
    BY Zenon DEF StoreInv, StoreTypes
  <2>3. \/ P = "none" /\ \A s \in Slots : slot[s].header = NoHeader
        \/ P \in Slots /\ Leads(P) /\ P # "none"
    BY <2>2, WinnerIs, Zenon DEF StoreInv, CardKept, Slots
  <2>4. P \in Slots => Counted(Whole(slot[P].payload))
    BY <2>3, LeaderCounts, Zenon DEF Slots
  <2>5. /\ r \in Regions \cup {Undecodable}
        /\ P # "none" => r = Whole(slot[P].payload) /\ Counted(r)
    BY <2>2, <2>3, <2>4, Zenon DEF Counted
  <2>6. PICK m : m = n
    BY Zenon
  <2>7. /\ m \in Nat
        /\ Counted(r) => m = r[BOOT][2]
        /\ LET q == Put(r, BOOT, <<COUNTER_LEN, m + 1>>)
            IN  /\ q.ok => Counted(q.region) /\ q.region[BOOT][2] = m + 1
                /\ q.region \in Regions \cup {Undecodable}
                /\ q.ok \in BOOLEAN
    <3> HIDE DEF r
    <3>1. LET pr == Get(r, BOOT, COUNTER_LEN) IN m = IF pr[1] = COUNTER_LEN THEN pr[2] ELSE 0
      BY <2>6, Zenon
    <3> QED BY <2>5, <3>1, OpenCounts
  <2>8. /\ put.ok => Counted(put.region) /\ put.region[BOOT][2] = m + 1
        /\ put.region \in Regions \cup {Undecodable}
        /\ put.ok \in BOOLEAN
    <3> HIDE DEF r
    <3> QED BY <2>6, <2>7, Zenon
  <2>9. P # "none" => m = Whole(slot[P].payload)[BOOT][2]
    BY <2>5, <2>7, Zenon
  <2>10. PICK w : w = P
    BY Zenon
  <2> HIDE DEF put, r, n, P
  <2>11. WinnerCurrent'
    <3>1. CASE P = "none"
      BY <3>1, <1>1, <2>1, <2>3, Zenon DEF WinnerCurrent, Slots
    <3>2. CASE P # "none"
      <4>1. Leads(w)' /\ w \in Slots
        BY <3>2, <1>1, <2>3, <2>10, SameCard, Zenon
      <4>2. winner'.slot = w /\ winner'.seq = slot'[w].header.seq
        BY <3>2, <1>1, <2>1, <2>10, Zenon
      <4> QED BY <4>1, <4>2, Zenon DEF WinnerCurrent, Leads
    <3> QED BY <3>1, <3>2, Zenon
  <2>12. put.ok => Counted(region)' /\ OneMore(region)'
    BY <1>1, <2>1, <2>8, <2>9 DEF OneMore, Counted, NoWinner, Whole
  <2>13. winner' \in [slot : {"none", "A", "B"}, seq : Nat]
    BY <2>1, <2>2, <2>3, Zenon DEF NoWinner, Slots, Headers
  <2>14. StoreTypes'
    BY <1>1, <2>1, <2>8, <2>13, Zenon DEF StoreInv, StoreTypes
  <2>15. CommitKept'
    BY <1>1, <2>1, <2>8, <2>11, <2>12, Zenon DEF CommitKept, WillCommit
  <2>16. LedgerKept'
    BY <1>1, <2>1, Zenon DEF LedgerKept, Nothing
  <2>17. FlushKept'
    BY <2>1, Zenon DEF FlushKept
  <2>18. CardKept'
    BY <1>1, SameCard, Zenon DEF StoreInv
  <2> QED BY <2>14, <2>15, <2>16, <2>17, <2>18, Zenon DEF StoreInv
<1> QED BY <1>2, <1>3, Zenon

\* A put by a client or by the demos: the counter's key is not theirs.
LEMMA AckedPutKeeps ==
  ASSUME StoreInv, NEW k \in Keys, NEW v \in Values, k # BOOT, v[1] <= CALIBRATION_RECORD_LEN,
         AckedPut(k, v), UNCHANGED <<slot, winner, witness, image, writing>>, TasksRun,
         \/ pc' = pc
         \/ pc = "demos" /\ pc' = IF witness THEN "commit" ELSE "running"
  PROVE  StoreInv'
<1> DEFINE put == Put(region, k, v)
<1>1. region \in Regions \cup {Undecodable} /\ acked \in Regions
  BY Zenon DEF StoreInv, StoreTypes
<1>2. /\ put.ok \in BOOLEAN
      /\ Blobs(region) \in Regions
      /\ put.ok => /\ put.region \in Regions
                   /\ DOMAIN put.region = DOMAIN Blobs(region) \cup {k}
                   /\ put.region[k] = v
                   /\ \A x \in DOMAIN Blobs(region) : x # k => put.region[x] = Blobs(region)[x]
      /\ ~put.ok => put.region = region
  <2> HIDE DEF put
  <2>1. put = Put(region, k, v)
    BY Zenon DEF put
  <2> QED BY <1>1, <2>1, PutKeeps
<1>3. /\ region' = put.region
      /\ acked' = IF put.ok THEN [x \in DOMAIN acked \cup {k} |-> IF x = k THEN v ELSE acked[x]]
                  ELSE acked
  BY Zenon DEF AckedPut
<1> HIDE DEF put
<1>4. pc \in {"running", "demos", "commit", "flush"} /\ pc' \in {"running", "demos", "commit", "flush"}
  BY Zenon DEF TasksRun
<1>5. acked' \in Regions
  <2>1. CASE put.ok
    <3>1. DOMAIN acked \cup {k} \subseteq Keys /\ \A x \in DOMAIN acked : acked[x] \in Values
      BY <1>1, RegionShape, Zenon
    <3>2. acked' \in [DOMAIN acked \cup {k} -> Values]
      BY <2>1, <3>1, <1>3, Zenon
    <3> QED BY <3>1, <3>2, RegionShape, Zenon
  <2>2. CASE ~put.ok
    BY <2>2, <1>1, <1>3, Zenon
  <2> QED BY <2>1, <2>2, Zenon
<1>6. StoreTypes'
  BY <1>2, <1>3, <1>4, <1>5, Zenon DEF StoreInv, StoreTypes
<1>7. CardKept'
  BY SameCard, Zenon DEF StoreInv
<1>8. Counted(region) => Counted(region') /\ region'[BOOT] = region[BOOT]
  BY <1>2, <1>3, UndecodableApart, Zenon DEF Counted, Blobs
<1>9. WinnerCurrent => WinnerCurrent'
  <2>1. PICK w : w = winner.slot
    BY Zenon
  <2>2. Leads(w) => Leads(w)'
    BY SameCard, Zenon
  <2> QED BY <2>1, <2>2, Zenon DEF WinnerCurrent, Leads
<1>10. CommitKept'
  <2>1. WillCommit' => WillCommit
    BY Zenon DEF WillCommit, TasksRun
  <2>2. Counted(region) /\ OneMore(region) => Counted(region)' /\ OneMore(region)'
    BY <1>8 DEF OneMore, Counted, Whole
  <2> QED BY <2>1, <2>2, <1>4, <1>9, Zenon DEF StoreInv, CommitKept
<1>11. FlushKept'
  <2>1. pc' = "flush" => pc = "flush"
    BY Zenon
  <2>2. \A r : OneMore(r) => OneMore(r)'
    BY DEF OneMore, Whole
  <2> QED BY <2>1, <2>2, <1>9, Zenon DEF StoreInv, FlushKept
<1>12. LedgerKept'
  <2>1. CASE put.ok
    <3>1. region' # Undecodable
      BY <2>1, <1>2, <1>3, UndecodableApart, Zenon
    <3>2. ASSUME NEW x \in DOMAIN acked'
          PROVE  x \in DOMAIN region' /\ region'[x] = acked'[x] /\ acked'[x][1] <= CALIBRATION_RECORD_LEN
      <4>1. CASE x = k
        BY <2>1, <4>1, <1>2, <1>3, Zenon
      <4>2. CASE x # k
        <5>1. x \in DOMAIN acked /\ acked'[x] = acked[x]
          BY <2>1, <4>2, <1>3, Zenon
        <5>2. /\ region # Undecodable /\ x \in DOMAIN region /\ region[x] = acked[x]
              /\ acked[x][1] <= CALIBRATION_RECORD_LEN
          BY <5>1, Zenon DEF StoreInv, LedgerKept
        <5> QED BY <2>1, <4>2, <5>1, <5>2, <1>2, <1>3, Zenon DEF Blobs
      <4> QED BY <4>1, <4>2, Zenon
    <3> QED BY <3>1, <3>2, <1>4, Zenon DEF LedgerKept
  <2>2. CASE ~put.ok
    BY <2>2, <1>2, <1>3, <1>4, Zenon DEF StoreInv, LedgerKept
  <2> QED BY <2>1, <2>2, Zenon
<1> QED BY <1>6, <1>7, <1>10, <1>11, <1>12, Zenon DEF StoreInv

\* The oracle image's own puts.
LEMMA DemosKeep == ASSUME StoreInv, Demos PROVE StoreInv'
<1>0. image = "oracle"
  BY Zenon DEF StoreInv, CommitKept, Demos
<1>1. <<MAX_WIRE_BYTES, 0>> \in Values /\ <<MAX_WIRE_BYTES, 0>>[1] <= CALIBRATION_RECORD_LEN
      /\ CFG \in Keys /\ CFG # BOOT
  BY KeyFacts DEF Values
<1> QED BY <1>0, <1>1, AckedPutKeeps, Zenon DEF Demos, TasksRun

\* A client's put.
LEMMA BlobPutKeeps ==
  ASSUME StoreInv, NEW k \in BlobKeys, NEW v \in WireValues, BlobPut(k, v)
  PROVE  StoreInv'
<1>1. k \in Keys /\ k # BOOT /\ v \in Values
  BY KeyFacts, Zenon
<1>2. v[1] <= CALIBRATION_RECORD_LEN
  BY StoreAssumption
<1> QED BY <1>1, <1>2, AckedPutKeeps, Zenon DEF BlobPut

\* A confirmed calibration's put.
LEMMA CalibrateKeeps ==
  ASSUME StoreInv, NEW c \in Records, Calibrate(c)
  PROVE  StoreInv'
<1>1. TOUCH_CAL \in Keys /\ TOUCH_CAL # BOOT /\ c \in Values
  BY KeyFacts
<1>2. c[1] <= CALIBRATION_RECORD_LEN
  BY StoreAssumption
<1> QED BY <1>1, <1>2, AckedPutKeeps, Zenon DEF Calibrate

\* The flush is prepared: the next slot, the next sequence number, the region
\* cut into sectors.
LEMMA CommitKeeps == ASSUME StoreInv, Commit PROVE StoreInv'
<1>1. /\ pc = "commit" /\ pc' = "flush" /\ UNCHANGED <<slot, region, winner, witness, image, acked>>
      /\ writing' = [slot |-> NextSlot(winner.slot), seq |-> winner.seq + 1,
                     payload |-> Sectors(region), next |-> 1]
  BY Zenon DEF Commit
<1>2. WinnerCurrent /\ Counted(region) /\ OneMore(region)
  BY <1>1, Zenon DEF StoreInv, CommitKept, WillCommit
<1>3. Sectors(region) \in Payloads
  BY <1>2, WholeOfSectors, Zenon DEF Counted
<1>4. writing' \in [slot : Slots, seq : Nat, payload : Payloads \cup {<<>>}, next : 0..(PAYLOAD_SECTORS + 1)]
  BY <1>1, <1>3, KeyFacts DEF StoreInv, StoreTypes, NextSlot, Slots
<1>5. StoreTypes'
  BY <1>1, <1>4, Zenon DEF StoreInv, StoreTypes
<1>6. CardKept' /\ LedgerKept' /\ CommitKept'
  BY <1>1, SameCard, Zenon DEF StoreInv, LedgerKept, CommitKept, WillCommit
<1>7. WinnerCurrent'
  <2>1. PICK w : w = winner.slot
    BY Zenon
  <2>2. Leads(w) => Leads(w)'
    BY <1>1, SameCard, Zenon
  <2> QED BY <1>1, <1>2, <2>1, <2>2, Zenon DEF WinnerCurrent, Leads
<1>8. FlushKept'
  <2>1. PICK r : r = region
    BY Zenon
  <2>2. Counted(r) /\ OneMore(r)' /\ writing'.payload = Sectors(r)
    BY <1>1, <1>2, <2>1 DEF OneMore, Whole
  <2>3. writing'.next \in 1..(PAYLOAD_SECTORS + 1) /\ \A i \in 1..PAYLOAD_SECTORS : ~(i < writing'.next)
    BY <1>1, KeyFacts
  <2>4. writing'.slot = NextSlot(winner'.slot) /\ writing'.seq = winner'.seq + 1
    BY <1>1, Zenon
  <2> QED BY <1>7, <2>2, <2>3, <2>4, Zenon DEF FlushKept
<1> QED BY <1>5, <1>6, <1>8, Zenon DEF StoreInv

\* One sector of the flush, or its header, or a write that fails.
LEMMA FlushKeeps == ASSUME StoreInv, Flush PROVE StoreInv'
<1>1. /\ pc = "flush" /\ UNCHANGED <<region, winner, witness, image, acked>>
      /\ image \in {"product", "oracle"}
  BY Zenon DEF Flush, StoreInv, StoreTypes
<1>2. NoWrite \in [slot : Slots, seq : Nat, payload : Payloads \cup {<<>>}, next : 0..(PAYLOAD_SECTORS + 1)]
  BY KeyFacts DEF NoWrite, Slots
<1>3. LedgerKept /\ StoreTypes /\ FlushKept
  BY Zenon DEF StoreInv
<1>4. CASE pc' = AfterCommit /\ writing' = NoWrite /\ \E torn \in BOOLEAN : slot' \in Written(slot, writing, torn)
  <2>1. slot' \in [Slots -> [header : Headers, payload : Payloads]] /\ CardKept'
    BY <1>1, <1>4, WriteKeepsCard, Zenon
  <2>2. pc' = (IF image = "product" THEN "display" ELSE "running")
    BY <1>4, Zenon DEF AfterCommit
  <2>3. StoreTypes'
    BY <1>1, <1>2, <1>3, <1>4, <2>1, <2>2, Zenon DEF StoreTypes
  <2>4. CommitKept' /\ FlushKept' /\ LedgerKept'
    BY <1>1, <1>3, <2>2, Zenon DEF CommitKept, WillCommit, FlushKept, LedgerKept
  <2> QED BY <2>1, <2>3, <2>4, Zenon DEF StoreInv
<1>5. CASE /\ writing.next # PAYLOAD_SECTORS + 1 /\ slot' \in Written(slot, writing, FALSE)
           /\ pc' = pc /\ writing' = [writing EXCEPT !.next = @ + 1]
  <2>1. /\ slot' \in [Slots -> [header : Headers, payload : Payloads]] /\ CardKept'
        /\ slot'[writing.slot].payload =
             [slot[writing.slot].payload EXCEPT ![writing.next] = writing.payload[writing.next]]
        /\ \A s \in Slots : slot'[s].header = slot[s].header
        /\ winner.slot \in Slots => slot'[winner.slot] = slot[winner.slot]
    BY <1>1, <1>5, WriteKeepsCard, Zenon
  <2>2. /\ writing.next \in 1..(PAYLOAD_SECTORS + 1) /\ writing.slot \in Slots
        /\ writing'.slot = writing.slot /\ writing'.seq = writing.seq
        /\ writing'.payload = writing.payload /\ writing'.next = writing.next + 1
        /\ writing' \in [slot : Slots, seq : Nat, payload : Payloads \cup {<<>>}, next : 0..(PAYLOAD_SECTORS + 1)]
        /\ writing'.next \in 1..(PAYLOAD_SECTORS + 1)
    BY <1>1, <1>3, <1>5, KeyFacts DEF StoreTypes, FlushKept
  <2>3. StoreTypes'
    BY <1>1, <1>3, <1>5, <2>1, <2>2, Zenon DEF StoreTypes
  <2>4. WinnerCurrent'
    <3>1. PICK w : w = winner.slot
      BY Zenon
    <3>2. w \in Slots /\ Leads(w) => Leads(w)'
      <4> SUFFICES ASSUME w \in Slots, Leads(w) PROVE Leads(w)'
        BY Zenon
      <4>1. Other(w) \in Slots
        BY Zenon DEF Other, Slots
      <4> QED BY <2>1, <3>1, <4>1, Zenon DEF Leads, Valid
    <3> QED BY <1>1, <1>3, <2>1, <3>1, <3>2, Zenon DEF FlushKept, WinnerCurrent, Leads
  <2>5. PICK r : Counted(r) /\ OneMore(r) /\ writing.payload = Sectors(r)
    BY <1>1, <1>3, Zenon DEF FlushKept
  <2>6. OneMore(r)'
    <3>1. winner.slot # "none" => winner.slot \in Slots
      BY <1>3, Zenon DEF StoreTypes, Slots
    <3> QED BY <1>1, <2>1, <2>5, <3>1 DEF OneMore, Whole
  <2>7. ASSUME NEW i \in 1..PAYLOAD_SECTORS, i < writing'.next
        PROVE  slot'[writing'.slot].payload[i] = writing'.payload[i]
    <3>1. slot[writing.slot].payload \in Payloads
      BY <1>3, <2>2, Zenon DEF StoreTypes
    <3>2. i = writing.next \/ i < writing.next
      BY <2>2, <2>7
    <3>3. slot'[writing.slot].payload[i] =
            IF i = writing.next THEN writing.payload[i] ELSE slot[writing.slot].payload[i]
      BY <2>1, <3>1, Zenon DEF Payloads
    <3>4. i < writing.next => slot[writing.slot].payload[i] = writing.payload[i]
      BY <1>1, <1>3, Zenon DEF FlushKept
    <3> QED BY <2>2, <3>2, <3>3, <3>4, Zenon
  <2>8. writing'.slot = NextSlot(winner'.slot) /\ writing'.seq = winner'.seq + 1
    BY <1>1, <1>3, <2>2, Zenon DEF FlushKept
  <2>9. FlushKept'
    BY <2>2, <2>4, <2>5, <2>6, <2>7, <2>8, Zenon DEF FlushKept
  <2>10. CommitKept' /\ LedgerKept'
    BY <1>1, <1>3, <1>5, Zenon DEF CommitKept, WillCommit, LedgerKept
  <2> QED BY <2>1, <2>3, <2>9, <2>10, Zenon DEF StoreInv
<1> QED BY <1>4, <1>5, Zenon DEF Flush

\* A reset at any moment, a write in the air included.
LEMMA ResetKeeps == ASSUME StoreInv, Reset PROVE StoreInv'
<1>1. /\ pc' = "off" /\ winner' = NoWinner /\ witness' = FALSE /\ writing' = NoWrite
      /\ acked' = Nothing /\ image' = image /\ region' \in {region, Undecodable}
  BY Zenon DEF Reset
<1>2. slot' \in [Slots -> [header : Headers, payload : Payloads]] /\ CardKept'
  <2>1. CASE pc = "flush"
    BY <2>1, WriteKeepsCard, Zenon DEF Reset
  <2>2. CASE pc # "flush"
    BY <2>2, SameCard, Zenon DEF Reset, StoreInv, StoreTypes
  <2> QED BY <2>1, <2>2, Zenon
<1>3. NoWrite \in [slot : Slots, seq : Nat, payload : Payloads \cup {<<>>}, next : 0..(PAYLOAD_SECTORS + 1)]
      /\ NoWinner \in [slot : {"none", "A", "B"}, seq : Nat]
  BY KeyFacts DEF NoWrite, NoWinner, Slots
<1>4. StoreTypes'
  BY <1>1, <1>2, <1>3, UndecodableApart, Zenon DEF StoreInv, StoreTypes
<1>5. CommitKept' /\ FlushKept' /\ LedgerKept'
  BY <1>1, Zenon DEF CommitKept, WillCommit, FlushKept, LedgerKept, Nothing
<1> QED BY <1>2, <1>4, <1>5, Zenon DEF StoreInv

\* Every step keeps the invariant.
LEMMA StoreStep == StoreInv /\ [StoreNext]_storeVars => StoreInv'
<1> SUFFICES ASSUME StoreInv, [StoreNext]_storeVars PROVE StoreInv'
  BY Zenon
<1>1. CASE UNCHANGED storeVars
  BY <1>1, QuietKeeps, Zenon DEF storeVars, WillCommit, StoreInv, StoreTypes, CommitKept,
     LedgerKept, FlushKept
<1>2. CASE StoreNext
  BY <1>2, PowerOnKeeps, InitCardKeeps, OpenKeeps, DemosKeep, CommitKeeps, FlushKeeps,
     CalibrationLoadKeeps, BlobPutKeeps, CalibrateKeeps, ResetKeeps, Zenon DEF StoreNext,
     BootStoreStep
<1> QED BY <1>1, <1>2, Zenon

\* The inductive invariant of the durable store: one slot always leads, and the
\* flush never writes that one.
THEOREM StoreInvariant == StoreSpec => []StoreInv
BY StoreStarts, StoreStep, PTL DEF StoreSpec

\* What the store acknowledged stays readable until the reset.
THEOREM AckedStaysReadable == StoreSpec => []AckedKept
<1>1. StoreInv => AckedKept
  <2> SUFFICES ASSUME StoreInv, NEW k \in DOMAIN acked
               PROVE  /\ Get(region, k, CALIBRATION_RECORD_LEN) = acked[k]
                      /\ (BlobReply(region, k) = "ok") = (acked[k][1] <= MAX_WIRE_BYTES)
    BY Zenon DEF AckedKept
  <2>1. /\ region # Undecodable /\ k \in DOMAIN region
        /\ region[k] = acked[k] /\ acked[k][1] <= CALIBRATION_RECORD_LEN
    BY Zenon DEF StoreInv, LedgerKept
  <2>2. acked[k][1] \in Nat
    BY RegionShape, Zenon DEF StoreInv, StoreTypes, Values
  <2>3. Get(region, k, CALIBRATION_RECORD_LEN) = acked[k]
    BY <2>1, Zenon DEF Get
  <2>4. acked[k][1] <= MAX_WIRE_BYTES => BlobReply(region, k) = "ok"
    BY <2>1, <2>2 DEF BlobReply
  <2>5. ~(acked[k][1] <= MAX_WIRE_BYTES) => BlobReply(region, k) # "ok"
    BY <2>1, <2>2 DEF BlobReply
  <2> QED BY <2>3, <2>4, <2>5
<1> QED BY <1>1, StoreInvariant, PTL

\* A flush cut anywhere loses at most itself, and the counter on the card moves
\* by one.
THEOREM CardStepsHold == StoreSpec => CardSteps
<1> DEFINE L == OnCard' = OnCard \/ OnCard' = [seq |-> OnCard.seq + 1, region |-> Whole(writing.payload)]
           C == OnCard'.seq # OnCard.seq /\ OnCard.seq # 0
                  => OnCard'.region[BOOT][2] = OnCard.region[BOOT][2] + 1
<1>1. StoreInv /\ [StoreNext]_storeVars => [L]_storeVars /\ [C]_storeVars
  <2> SUFFICES ASSUME StoreInv, StoreNext PROVE L /\ C
    BY Zenon
  <2>1. CASE UNCHANGED slot
    BY <2>1, SameCard, Zenon
  <2>2. CASE pc = "flush" /\ \E torn \in BOOLEAN : slot' \in Written(slot, writing, torn)
    BY <2>2, WriteKeepsCard, FlushCounts
  <2> QED BY <2>1, <2>2, Zenon DEF StoreNext, BootStoreStep, PowerOn, InitCard, Open, Demos,
             Commit, Flush, LoadTouchCalibration, BlobPut, Calibrate, Reset
<1> QED BY <1>1, StoreInvariant, PTL DEF StoreSpec, CardSteps, LastGoodSurvives, CounterSteps
-----------------------------------------------------------------------------
(* Proofs about the loader, for any stores of an image. *)

Wins == [pa : Nat, len : Nat]
Loading == {"load", "record", "done"}

Words == {VACANT} \cup {HeldNames[i] : i \in 1..7}
Positions == [name : Words, item : Words]

\* The vocabulary after its first k names: in the ABI's order, each vacant or
\* its own, unless it ran full before.
Filled(set, k) ==
    /\ set \in Seq(Positions)
    /\ \A i \in 1..Len(set) : /\ i \in 1..7 /\ set[i].name = HeldNames[i]
                              /\ set[i].item \in {VACANT, HeldNames[i]}
    /\ Len(set) = k \/ (Len(set) = MAX_HELD /\ MAX_HELD < k)

LEMMA NamesApart ==
    /\ \A i, j \in 1..7 : HeldNames[i] = HeldNames[j] => i = j
    /\ \A i \in 1..7 : HeldNames[i] \in Words
<1>1. /\ HeldNames[1] = "console" /\ HeldNames[2] = "blob" /\ HeldNames[3] = "blob-reply"
      /\ HeldNames[4] = "net-tx" /\ HeldNames[5] = "net-tx-complete"
      /\ HeldNames[6] = "net-rx" /\ HeldNames[7] = "net-rx-return"
  BY Zenon DEF HeldNames
<1>2. \A i \in 1..7 : i = 1 \/ i = 2 \/ i = 3 \/ i = 4 \/ i = 5 \/ i = 6 \/ i = 7
  OBVIOUS
<1>3. \A i \in 1..7 : HeldNames[i] \in Words
  BY Zenon DEF Words
<1>4. ASSUME NEW i \in 1..7, NEW j \in 1..7, HeldNames[i] = HeldNames[j] PROVE i = j
  BY <1>1, <1>2, <1>4, Zenon
<1> QED BY <1>3, <1>4, Zenon

LEMMA DeclareFills ==
    ASSUME NEW set, NEW k \in 0..6, Filled(set, k)
    PROVE  Filled(DeclareOrReport(set, HeldNames[k + 1]), k + 1)
<1> DEFINE n == HeldNames[k + 1]
           d == DeclareOrReport(set, n)
<1>1. CASE Len(set) = MAX_HELD
  <2>1. d = set
    BY <1>1, Zenon DEF DeclareOrReport, Declare
  <2> QED BY <1>1, <2>1 DEF Filled
<1>2. CASE Len(set) # MAX_HELD
  <2>1. Len(set) = k /\ k + 1 \in 1..7 /\ DOMAIN set = 1..k
    BY <1>2 DEF Filled
  <2>2. \A i \in 1..k : set[i].name # n
    BY <2>1, NamesApart DEF Filled
  <2>3. d = Append(set, [name |-> n, item |-> VACANT])
    BY <1>2, <2>1, <2>2, Zenon DEF DeclareOrReport, Declare
  <2>4. [name |-> n, item |-> VACANT] \in Positions
    <3>1. n \in Words /\ VACANT \in Words
      BY <2>1, NamesApart, Zenon DEF Words
    <3> HIDE DEF n
    <3> QED BY <3>1, Zenon DEF Positions
  <2>5. /\ d \in Seq(Positions) /\ Len(d) = k + 1
        /\ d[k + 1] = [name |-> n, item |-> VACANT] /\ \A i \in 1..k : d[i] = set[i]
    BY <2>1, <2>3, <2>4 DEF Filled
  <2> HIDE DEF d
  <2>6. ASSUME NEW i \in 1..(k + 1)
        PROVE  /\ i \in 1..7 /\ d[i].name = HeldNames[i] /\ d[i].item \in {VACANT, HeldNames[i]}
    <3>1. CASE i = k + 1
      BY <3>1, <2>1, <2>5
    <3>2. CASE i \in 1..k
      BY <3>2, <2>1, <2>5, Zenon DEF Filled
    <3> QED BY <3>1, <3>2
  <2>7. Filled(d, k + 1)
    BY <2>1, <2>5, <2>6, Zenon DEF Filled
  <2> QED BY <2>7, Zenon DEF d
<1> QED BY <1>1, <1>2, Zenon

LEMMA ProvideFills ==
    ASSUME NEW set, NEW k \in 0..7, Filled(set, k), NEW n \in Words
    PROVE  Filled(ProvideOrReport(set, n), k)
<1>0. DOMAIN set = 1..Len(set) /\ Len(set) \in Nat
  BY DEF Filled
<1>1. CASE ~\E i \in DOMAIN set : set[i].name = n
  <2>1. IndexOf(set, n) + 1 = 0
    BY <1>1 DEF IndexOf, NONE
  <2> QED BY <1>0, <2>1 DEF ProvideOrReport, Provide
<1>2. CASE \E i \in DOMAIN set : set[i].name = n
  <2>1. PICK j \in DOMAIN set : j = (CHOOSE i \in DOMAIN set : set[i].name = n) /\ set[j].name = n
    BY <1>2, Zenon
  <2>2. IndexOf(set, n) + 1 = j
    BY <1>0, <1>2, <2>1 DEF IndexOf
  <2>3. ProvideOrReport(set, n) \in {set, [set EXCEPT ![j].item = n]}
    BY <2>2, Zenon DEF ProvideOrReport, Provide
  <2>4. Filled([set EXCEPT ![j].item = n], k)
    <3> DEFINE d == [set EXCEPT ![j].item = n]
    <3>0. set \in Seq(Positions)
      BY Zenon DEF Filled
    <3>1. set[j] \in Positions
      BY <3>0, <1>0, <2>1
    <3>2. [set[j] EXCEPT !.item = n] \in Positions
      BY <3>1, Zenon DEF Positions
    <3>3. d \in Seq(Positions) /\ Len(d) = Len(set)
      BY <1>0, <2>1, <3>2 DEF Filled
    <3>4. \A i \in 1..Len(set) : d[i].name = set[i].name /\ d[i].item \in {set[i].item, set[i].name}
      BY <1>0, <2>1, <3>1, Zenon DEF Filled, Positions
    <3> HIDE DEF d
    <3>5. \A i \in 1..Len(set) : /\ i \in 1..7 /\ set[i].name = HeldNames[i]
                                  /\ set[i].item \in {VACANT, HeldNames[i]}
      BY Zenon DEF Filled
    <3>6. \A i \in 1..Len(d) : /\ i \in 1..7 /\ d[i].name = HeldNames[i]
                                /\ d[i].item \in {VACANT, HeldNames[i]}
      BY <3>3, <3>4, <3>5, Zenon
    <3>7. Len(d) = k \/ (Len(d) = MAX_HELD /\ MAX_HELD < k)
      BY <3>3, Zenon DEF Filled
    <3>8. Filled(d, k)
      BY <3>3, <3>6, <3>7, Zenon DEF Filled
    <3> QED BY <3>8, Zenon DEF d
  <2> QED BY <2>3, <2>4, Zenon
<1> QED BY <1>1, <1>2, Zenon

\* What the windows' vocabulary holds: two positions, never overlapping.
WinRows == [name : {"rng", "framebuffer"}, item : {VACANT, "window"}, at : Wins]
WindowsKept(w) ==
    /\ w \in [1..2 -> WinRows]
    /\ w[1].item = "window" /\ w[2].item = "window" => ~WindowsOverlap(w[1].at, w[2].at)

Rows == UNION {[D -> Words] : D \in SUBSET Nat}
Live == [state : {"ready", "run", "drain"}, of : Nat, slots : Rows, resolve : BOOLEAN,
         found : Nat \cup {NONE}, window : Wins, left : Nat]

\* A plan is the entry's, made from the vocabularies as they were assembled.
PlansKept ==
    /\ Len(plans) \in Nat /\ DOMAIN plans = 1..Len(plans)
    /\ \A i \in DOMAIN plans : Asks(table[i]) /\ plans[i] = PlanOf(table[i], held, windows)

\* A task was spawned for a planned entry with that plan's capabilities; once
\* SIDE is released its row and its grant are that entry's.
TaskKept(s) ==
    task[s] # [state |-> "empty"] =>
        LET n == task[s].of
        IN  /\ task[s] \in Live /\ n \in DOMAIN plans /\ plans[n].spawn
            /\ task[s].slots = plans[n].slots
            /\ s # side.holder => task[s].resolve = table[n].resolve
            /\ s # side.holder /\ task[s].state = "ready" =>
                 side.entry[s] = n /\ side.window[s] = plans[n].window
            /\ task[s].state # "ready" => task[s].found = n /\ task[s].window = plans[n].window

HolderKept ==
    IF step = "record"
    THEN /\ side.holder \in TaskSlots /\ task[side.holder] \in Live
         /\ task[side.holder].state = "ready" /\ task[side.holder].of = next
         /\ ~task[side.holder].resolve /\ next \in DOMAIN plans
    ELSE side.holder = NONE

LoaderInv ==
    /\ step \in {"console", "blob", "net", "windows", "store"} \cup Loading
    /\ step = "console" => Filled(held, 0)
    /\ step = "blob" => Filled(held, 1)
    /\ step = "net" => Filled(held, 3)
    /\ step \in {"windows", "store"} \cup Loading => Filled(held, 7)
    /\ step \in {"store"} \cup Loading => WindowsKept(windows)
    /\ IF step \in Loading THEN PlansKept
       ELSE \A s \in TaskSlots : task[s] = [state |-> "empty"]
    /\ next \in Nat \ {0}
    /\ side \in [holder : TaskSlots \cup {NONE}, entry : [TaskSlots -> Nat \cup {NONE}],
                 window : [TaskSlots -> Wins]]
    /\ task \in [TaskSlots -> Live \cup {[state |-> "empty"]}]
    /\ HolderKept
    /\ \A s \in TaskSlots : TaskKept(s)

\* Two rows are a sequence of two.
LEMMA TwoRows == ASSUME NEW w \in [1..2 -> WinRows] PROVE Len(w) = 2
<1>1. w = [i \in 1..2 |-> w[i]]
  BY Zenon
<1>2. \A f : Len([i \in 1..2 |-> f[i]]) = 2
  OBVIOUS
<1> QED BY <1>1, <1>2, Zenon

\* A refused window changes nothing; an accepted one overlaps no other.
LEMMA ProvideWindowKeeps ==
    ASSUME NEW w, WindowsKept(w), NEW i \in {0, 1}, NEW a \in Wins
    PROVE  WindowsKept(ProvideWindow(w, i, a))
<1> DEFINE d == [w EXCEPT ![i + 1] = [@ EXCEPT !.item = "window", !.at = a]]
<1>1. CASE ProvideWindow(w, i, a) = w
  BY <1>1, Zenon
<1>2. CASE ProvideWindow(w, i, a) # w
  <2>1. ProvideWindow(w, i, a) = d
    BY <1>2, Zenon DEF ProvideWindow
  <2>2. \A j \in DOMAIN w : w[j].item = "window" => ~WindowsOverlap(w[j].at, a)
    BY <1>2, Zenon DEF ProvideWindow
  <2>3. DOMAIN w = 1..2 /\ w[1] \in WinRows /\ w[2] \in WinRows /\ w \in [1..2 -> WinRows]
    BY DEF WindowsKept
  <2>4. [w[i + 1] EXCEPT !.item = "window", !.at = a] \in WinRows
    <3>1. w[i + 1] \in WinRows
      BY <2>3
    <3> QED BY <3>1, Zenon DEF WinRows
  <2>5. d \in [1..2 -> WinRows]
    <3>1. i + 1 \in 1..2
      OBVIOUS
    <3> QED BY <2>3, <2>4, <3>1, Zenon
  <2>6. CASE i = 0
    <3>1. d[1].at = a /\ d[2] = w[2]
      BY <2>3, <2>6 DEF WinRows
    <3>2. w[2].item = "window" => ~WindowsOverlap(a, w[2].at)
      BY <2>2, <2>3 DEF WindowsOverlap
    <3> HIDE DEF d
    <3>3. WindowsKept(d)
      BY <2>5, <3>1, <3>2, Zenon DEF WindowsKept
    <3> QED BY <2>1, <3>3, Zenon
  <2>7. CASE i = 1
    <3>1. d[2].at = a /\ d[1] = w[1]
      BY <2>3, <2>7 DEF WinRows
    <3>2. w[1].item = "window" => ~WindowsOverlap(w[1].at, a)
      BY <2>2, <2>3
    <3> HIDE DEF d
    <3>3. WindowsKept(d)
      BY <2>5, <3>1, <3>2, Zenon DEF WindowsKept
    <3> QED BY <2>1, <3>3, Zenon
  <2> QED BY <2>6, <2>7, Zenon
<1> QED BY <1>1, <1>2, Zenon

LEMMA LoaderStarts == LoaderInit => LoaderInv
<1> SUFFICES ASSUME LoaderInit PROVE LoaderInv
  BY Zenon
<1>1. Filled(held, 0)
  BY DEF LoaderInit, Filled
<1>2. /\ side \in [holder : TaskSlots \cup {NONE}, entry : [TaskSlots -> Nat \cup {NONE}],
                   window : [TaskSlots -> Wins]]
      /\ side.holder = NONE
  BY Zenon DEF LoaderInit, NoWindow, Wins
<1>3. task \in [TaskSlots -> Live \cup {[state |-> "empty"]}]
  BY Zenon DEF LoaderInit
<1>4. \A s \in TaskSlots : task[s] = [state |-> "empty"]
  BY Zenon DEF LoaderInit
<1>5. \A s \in TaskSlots : TaskKept(s)
  BY <1>4, Zenon DEF TaskKept
<1>6. step = "console" /\ next = 1
  BY Zenon DEF LoaderInit
<1> QED BY <1>1, <1>2, <1>3, <1>4, <1>5, <1>6 DEF LoaderInv, HolderKept, Loading

\* A step of the assembly leaves the loader's own state alone.
LEMMA AssemblyKeeps ==
    ASSUME LoaderInv, step \notin Loading, step' \notin Loading,
           UNCHANGED <<table, plans, next, side, task>>,
           step' \in {"blob", "net", "windows", "store"},
           step' = "blob" => Filled(held', 1),
           step' = "net" => Filled(held', 3),
           step' \in {"windows", "store"} => Filled(held', 7),
           step' = "store" => WindowsKept(windows')
    PROVE  LoaderInv'
<1>1. \A s \in TaskSlots : task'[s] = [state |-> "empty"]
  BY Zenon DEF LoaderInv
<1>2. \A s \in TaskSlots : TaskKept(s)'
  BY <1>1, Zenon DEF TaskKept
<1>3. HolderKept'
  BY Zenon DEF LoaderInv, HolderKept, Loading
<1> QED BY <1>1, <1>2, <1>3, Zenon DEF LoaderInv, Loading

LEMMA ConsoleKeeps == ASSUME LoaderInv, AssembleConsole PROVE LoaderInv'
<1> DEFINE set == DeclareOrReport(held, "console")
<1>1. "console" = HeldNames[0 + 1] /\ "console" \in Words
  BY NamesApart DEF HeldNames
<1>2. Filled(set, 1)
  BY <1>1, DeclareFills DEF LoaderInv, AssembleConsole
<1>3. Filled(ProvideOrReport(set, "console"), 1)
  BY <1>1, <1>2, ProvideFills
<1>4. held' \in {set, ProvideOrReport(set, "console")}
  BY Zenon DEF AssembleConsole
<1> HIDE DEF set
<1>5. Filled(held', 1)
  BY <1>2, <1>3, <1>4, Zenon
<1> QED BY <1>5, AssemblyKeeps, Zenon DEF AssembleConsole, Loading

LEMMA BlobKeeps == ASSUME LoaderInv, AssembleBlob PROVE LoaderInv'
<1> DEFINE one == DeclareOrReport(held, "blob")
           set == DeclareOrReport(one, "blob-reply")
           first == ProvideOrReport(set, "blob")
           all == ProvideOrReport(first, "blob-reply")
<1>1. /\ "blob" = HeldNames[1 + 1] /\ "blob" \in Words
      /\ "blob-reply" = HeldNames[2 + 1] /\ "blob-reply" \in Words
  BY NamesApart DEF HeldNames
<1>2. held' \in {set, all}
  BY Zenon DEF AssembleBlob, AssembleService
<1>3. Filled(one, 2)
  BY <1>1, DeclareFills DEF LoaderInv, AssembleBlob
<1> HIDE DEF one
<1>4. Filled(set, 3)
  BY <1>1, <1>3, DeclareFills DEF set
<1> HIDE DEF set
<1>5. Filled(first, 3)
  BY <1>1, <1>4, ProvideFills DEF first
<1> HIDE DEF first
<1>6. Filled(all, 3)
  BY <1>1, <1>5, ProvideFills DEF all
<1> HIDE DEF all
<1>7. Filled(held', 3)
  BY <1>2, <1>4, <1>6, Zenon
<1> QED BY <1>7, AssemblyKeeps, Zenon DEF AssembleBlob, Loading

LEMMA NetKeeps == ASSUME LoaderInv, AssembleNet PROVE LoaderInv'
<1> DEFINE d4 == DeclareOrReport(held, "net-tx")
           d5 == DeclareOrReport(d4, "net-tx-complete")
           d6 == DeclareOrReport(d5, "net-rx")
           set == DeclareOrReport(d6, "net-rx-return")
           p4 == ProvideOrReport(set, "net-tx")
           p5 == ProvideOrReport(p4, "net-tx-complete")
           p6 == ProvideOrReport(p5, "net-rx")
           all == ProvideOrReport(p6, "net-rx-return")
<1>1. /\ "net-tx" = HeldNames[3 + 1] /\ "net-tx-complete" = HeldNames[4 + 1]
      /\ "net-rx" = HeldNames[5 + 1] /\ "net-rx-return" = HeldNames[6 + 1]
      /\ {"net-tx", "net-tx-complete", "net-rx", "net-rx-return"} \subseteq Words
  BY NamesApart DEF HeldNames
<1>2. held' \in {set, all}
  BY Zenon DEF AssembleNet, AssembleService
<1>3. Filled(d4, 4)
  BY <1>1, DeclareFills DEF LoaderInv, AssembleNet
<1> HIDE DEF d4
<1>4. Filled(d5, 5)
  BY <1>1, <1>3, DeclareFills DEF d5
<1> HIDE DEF d5
<1>5. Filled(d6, 6)
  BY <1>1, <1>4, DeclareFills DEF d6
<1> HIDE DEF d6
<1>6. Filled(set, 7)
  BY <1>1, <1>5, DeclareFills DEF set
<1> HIDE DEF set
<1>7. Filled(p4, 7)
  BY <1>1, <1>6, ProvideFills DEF p4
<1> HIDE DEF p4
<1>8. Filled(p5, 7)
  BY <1>1, <1>7, ProvideFills DEF p5
<1> HIDE DEF p5
<1>9. Filled(p6, 7)
  BY <1>1, <1>8, ProvideFills DEF p6
<1> HIDE DEF p6
<1>10. Filled(all, 7)
  BY <1>1, <1>9, ProvideFills DEF all
<1> HIDE DEF all
<1>11. Filled(held', 7)
  BY <1>2, <1>6, <1>10, Zenon
<1> QED BY <1>11, AssemblyKeeps, Zenon DEF AssembleNet, Loading

LEMMA WindowsStepKeeps == ASSUME LoaderInv, AssembleWindows PROVE LoaderInv'
<1> DEFINE none == [i \in 1..2 |-> [name |-> <<"rng", "framebuffer">>[i], item |-> VACANT,
                                    at |-> NoWindow]]
           first == ProvideWindow(none, 0, RngWindow)
<1>1. WindowsKept(none)
  <2>1. none[1] \in WinRows /\ none[2] \in WinRows /\ DOMAIN none = 1..2
    BY DEF WinRows, Wins, NoWindow
  <2>2. none[1].item = VACANT
    OBVIOUS
  <2> HIDE DEF none
  <2>3. none \in [1..2 -> WinRows]
    <3>1. none = [i \in 1..2 |-> none[i]]
      BY <2>1, Zenon DEF none
    <3> QED BY <2>1, <3>1
  <2> QED BY <2>2, <2>3, Zenon DEF WindowsKept, VACANT
<1>2. RngWindow \in Wins /\ Framebuffers \subseteq Wins
  BY LoaderAssumption, Zenon DEF Wins
<1>3. WindowsKept(first)
  BY <1>1, <1>2, ProvideWindowKeeps, Zenon
<1>4. PICK fb \in Framebuffers \cup {NoWindow} :
        \/ windows' \in {none, first}
        \/ fb # NoWindow /\ windows' \in {ProvideWindow(none, 1, fb), ProvideWindow(first, 1, fb)}
  BY Zenon DEF AssembleWindows
<1> HIDE DEF none, first
<1>5. WindowsKept(windows')
  BY <1>1, <1>2, <1>3, <1>4, ProvideWindowKeeps, Zenon
<1>6. held' = held /\ step = "windows" /\ step' = "store"
  BY Zenon DEF AssembleWindows
<1>7. Filled(held', 7)
  BY <1>6, Zenon DEF LoaderInv
<1> QED BY <1>5, <1>6, <1>7, AssemblyKeeps, Zenon DEF AssembleWindows, Loading

LEMMA LoadStoreKeeps == ASSUME LoaderInv, LoadStore PROVE LoaderInv'
<1>1. PICK store \in Stores, oracle \in BOOLEAN :
        LET t == IF Parses(store) THEN [i \in DOMAIN store.agents |-> ToEntry(store.agents[i])]
                 ELSE IF oracle THEN Builtin ELSE <<>>
        IN  /\ table' = t
            /\ plans' = IF Len(t) > MAX_AGENTS THEN <<>>
                        ELSE [i \in DOMAIN t |-> PlanOf(t[i], held, windows)]
  BY Zenon DEF LoadStore
<1>2. /\ step = "store" /\ step' = "load"
      /\ UNCHANGED <<held, windows, network, served, next, side, task, console>>
  BY Zenon DEF LoadStore
<1>3. \E n \in Nat : DOMAIN table' = 1..n
  <2>1. CASE Parses(store)
    BY <2>1, <1>1, LoaderAssumption
  <2>2. CASE ~Parses(store) /\ oracle
    BY <2>2, <1>1, LoaderAssumption
  <2>3. CASE ~Parses(store) /\ ~oracle
    BY <2>3, <1>1
  <2> QED BY <2>1, <2>2, <2>3, Zenon
<1>4. \A i \in DOMAIN table' : Asks(table'[i])
  <2>1. CASE Parses(store)
    BY <2>1, <1>1, LoaderAssumption DEF Asks, ToEntry
  <2>2. CASE ~Parses(store) /\ oracle
    BY <2>2, <1>1, LoaderAssumption, Zenon
  <2>3. CASE ~Parses(store) /\ ~oracle
    BY <2>3, <1>1
  <2> QED BY <2>1, <2>2, <2>3, Zenon
<1>5. plans' = <<>> \/ plans' = [i \in DOMAIN table' |-> PlanOf(table'[i], held', windows')]
  BY <1>1, <1>2, Zenon
<1>6. PlansKept'
  <2>1. PICK n \in Nat : DOMAIN table' = 1..n
    BY <1>3, Zenon
  <2>2. CASE plans' = <<>>
    BY <2>2 DEF PlansKept
  <2>3. CASE plans' = [i \in 1..n |-> PlanOf(table'[i], held', windows')]
    <3>1. DOMAIN plans' = 1..n /\ Len(plans') = n
      BY <2>3
    <3> QED BY <3>1, <2>1, <2>3, <1>4, Zenon DEF PlansKept
  <2> QED BY <2>1, <2>2, <2>3, <1>5, Zenon
<1>7. \A s \in TaskSlots : task'[s] = [state |-> "empty"]
  BY <1>2, Zenon DEF LoaderInv, Loading
<1>8. \A s \in TaskSlots : TaskKept(s)'
  BY <1>7, Zenon DEF TaskKept
<1>9. HolderKept'
  BY <1>2, Zenon DEF LoaderInv, HolderKept
<1> QED BY <1>2, <1>6, <1>8, <1>9, Zenon DEF LoaderInv, Loading

\* What a plan that spawns gives: the capabilities and the window bound.
LEMMA PlanGives ==
    ASSUME LoaderInv, step \in Loading, NEW n \in DOMAIN plans, plans[n].spawn
    PROVE  /\ Asks(table[n]) /\ Binds(table[n], held) /\ BindsWindow(table[n], windows)
           /\ plans[n].slots = Bound(table[n], held) /\ plans[n].slots \in Rows
           /\ plans[n].window = BoundWindow(table[n], windows) /\ plans[n].window \in Wins
           /\ n \in Nat \ {0}
<1>1. Asks(table[n]) /\ plans[n] = PlanOf(table[n], held, windows) /\ n \in Nat \ {0}
  BY DEF LoaderInv, PlansKept
<1>2. Validates(table[n]) /\ Binds(table[n], held) /\ BindsWindow(table[n], windows)
  BY <1>1 DEF PlanOf
<1>3. /\ plans[n].slots = Bound(table[n], held)
      /\ plans[n].window = BoundWindow(table[n], windows)
  BY <1>1, <1>2 DEF PlanOf
<1>4. Filled(held, 7) /\ WindowsKept(windows)
  BY Zenon DEF LoaderInv
<1>5. plans[n].slots \in Rows
  <2> DEFINE e == table[n]
             b == Bound(e, held)
  <2>1. e.slots \in Seq(Nat \cup {NONE}) /\ DOMAIN e.slots \in SUBSET Nat
    BY <1>1 DEF Asks
  <2>2. ASSUME NEW i \in DOMAIN e.slots PROVE b[i] \in Words
    <3>1. CASE e.slots[i] = NONE
      BY <3>1, Zenon DEF Bound, Words
    <3>2. CASE e.slots[i] # NONE
      <4>1. e.slots[i] \in Nat /\ e.slots[i] < Len(held)
        BY <2>1, <3>2, <1>2 DEF Binds
      <4>2. PICK k \in 1..Len(held) : k = e.slots[i] + 1
        BY <4>1, <1>4 DEF Filled
      <4>3. held[k].item \in Words
        <5>1. k \in 1..7 /\ held[k].item \in {VACANT, HeldNames[k]}
          BY <1>4, <4>2, Zenon DEF Filled
        <5> QED BY <5>1, Zenon DEF Words
      <4> QED BY <3>2, <4>2, <4>3, Zenon DEF Bound
    <3> QED BY <3>1, <3>2, Zenon
  <2>3. b \in [DOMAIN e.slots -> Words]
    BY <2>2, Zenon DEF Bound
  <2> QED BY <1>3, <2>1, <2>3, Zenon DEF Rows
<1>6. plans[n].window \in Wins
  <2>1. CASE table[n].window = NONE
    BY <2>1, <1>3 DEF BoundWindow, NoWindow, Wins
  <2>2. CASE table[n].window # NONE
    <3>1. table[n].window \in Nat /\ table[n].window < Len(windows)
      BY <2>2, <1>1, <1>2, Zenon DEF Asks, BindsWindow
    <3>2. table[n].window + 1 \in 1..2
      <4>1. Len(windows) = 2
        BY <1>4, TwoRows, Zenon DEF WindowsKept
      <4> QED BY <3>1, <4>1
    <3>3. windows[table[n].window + 1] \in WinRows
      BY <1>4, <3>2, Zenon DEF WindowsKept
    <3> QED BY <2>2, <1>3, <3>3, Zenon DEF BoundWindow, WinRows
  <2> QED BY <2>1, <2>2, Zenon
<1> QED BY <1>1, <1>2, <1>3, <1>5, <1>6, Zenon

\* Once the plans are made, only tasks and their rows change.
LEMMA LoadingKeeps ==
    ASSUME LoaderInv, step \in Loading, step' \in Loading,
           UNCHANGED <<held, windows, table, plans>>,
           next' \in Nat \ {0},
           side' \in [holder : TaskSlots \cup {NONE}, entry : [TaskSlots -> Nat \cup {NONE}],
                      window : [TaskSlots -> Wins]],
           task' \in [TaskSlots -> Live \cup {[state |-> "empty"]}],
           HolderKept', \A s \in TaskSlots : TaskKept(s)'
    PROVE  LoaderInv'
<1>1. PlansKept'
  BY Zenon DEF LoaderInv, PlansKept
<1>2. Filled(held', 7) /\ WindowsKept(windows')
  BY Zenon DEF LoaderInv
<1> QED BY <1>1, <1>2, Zenon DEF LoaderInv, Loading

LEMMA PassKeeps == ASSUME LoaderInv, Skip \/ LoadDone PROVE LoaderInv'
<1>1. /\ step = "load" /\ step' \in {"load", "done"}
      /\ UNCHANGED <<held, windows, table, plans, side, task>> /\ next' \in {next, next + 1}
  BY Zenon DEF Skip, LoadDone
<1>2. HolderKept'
  BY <1>1, Zenon DEF LoaderInv, HolderKept
<1>3. \A s \in TaskSlots : TaskKept(s)'
  BY <1>1, Zenon DEF LoaderInv, TaskKept
<1>4. next' \in Nat \ {0}
  BY <1>1 DEF LoaderInv
<1> QED BY <1>1, <1>2, <1>3, <1>4, LoadingKeeps, Zenon DEF LoaderInv, Loading

LEMMA SpawnKeeps == ASSUME LoaderInv, SpawnTask PROVE LoaderInv'
<1>1. /\ step = "load" /\ next <= Len(plans) /\ plans[next].spawn /\ side.holder = NONE
      /\ UNCHANGED <<held, windows, table, plans>>
  BY Zenon DEF SpawnTask
<1>2. next \in DOMAIN plans /\ step \in Loading
  BY <1>1 DEF LoaderInv, Loading, PlansKept
<1>3. plans[next].slots \in Rows /\ next \in Nat \ {0}
  BY <1>1, <1>2, PlanGives, Zenon
<1>4. CASE step' = "load" /\ next' = next + 1 /\ UNCHANGED <<task, side>>
  <2>1. HolderKept'
    BY <1>4, <1>1, Zenon DEF HolderKept
  <2>2. \A s \in TaskSlots : TaskKept(s)'
    BY <1>1, <1>4, Zenon DEF LoaderInv, TaskKept
  <2> QED BY <1>1, <1>2, <1>3, <1>4, <2>1, <2>2, LoadingKeeps DEF LoaderInv, Loading
<1>5. ASSUME NEW s \in TaskSlots, task[s].state = "empty",
             task' = [task EXCEPT ![s] = [state |-> "ready", of |-> next,
                                          slots |-> plans[next].slots, resolve |-> FALSE,
                                          found |-> NONE, window |-> NoWindow, left |-> 0]],
             side' = [side EXCEPT !.holder = s], step' = "record", next' = next
      PROVE  LoaderInv'
  <2> DEFINE new == [state |-> "ready", of |-> next, slots |-> plans[next].slots,
                     resolve |-> FALSE, found |-> NONE, window |-> NoWindow, left |-> 0]
  <2>1. new \in Live /\ new.state = "ready" /\ new.of = next /\ ~new.resolve
        /\ new.slots = plans[next].slots
    BY <1>3, Zenon DEF Live, NoWindow, Wins
  <2>2. task' = [task EXCEPT ![s] = new]
    BY <1>5, Zenon
  <2> HIDE DEF new
  <2>3. /\ task'[s] = new /\ \A r \in TaskSlots \ {s} : task'[r] = task[r]
        /\ task' \in [TaskSlots -> Live \cup {[state |-> "empty"]}]
    BY <2>1, <2>2, Zenon DEF LoaderInv
  <2>4. /\ side' \in [holder : TaskSlots \cup {NONE}, entry : [TaskSlots -> Nat \cup {NONE}],
                      window : [TaskSlots -> Wins]]
        /\ side'.holder = s /\ side'.entry = side.entry /\ side'.window = side.window
    BY <1>5, Zenon DEF LoaderInv
  <2>5. HolderKept'
    BY <1>1, <1>2, <1>5, <2>1, <2>3, <2>4 DEF HolderKept
  <2>6. ASSUME NEW r \in TaskSlots PROVE TaskKept(r)'
    <3>1. CASE r = s
      BY <3>1, <1>1, <1>2, <2>1, <2>3, <2>4, Zenon DEF TaskKept
    <3>2. CASE r # s
      <4>1. r # side.holder
        BY <1>1, LoaderAssumption, Zenon
      <4>2. TaskKept(r)
        BY Zenon DEF LoaderInv
      <4> QED BY <3>2, <4>1, <4>2, <1>1, <2>3, <2>4 DEF TaskKept
    <3> QED BY <3>1, <3>2, Zenon
  <2> QED BY <1>1, <1>2, <1>3, <1>5, <2>3, <2>4, <2>5, <2>6, LoadingKeeps, Zenon DEF Loading
<1> QED BY <1>4, <1>5, Zenon DEF SpawnTask

LEMMA RecordKeeps == ASSUME LoaderInv, RecordEntry PROVE LoaderInv'
<1>1. PICK s \in TaskSlots :
        /\ s = side.holder /\ task[s] \in Live /\ task[s].state = "ready" /\ task[s].of = next
        /\ ~task[s].resolve /\ next \in DOMAIN plans /\ step \in Loading /\ step = "record"
  BY Zenon DEF RecordEntry, LoaderInv, HolderKept, Loading
<1>2. /\ task' = IF table[next].resolve THEN [task EXCEPT ![s].resolve = TRUE] ELSE task
      /\ side' = [side EXCEPT !.holder = NONE, !.entry[s] = next, !.window[s] = plans[next].window]
      /\ next' = next + 1 /\ step' = "load" /\ UNCHANGED <<held, windows, table, plans>>
  BY <1>1, Zenon DEF RecordEntry
<1>3. task[s] # [state |-> "empty"] /\ plans[next].spawn /\ task[s].slots = plans[next].slots
  <2>1. TaskKept(s) /\ "ready" # "empty"
    BY Zenon DEF LoaderInv
  <2>2. task[s] # [state |-> "empty"]
    BY <1>1
  <2> QED BY <1>1, <2>1, <2>2, Zenon DEF TaskKept
<1>4. plans[next].window \in Wins /\ next \in Nat \ {0} /\ table[next].resolve \in BOOLEAN
  BY <1>1, <1>3, PlanGives, Zenon DEF Asks
<1>5. /\ side' \in [holder : TaskSlots \cup {NONE}, entry : [TaskSlots -> Nat \cup {NONE}],
                    window : [TaskSlots -> Wins]]
      /\ side'.holder = NONE /\ side'.entry[s] = next /\ side'.window[s] = plans[next].window
      /\ \A r \in TaskSlots \ {s} : /\ side'.entry[r] = side.entry[r]
                                    /\ side'.window[r] = side.window[r]
  BY <1>2, <1>4, Zenon DEF LoaderInv
<1>6. /\ task'[s] \in Live /\ task'[s].state = "ready" /\ task'[s].of = next
      /\ task'[s].slots = task[s].slots /\ task'[s].resolve = table[next].resolve
      /\ \A r \in TaskSlots \ {s} : task'[r] = task[r]
      /\ task' \in [TaskSlots -> Live \cup {[state |-> "empty"]}]
  <2>1. CASE table[next].resolve
    <3>1. [task[s] EXCEPT !.resolve = TRUE] \in Live
      BY <1>1, Zenon DEF Live
    <3>2. /\ [task[s] EXCEPT !.resolve = TRUE].state = "ready"
          /\ [task[s] EXCEPT !.resolve = TRUE].of = next
          /\ [task[s] EXCEPT !.resolve = TRUE].slots = task[s].slots
          /\ [task[s] EXCEPT !.resolve = TRUE].resolve = TRUE
      BY <1>1, Zenon DEF Live
    <3>3. task' = [task EXCEPT ![s] = [task[s] EXCEPT !.resolve = TRUE]]
      BY <2>1, <1>2, Zenon
    <3> QED BY <2>1, <1>4, <3>1, <3>2, <3>3, Zenon DEF LoaderInv
  <2>2. CASE ~table[next].resolve
    <3>1. task' = task
      BY <2>2, <1>2, Zenon
    <3>2. task[s].resolve = table[next].resolve
      BY <2>2, <1>1, <1>4, Zenon DEF Live
    <3> QED BY <1>1, <3>1, <3>2, Zenon DEF LoaderInv
  <2> QED BY <2>1, <2>2, Zenon
<1>7. HolderKept'
  BY <1>2, <1>5, Zenon DEF HolderKept
<1>8. ASSUME NEW r \in TaskSlots PROVE TaskKept(r)'
  <2>1. CASE r = s
    <3>1. /\ task'[s].of = next /\ next \in DOMAIN plans' /\ plans'[next].spawn
          /\ task'[s].slots = plans'[next].slots /\ task'[s].state = "ready"
          /\ side'.entry[s] = next /\ side'.window[s] = plans'[next].window
      BY <1>1, <1>2, <1>3, <1>5, <1>6, Zenon
    <3>2. task'[s] \in Live /\ task'[s].resolve = table'[next].resolve
      BY <1>2, <1>6, Zenon
    <3> QED BY Zenon, <2>1, <3>1, <3>2 DEF TaskKept
  <2>2. CASE r # s
    <3>1. TaskKept(r)
      BY Zenon DEF LoaderInv
    <3> QED BY <2>2, <3>1, <1>1, <1>2, <1>5, <1>6 DEF TaskKept
  <2> QED BY <2>1, <2>2, Zenon
<1>9. next' \in Nat \ {0} /\ step' \in Loading
  BY <1>2, <1>4 DEF Loading
<1> QED BY <1>1, <1>2, <1>5, <1>6, <1>7, <1>8, <1>9, LoadingKeeps, Zenon

\* A step of one task that is not the one being recorded.
LEMMA TaskMoves ==
    ASSUME LoaderInv, NEW s \in TaskSlots, NEW new,
           task[s] # [state |-> "empty"], task' = [task EXCEPT ![s] = new],
           UNCHANGED <<step, held, windows, table, plans, next, side>>,
           s # side.holder,
           new = [state |-> "empty"] \/
              /\ new \in Live /\ new.of = task[s].of /\ new.slots = task[s].slots
              /\ new.resolve = task[s].resolve /\ new.state # "ready"
              /\ new.found = task[s].of /\ new.window = plans[task[s].of].window
    PROVE  LoaderInv'
<1>1. step \in Loading
  BY Zenon DEF LoaderInv
<1>2. /\ task'[s] = new /\ \A r \in TaskSlots \ {s} : task'[r] = task[r]
      /\ task' \in [TaskSlots -> Live \cup {[state |-> "empty"]}]
  BY Zenon DEF LoaderInv
<1>3. HolderKept'
  BY <1>2, Zenon DEF LoaderInv, HolderKept
<1>4. ASSUME NEW r \in TaskSlots PROVE TaskKept(r)'
  <2>1. TaskKept(r)
    BY Zenon DEF LoaderInv
  <2>2. CASE r # s
    BY <2>1, <2>2, <1>2, Zenon DEF TaskKept
  <2>3. CASE r = s
    BY <2>1, <2>3, <1>2, Zenon DEF TaskKept
  <2> QED BY <2>2, <2>3, Zenon
<1> QED BY <1>1, <1>2, <1>3, <1>4, LoadingKeeps, Zenon DEF LoaderInv

LEMMA FindKeeps == ASSUME LoaderInv, NEW s \in TaskSlots, FindEntry(s) PROVE LoaderInv'
<1>1. task[s].state = "ready" /\ side.holder = NONE
  BY Zenon DEF FindEntry, MayLook
<1>2. s # side.holder /\ task[s] # [state |-> "empty"]
  BY <1>1, LoaderAssumption
<1>3. PICK n : n = task[s].of
  BY Zenon
<1>4. /\ task[s] \in Live /\ side.entry[s] = n /\ side.window[s] = plans[n].window
      /\ n \in DOMAIN plans /\ plans[n].spawn
  BY <1>1, <1>2, <1>3, Zenon DEF LoaderInv, TaskKept
<1>5. plans[n].window \in Wins /\ n \in Nat \ {0} /\ n # NONE
  BY <1>2, <1>4, PlanGives DEF LoaderInv, NONE
<1> DEFINE new == [task[s] EXCEPT !.state = "run", !.found = side.entry[s],
                                  !.window = side.window[s]]
<1>6. task' = [task EXCEPT ![s] = new]
  BY <1>4, <1>5, Zenon DEF FindEntry
<1>7. /\ new \in Live /\ new.of = task[s].of /\ new.slots = task[s].slots
      /\ new.resolve = task[s].resolve /\ new.state # "ready"
      /\ new.found = task[s].of /\ new.window = plans[task[s].of].window
  BY <1>3, <1>4, <1>5, Zenon DEF Live
<1>8. UNCHANGED <<step, held, windows, table, plans, next, side>>
  BY Zenon DEF FindEntry
<1> HIDE DEF new
<1> QED BY <1>2, <1>6, <1>7, <1>8, TaskMoves, Zenon

LEMMA EndKeeps ==
    ASSUME LoaderInv, NEW s \in TaskSlots, AgentEnds(s) \/ AgentDrained(s) PROVE LoaderInv'
<1>1. task[s].state \in {"run", "drain"}
  BY Zenon DEF AgentEnds, AgentDrained
<1>2. task[s] # [state |-> "empty"]
  BY <1>1
<1>3. s # side.holder
  BY <1>1, LoaderAssumption, Zenon DEF LoaderInv, HolderKept
<1>4. PICK n : n = task[s].of
  BY Zenon
<1>5. task[s] \in Live /\ task[s].found = n /\ task[s].window = plans[n].window
  BY <1>1, <1>2, <1>4, Zenon DEF LoaderInv, TaskKept
<1>6. UNCHANGED <<step, held, windows, table, plans, next, side>>
  BY Zenon DEF AgentEnds, AgentDrained
<1>7. CASE task' = [task EXCEPT ![s] = [state |-> "empty"]]
  BY <1>2, <1>3, <1>6, <1>7, TaskMoves, Zenon
<1> DEFINE new == [task[s] EXCEPT !.state = "drain", !.left = DRAIN_WAIT_TICKS]
<1>8. CASE task' = [task EXCEPT ![s].state = "drain", ![s].left = DRAIN_WAIT_TICKS]
  <2>1. task' = [task EXCEPT ![s] = new]
    BY <1>8, Zenon DEF LoaderInv
  <2>2. /\ new \in Live /\ new.of = task[s].of /\ new.slots = task[s].slots
        /\ new.resolve = task[s].resolve /\ new.state # "ready"
        /\ new.found = task[s].of /\ new.window = plans[task[s].of].window
    BY <1>4, <1>5, LoaderAssumption, Zenon DEF Live
  <2> HIDE DEF new
  <2> QED BY <1>2, <1>3, <1>6, <2>1, <2>2, TaskMoves, Zenon
<1> QED BY <1>7, <1>8, Zenon DEF AgentEnds, AgentDrained

LEMMA TickKeeps == ASSUME LoaderInv, LoaderTick PROVE LoaderInv'
<1>1. /\ UNCHANGED <<step, held, windows, table, plans, next, side>>
      /\ task' = [s \in TaskSlots |-> IF s \in Draining /\ task[s].left > 0
                                        THEN [task[s] EXCEPT !.left = @ - 1] ELSE task[s]]
  BY Zenon DEF LoaderTick
<1>2. step \in Loading
  <2>1. PICK s \in TaskSlots : task[s].state = "drain"
    BY Zenon DEF LoaderTick, Draining
  <2>2. task[s] # [state |-> "empty"]
    BY <2>1
  <2> QED BY <2>2, Zenon DEF LoaderInv
<1>3. ASSUME NEW s \in TaskSlots
      PROVE  /\ task'[s] = task[s] \/ /\ task[s] \in Live /\ task'[s] \in Live
                                      /\ \A f \in {"state", "of", "slots", "resolve", "found", "window"} :
                                           task'[s][f] = task[s][f]
             /\ TaskKept(s)'
  <2>1. TaskKept(s)
    BY Zenon DEF LoaderInv
  <2>2. CASE s \in Draining /\ task[s].left > 0
    <3>1. task'[s] = [task[s] EXCEPT !.left = @ - 1]
      BY <1>1, <2>2, Zenon
    <3>2. task[s].state = "drain" /\ task[s] # [state |-> "empty"]
      BY <2>2 DEF Draining
    <3>3. task[s] \in Live
      BY <2>1, <3>2, Zenon DEF TaskKept
    <3>4. task[s].left - 1 \in Nat
      BY <2>2, <3>3 DEF Live
    <3>5. /\ task'[s] \in Live
          /\ task'[s].state = task[s].state /\ task'[s].of = task[s].of
          /\ task'[s].slots = task[s].slots /\ task'[s].resolve = task[s].resolve
          /\ task'[s].found = task[s].found /\ task'[s].window = task[s].window
      BY <3>1, <3>3, <3>4, Zenon DEF Live
    <3> QED BY <3>2, <3>3, <3>5, <2>1, <1>1, Zenon DEF TaskKept
  <2>3. CASE ~(s \in Draining /\ task[s].left > 0)
    BY <1>1, <2>1, <2>3, Zenon DEF TaskKept
  <2> QED BY <2>2, <2>3, Zenon
<1>4. task' \in [TaskSlots -> Live \cup {[state |-> "empty"]}]
  <2>1. \A s \in TaskSlots : task'[s] \in Live \cup {[state |-> "empty"]}
    BY <1>3, Zenon DEF LoaderInv
  <2>2. task' = [s \in TaskSlots |-> task'[s]]
    BY <1>1, Zenon
  <2> QED BY <2>1, <2>2, Zenon
<1>5. HolderKept'
  <2>1. CASE step # "record"
    BY <2>1, <1>1, Zenon DEF LoaderInv, HolderKept
  <2>2. CASE step = "record"
    <3>1. PICK s \in TaskSlots :
            /\ s = side.holder /\ task[s] \in Live /\ task[s].state = "ready" /\ task[s].of = next
            /\ ~task[s].resolve /\ next \in DOMAIN plans
      BY <2>2, Zenon DEF LoaderInv, HolderKept
    <3>2. task'[s] = task[s]
      BY <3>1, <1>1, Zenon DEF Draining
    <3> QED BY <2>2, <3>1, <3>2, <1>1, Zenon DEF HolderKept
  <2> QED BY <2>1, <2>2, Zenon
<1> QED BY <1>1, <1>2, <1>3, <1>4, <1>5, LoadingKeeps, Zenon DEF LoaderInv

LEMMA LoaderStepKeeps == LoaderInv /\ [LoaderNext]_loaderVars => LoaderInv'
<1> SUFFICES ASSUME LoaderInv, [LoaderNext]_loaderVars PROVE LoaderInv'
  BY Zenon
<1>1. CASE UNCHANGED <<step, held, windows, table, plans, next, side, task>>
  <2>1. HolderKept' /\ (PlansKept => PlansKept') /\ \A s \in TaskSlots : TaskKept(s)'
    BY <1>1, Zenon DEF LoaderInv, HolderKept, PlansKept, TaskKept
  <2> QED BY <1>1, <2>1, Zenon DEF LoaderInv
<1>2. CASE LoaderStep
  BY <1>2, ConsoleKeeps, BlobKeeps, NetKeeps, WindowsStepKeeps, LoadStoreKeeps, PassKeeps,
     SpawnKeeps, RecordKeeps, Zenon DEF LoaderStep
<1>3. CASE \E s \in TaskSlots : AgentStep(s) \/ AgentEnds(s)
  BY <1>3, FindKeeps, EndKeeps, Zenon DEF AgentStep
<1>4. CASE \E s \in TaskSlots : AgentSends(s)
  BY <1>1, <1>4, Zenon DEF AgentSends
<1>5. CASE LoaderTick
  BY <1>5, TickKeeps, Zenon
<1>6. CASE ConsoleServe
  BY <1>1, <1>6, Zenon DEF ConsoleServe
<1> QED BY <1>1, <1>2, <1>3, <1>4, <1>5, <1>6, Zenon DEF LoaderNext, loaderVars

\* The inductive invariant of the loader.
THEOREM LoaderInvariant == LoaderSpec => []LoaderInv
BY LoaderStarts, LoaderStepKeeps, PTL DEF LoaderSpec

\* An agent runs as the entry it was spawned for, with that entry's window,
\* grant and capabilities, whatever store, framebuffer and services the board
\* had and whoever had its slot before (loader.rs, loaderplan.rs, held.rs).
LEMMA EntriesDelivered == LoaderInv => EntryDelivered
<1> SUFFICES ASSUME LoaderInv, NEW s \in TaskSlots, task[s].state \in {"run", "drain"}
             PROVE  LET e == table[task[s].of]
                    IN  /\ task[s].found = task[s].of
                        /\ task[s].window = BoundWindow(e, windows)
                        /\ task[s].resolve = e.resolve
                        /\ \A i \in DOMAIN e.slots :
                             task[s].slots[i] = IF e.slots[i] = NONE THEN VACANT
                                                ELSE HeldNames[e.slots[i] + 1]
  BY Zenon DEF EntryDelivered
<1>1. task[s] # [state |-> "empty"] /\ step \in Loading
  BY DEF LoaderInv
<1>2. s # side.holder
  BY LoaderAssumption, Zenon DEF LoaderInv, HolderKept
<1>3. PICK n : n = task[s].of
  BY Zenon
<1>4. /\ n \in DOMAIN plans /\ plans[n].spawn /\ task[s].slots = plans[n].slots
      /\ task[s].resolve = table[n].resolve
      /\ task[s].found = n /\ task[s].window = plans[n].window
  BY <1>1, <1>2, <1>3, Zenon DEF LoaderInv, TaskKept
<1>5. /\ Asks(table[n]) /\ Binds(table[n], held) /\ plans[n].slots = Bound(table[n], held)
      /\ plans[n].window = BoundWindow(table[n], windows)
  BY <1>1, <1>4, PlanGives, Zenon
<1>6. ASSUME NEW i \in DOMAIN table[n].slots
      PROVE  task[s].slots[i] = IF table[n].slots[i] = NONE THEN VACANT
                                ELSE HeldNames[table[n].slots[i] + 1]
  <2>1. CASE table[n].slots[i] = NONE
    BY <2>1, <1>4, <1>5 DEF Bound
  <2>2. CASE table[n].slots[i] # NONE
    <3>1. /\ table[n].slots[i] \in Nat /\ table[n].slots[i] < Len(held)
          /\ held[table[n].slots[i] + 1].item # VACANT
      BY <2>2, <1>5 DEF Asks, Binds
    <3>2. Filled(held, 7)
      BY <1>1, Zenon DEF LoaderInv
    <3>3. PICK k \in 1..Len(held) : k = table[n].slots[i] + 1
      BY <3>1, <3>2 DEF Filled
    <3>4. held[k].item = HeldNames[k]
      BY <3>1, <3>2, <3>3, Zenon DEF Filled
    <3> QED BY <2>2, <3>3, <3>4, <1>4, <1>5 DEF Bound
  <2> QED BY <2>1, <2>2, Zenon
<1> QED BY <1>3, <1>4, <1>5, <1>6

\* Two agents' windows are the same or share no page (held::Set::provide_window).
LEMMA WindowsApart == LoaderInv => WindowsDisjoint
<1> SUFFICES ASSUME LoaderInv PROVE WindowsDisjoint
  BY Zenon
<1>1. ASSUME NEW s \in TaskSlots, task[s].state = "run"
      PROVE  /\ WindowsKept(windows)
             /\ \/ task[s].window = NoWindow
                \/ \E k \in 1..2 : /\ task[s].window = windows[k].at
                                   /\ windows[k].item = "window"
  <2>1. task[s] # [state |-> "empty"] /\ step \in Loading
    BY <1>1 DEF LoaderInv
  <2>2. PICK n : n = task[s].of
    BY Zenon
  <2>3. n \in DOMAIN plans /\ plans[n].spawn /\ task[s].window = plans[n].window
    BY <1>1, <2>1, <2>2, Zenon DEF LoaderInv, TaskKept
  <2>4. /\ Asks(table[n]) /\ BindsWindow(table[n], windows)
        /\ plans[n].window = BoundWindow(table[n], windows)
    BY <2>1, <2>3, PlanGives, Zenon
  <2>5. WindowsKept(windows)
    BY <2>1, Zenon DEF LoaderInv
  <2>6. CASE table[n].window = NONE
    BY <2>3, <2>4, <2>5, <2>6, Zenon DEF BoundWindow
  <2>7. CASE table[n].window # NONE
    <3>1. /\ table[n].window \in Nat /\ table[n].window < Len(windows) /\ Len(windows) = 2
          /\ windows[table[n].window + 1].item # VACANT
      BY <2>4, <2>5, <2>7, TwoRows, Zenon DEF Asks, BindsWindow, WindowsKept
    <3>2. PICK k \in 1..2 : k = table[n].window + 1
      BY <3>1
    <3>3. windows[k] \in WinRows
      BY <2>5, Zenon DEF WindowsKept
    <3> QED BY <2>3, <2>4, <2>5, <2>7, <3>1, <3>2, <3>3, Zenon DEF BoundWindow, WinRows
  <2> QED BY <2>6, <2>7, Zenon
<1>2. ASSUME NEW a \in Wins, NEW b \in Wins, a = NoWindow \/ b = NoWindow
      PROVE  ~WindowsOverlap(a, b)
  BY <1>2 DEF WindowsOverlap, NoWindow, Wins
<1>3. ASSUME NEW s \in TaskSlots, NEW t \in TaskSlots, task[s].state = "run",
             task[t].state = "run", task[s].window # task[t].window
      PROVE  ~WindowsOverlap(task[s].window, task[t].window)
  <2>1. /\ windows \in [1..2 -> WinRows] /\ \A k \in 1..2 : windows[k].at \in Wins
        /\ NoWindow \in Wins
    BY <1>1, <1>3, Zenon DEF WindowsKept, WinRows, Wins, NoWindow
  <2>2. task[s].window \in Wins /\ task[t].window \in Wins
    BY <2>1, <1>1, <1>3, Zenon
  <2>3. CASE task[s].window = NoWindow \/ task[t].window = NoWindow
    BY <2>2, <2>3, <1>2, Zenon
  <2>4. CASE task[s].window # NoWindow /\ task[t].window # NoWindow
    <3>1. PICK j \in 1..2 : task[s].window = windows[j].at /\ windows[j].item = "window"
      BY <2>4, <1>1, <1>3, Zenon
    <3>2. PICK k \in 1..2 : task[t].window = windows[k].at /\ windows[k].item = "window"
      BY <2>4, <1>1, <1>3, Zenon
    <3>3. (j = 1 /\ k = 2) \/ (j = 2 /\ k = 1)
      BY <3>1, <3>2, <1>3
    <3>4. ~WindowsOverlap(windows[1].at, windows[2].at)
      BY <3>1, <3>2, <3>3, <1>1, <1>3, Zenon DEF WindowsKept
    <3> QED BY <3>1, <3>2, <3>3, <3>4, Zenon DEF WindowsOverlap
  <2> QED BY <2>3, <2>4, Zenon
<1> QED BY <1>3, Zenon DEF WindowsDisjoint

\* In every behaviour of the loader an agent that runs was given the entry and
\* the window decided for it, and two agents' windows share no page, whatever
\* the store, the framebuffer and the services of the board (loader.rs, held.rs).
THEOREM AgentsRunTheirEntries == LoaderSpec => []AgentRunsItsEntry
<1>1. LoaderInv => AgentRunsItsEntry
  BY EntriesDelivered, WindowsApart, Zenon DEF AgentRunsItsEntry
<1> QED BY <1>1, LoaderInvariant, PTL

=============================================================================
