------------------------------ MODULE Bringup ------------------------------
(***************************************************************************)
(* Boot: core 0's phases in bootstrap::run order, the release of core 1,   *)
(* the interrupt controller and dispatch table both cores come to share,   *)
(* and core 1's way from its parking loop into the idle schedule.  Core 1  *)
(* may be absent, or slower than any of the bounded waits for it: a wait   *)
(* ends when the flag is seen or, while it is not, when the budget is      *)
(* spent.  A fault that refuses the boot is a phase's own outcome.         *)
(***************************************************************************)
EXTENDS Naturals

CONSTANTS ASID_BITS,     \* width of the ASIDs the pool hands out
          MAX_IRQ        \* slots of the dispatch table

VARIABLES boot,      \* core 0's phase
          plan,      \* what boot learned: [core1, bound, started]
          smp,       \* handoff words: [root, entry, alive, may, ready, ipi, online]
          marker,    \* the task pinned to core 1: "none", "queued", "ran"
          c1,        \* core 1's position
          gic,       \* [dist, open, en, pend]: distributor, and per core
          irqs,      \* [table, sealed, unhandled]: the dispatch table, and the lines
                     \* claimed without a handler (the code counts them)
          unmasked,  \* per core: DAIF.I clear
          ticking,   \* per core: its timer is armed
          resched    \* RESCHED, per core

bootvars == <<boot, plan, smp, marker, c1, gic, irqs, unmasked, ticking, resched>>

CPUs == {0, 1}
WAKE_SGI == 0
TIMER_IRQ == 30
UART_IRQ == 153

\* A banked line the kernel has no handler for and knows nothing about.
FIRMWARE_IRQ == 29

(* gic::classify.                                                          *)
Classify(irq) ==
    CASE irq < 16 -> "sgi" [] irq < 32 /\ irq >= 16 -> "ppi"
      [] irq < 1020 /\ irq >= 32 -> "spi" [] OTHER -> "invalid"

(* cpuid: the fields of the ID registers verify_cpu reads, and what it     *)
(* demands of them; reserved encodings are no answer.                      *)
CpuIds == [tgran4 : {0, 1, 2, 15}, asid : {0, 1, 2}, el0 : 0..3, el1 : 0..3]
HwAsidBits(id) == IF id.asid = 0 THEN 8 ELSE IF id.asid = 2 THEN 16 ELSE 0
CpuAccepted(id) ==
    /\ id.tgran4 \in {0, 1} /\ id.el0 \in {1, 2} /\ id.el1 \in {1, 2}
    /\ HwAsidBits(id) >= ASID_BITS

(* irqtable: a sealed table refuses alike; then the range is checked.      *)
RegisterAccepts(t, irq) == ~t.sealed /\ irq < MAX_IRQ
Register(t, irq) == IF RegisterAccepts(t, irq) THEN [t EXCEPT !.table = @ \cup {irq}] ELSE t

(* GicV2::enable: mask, route (an SPI to core 0), drop a stale pending     *)
(* bit, unmask; the banked ids act on the calling core alone.              *)
Routed(c, irq) == IF Classify(irq) = "spi" THEN 0 ELSE c
Enable(g, c, irq) == [g EXCEPT !.pend[Routed(c, irq)] = @ \ {irq},
                               !.en[Routed(c, irq)] = @ \cup {irq}]
Raise(g, c, irq) == [g EXCEPT !.pend[c] = @ \cup {irq}]
InitThisCpu(g, c) == [g EXCEPT !.open[c] = TRUE]

NoPlan == [core1 |-> FALSE, bound |-> FALSE, started |-> FALSE]
NewSmp == [root |-> FALSE, entry |-> FALSE, alive |-> FALSE, may |-> FALSE,
           ready |-> FALSE, ipi |-> FALSE, online |-> FALSE]
NewTable == [table |-> {}, sealed |-> FALSE, unhandled |-> {}]

(* The lines the firmware left enabled and pending on each core: init      *)
(* masks none of them.                                                     *)
NewGic(left) ==
    [dist |-> FALSE, open |-> [c \in CPUs |-> FALSE], en |-> left, pend |-> left]

FirmwareLeft ==
    {left \in [CPUs -> SUBSET {TIMER_IRQ, UART_IRQ, FIRMWARE_IRQ}] : UART_IRQ \notin left[1]}

BootInit ==
    /\ boot = "map" /\ plan = NoPlan /\ smp = NewSmp /\ marker = "none"
    /\ c1 \in {"parked", "absent"}
    /\ gic \in {NewGic(left) : left \in FirmwareLeft}
    /\ irqs = NewTable
    /\ unmasked = [c \in CPUs |-> FALSE]
    /\ ticking = [c \in CPUs |-> FALSE]
    /\ resched = [c \in CPUs |-> FALSE]

Goto(p) == boot' = p

(* establish_kernel_map, verify_cpu and assert_table_reserve refuse the    *)
(* boot; discovery never does.                                             *)
EstablishMap ==
    /\ boot = "map" /\ \E ok \in BOOLEAN : Goto(IF ok THEN "cpu" ELSE "refused")
    /\ UNCHANGED <<plan, smp, marker, c1, gic, irqs, unmasked, ticking, resched>>

VerifyCpu ==
    /\ boot = "cpu" /\ \E id \in CpuIds : Goto(IF CpuAccepted(id) THEN "root" ELSE "refused")
    /\ UNCHANGED <<plan, smp, marker, c1, gic, irqs, unmasked, ticking, resched>>

(* unpark_core1: the root first, then the entry words; a board without the *)
(* spin table answers false at once.                                       *)
PublishRoot ==
    /\ boot = "root"
    /\ \/ smp' = [smp EXCEPT !.root = TRUE] /\ Goto("entry")
       \/ smp' = smp /\ Goto("discover")
    /\ UNCHANGED <<plan, marker, c1, gic, irqs, unmasked, ticking, resched>>

PublishEntry ==
    /\ boot = "entry" /\ Goto("await_alive")
    /\ smp' = [smp EXCEPT !.entry = TRUE]
    /\ UNCHANGED <<plan, marker, c1, gic, irqs, unmasked, ticking, resched>>

\* Mutant: a wait without a budget.
SpinForever(flag, answer) == flag /\ answer

(* A bounded spin on a flag core 1 sets: both answers once it is late.     *)
Spin(flag, answer) == answer = flag

AwaitAlive ==
    /\ boot = "await_alive" /\ Goto("discover")
    /\ \E seen \in BOOLEAN : Spin(smp.alive, seen) /\ plan' = [plan EXCEPT !.core1 = seen]
    /\ UNCHANGED <<smp, marker, c1, gic, irqs, unmasked, ticking, resched>>

Discover ==
    /\ boot = "discover" /\ \E spare \in BOOLEAN : Goto(IF spare THEN "pools" ELSE "refused")
    /\ UNCHANGED <<plan, smp, marker, c1, gic, irqs, unmasked, ticking, resched>>

(* init_memory_pools: the scheduler starts only over a frame pool.         *)
InitPools ==
    /\ boot = "pools" /\ Goto("bind")
    /\ \E frames \in BOOLEAN : plan' = [plan EXCEPT !.started = frames]
    /\ UNCHANGED <<smp, marker, c1, gic, irqs, unmasked, ticking, resched>>

(* board::irq::init: chip, three handlers, the timer, then the two lines   *)
(* of core 0.  A handler refused or a timer rate out of range leaves the   *)
(* rest undone, and the boot goes on with interrupts masked.               *)
BindInterrupts ==
    LET t == Register(Register(Register(irqs, TIMER_IRQ), UART_IRQ), WAKE_SGI)
        g == [InitThisCpu(gic, 0) EXCEPT !.dist = TRUE] IN
    /\ boot = "bind" /\ Goto("seal")
    /\ irqs' = t
    /\ \E rate \in BOOLEAN :
          LET bound == rate /\ {TIMER_IRQ, UART_IRQ, WAKE_SGI} \subseteq t.table IN
          /\ plan' = [plan EXCEPT !.bound = bound]
          /\ ticking' = [ticking EXCEPT ![0] = bound]
          /\ gic' = IF bound THEN Enable(Enable(g, 0, TIMER_IRQ), 0, UART_IRQ) ELSE g
    /\ UNCHANGED <<smp, marker, c1, unmasked, resched>>

SealDispatch ==
    /\ boot = "seal" /\ Goto(IF plan.core1 /\ plan.bound THEN "release" ELSE "unmask")
    /\ irqs' = [irqs EXCEPT !.sealed = TRUE]
    /\ UNCHANGED <<plan, smp, marker, c1, gic, unmasked, ticking, resched>>

(* probe_core1_ipi, then start_cpu1 and the marker whatever it answered.   *)
Release ==
    /\ boot = "release" /\ Goto("await_ready")
    /\ smp' = [smp EXCEPT !.may = TRUE]
    /\ UNCHANGED <<plan, marker, c1, gic, irqs, unmasked, ticking, resched>>

AwaitReady ==
    /\ boot = "await_ready"
    /\ \E seen \in BOOLEAN : Spin(smp.ready, seen) /\ Goto(IF seen THEN "sgi" ELSE "start")
    /\ UNCHANGED <<plan, smp, marker, c1, gic, irqs, unmasked, ticking, resched>>

SendSgi ==
    /\ boot = "sgi" /\ Goto("await_ipi")
    /\ gic' = Raise(gic, 1, WAKE_SGI)
    /\ UNCHANGED <<plan, smp, marker, c1, irqs, unmasked, ticking, resched>>

AwaitIpi ==
    /\ boot = "await_ipi" /\ Goto("start")
    /\ \E seen \in BOOLEAN : Spin(smp.ipi, seen)
    /\ UNCHANGED <<plan, smp, marker, c1, gic, irqs, unmasked, ticking, resched>>

StartCpu1 ==
    /\ boot = "start" /\ Goto(IF plan.started THEN "marker" ELSE "unmask")
    /\ smp' = [smp EXCEPT !.online = plan.started]
    /\ UNCHANGED <<plan, marker, c1, gic, irqs, unmasked, ticking, resched>>

SpawnMarker ==
    /\ boot = "marker"
    /\ \/ /\ marker' = "queued" /\ Goto("await_ran")
          /\ resched' = [resched EXCEPT ![1] = TRUE]
          /\ gic' = Raise(gic, 1, WAKE_SGI)
       \/ Goto("unmask") /\ UNCHANGED <<marker, resched, gic>>    \* no stack
    /\ UNCHANGED <<plan, smp, c1, irqs, unmasked, ticking>>

AwaitRan ==
    /\ boot = "await_ran" /\ Goto("unmask")
    /\ \E seen \in BOOLEAN : Spin(marker = "ran", seen)
    /\ UNCHANGED <<plan, smp, marker, c1, gic, irqs, unmasked, ticking, resched>>

EnableInterrupts ==
    /\ boot = "unmask" /\ Goto("loop")
    /\ unmasked' = [unmasked EXCEPT ![0] = plan.bound]
    /\ gic' = [gic EXCEPT !.pend[0] = @ \ {TIMER_IRQ}]        \* timer::on_interrupt re-arms
    /\ UNCHANGED <<plan, smp, marker, c1, irqs, ticking, resched>>

Core0 ==
    \/ EstablishMap \/ VerifyCpu \/ PublishRoot \/ PublishEntry \/ AwaitAlive \/ Discover
    \/ InitPools \/ BindInterrupts \/ SealDispatch \/ Release \/ AwaitReady \/ SendSgi
    \/ AwaitIpi \/ StartCpu1 \/ SpawnMarker \/ AwaitRan \/ EnableInterrupts

-----------------------------------------------------------------------------
(* Core 1: secondary_main.                                                 *)
SecondaryMain ==
    /\ c1 = "parked" /\ smp.entry
    /\ IF smp.root THEN c1' = "alive" /\ smp' = [smp EXCEPT !.alive = TRUE]
                   ELSE c1' = "halted" /\ smp' = smp
    /\ UNCHANGED <<boot, plan, marker, gic, irqs, unmasked, ticking, resched>>

\* Mutant: core 1 does not wait for its release.
MayIrqAtOnce == TRUE

(* harbor_secondary_idle: once released, this core's interface, the wake   *)
(* line and the local timer, then ready, then unmask.                      *)
MayIrq == smp.may

SecondaryGic ==
    /\ c1 = "alive" /\ MayIrq
    /\ c1' = "ready"
    /\ gic' = Enable(Enable(InitThisCpu(gic, 1), 1, WAKE_SGI), 1, TIMER_IRQ)
    /\ ticking' = [ticking EXCEPT ![1] = ticking[0]]
    /\ smp' = [smp EXCEPT !.ready = TRUE]
    /\ UNCHANGED <<boot, plan, marker, irqs, unmasked, resched>>

SecondaryUnmask ==
    /\ c1 = "ready" /\ c1' = "offline"
    /\ unmasked' = [unmasked EXCEPT ![1] = TRUE]
    /\ UNCHANGED <<boot, plan, smp, marker, gic, irqs, ticking, resched>>

SecondaryOnline ==
    /\ c1 = "offline" /\ smp.online /\ c1' = "check"
    /\ UNCHANGED <<boot, plan, smp, marker, gic, irqs, unmasked, ticking, resched>>

(* secondary_idle_loop: look for work, switch to it or sleep.  The look    *)
(* and the WFI are two steps: an interrupt taken between them does not     *)
(* keep the core awake.                                                    *)
IdleCheck ==
    /\ c1 = "check"
    /\ IF resched[1] \/ marker = "queued"
       THEN /\ c1' = "check"
            /\ resched' = [resched EXCEPT ![1] = FALSE]
            /\ marker' = IF marker = "queued" THEN "ran" ELSE marker
       ELSE c1' = "doze" /\ UNCHANGED <<resched, marker>>
    /\ UNCHANGED <<boot, plan, smp, gic, irqs, unmasked, ticking>>

IdleSleep ==
    /\ c1 = "doze" /\ c1' = "wfi"
    /\ UNCHANGED <<boot, plan, smp, marker, gic, irqs, unmasked, ticking, resched>>

Core1 == SecondaryMain \/ SecondaryGic \/ SecondaryUnmask \/ SecondaryOnline \/ IdleCheck
           \/ IdleSleep

-----------------------------------------------------------------------------
(* handle_cpu_irq: claim a pending line, look its handler up, run it, end  *)
(* it.  Only core 1 answers the wake line; an interrupt ends a WFI.        *)
Pending(c) == gic.pend[c] \cap gic.en[c]

TakeIrq(c) ==
    /\ unmasked[c] /\ gic.dist /\ gic.open[c]
    /\ \E irq \in Pending(c) :
          /\ gic' = [gic EXCEPT !.pend[c] = @ \ {irq}]
          /\ irqs' = [irqs EXCEPT !.unhandled = @ \cup ({irq} \ irqs.table)]
          /\ LET woken == irq = WAKE_SGI /\ c = 1 /\ irq \in irqs.table IN
             /\ smp' = [smp EXCEPT !.ipi = @ \/ woken]
             /\ resched' = [resched EXCEPT ![1] = @ \/ woken]
    /\ c1' = IF c = 1 /\ c1 = "wfi" THEN "check" ELSE c1
    /\ UNCHANGED <<boot, plan, marker, unmasked, ticking>>

TimerFires(c) ==
    /\ ticking[c] /\ TIMER_IRQ \notin gic.pend[c]
    /\ gic' = Raise(gic, c, TIMER_IRQ)
    /\ UNCHANGED <<boot, plan, smp, marker, c1, irqs, unmasked, ticking, resched>>

\* The UART, or the firmware's device, whose level nobody quiets.
DeviceRaises(irq) ==
    /\ unmasked[0] /\ irq \notin gic.pend[0]
    /\ gic' = Raise(gic, 0, irq)
    /\ UNCHANGED <<boot, plan, smp, marker, c1, irqs, unmasked, ticking, resched>>

BootNext ==
    \/ Core0 \/ Core1 \/ DeviceRaises(UART_IRQ) \/ DeviceRaises(FIRMWARE_IRQ)
    \/ \E c \in CPUs : TakeIrq(c) \/ TimerFires(c)

(* Fairness: each core executes its code, an armed timer expires, and a    *)
(* pending unmasked interrupt is taken.                                    *)
BootFairness ==
    /\ WF_bootvars(Core0) /\ WF_bootvars(Core1)
    /\ \A c \in CPUs : WF_bootvars(TimerFires(c)) /\ WF_bootvars(TakeIrq(c))

BootSpec == BootInit /\ [][BootNext]_bootvars /\ BootFairness

-----------------------------------------------------------------------------
(* No core takes an interrupt while the dispatch table may still change    *)
(* under it, and every line the kernel knows has its handler by then, for  *)
(* any order of core 1's bring-up against core 0's, a late core 1          *)
(* included, and whatever the firmware left enabled: only a line of the    *)
(* firmware's own can be claimed without a handler, and UNHANDLED counts   *)
(* no other.                                                               *)
IrqFindsHandler ==
    /\ \A c \in CPUs :
          unmasked[c] => irqs.sealed /\ gic.en[c] \subseteq irqs.table \cup {FIRMWARE_IRQ}
    /\ irqs.unhandled \subseteq {FIRMWARE_IRQ}
=============================================================================
