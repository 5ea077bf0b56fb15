------------------------------- MODULE Ticks -------------------------------
(***************************************************************************)
(* Timekeeping on the generic timer: each core has an absolute compare     *)
(* value; its interrupt re-arms one period after the deadline that expired *)
(* (not after now), skipping periods nobody served, and core 0 alone       *)
(* counts ticks.  The interrupt is level: it is pending exactly while the  *)
(* count has reached the deadline of an armed core.                        *)
(***************************************************************************)
EXTENDS Naturals

CONSTANTS INTERVAL,      \* INTERVAL_COUNTS: counter units per tick
          COUNT_MAX,     \* the largest counter value (u64::MAX)
          MAX_COUNT      \* bound: how far the counter advances in a behaviour

ASSUME TicksAssumption ==
    /\ INTERVAL \in Nat \ {0} /\ COUNT_MAX \in Nat /\ MAX_COUNT \in Nat
    /\ MAX_COUNT < COUNT_MAX

VARIABLES now,        \* CNTPCT
          deadline,   \* DEADLINE and the compare register, per core; 0 unarmed
          live,       \* core 0 has unmasked: the tick series has begun
          ticks,      \* TICKS
          missed,     \* MISSED
          origin      \* history: the deadline the series counts from, less one period

tickvars == <<now, deadline, live, ticks, missed, origin>>

Cores == {0, 1}
Saturate(n) == IF n > COUNT_MAX THEN COUNT_MAX ELSE n

(* next_deadline: whole periods after the previous deadline, past now.     *)
Behind(previous, t) == previous + INTERVAL <= t
Periods(previous, t) ==
    IF Behind(previous, t) THEN (t - previous) \div INTERVAL + 1 ELSE 1

\* Mutant: one period from now, not from the deadline.
NextDeadlineFromNow(previous, t) == Saturate(t + INTERVAL)

NextDeadline(previous, t) == Saturate(previous + Periods(previous, t) * INTERVAL)
MissedPeriods(previous, t) == Periods(previous, t) - 1

TicksInit ==
    /\ now = 0 /\ deadline = [c \in Cores |-> 0]
    /\ live = FALSE /\ ticks = 0 /\ missed = 0 /\ origin = 0

CountAdvances == now < MAX_COUNT /\ now' = now + 1 /\ UNCHANGED <<deadline, live, ticks, missed, origin>>

(* init on core 0, init_secondary on core 1 once the interval is known:    *)
(* arm_this_core one period from now.                                      *)
Arm(c) ==
    /\ deadline[c] = 0
    /\ c = 1 => deadline[0] # 0
    /\ deadline' = [deadline EXCEPT ![c] = Saturate(now + INTERVAL)]
    /\ UNCHANGED <<now, live, ticks, missed, origin>>

(* enable_interrupts: re-arm once before core 0 unmasks; the periods boot  *)
(* slept through are not ticks.                                            *)
GoLive ==
    /\ deadline[0] # 0 /\ ~live
    /\ live' = TRUE
    /\ deadline' = [deadline EXCEPT ![0] = NextDeadline(@, now)]
    /\ origin' = NextDeadline(deadline[0], now)
    /\ UNCHANGED <<now, ticks, missed>>

(* on_timer_irq: re-arm this core; only core 0 keeps time.                 *)
TimerIrq(c) ==
    /\ deadline[c] # 0 /\ now >= deadline[c]
    /\ c = 0 => live
    /\ deadline' = [deadline EXCEPT ![c] = NextDeadline(@, now)]
    /\ IF c = 0
       THEN /\ missed' = missed + MissedPeriods(deadline[c], now)
            /\ ticks' = ticks + Periods(deadline[c], now)
       ELSE UNCHANGED <<ticks, missed>>
    /\ UNCHANGED <<now, live, origin>>

TicksNext == CountAdvances \/ GoLive \/ \E c \in Cores : Arm(c) \/ TimerIrq(c)

TicksSpec == TicksInit /\ [][TicksNext]_tickvars

-----------------------------------------------------------------------------
TicksTypeOK ==
    /\ now \in Nat /\ deadline \in [Cores -> Nat] /\ live \in BOOLEAN
    /\ ticks \in Nat /\ missed \in Nat /\ origin \in Nat

(* The tick count measures elapsed time, whatever the interrupt latency    *)
(* and however many periods were slept through: the next deadline is       *)
(* exactly the tick count in periods past the first, and never a period    *)
(* behind the last one served.                                             *)
TicksMeasureTime ==
    live /\ deadline[0] < COUNT_MAX => deadline[0] = origin + ticks * INTERVAL

(* An interrupt always re-arms its core in the future: a deadline in the   *)
(* past would fire again at once, for ever.                                *)
RearmsAhead ==
    [][\A c \in Cores : TimerIrq(c) => deadline'[c] > now]_tickvars
=============================================================================
