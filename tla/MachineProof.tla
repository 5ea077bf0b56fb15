---------------------------- MODULE MachineProof ----------------------------
(***************************************************************************)
(* Proofs about five parts next to the hardware: the timer, the queue of   *)
(* wake tokens, the virtio handshake, the GENET words, and the way to EL0  *)
(* and back.                                                               *)
(***************************************************************************)
EXTENDS Ticks, SpscRing, VirtioTransport, GenetWords, AgentSession, TLAPS

-----------------------------------------------------------------------------
(* Proofs about the timer: for every period and every interrupt latency    *)
(* the tick count measures time exactly and a re-arm is never behind.      *)

(* A quotient's remainder is smaller than its divisor.                     *)
LEMMA NextMultipleAhead ==
    ASSUME NEW d \in Nat, NEW i \in Nat \ {0}
    PROVE  /\ d \div i \in Nat
           /\ (d \div i + 1) * i > d
<1> DEFINE q == d \div i
           r == d % i
<1>1. q \in Nat /\ r \in Nat /\ r < i /\ d = i * q + r
  OBVIOUS
<1>2. (q + 1) * i = i * q + i
  BY <1>1
<1> QED BY <1>1, <1>2

(* The number of periods a re-arm advances is positive, and carries the    *)
(* deadline past the current count.                                        *)
LEMMA PeriodsAhead ==
    ASSUME NEW p \in Nat, NEW t \in Nat
    PROVE  /\ Periods(p, t) \in Nat \ {0}
           /\ p + Periods(p, t) * INTERVAL > t
<1> USE TicksAssumption
<1>1. CASE ~Behind(p, t)
  <2>1. Periods(p, t) = 1 BY <1>1, Zenon DEF Periods
  <2>2. p + INTERVAL > t BY <1>1 DEF Behind
  <2> QED BY <2>1, <2>2
<1>2. CASE Behind(p, t)
  <2>1. t - p \in Nat /\ t >= p BY <1>2 DEF Behind
  <2>2. /\ (t - p) \div INTERVAL \in Nat
        /\ ((t - p) \div INTERVAL + 1) * INTERVAL > t - p
    BY <2>1, NextMultipleAhead, Zenon
  <2>3. Periods(p, t) = (t - p) \div INTERVAL + 1 BY <1>2, Zenon DEF Periods
  <2> HIDE DEF Periods
  <2>4. Periods(p, t) * INTERVAL > t - p BY <2>2, <2>3, Zenon
  <2>5. Periods(p, t) \in Nat \ {0} BY <2>2, <2>3
  <2>6. Periods(p, t) * INTERVAL \in Nat BY <2>5
  <2> QED BY <2>1, <2>4, <2>5, <2>6
<1> QED BY <1>1, <1>2, Zenon

(* What the theorems rest on besides the types: the count stays below its  *)
(* limit, the series starts armed and at tick zero.                        *)
TicksInv ==
    /\ TicksTypeOK /\ TicksMeasureTime
    /\ now <= MAX_COUNT
    /\ live => deadline[0] # 0
    /\ ~live => ticks = 0

(* A re-arm is a positive deadline past the current count.                 *)
LEMMA NextDeadlineAhead ==
    ASSUME NEW p \in Nat, NEW t \in Nat, t <= MAX_COUNT
    PROVE  NextDeadline(p, t) \in Nat \ {0} /\ NextDeadline(p, t) > t
<1> DEFINE n == Periods(p, t)
<1>1. n \in Nat /\ p + n * INTERVAL > t BY PeriodsAhead, Zenon
<1> HIDE DEF n
<1>2. PICK m \in Nat : m = n * INTERVAL BY <1>1, TicksAssumption
<1>3. NextDeadline(p, t) = Saturate(p + m) BY <1>2, Zenon DEF NextDeadline, n
<1> QED BY <1>1, <1>2, <1>3, TicksAssumption DEF Saturate

(* A re-arm from a deadline on the series, unless it saturates, lands on   *)
(* the series as many periods on as the ticks it accounts for.             *)
LEMMA SeriesKept ==
    ASSUME NEW p \in Nat, NEW t \in Nat, NEW o \in Nat, NEW k \in Nat,
           p < COUNT_MAX => p = o + k * INTERVAL,
           NextDeadline(p, t) < COUNT_MAX
    PROVE  NextDeadline(p, t) = o + (k + Periods(p, t)) * INTERVAL
<1> DEFINE n == Periods(p, t)
<1>1. n \in Nat \ {0} BY PeriodsAhead, Zenon
<1> HIDE DEF n
<1>2. PICK m \in Nat : m = n * INTERVAL BY <1>1, TicksAssumption
<1>3. PICK j \in Nat : j = k * INTERVAL BY TicksAssumption
<1>4. NextDeadline(p, t) = Saturate(p + m) BY <1>2, Zenon DEF NextDeadline, n
<1>5. NextDeadline(p, t) = p + m /\ p < COUNT_MAX
  BY <1>4, TicksAssumption DEF Saturate
<1>6. p = o + j BY <1>5, <1>3, Zenon
<1>7. (k + n) * INTERVAL = j + m BY <1>1, <1>2, <1>3, TicksAssumption
<1>8. NextDeadline(p, t) = o + (k + n) * INTERVAL BY <1>5, <1>6, <1>7
<1> QED BY <1>8, Zenon DEF n

LEMMA TicksInvInductive ==
    /\ TicksInit => TicksInv
    /\ TicksInv /\ [TicksNext]_tickvars => TicksInv'
<1>1. TicksInit => TicksInv
  <2> SUFFICES ASSUME TicksInit PROVE TicksInv
    BY Zenon
  <2>1. live \in BOOLEAN /\ ~live BY Zenon DEF TicksInit
  <2>2. now \in Nat /\ ticks = 0 /\ missed \in Nat /\ origin \in Nat /\ now <= MAX_COUNT
    BY TicksAssumption DEF TicksInit
  <2>3. deadline \in [Cores -> Nat] BY Zenon DEF TicksInit
  <2> QED BY <2>1, <2>2, <2>3, Zenon DEF TicksInv, TicksTypeOK, TicksMeasureTime
<1>2. ASSUME TicksInv, [TicksNext]_tickvars PROVE TicksInv'
  <2> USE <1>2 DEF TicksInv, TicksTypeOK, Cores
  <2>1. CASE CountAdvances
    <3>1. now' \in Nat /\ now' <= MAX_COUNT
          /\ UNCHANGED <<deadline, live, ticks, missed, origin>>
      BY <2>1, TicksAssumption DEF CountAdvances
    <3>2. TicksMeasureTime' BY <3>1, Zenon DEF TicksMeasureTime
    <3> QED BY <3>1, <3>2, Zenon
  <2>2. ASSUME NEW c \in Cores, Arm(c) PROVE TicksInv'
    <3>1. Saturate(now + INTERVAL) \in Nat \ {0}
      BY TicksAssumption DEF Saturate
    <3>2. /\ deadline' = [deadline EXCEPT ![c] = Saturate(now + INTERVAL)]
          /\ deadline[c] = 0 /\ UNCHANGED <<now, live, ticks, missed, origin>>
      BY <2>2, Zenon DEF Arm
    <3>3. deadline' \in [Cores -> Nat] BY <3>1, <3>2, Zenon
    <3>4. CASE c = 1
      <4>1. deadline'[0] = deadline[0] BY <3>2, <3>4
      <4> QED BY <3>2, <3>3, <4>1, Zenon DEF TicksMeasureTime
    <3>5. CASE c = 0
      <4>1. ~live /\ ~live' BY <3>2, <3>5, Zenon
      <4> QED BY <3>2, <3>3, <4>1, Zenon DEF TicksMeasureTime
    <3> QED BY <3>4, <3>5, Zenon
  <2>3. CASE GoLive
    <3> DEFINE d == NextDeadline(deadline[0], now)
    <3>1. d \in Nat \ {0} BY NextDeadlineAhead, Zenon
    <3> HIDE DEF d
    <3>2. /\ deadline' = [deadline EXCEPT ![0] = d] /\ origin' = d /\ ~live /\ live'
          /\ UNCHANGED <<now, ticks, missed>>
      BY <2>3, Zenon DEF GoLive, d
    <3>3. deadline' \in [Cores -> Nat] /\ deadline'[0] = d BY <3>1, <3>2, Zenon
    <3>4. ticks' = 0 BY <3>2, Zenon
    <3>5. deadline'[0] = origin' + ticks' * INTERVAL
      BY <3>1, <3>2, <3>3, <3>4, TicksAssumption
    <3> QED BY <3>1, <3>2, <3>3, <3>4, <3>5, Zenon DEF TicksMeasureTime
  <2>4. ASSUME NEW c \in Cores, TimerIrq(c) PROVE TicksInv'
    <3> DEFINE d == NextDeadline(deadline[c], now)
               n == Periods(deadline[c], now)
    <3>1. d \in Nat \ {0} BY NextDeadlineAhead, Zenon
    <3>2. n \in Nat \ {0} /\ MissedPeriods(deadline[c], now) = n - 1
      BY PeriodsAhead, Zenon DEF MissedPeriods
    <3> HIDE DEF d, n
    <3>3. /\ deadline' = [deadline EXCEPT ![c] = d]
          /\ UNCHANGED <<now, live, origin>> /\ (c = 0 => live)
          /\ IF c = 0 THEN ticks' = ticks + n /\ missed' = missed + (n - 1)
                     ELSE UNCHANGED <<ticks, missed>>
      BY <2>4, <3>2, Zenon DEF TimerIrq, d, n
    <3>4. TicksTypeOK' BY <3>1, <3>2, <3>3
    <3>5. CASE c = 1
      <4>1. deadline'[0] = deadline[0] /\ ticks' = ticks BY <3>3, <3>5
      <4> QED BY <3>3, <3>4, <4>1, Zenon DEF TicksMeasureTime
    <3>6. CASE c = 0
      <4>1. live /\ live' /\ deadline'[0] = d /\ ticks' = ticks + n BY <3>3, <3>6, Zenon
      <4>2. d < COUNT_MAX => d = origin + (ticks + n) * INTERVAL
        BY <3>6, <4>1, SeriesKept DEF TicksMeasureTime, d, n
      <4> QED BY <3>1, <3>3, <3>4, <4>1, <4>2, Zenon DEF TicksMeasureTime
    <3> QED BY <3>5, <3>6, Zenon
  <2>5. CASE UNCHANGED tickvars
    BY <2>5, Zenon DEF tickvars, TicksMeasureTime
  <2> QED BY <1>2, <2>1, <2>2, <2>3, <2>4, <2>5, Zenon DEF TicksNext
<1> QED BY <1>1, <1>2, Zenon

(* For every period and every latency of the timer interrupt, the tick     *)
(* count of time.rs measures the time elapsed in whole periods.            *)
THEOREM TicksExact == TicksSpec => []TicksMeasureTime
<1>1. TicksInv => TicksMeasureTime BY Zenon DEF TicksInv
<1> QED BY <1>1, TicksInvInductive, PTL DEF TicksSpec

(* on_interrupt never programs a compare value the count has passed.       *)
THEOREM RearmAlwaysAhead == TicksSpec => RearmsAhead
<1>1. TicksInv => \A c \in Cores : TimerIrq(c) => deadline'[c] > now
  <2> SUFFICES ASSUME TicksInv, NEW c \in Cores, TimerIrq(c) PROVE deadline'[c] > now
    BY Zenon
  <2>1. deadline[c] \in Nat /\ now \in Nat /\ deadline'[c] = NextDeadline(deadline[c], now)
    BY Zenon DEF TicksInv, TicksTypeOK, TimerIrq
  <2> QED BY <2>1, NextDeadlineAhead, Zenon DEF TicksInv
<1>2. TicksInv /\ [TicksNext]_tickvars
        => [\A c \in Cores : TimerIrq(c) => deadline'[c] > now]_tickvars
  BY <1>1, Zenon
<1> QED BY <1>2, TicksInvInductive, PTL DEF TicksSpec, RearmsAhead

-----------------------------------------------------------------------------
(* The queue of wake tokens is a FIFO for every ring size and every set of *)
(* tokens, at every interleaving of the loads and stores of push and pop.  *)

\* Walking the ring: the slot after Pos(t, i) is Pos(t, i + 1), and moving the
\* tail by one renames places by one.
LEMMA PosFacts ==
    ASSUME NEW t \in Indices
    PROVE  /\ Pos(t, 0) = t /\ Succ(t) \in Indices
           /\ \A i \in 0..(N - 1) : Pos(t, i) \in Indices
           /\ \A i \in 0..(N - 2) : Succ(Pos(t, i)) = Pos(t, i + 1)
           /\ \A i \in 0..(N - 2) : Pos(Succ(t), i) = Pos(t, i + 1)
           /\ \A i, j \in 0..(N - 1) : Pos(t, i) = Pos(t, j) => i = j
           /\ Succ(Pos(t, N - 1)) = t
BY RingAssumption DEF Pos, Succ, Indices

\* The ring holds the published tokens in order, from the tail on; a producer
\* past its check has room for one more, a consumer past its check has a token.
THEOREM RingHolds == RingSpec => []RingHoldsQueue
<1>1. RingInit => RingHoldsQueue
  BY RingAssumption DEF RingInit, RingHoldsQueue, RingTypeOK, Pos, Indices
<1>2. RingHoldsQueue /\ [RingNext]_ringVars => RingHoldsQueue'
  <2> SUFFICES ASSUME RingHoldsQueue, [RingNext]_ringVars PROVE RingHoldsQueue'
    BY Zenon
  <2> USE RingAssumption DEF RingHoldsQueue, RingTypeOK
  <2>0. tail \in Indices
    BY Zenon
  <2>1. ASSUME NEW tok \in Tokens, PushLook(tok) PROVE RingHoldsQueue'
    <3>1. ~Full(head, tail) => Len(queued) < N - 1
      <4>1. SUFFICES ASSUME Len(queued) = N - 1 PROVE Full(head, tail)
        OBVIOUS
      <4>2. QED BY <2>0, <4>1, PosFacts, Zenon DEF Full
    <3>2. QED BY <2>1, <3>1, Zenon DEF PushLook
  <2>2. CASE PushWrite
    <3>1. \A i \in 1..Len(queued) : Pos(tail, i - 1) # head
      BY <2>0, PosFacts
    <3>2. \A i \in 1..Len(queued) : Pos(tail, i - 1) \in Indices
      BY <2>0, PosFacts
    <3>3. slots' \in [Indices -> Tokens] /\ slots'[head] = token
      BY <2>2, Zenon DEF PushWrite
    <3>4. \A i \in 1..Len(queued) : slots'[Pos(tail, i - 1)] = queued[i]
      BY <2>2, <3>1, <3>2, Zenon DEF PushWrite
    <3>5. QED BY <2>2, <3>3, <3>4, Zenon DEF PushWrite
  <2>3. CASE PushPublish
    <3>1. queued' \in Seq(Tokens) /\ Len(queued') = Len(queued) + 1
      BY <2>3 DEF PushPublish
    <3>2. head' = Pos(tail, Len(queued) + 1) /\ head' \in Indices
      BY <2>0, <2>3, PosFacts DEF PushPublish
    <3>3. \A i \in 1..Len(queued') : slots[Pos(tail, i - 1)] = queued'[i]
      BY <2>3 DEF PushPublish
    <3>4. consumer = "free" => queued'[1] = queued[1]
      BY <2>3 DEF PushPublish
    <3>5. queued' # <<>>
      BY <3>1
    <3>6. QED BY <2>3, <3>1, <3>2, <3>3, <3>4, <3>5 DEF PushPublish
  <2>4. CASE PopLook
    <3>1. queued # <<>>
      BY <2>0, <2>4, PosFacts, Zenon DEF PopLook
    <3>2. QED BY <2>4, <3>1, Zenon DEF PopLook
  <2>5. CASE PopRead
    <3>1. Len(queued) \in 1..(N - 1)
      BY <2>5 DEF PopRead
    <3>2. slots[tail] = queued[1]
      BY <2>0, <3>1, PosFacts
    <3>3. got' \in Tokens
      BY <2>5, Zenon DEF PopRead
    <3>4. QED BY <2>5, <3>2, <3>3, Zenon DEF PopRead
  <2>6. CASE PopFree
    <3>1. /\ queued' \in Seq(Tokens) /\ Len(queued') = Len(queued) - 1
          /\ Len(queued) \in 1..(N - 1)
          /\ \A i \in 1..Len(queued') : queued'[i] = queued[i + 1]
      BY <2>6 DEF PopFree
    <3>2. tail' \in Indices /\ head = Pos(tail', Len(queued'))
      BY <2>0, <2>6, <3>1, PosFacts DEF PopFree
    <3>3. \A i \in 1..Len(queued') : Pos(tail', i - 1) = Pos(tail, i)
      BY <2>0, <2>6, <3>1, PosFacts DEF PopFree
    <3>4. \A i \in 1..Len(queued') : slots[Pos(tail', i - 1)] = queued'[i]
      BY <3>1, <3>3
    <3>5. QED BY <2>6, <3>1, <3>2, <3>4 DEF PopFree
  <2>7. CASE UNCHANGED ringVars
    BY <2>7, Zenon DEF ringVars
  <2>8. QED BY <2>1, <2>2, <2>3, <2>4, <2>5, <2>6, <2>7, Zenon DEF RingNext
<1>3. QED BY <1>1, <1>2, PTL DEF RingSpec

\* What pop returns is the oldest token in the queue, a refused push found it
\* full, and no slot is touched from both sides at once (wake.rs, ring.rs).
THEOREM RingIsFifo == RingSpec => []QueueIsFifo
<1>1. RingHoldsQueue => QueueIsFifo
  <2> SUFFICES ASSUME RingHoldsQueue PROVE QueueIsFifo
    BY Zenon
  <2> USE RingAssumption DEF RingHoldsQueue, RingTypeOK
  <2>0. tail \in Indices /\ Len(queued) \in 0..(N - 1)
    OBVIOUS
  <2>1. consumer = "free" => queued # <<>> /\ got = Head(queued)
    OBVIOUS
  <2>2. Full(head, tail) => Len(queued) = N - 1
    <3> SUFFICES ASSUME Full(head, tail), Len(queued) \in 0..(N - 2) PROVE FALSE
      BY <2>0
    <3>1. Pos(tail, Len(queued) + 1) = Pos(tail, 0)
      BY <2>0, PosFacts DEF Full
    <3>2. Len(queued) + 1 \in 0..(N - 1) /\ 0 \in 0..(N - 1)
      OBVIOUS
    <3>3. Len(queued) + 1 = 0
      BY <2>0, <3>1, <3>2, PosFacts
    <3>4. QED BY <2>0, <3>3
  <2>3. producer = "write" /\ consumer = "read" => head # tail
    <3> SUFFICES ASSUME consumer = "read", head = tail PROVE FALSE
      BY Zenon
    <3>1. Pos(tail, Len(queued)) = Pos(tail, 0)
      BY <2>0, PosFacts, Zenon
    <3>2. Len(queued) = 0
      BY <2>0, <3>1, PosFacts
    <3>3. QED BY <3>2
  <2>4. QED BY <2>1, <2>2, <2>3, Zenon DEF QueueIsFifo
<1>2. QED BY <1>1, RingHolds, PTL

-----------------------------------------------------------------------------
(* However many slots the aperture has and wherever a device refuses, at   *)
(* most one slot ever holds the ring pages.                                *)

STEPS == {"reset", "identity", "acknowledge", "driver", "write_features", "features_ok",
          "read_status", "rx", "tx", "driver_ok", "observe", "live", "refused", "dropped"}

Bits(step) ==
    CASE step \in {"identity", "acknowledge"} -> {}
      [] step = "driver" -> {"ACKNOWLEDGE"}
      [] step \in {"write_features", "features_ok"} -> {"ACKNOWLEDGE", "DRIVER"}
      [] OTHER -> {"ACKNOWLEDGE", "DRIVER", "FEATURES_OK"}

\* What the slot at hand holds when the driver is at a step.
Holds(step) ==
    [status |-> IF step \in {"observe", "live"} THEN Bits(step) \union {"DRIVER_OK"}
                ELSE Bits(step),
     ready |-> IF step = "tx" THEN {"rx"}
               ELSE IF step \in {"driver_ok", "observe", "live"} THEN Queues ELSE {},
     features |-> step \notin {"identity", "acknowledge", "driver", "write_features"}]

VtInv ==
    /\ vtdev = [s \in VtSlots |-> vtdev[s]]
    /\ vtslot \in VtSlots /\ vtstep \in STEPS
    /\ \A s \in VtSlots \ {vtslot} : vtdev[s] = InReset
    /\ vtstep \in {"refused", "dropped"} => vtdev[vtslot] = InReset
    /\ vtstep \notin {"reset", "refused", "dropped"} =>
         vtdev[vtslot] = Holds(vtstep) /\ vtbits = Bits(vtstep)

\* A refusal that leaves the device in reset keeps the invariant, whether it
\* ends the claim or moves on to the next slot.
LEMMA RefusalKeeps ==
    ASSUME VtInv, RefuseWith(InReset)
    PROVE  VtInv'
<1>1. vtdev' = [s \in VtSlots |-> vtdev'[s]] /\ \A s \in VtSlots : vtdev'[s] = InReset
  BY Zenon DEF RefuseWith, VtInv
<1>2. vtslot' \in VtSlots /\ vtstep' \in {"reset", "refused"}
  BY VirtioAssumption DEF RefuseWith, VtInv, VtSlots
<1>3. QED BY <1>1, <1>2, Zenon DEF VtInv, STEPS

\* An exchange that leaves the device as the next step expects it.
LEMMA ExchangeKeeps ==
    ASSUME VtInv, NEW next \in STEPS \ {"reset", "refused", "dropped"},
           Exchange(Holds(next), next, Bits(next))
    PROVE  VtInv'
BY Zenon DEF Exchange, VtInv

\* At every step the slot at hand holds exactly what the handshake has given it
\* and every other slot of the aperture is in reset.
THEOREM HandshakeInv == VirtioSpec => []VtInv
<1>1. VirtioInit => VtInv
  BY VirtioAssumption DEF VirtioInit, VtInv, VtSlots, STEPS
<1>2. VtInv /\ [VirtioNext]_vtVars => VtInv'
  <2> SUFFICES ASSUME VtInv, [VirtioNext]_vtVars PROVE VtInv'
    BY Zenon
  <2>0. /\ WriteStatus(vtdev[vtslot], {}) = InReset
        /\ Holds("identity") = InReset /\ Holds("acknowledge") = InReset
    BY Zenon DEF WriteStatus, Holds, Bits, InReset
  <2>1. RefuseAndReset => VtInv'
    BY <2>0, RefusalKeeps, Zenon DEF RefuseAndReset
  <2>2. CASE BeginReset
    BY <2>0, <2>2, ExchangeKeeps, Zenon DEF BeginReset, Bits, STEPS
  <2>3. CASE ProbeDevice
    <3>1. vtdev[vtslot] = InReset /\ vtbits = {}
      BY <2>0, <2>3, Zenon DEF ProbeDevice, At, VtInv, Bits
    <3>2. CASE Exchange(vtdev[vtslot], "acknowledge", {})
      BY <2>0, <3>1, <3>2, ExchangeKeeps, Zenon DEF Bits, STEPS
    <3>3. CASE RefuseWith(vtdev[vtslot])
      BY <3>1, <3>3, RefusalKeeps, Zenon
    <3>4. QED BY <2>3, <3>2, <3>3, Zenon DEF ProbeDevice
  <2>4. CASE Acknowledge
    <3>1. /\ vtbits = {} /\ vtdev[vtslot] = Holds("acknowledge")
          /\ Exchange(WriteStatus(vtdev[vtslot], vtbits \union {"ACKNOWLEDGE"}), "driver",
                      vtbits \union {"ACKNOWLEDGE"})
      BY <2>4, Zenon DEF Acknowledge, Advances, At, VtInv, Bits
    <3>2. WriteStatus(vtdev[vtslot], vtbits \union {"ACKNOWLEDGE"}) = Holds("driver")
      BY <3>1 DEF WriteStatus, Holds, Bits
    <3>3. vtbits \union {"ACKNOWLEDGE"} = Bits("driver")
      BY <3>1, Zenon DEF Bits
    <3>4. QED BY <3>1, <3>2, <3>3, ExchangeKeeps, Zenon DEF STEPS
  <2>5. CASE Driver
    <3>1. /\ vtbits = {"ACKNOWLEDGE"} /\ vtdev[vtslot] = Holds("driver")
          /\ Exchange(WriteStatus(vtdev[vtslot], vtbits \union {"DRIVER"}), "write_features",
                      vtbits \union {"DRIVER"})
      BY <2>5, Zenon DEF Driver, Advances, At, VtInv, Bits
    <3>2. WriteStatus(vtdev[vtslot], vtbits \union {"DRIVER"}) = Holds("write_features")
      BY <3>1 DEF WriteStatus, Holds, Bits
    <3>3. vtbits \union {"DRIVER"} = Bits("write_features")
      BY <3>1, Zenon DEF Bits
    <3>4. QED BY <3>1, <3>2, <3>3, ExchangeKeeps, Zenon DEF STEPS
  <2>6. CASE WriteFeatures
    <3>1. /\ vtbits = Bits("features_ok") /\ vtdev[vtslot] = Holds("write_features")
      BY <2>6, Zenon DEF WriteFeatures, At, VtInv, Bits
    <3>2. [vtdev[vtslot] EXCEPT !.features = TRUE] = Holds("features_ok")
      <4>1. Holds("write_features") =
              [status |-> Bits("features_ok"), ready |-> {}, features |-> FALSE]
        BY Zenon DEF Holds, Bits
      <4>2. "features_ok" \notin {"identity", "acknowledge", "driver", "write_features"}
        BY Zenon
      <4>3. Holds("features_ok") =
              [status |-> Bits("features_ok"), ready |-> {}, features |-> TRUE]
        BY <4>2, Zenon DEF Holds
      <4>4. QED BY <3>1, <4>1, <4>3
    <3>3. QED BY <2>6, <3>1, <3>2, ExchangeKeeps, Zenon DEF WriteFeatures, STEPS
  <2>7. CASE FeaturesOk
    <3>1. /\ vtbits = {"ACKNOWLEDGE", "DRIVER"} /\ vtdev[vtslot] = Holds("features_ok")
          /\ Exchange(WriteStatus(vtdev[vtslot], vtbits \union {"FEATURES_OK"}), "read_status",
                      vtbits \union {"FEATURES_OK"})
      BY <2>7, Zenon DEF FeaturesOk, Advances, At, VtInv, Bits
    <3>2. WriteStatus(vtdev[vtslot], vtbits \union {"FEATURES_OK"}) = Holds("read_status")
      BY <3>1 DEF WriteStatus, Holds, Bits
    <3>3. vtbits \union {"FEATURES_OK"} = Bits("read_status")
      BY <3>1, Zenon DEF Bits
    <3>4. QED BY <3>1, <3>2, <3>3, ExchangeKeeps, Zenon DEF STEPS
  <2>8. CASE ReadStatus
    <3>1. CASE Exchange(vtdev[vtslot], "rx", vtbits)
      <4>1. vtbits = Bits("rx") /\ vtdev[vtslot] = Holds("rx")
        BY <2>8, Zenon DEF ReadStatus, At, VtInv, Bits, Holds
      <4>2. QED BY <3>1, <4>1, ExchangeKeeps, Zenon DEF STEPS
    <3>2. QED BY <2>1, <2>8, <3>1, Zenon DEF ReadStatus
  <2>9. CASE ConfigureQueue("rx", "tx")
    <3>1. CASE Exchange([vtdev[vtslot] EXCEPT !.ready = @ \union {"rx"}], "tx", vtbits)
      <4>1. vtbits = Bits("tx") /\ vtdev[vtslot] = Holds("rx")
        BY <2>9, Zenon DEF ConfigureQueue, At, VtInv, Bits
      <4>2. [vtdev[vtslot] EXCEPT !.ready = @ \union {"rx"}] = Holds("tx")
        BY <4>1 DEF Holds, Bits
      <4>3. QED BY <3>1, <4>1, <4>2, ExchangeKeeps, Zenon DEF STEPS
    <3>2. QED BY <2>1, <2>9, <3>1, Zenon DEF ConfigureQueue
  <2>10. CASE ConfigureQueue("tx", "driver_ok")
    <3>1. CASE Exchange([vtdev[vtslot] EXCEPT !.ready = @ \union {"tx"}], "driver_ok", vtbits)
      <4>1. vtbits = Bits("driver_ok") /\ vtdev[vtslot] = Holds("tx")
        BY <2>10, Zenon DEF ConfigureQueue, At, VtInv, Bits
      <4>2. [vtdev[vtslot] EXCEPT !.ready = @ \union {"tx"}] = Holds("driver_ok")
        BY <4>1 DEF Holds, Bits, Queues
      <4>3. QED BY <3>1, <4>1, <4>2, ExchangeKeeps, Zenon DEF STEPS
    <3>2. QED BY <2>1, <2>10, <3>1, Zenon DEF ConfigureQueue
  <2>11. CASE DriverOk
    <3>1. vtbits = Bits("observe") /\ vtdev[vtslot] = Holds("driver_ok")
      BY <2>11, Zenon DEF DriverOk, At, VtInv, Bits
    <3>2. [vtdev[vtslot] EXCEPT !.status = vtbits \union {"DRIVER_OK"}] = Holds("observe")
      BY <3>1 DEF Holds, Bits
    <3>3. QED BY <2>11, <3>1, <3>2, ExchangeKeeps, Zenon DEF DriverOk, STEPS
  <2>12. CASE Observe
    <3>1. vtbits = Bits("live") /\ vtdev[vtslot] = Holds("live")
      BY <2>12, Zenon DEF Observe, At, VtInv, Bits, Holds
    <3>2. QED BY <2>1, <2>12, <3>1, Zenon DEF Observe, VtInv, STEPS
  <2>13. CASE Restart
    BY <2>13, Zenon DEF Restart, VtInv, STEPS
  <2>14. CASE DropVirtio
    BY <2>0, <2>14, Zenon DEF DropVirtio, VtInv, STEPS
  <2>15. CASE UNCHANGED vtVars
    BY <2>15, Zenon DEF vtVars, VtInv
  <2>16. QED
    BY <2>2, <2>3, <2>4, <2>5, <2>6, <2>7, <2>8, <2>9, <2>10, <2>11, <2>12, <2>13, <2>14,
       <2>15, Zenon DEF VirtioNext
<1>3. QED BY <1>1, <1>2, PTL DEF VirtioSpec

\* For every aperture: the ring pages are bound to at most one slot, and to a
\* complete transport when the lease has it (claim, configure, restart, drop).
THEOREM OneSlot == VirtioSpec => []OneSlotBound
<1>1. VtInv => OneSlotBound
  BY Zenon DEF VtInv, OneSlotBound, Holds, Bits
<1>2. QED BY <1>1, HandshakeInv, PTL

-----------------------------------------------------------------------------
(* Proofs about the GENET words: what the window, ring and filter          *)
(* arithmetic guarantees for every buffer (kernel-core/src/genet.rs).      *)

Windows == [base : Nat, cpu_base : Nat, len : Nat]

\* A buffer that DmaWindow::map_cpu translates lies wholly inside the device's
\* aperture: a descriptor with the translated address passes the window check
\* of `validate_windows', whatever aperture the device tree gave.
THEOREM MapCpuInside ==
    ASSUME NEW w \in Windows, NEW cpu \in Nat, NEW len \in Nat,
           WindowAccepted(w), MapCpuIn(w, cpu, len) # Refused
    PROVE  DmaContains(w, MapCpuIn(w, cpu, len), len)
  BY AddressAssumption DEF Windows, WindowAccepted, MapCpuIn, DmaContains, Refused

\* A slot that the binding's apertures translate (GenetNet maps every packet
\* page before it posts it) passes the descriptor check of `write_descriptor',
\* for any one to four apertures and any slot up to the ring's buffer length.
THEOREM MappedSlotAccepted ==
    ASSUME NEW n \in 1..4, NEW windows \in [1..n -> Windows],
           \A i \in 1..n : WindowAccepted(windows[i]),
           NEW cpu \in Nat, NEW len \in 1..RX_BUF_LENGTH,
           MapCpu(windows, cpu, len) # Refused
    PROVE  ValidateServiceWindows([address |-> MapCpu(windows, cpu, len), length |-> len], windows)
<1> DEFINE covering == {i \in 1..n : MapCpuIn(windows[i], cpu, len) # Refused}
<1> DEFINE first == CHOOSE i \in covering : \A j \in covering : i <= j
<1>1. len \in Nat /\ len # 0 /\ len <= RX_BUF_LENGTH /\ DOMAIN windows = 1..n
  BY DEF RX_BUF_LENGTH
<1>2. covering # {} /\ MapCpu(windows, cpu, len) = MapCpuIn(windows[first], cpu, len)
  BY <1>1, Zenon DEF MapCpu
<1>3. \E i \in covering : \A j \in covering : i <= j
  BY <1>2
<1>4. first \in covering
  <2> HIDE DEF covering
  <2> QED BY <1>3, Zenon
<1>5. /\ first \in 1..n /\ windows[first] \in Windows /\ WindowAccepted(windows[first])
      /\ MapCpuIn(windows[first], cpu, len) # Refused
  BY <1>4, Zenon
<1> DEFINE dma == MapCpuIn(windows[first], cpu, len)
<1>6. DmaContains(windows[first], dma, len) /\ dma + len <= ADDRESS_MAX
  <2>1. DmaContains(windows[first], dma, len)
    BY <1>1, <1>5, MapCpuInside, Zenon
  <2> QED BY <2>1, Zenon DEF DmaContains
<1>7. WindowsContain(windows, dma, len)
  BY <1>1, <1>5, <1>6, Zenon DEF WindowsContain
<1> HIDE DEF dma
<1>8. ValidateServiceWindows([address |-> dma, length |-> len], windows)
  BY <1>1, <1>6, <1>7, Zenon DEF ValidateServiceWindows, ValidateBelow
<1>9. MapCpu(windows, cpu, len) = dma
  BY <1>2, Zenon DEF dma
<1> QED
  BY <1>8, <1>9, Zenon

\* The translation preserves distances: two buffers that do not overlap for the
\* CPU do not overlap for the device, so no two posted slots share a DMA byte.
THEOREM MapCpuDisjoint ==
    ASSUME NEW w \in Windows, NEW a \in Nat, NEW b \in Nat, NEW m \in Nat, NEW n \in Nat,
           MapCpuIn(w, a, m) # Refused, MapCpuIn(w, b, n) # Refused,
           a + m <= b
    PROVE  MapCpuIn(w, a, m) + m <= MapCpuIn(w, b, n)
  BY AddressAssumption DEF Windows, MapCpuIn, Refused

\* DescriptorStatus::encode and decode are inverse on every length a descriptor
\* may carry: no length spills into the ownership or boundary bits.
THEOREM StatusRoundTrip ==
    ASSUME NEW l \in 1..MAX_FRAME_BYTES,
           NEW a \in 0..1, NEW b \in 0..1, NEW c \in 0..1, NEW d \in 0..1,
           NEW x, x = EncodeStatus(l, a, b, c, d)
    PROVE  /\ StatusLength(x) = l
           /\ StatusDevice(x) = a /\ StatusEnd(x) = b /\ StatusStart(x) = c /\ StatusWrap(x) = d
<1>1. l \in 1..1536 /\ x = l * 65536 + a * 32768 + b * 16384 + c * 8192 + d * 4096
  BY DEF EncodeStatus, MAX_FRAME_BYTES
<1>2. x \div 65536 = l /\ l % 4096 = l
  BY <1>1
<1>3. x \div 32768 = 2 * l + a /\ (2 * l + a) % 2 = a
  BY <1>1
<1>4. x \div 16384 = 4 * l + 2 * a + b /\ (4 * l + 2 * a + b) % 2 = b
  BY <1>1
<1>5. x \div 8192 = 8 * l + 4 * a + 2 * b + c /\ (8 * l + 4 * a + 2 * b + c) % 2 = c
  BY <1>1
<1>6. /\ x \div 4096 = 16 * l + 8 * a + 4 * b + 2 * c + d
      /\ (16 * l + 8 * a + 4 * b + 2 * c + d) % 2 = d
  BY <1>1
<1>7. QED
  BY <1>2, <1>3, <1>4, <1>5, <1>6
     DEF StatusLength, StatusDevice, StatusEnd, StatusStart, StatusWrap

\* The status word of a transmitted frame keeps its length and leaves ownership
\* with the driver, but its wrap bit is set: the six-bit queue tag at bit 7
\* covers bit 12, where write_descriptor's comment says "no `DMA_WRAP`".
THEOREM TxWordWraps ==
    ASSUME NEW l \in 1..MAX_FRAME_BYTES
    PROVE  /\ StatusLength(TxStatusWord(l)) = l
           /\ StatusDevice(TxStatusWord(l)) = 0
           /\ StatusWrap(TxStatusWord(l)) = 1
<1> DEFINE x == TxStatusWord(l)
<1>1. l \in 1..1536 /\ x = l * 65536 + 32704
  BY DEF TxStatusWord, EncodeStatus, TX_APPEND_CRC, TX_QTAG, MAX_FRAME_BYTES
<1> HIDE DEF x
<1>2. x \div 65536 = l /\ l % 4096 = l
  BY <1>1
<1>3. x \div 32768 = 2 * l /\ (2 * l) % 2 = 0
  BY <1>1
<1>4. x \div 4096 = 16 * l + 7 /\ (16 * l + 7) % 2 = 1
  BY <1>1
<1>5. StatusLength(x) = l /\ StatusDevice(x) = 0 /\ StatusWrap(x) = 1
  BY <1>2, <1>3, <1>4 DEF StatusLength, StatusDevice, StatusWrap
<1>6. QED
  BY <1>5, Zenon DEF x

\* The geometry the driver programs is always accepted, so `ring_program' never
\* refuses and the `expect' on a priority ring never fires.
THEOREM RingsAccepted ==
    /\ \A q \in 1..V5_TX_QUEUES :
          RingProgramAccepted("tdma", q, V5PriorityTxFirst(q), V5_TX_BDS_PER_Q, RX_BUF_LENGTH)
    /\ RingProgramAccepted("tdma", DEFAULT_TX_RING, 0, V5_Q0_TX_BD_CNT, RX_BUF_LENGTH)
    /\ RingProgramAccepted("rdma", DEFAULT_TX_RING, 0, V5_Q0_RX_BD_CNT, RX_BUF_LENGTH)
    /\ \A b \in {"tdma", "rdma"} : RingProgramAccepted(b, DESC_RING, 0, 1, RX_BUF_LENGTH)
  BY DEF RingProgramAccepted, RingProgrammable, V5PriorityTxFirst, V5_TX_QUEUES, RX_BUF_LENGTH,
         V5_TX_BDS_PER_Q, V5_Q0_TX_BD_CNT, V5_Q0_RX_BD_CNT, TOTAL_DESCRIPTORS, DEFAULT_TX_RING,
         DESC_RING

\* The five TDMA rings the driver enables own disjoint stretches of descriptor
\* RAM, and none reaches past it (ring_program against v5_priority_tx_first).
THEOREM TdmaRingsDisjoint ==
    ASSUME NEW p \in 0..V5_TX_QUEUES, NEW q \in 0..V5_TX_QUEUES, p # q
    PROVE  /\ SpansApart(TdmaSpan(p), TdmaSpan(q))
           /\ TdmaSpan(p).start <= TdmaSpan(p).end
           /\ TdmaSpan(p).end < TOTAL_DESCRIPTORS * WORDS_PER_DESCRIPTOR
  BY DEF SpansApart, TdmaSpan, PriorityRing, RingProgram, RingWords, V5PriorityTxFirst,
         V5_TX_QUEUES, V5_TX_BDS_PER_Q, V5_Q0_TX_BD_CNT, TOTAL_DESCRIPTORS,
         WORDS_PER_DESCRIPTOR, DEFAULT_TX_RING

\* No two filters share a length byte or an enable bit, though the length words
\* run backwards and the enable words are swapped (hfb_filter_length_offset,
\* hfb_filter_enable_offset).
THEOREM HfbSlotsDistinct ==
    ASSUME NEW f \in Filters, NEW g \in Filters, f # g
    PROVE  HfbLengthSlot(f) # HfbLengthSlot(g) /\ HfbEnableSlot(f) # HfbEnableSlot(g)
  BY DEF Filters, HFB_FILTER_COUNT, HfbLengthSlot, HfbEnableSlot


\* The rings' weights share the priority words without overlapping: two rings
\* in one word sit at least a field's five bits apart, and a weight fits its
\* field (dma_prio_reg_index, dma_prio_reg_shift, dma_prio_weight).
THEOREM PrioritySlotsApart ==
    ASSUME NEW p \in 0..V5_TX_QUEUES, NEW q \in 0..V5_TX_QUEUES, p < q
    PROVE  /\ DmaPrioSlot(p)[1] = DmaPrioSlot(q)[1] =>
                DmaPrioSlot(p)[2] + 5 <= DmaPrioSlot(q)[2]
           /\ DmaPrioWeight(p) < 32
  BY DEF DmaPrioSlot, DmaPrioWeight, V5_TX_QUEUES


-----------------------------------------------------------------------------
(* Proofs about EL0 sessions, for any set of agents and any of them asking *)
(* for interrupts: the checks of el0.rs and of the vectors never fail, and *)
(* an agent finds the registers it is owed.  The invariant ties what the   *)
(* session record holds to the place the session loop is at.               *)

Labels == {"idle", "el0", "event", "serve", "waited", "payload", "status", "resume"}
Outcomes == {"Done", "Got", "NotNow", "Refused", "Cancelled"}
Events == Svcs \cup {"Irq", "Fault", "none"} \cup Outcomes

Words == Tasks \cup {NoOne, "Ok", "Authority", "NotNow", "Cancelled", "message", "detail"}
RegisterFiles == [x0 : Words, x1 : Words, x23 : Words, others : Words]
Roots == Tasks \cup {NoOne}
El0Sessions == [user_ttbr : Roots, kernel_ttbr0 : Roots, can_resume : BOOLEAN,
                irqs : BOOLEAN, saved : RegisterFiles]

SessionTypeOK ==
    /\ el \in {"EL1", "EL0"} /\ onCpu \in Tasks /\ published \in Tasks
    /\ session \in [Tasks -> El0Sessions]
    /\ at \in [Agents -> Labels]
    /\ event \in [Agents -> Events]
    /\ owed \in [Agents -> RegisterFiles]

\* The published session is the running task's, and the one agent whose loop
\* is inside el0_run is the one that runs, at EL0.
CpuInv ==
    /\ panicked = FALSE
    /\ published = onCpu
    /\ ttbr0 = IF el = "EL0" THEN onCpu ELSE Kernel
    /\ el = "EL0" => onCpu \in Agents /\ at[onCpu] = "el0" /\ regs = owed[onCpu]
    /\ \A a \in Agents : at[a] = "el0" => el = "EL0" /\ onCpu = a

\* The agent's session has a kernel root to return by: from enter until the
\* end, unless a fault ended it.
Opened(a) == at[a] # "idle" /\ ~(at[a] = "event" /\ event[a] = "Fault")

RootInv(a) ==
    /\ session[a].kernel_ttbr0 = IF Opened(a) THEN Kernel ELSE NoOne
    /\ Opened(a) => session[a].user_ttbr = a
    /\ Opened(a) /\ at[a] # "el0" => session[a].can_resume

\* How far the reply to a call is written, at each place of the loop.
ReplyInv(a) ==
    /\ at[a] = "event" => event[a] \in Svcs \cup {"Irq", "Fault"}
    /\ at[a] = "serve" => event[a] \in Calls
    /\ at[a] \in {"payload", "status"} => event[a] \in Outcomes
    /\ Opened(a) /\ at[a] \in {"event", "serve", "waited"} =>
         session[a].saved = User(a) /\ owed[a] = User(a)
    /\ at[a] = "payload" =>
         session[a].saved = User(a) /\ owed[a] = Answered(User(a), event[a])
    /\ at[a] = "status" =>
         /\ session[a].saved = WithPayloadOrDetail(User(a), event[a])
         /\ owed[a] = Answered(User(a), event[a])
    /\ at[a] = "resume" => session[a].saved = owed[a]

SessionInv ==
    /\ SessionTypeOK
    /\ CpuInv
    /\ \A a \in Agents : RootInv(a) /\ ReplyInv(a)

-----------------------------------------------------------------------------
(* Lemmas *)

\* The ABI table of syscall.rs is what apply_reply's two writes make of the
\* user's registers: the message or the detail first, the status last.
LEMMA ReplyIsAnswer ==
    ASSUME NEW r \in RegisterFiles, NEW answer
    PROVE  [WithPayloadOrDetail(r, answer) EXCEPT !.x0 = Status(answer)]
             = Answered(r, answer)
<1> DEFINE w == WithPayloadOrDetail(r, answer)
<1>1. r = [x0 |-> r.x0, x1 |-> r.x1, x23 |-> r.x23, others |-> r.others]
  BY Zenon DEF RegisterFiles
<1>2. CASE answer = "Got"
  <2>1. w = [x0 |-> r.x0, x1 |-> "message", x23 |-> "message", others |-> r.others]
    BY <1>1, <1>2, Zenon DEF WithPayloadOrDetail
  <2>2. QED BY <1>2, <2>1 DEF Answered
<1>3. CASE answer = "Refused"
  <2>1. w = [x0 |-> r.x0, x1 |-> "detail", x23 |-> r.x23, others |-> r.others]
    BY <1>1, <1>3, Zenon DEF WithPayloadOrDetail
  <2>2. QED BY <1>3, <2>1 DEF Answered
<1>4. CASE answer \notin {"Got", "Refused"}
  <2>1. w = r
    BY <1>4, Zenon DEF WithPayloadOrDetail
  <2>2. QED BY <1>1, <1>4, <2>1 DEF Answered
<1>5. QED BY <1>2, <1>3, <1>4, Zenon

\* Every register file that the reply code builds is one.
LEMMA RegisterTypes ==
    ASSUME NEW a \in Agents, NEW answer \in Outcomes
    PROVE  /\ User(a) \in RegisterFiles
           /\ Answered(User(a), answer) \in RegisterFiles
           /\ WithPayloadOrDetail(User(a), answer) \in RegisterFiles
<1>1. User(a) \in RegisterFiles
  BY Zenon DEF User, RegisterFiles, Words, Tasks
<1>2. Status(answer) \in Words
  BY Zenon DEF Status, Words, Outcomes
<1>3. "message" \in Words /\ "detail" \in Words
  BY Zenon DEF Words
<1>4. Answered(User(a), answer) \in RegisterFiles
  BY <1>1, <1>2, <1>3, Zenon DEF Answered, RegisterFiles
<1>5. WithPayloadOrDetail(User(a), answer) \in RegisterFiles
  BY <1>1, <1>3, Zenon DEF WithPayloadOrDetail, RegisterFiles
<1>6. QED BY <1>1, <1>4, <1>5, Zenon

\* What an agent's part of the invariant is about, and nothing else, decides it.
LEMMA AgentSame ==
    ASSUME NEW b \in Agents, RootInv(b), ReplyInv(b),
           session'[b] = session[b], at'[b] = at[b], event'[b] = event[b],
           owed'[b] = owed[b]
    PROVE  RootInv(b)' /\ ReplyInv(b)'
BY DEF RootInv, ReplyInv, Opened

\* A step of agent a's loop at EL1 that changes only a's own entries, to ones
\* that satisfy a's part of the invariant, and does not enter EL0.
LEMMA LoopKeeps ==
    ASSUME SessionInv, NEW a \in Agents,
           el = "EL1", at[a] # "el0", at'[a] # "el0",
           UNCHANGED cpuVars, panicked' = FALSE,
           SessionTypeOK', RootInv(a)', ReplyInv(a)',
           \A b \in Agents \ {a} :
              /\ session'[b] = session[b] /\ at'[b] = at[b]
              /\ event'[b] = event[b] /\ owed'[b] = owed[b]
    PROVE  SessionInv'
<1>1. CpuInv'
  BY Zenon DEF SessionInv, CpuInv, cpuVars
<1>2. ASSUME NEW b \in Agents PROVE RootInv(b)' /\ ReplyInv(b)'
  <2>1. CASE b = a
    BY <2>1, Zenon
  <2>2. CASE b # a
    BY <2>2, AgentSame, Zenon DEF SessionInv
  <2>3. QED BY <2>1, <2>2, Zenon
<1>3. QED BY <1>1, <1>2, Zenon DEF SessionInv

\* A step that leaves the sessions and the loops alone and, at EL1, may only
\* switch to another task and publish its session.
LEMMA SwitchKeeps ==
    ASSUME SessionInv, el = "EL1", onCpu' \in Tasks, published' = onCpu',
           UNCHANGED <<el, ttbr0, regs, session, at, event, owed, panicked>>
    PROVE  SessionInv'
<1>1. SessionTypeOK' /\ CpuInv'
  BY Zenon DEF SessionInv, SessionTypeOK, CpuInv
<1>2. \A b \in Agents : RootInv(b)' /\ ReplyInv(b)'
  BY AgentSame, Zenon DEF SessionInv
<1>3. QED BY <1>1, <1>2, Zenon DEF SessionInv

LEMMA InitInv == SessionInit => SessionInv
<1> SUFFICES ASSUME SessionInit PROVE SessionInv
  BY Zenon
<1> USE AgentAssumption DEF SessionInit
<1>1. User(NoOne) \in RegisterFiles /\ \A a \in Agents : User(a) \in RegisterFiles
  BY Zenon DEF User, RegisterFiles, Words, Tasks
<1>2. NoSession \in El0Sessions /\ NoSession.kernel_ttbr0 = NoOne
  BY <1>1, Zenon DEF NoSession, El0Sessions, Roots
<1>3. SessionTypeOK
  BY <1>1, <1>2, Zenon DEF SessionTypeOK, Tasks, Labels, Events
<1>4. CpuInv
  BY Zenon DEF CpuInv
<1>5. ASSUME NEW a \in Agents PROVE RootInv(a) /\ ReplyInv(a)
  <2>1. session[a] = NoSession /\ at[a] = "idle"
    BY Zenon DEF Tasks
  <2>2. QED BY <1>2, <2>1 DEF RootInv, ReplyInv, Opened
<1>6. QED BY <1>3, <1>4, <1>5, Zenon DEF SessionInv

-----------------------------------------------------------------------------
(* One step of each kind *)

\* enter: the roots are recorded before the user root goes in.
LEMMA EnterInv == ASSUME NEW a \in Agents, SessionInv, Enter(a) PROVE SessionInv'
<1> USE AgentAssumption
<1> DEFINE s1 == [session[a] EXCEPT !.user_ttbr = a, !.can_resume = FALSE,
                                    !.kernel_ttbr0 = Kernel, !.irqs = EntryIrqs(a)]
<1>1. /\ a \in Tasks /\ onCpu = a /\ published = a /\ panicked' = FALSE
      /\ session' = [session EXCEPT ![a] = s1] /\ ttbr0' = a /\ el' = "EL0"
      /\ regs' = User(a) /\ owed' = [owed EXCEPT ![a] = User(a)]
      /\ at' = [at EXCEPT ![a] = "el0"] /\ event' = event
      /\ onCpu' = a /\ published' = a /\ el = "EL1"
  BY Zenon DEF Enter, Runs, Require, EnterEl0, MoveTo, SessionInv, CpuInv, Tasks
<1>2. s1 \in El0Sessions /\ s1.kernel_ttbr0 = Kernel /\ s1.user_ttbr = a
  <2>1. EntryIrqs(a) \in BOOLEAN
    BY DEF EntryIrqs
  <2>2. QED BY <1>1, <2>1 DEF SessionInv, SessionTypeOK, El0Sessions, Roots, Tasks
<1>3. User(a) \in RegisterFiles
  BY Zenon DEF User, RegisterFiles, Words, Tasks
<1>4. SessionTypeOK'
  BY <1>1, <1>2, <1>3, Zenon DEF SessionInv, SessionTypeOK, Labels
<1>5. CpuInv'
  BY <1>1, Zenon DEF SessionInv, SessionTypeOK, CpuInv
<1>6. RootInv(a)' /\ ReplyInv(a)'
  BY <1>1, <1>2 DEF SessionInv, SessionTypeOK, RootInv, ReplyInv, Opened
<1>7. ASSUME NEW b \in Agents, b # a PROVE RootInv(b)' /\ ReplyInv(b)'
  BY <1>1, <1>7, AgentSame, Zenon DEF SessionInv, SessionTypeOK, Tasks
<1>8. QED BY <1>4, <1>5, <1>6, <1>7, Zenon DEF SessionInv

\* A lower-EL exception: system call, interrupt or fault.
LEMMA ExceptionInv ==
    ASSUME NEW e \in Svcs \cup {"Irq", "Fault"}, SessionInv, Exception(e)
    PROVE  SessionInv'
<1> USE AgentAssumption
<1> DEFINE s1 == Saved(session[onCpu], Kind(e))
<1>1. /\ el = "EL0" /\ onCpu \in Agents /\ onCpu \in Tasks
      /\ published = onCpu /\ at[onCpu] = "el0"
  BY Zenon DEF Exception, SessionInv, CpuInv, Tasks
<1>2. /\ session[onCpu].kernel_ttbr0 = Kernel /\ session[onCpu].user_ttbr = onCpu
      /\ session[onCpu] \in El0Sessions /\ User(onCpu) \in RegisterFiles
  BY <1>1, Zenon DEF SessionInv, SessionTypeOK, RootInv, Opened, User, RegisterFiles, Words
<1>3. /\ panicked' = FALSE /\ ttbr0' = Kernel /\ el' = "EL1"
      /\ session' = [session EXCEPT ![onCpu] = s1]
      /\ event' = [event EXCEPT ![onCpu] = e]
      /\ owed' = [owed EXCEPT ![onCpu] = User(onCpu)]
      /\ at' = [at EXCEPT ![onCpu] = "event"]
      /\ onCpu' = onCpu /\ published' = onCpu
  BY <1>1, <1>2, Zenon DEF Exception, Require, KernelRoot, MoveTo
<1>4. Kind(e) \in {"Svc", "Irq"} <=> e # "Fault"
  BY Zenon DEF Kind, Svcs, Calls
<1>5. s1 \in El0Sessions
  BY <1>2, Zenon DEF Saved, El0Sessions, Roots
<1>6. /\ e # "Fault" => /\ s1.saved = User(onCpu) /\ s1.can_resume
                        /\ s1.kernel_ttbr0 = Kernel /\ s1.user_ttbr = onCpu
      /\ e = "Fault" => s1.kernel_ttbr0 = NoOne
  BY <1>2, <1>4, Zenon DEF Saved, El0Sessions
<1>7. SessionTypeOK'
  BY <1>1, <1>2, <1>3, <1>5, Zenon DEF SessionInv, SessionTypeOK, Labels, Events
<1>8. CpuInv'
  BY <1>1, <1>3, Zenon DEF SessionInv, SessionTypeOK, CpuInv
<1>9. RootInv(onCpu)' /\ ReplyInv(onCpu)'
  <2>1. /\ session'[onCpu] = s1 /\ event'[onCpu] = e /\ at'[onCpu] = "event"
        /\ owed'[onCpu] = User(onCpu) /\ onCpu' = onCpu
    BY <1>1, <1>3, Zenon DEF SessionInv, SessionTypeOK
  <2> HIDE DEF s1
  <2>2. QED BY <1>1, <1>6, <2>1, Zenon DEF RootInv, ReplyInv, Opened
<1>10. ASSUME NEW b \in Agents, b # onCpu PROVE RootInv(b)' /\ ReplyInv(b)'
  BY <1>1, <1>3, <1>10, AgentSame, Zenon DEF SessionInv, SessionTypeOK, Tasks
<1>11. QED
  <2>1. ASSUME NEW b \in Agents PROVE RootInv(b)' /\ ReplyInv(b)'
    BY <1>1, <1>3, <1>9, <1>10, Zenon
  <2>2. QED BY <1>7, <1>8, <2>1, Zenon DEF SessionInv

\* The top of the loop: the end of the session, or on to the call or the resume.
LEMMA LoopInv == ASSUME NEW a \in Agents, SessionInv, Loop(a) PROVE SessionInv'
<1> USE AgentAssumption
<1>1. /\ a \in Tasks /\ onCpu = a /\ published = a /\ el = "EL1" /\ at[a] = "event"
      /\ panicked = FALSE /\ UNCHANGED cpuVars
      /\ session[a] \in El0Sessions /\ event[a] \in Svcs \cup {"Irq", "Fault"}
  BY Zenon DEF Loop, Runs, SessionInv, SessionTypeOK, CpuInv, ReplyInv, Tasks
<1>2. User(a) \in RegisterFiles /\ User(NoOne) \in RegisterFiles
  BY Zenon DEF User, RegisterFiles, Words, Tasks
<1>3. CASE MustEnd(a)
  <2>1. /\ session' = [session EXCEPT ![a] = NoSession]
        /\ event' = [event EXCEPT ![a] = "none"]
        /\ owed' = [owed EXCEPT ![a] = User(a)]
        /\ at' = [at EXCEPT ![a] = "idle"] /\ panicked' = FALSE
    BY <1>1, <1>3, Zenon DEF Loop, EndStep, Ended, Require, MoveTo
  <2>2. NoSession \in El0Sessions /\ NoSession.kernel_ttbr0 = NoOne
    BY <1>2, Zenon DEF NoSession, El0Sessions, Roots
  <2>3. SessionTypeOK'
    BY <1>1, <1>2, <2>1, <2>2, Zenon DEF SessionInv, SessionTypeOK, Labels, Events, cpuVars
  <2>4. session'[a] = NoSession /\ at'[a] = "idle"
    BY <1>1, <2>1, Zenon DEF SessionInv, SessionTypeOK
  <2>5. RootInv(a)' /\ ReplyInv(a)'
    BY <2>2, <2>4, Zenon DEF RootInv, ReplyInv, Opened
  <2>6. \A b \in Agents \ {a} : /\ session'[b] = session[b] /\ at'[b] = at[b]
                                /\ event'[b] = event[b] /\ owed'[b] = owed[b]
    BY <2>1, Zenon DEF SessionInv, SessionTypeOK, Tasks
  <2>7. QED BY <1>1, <2>1, <2>3, <2>4, <2>5, <2>6, LoopKeeps, Zenon
<1>4. CASE ~MustEnd(a)
  <2>1. /\ session' = session /\ owed' = owed /\ panicked' = panicked
        /\ \/ /\ event[a] \in Calls /\ at' = [at EXCEPT ![a] = "serve"]
              /\ event' = event
           \/ at' = [at EXCEPT ![a] = "resume"] /\ event' = [event EXCEPT ![a] = "none"]
    BY <1>4, Zenon DEF Loop, MoveTo
  <2>2. event[a] # "Fault"
    BY <1>4, Zenon DEF MustEnd, SessionEnds
  <2>3. /\ session[a].kernel_ttbr0 = Kernel /\ session[a].user_ttbr = a
        /\ session[a].can_resume /\ session[a].saved = User(a) /\ owed[a] = User(a)
    BY <1>1, <2>2, Zenon DEF SessionInv, RootInv, ReplyInv, Opened
  <2>4. SessionTypeOK'
    BY <1>1, <2>1, Zenon DEF SessionInv, SessionTypeOK, Labels, Events, cpuVars
  <2>5. \/ event[a] \in Calls /\ at'[a] = "serve" /\ event'[a] = event[a]
        \/ at'[a] = "resume"
    BY <2>1, Zenon DEF SessionInv, SessionTypeOK
  <2>6. RootInv(a)' /\ ReplyInv(a)'
    BY <2>1, <2>3, <2>5, Zenon DEF RootInv, ReplyInv, Opened
  <2>7. \A b \in Agents \ {a} : /\ session'[b] = session[b] /\ at'[b] = at[b]
                                /\ event'[b] = event[b] /\ owed'[b] = owed[b]
    BY <2>1, Zenon DEF SessionInv, SessionTypeOK
  <2>8. QED BY <1>1, <2>1, <2>4, <2>5, <2>6, <2>7, LoopKeeps, Zenon
<1>5. QED BY <1>3, <1>4, Zenon

\* The layers below answer: the agent is owed the answer to its call.
LEMMA ServeInv ==
    ASSUME NEW a \in Agents, NEW answer \in Outcomes, SessionInv, Serve(a, answer)
    PROVE  SessionInv'
<1> USE AgentAssumption
<1>1. /\ a \in Tasks /\ onCpu = a /\ el = "EL1" /\ at[a] \in {"serve", "waited"}
      /\ panicked = FALSE /\ UNCHANGED cpuVars
  BY Zenon DEF Serve, Runs, SessionInv, CpuInv, Tasks
<1>2. /\ session' = session /\ panicked' = panicked
      /\ event' = [event EXCEPT ![a] = answer]
      /\ owed' = [owed EXCEPT ![a] = Answered(owed[a], answer)]
      /\ at' = [at EXCEPT ![a] = "payload"]
  BY Zenon DEF Serve, MoveTo
<1>3. /\ session[a].kernel_ttbr0 = Kernel /\ session[a].user_ttbr = a
      /\ session[a].can_resume /\ session[a].saved = User(a) /\ owed[a] = User(a)
  BY <1>1, Zenon DEF SessionInv, RootInv, ReplyInv, Opened
<1>4. SessionTypeOK'
  BY <1>1, <1>2, <1>3, RegisterTypes, Zenon DEF SessionInv, SessionTypeOK, Labels, Events,
     cpuVars
<1>5. /\ at'[a] = "payload" /\ event'[a] = answer
      /\ owed'[a] = Answered(User(a), answer)
  BY <1>2, <1>3, Zenon DEF SessionInv, SessionTypeOK
<1>6. RootInv(a)' /\ ReplyInv(a)'
  BY <1>2, <1>3, <1>5, Zenon DEF RootInv, ReplyInv, Opened
<1>7. \A b \in Agents \ {a} : /\ session'[b] = session[b] /\ at'[b] = at[b]
                              /\ event'[b] = event[b] /\ owed'[b] = owed[b]
  BY <1>2, Zenon DEF SessionInv, SessionTypeOK
<1>8. QED BY <1>1, <1>2, <1>4, <1>5, <1>6, <1>7, LoopKeeps, Zenon

\* apply_reply, first half.
LEMMA PayloadInv == ASSUME NEW a \in Agents, SessionInv, WritePayload(a) PROVE SessionInv'
<1> USE AgentAssumption
<1> DEFINE r1 == WithPayloadOrDetail(User(a), event[a])
<1>1. /\ a \in Tasks /\ onCpu = a /\ published = a /\ el = "EL1" /\ at[a] = "payload"
      /\ UNCHANGED cpuVars /\ session[a] \in El0Sessions /\ event[a] \in Outcomes
  BY Zenon DEF WritePayload, WriteReply, Runs, SessionInv, SessionTypeOK, CpuInv, ReplyInv,
     Tasks
<1>2. /\ session[a].kernel_ttbr0 = Kernel /\ session[a].user_ttbr = a
      /\ session[a].can_resume /\ session[a].saved = User(a)
      /\ owed[a] = Answered(User(a), event[a])
  BY <1>1, Zenon DEF SessionInv, RootInv, ReplyInv, Opened
<1>3. /\ session' = [session EXCEPT ![a] = [session[a] EXCEPT !.saved = r1]]
      /\ panicked' = FALSE /\ owed' = owed /\ event' = event
      /\ at' = [at EXCEPT ![a] = "status"]
  BY <1>1, <1>2, Zenon DEF WritePayload, WriteReply, Require, MoveTo
<1>4. r1 \in RegisterFiles
  BY <1>1, RegisterTypes, Zenon
<1> HIDE DEF r1
<1>5. SessionTypeOK'
  BY <1>1, <1>3, <1>4, Zenon DEF SessionInv, SessionTypeOK, El0Sessions, Labels, cpuVars
<1>6. /\ session'[a].kernel_ttbr0 = Kernel /\ session'[a].user_ttbr = a
      /\ session'[a].can_resume /\ session'[a].saved = r1 /\ at'[a] = "status"
  BY <1>1, <1>2, <1>3, Zenon DEF SessionInv, SessionTypeOK, El0Sessions
<1>7. RootInv(a)' /\ ReplyInv(a)'
  BY <1>1, <1>2, <1>3, <1>6, Zenon DEF RootInv, ReplyInv, Opened, r1
<1>8. \A b \in Agents \ {a} : /\ session'[b] = session[b] /\ at'[b] = at[b]
                              /\ event'[b] = event[b] /\ owed'[b] = owed[b]
  BY <1>3, Zenon DEF SessionInv, SessionTypeOK, Tasks
<1>9. QED BY <1>1, <1>3, <1>5, <1>6, <1>7, <1>8, LoopKeeps, Zenon

\* apply_reply, second half: the saved registers are now the answer.
LEMMA StatusInv == ASSUME NEW a \in Agents, SessionInv, WriteReplyStatus(a) PROVE SessionInv'
<1> USE AgentAssumption
<1> DEFINE r1 == Answered(User(a), event[a])
<1>1. /\ a \in Tasks /\ onCpu = a /\ published = a /\ el = "EL1" /\ at[a] = "status"
      /\ UNCHANGED cpuVars /\ session[a] \in El0Sessions /\ event[a] \in Outcomes
  BY Zenon DEF WriteReplyStatus, WriteReply, Runs, SessionInv, SessionTypeOK, CpuInv,
     ReplyInv, Tasks
<1>2. /\ session[a].kernel_ttbr0 = Kernel /\ session[a].user_ttbr = a
      /\ session[a].can_resume
      /\ session[a].saved = WithPayloadOrDetail(User(a), event[a]) /\ owed[a] = r1
  BY <1>1, Zenon DEF SessionInv, RootInv, ReplyInv, Opened
<1>3. r1 \in RegisterFiles /\ User(a) \in RegisterFiles
  BY <1>1, RegisterTypes, Zenon
<1>4. [session[a].saved EXCEPT !.x0 = Status(event[a])] = r1
  BY <1>2, <1>3, ReplyIsAnswer
<1>5. /\ session' = [session EXCEPT ![a] = [session[a] EXCEPT !.saved = r1]]
      /\ panicked' = FALSE /\ owed' = owed
      /\ event' = [event EXCEPT ![a] = "none"]
      /\ at' = [at EXCEPT ![a] = "resume"]
  BY <1>1, <1>4, Zenon DEF WriteReplyStatus, WriteReply, Require, MoveTo
<1> HIDE DEF r1
<1>6. SessionTypeOK'
  BY <1>1, <1>3, <1>5, Zenon DEF SessionInv, SessionTypeOK, El0Sessions, Labels, Events,
     cpuVars
<1>7. /\ session'[a].kernel_ttbr0 = Kernel /\ session'[a].user_ttbr = a
      /\ session'[a].can_resume /\ session'[a].saved = r1 /\ at'[a] = "resume"
  BY <1>1, <1>2, <1>5, Zenon DEF SessionInv, SessionTypeOK, El0Sessions
<1>8. RootInv(a)' /\ ReplyInv(a)'
  BY <1>2, <1>5, <1>7, Zenon DEF RootInv, ReplyInv, Opened
<1>9. \A b \in Agents \ {a} : /\ session'[b] = session[b] /\ at'[b] = at[b]
                              /\ event'[b] = event[b] /\ owed'[b] = owed[b]
  BY <1>5, Zenon DEF SessionInv, SessionTypeOK, Tasks
<1>10. QED BY <1>1, <1>5, <1>6, <1>7, <1>8, <1>9, LoopKeeps, Zenon

\* resume: the saved registers go back in, under the user root.
LEMMA ResumeInv == ASSUME NEW a \in Agents, SessionInv, Resume(a) PROVE SessionInv'
<1> USE AgentAssumption
<1>1. /\ a \in Tasks /\ onCpu = a /\ published = a /\ el = "EL1" /\ at[a] = "resume"
      /\ session[a].kernel_ttbr0 = Kernel /\ session[a].user_ttbr = a
      /\ session[a].can_resume /\ session[a].saved = owed[a]
  BY Zenon DEF Resume, Runs, SessionInv, CpuInv, RootInv, ReplyInv, Opened, Tasks
<1>2. /\ panicked' = FALSE /\ ttbr0' = a /\ el' = "EL0" /\ regs' = owed[a]
      /\ at' = [at EXCEPT ![a] = "el0"]
      /\ onCpu' = a /\ published' = a /\ session' = session
      /\ event' = event /\ owed' = owed
  BY <1>1, Zenon DEF Resume, ResumeEl0, Require, MoveTo
<1>3. SessionTypeOK'
  BY <1>1, <1>2, Zenon DEF SessionInv, SessionTypeOK, Labels
<1>4. CpuInv'
  BY <1>1, <1>2, Zenon DEF SessionInv, SessionTypeOK, CpuInv
<1>5. RootInv(a)' /\ ReplyInv(a)'
  BY <1>1, <1>2 DEF SessionInv, SessionTypeOK, RootInv, ReplyInv, Opened
<1>6. ASSUME NEW b \in Agents, b # a PROVE RootInv(b)' /\ ReplyInv(b)'
  BY <1>2, <1>6, AgentSame, Zenon DEF SessionInv, SessionTypeOK
<1>7. QED BY <1>3, <1>4, <1>5, <1>6, Zenon DEF SessionInv

\* A call that waits: the loop stays at its call, or past it, and another task
\* is switched to.
LEMMA WaitInv == ASSUME NEW a \in Agents, SessionInv, Wait(a) PROVE SessionInv'
<1>1. /\ el = "EL1" /\ at[a] = "serve"
      /\ at' = [at EXCEPT ![a] = IF event[a] = "Recv" THEN "serve" ELSE "waited"]
      /\ onCpu' \in Tasks /\ published' = onCpu'
      /\ UNCHANGED <<el, ttbr0, regs, session, event, owed, panicked>>
  BY Zenon DEF Wait, Runs, MoveTo, SwitchTo, Publish, Runnable
<1>2. SessionTypeOK'
  BY <1>1, Zenon DEF SessionInv, SessionTypeOK, Labels
<1>3. CpuInv'
  BY <1>1, Zenon DEF SessionInv, SessionTypeOK, CpuInv
<1>4. RootInv(a)' /\ ReplyInv(a)'
  <2>1. at'[a] \in {"serve", "waited"}
    BY <1>1, Zenon DEF SessionInv, SessionTypeOK
  <2>2. QED BY <1>1, <2>1, Zenon DEF SessionInv, RootInv, ReplyInv, Opened
<1>5. ASSUME NEW b \in Agents, b # a PROVE RootInv(b)' /\ ReplyInv(b)'
  BY <1>1, <1>5, AgentSame, Zenon DEF SessionInv, SessionTypeOK
<1>6. QED BY <1>2, <1>3, <1>4, <1>5, Zenon DEF SessionInv

LEMMA StepInv == SessionInv /\ [SessionNext]_vars => SessionInv'
<1> SUFFICES ASSUME SessionInv, [SessionNext]_vars PROVE SessionInv'
  BY Zenon
<1>1. ASSUME NEW a \in Agents, LoopStep(a) PROVE SessionInv'
  BY <1>1, EnterInv, LoopInv, PayloadInv, StatusInv, ResumeInv, WaitInv, ServeInv, Zenon DEF
     LoopStep, Outcomes
<1>2. CASE Svc \/ UserIrq \/ Fault
  BY <1>2, ExceptionInv, Zenon DEF Svc, UserIrq, Fault
<1>3. ASSUME NEW t \in Tasks, Preempt(t) PROVE SessionInv'
  BY <1>3, SwitchKeeps, Zenon DEF Preempt, SwitchTo, Publish
<1>4. ASSUME NEW a \in Agents, WakeAgent(a) \/ ForceExit(a) PROVE SessionInv'
  BY <1>4, SwitchKeeps, Zenon DEF WakeAgent, ForceExit, cpuVars, SessionInv, SessionTypeOK,
     CpuInv
<1>5. CASE CancelBlocked
  BY <1>5, SwitchKeeps, Zenon DEF CancelBlocked, cpuVars, SessionInv, SessionTypeOK, CpuInv
<1>6. CASE UNCHANGED vars
  <2>1. SessionTypeOK' /\ CpuInv'
    BY <1>6, Zenon DEF vars, SessionInv, SessionTypeOK, CpuInv
  <2>2. \A b \in Agents : RootInv(b)' /\ ReplyInv(b)'
    BY <1>6, AgentSame, Zenon DEF vars, SessionInv
  <2>3. QED BY <2>1, <2>2, Zenon DEF SessionInv
<1>7. QED BY <1>1, <1>2, <1>3, <1>4, <1>5, <1>6, Zenon DEF SessionNext

-----------------------------------------------------------------------------
(* Theorems *)

\* The inductive invariant: the session record, the loop's place and the level
\* the CPU runs at fit together after every entry, exception, wait, switch,
\* half-written reply and resume (el0.rs, agent/mod.rs).
THEOREM SessionsInvariant == SessionSpec => []SessionInv
BY InitInv, StepInv, PTL DEF SessionSpec

\* No check of el0.rs or of the vectors ever fails, and the translation root in
\* use is the running agent's exactly at EL0, for any number of agents.
THEOREM SessionsSound == SessionSpec => []SessionSound
<1>1. SessionInv => SessionSound
  <2> SUFFICES ASSUME SessionInv PROVE SessionSound
    BY Zenon
  <2>1. NoPanic
    BY Zenon DEF SessionInv, CpuInv, NoPanic
  <2>2. ASSUME NEW a \in Agents
        PROVE  session[a].kernel_ttbr0 # NoOne
                 <=> at[a] \notin {"idle"} /\ ~(at[a] = "event" /\ event[a] = "Fault")
    BY AgentAssumption, Zenon DEF SessionInv, RootInv, Opened
  <2>3. QED BY <2>1, <2>2, Zenon DEF SessionSound, RootFollowsLevel, SessionInv, CpuInv
<1>2. QED BY <1>1, SessionsInvariant, PTL

\* An agent that runs at EL0 has the registers it is owed: its own, with the
\* answer to its last call, whatever ran in between (apply_reply, el0_resume).
THEOREM RegistersKept == SessionSpec => []RegistersAreOwed
<1>1. SessionInv => RegistersAreOwed
  BY Zenon DEF SessionInv, CpuInv, RegistersAreOwed
<1>2. QED BY <1>1, SessionsInvariant, PTL

=============================================================================
