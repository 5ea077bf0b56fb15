---------------------------- MODULE ConsoleLine ----------------------------
(***************************************************************************)
(* The serial console: the PL011 receive path (FIFO, level-triggered line, *)
(* interrupt handler, byte ring, echo loop), the handover of the line to   *)
(* an agent and back, the shared transmit handle, and the panic path that  *)
(* takes the console away.                                                 *)
(*                                                                         *)
(* A core's code is a list of named steps, one shared access each.  The    *)
(* UART interrupt targets core 0 and is masked there while that core holds *)
(* a lock (Mutex::with masks) or panics; its handler runs to completion    *)
(* before core 0 continues, but core 1 and the device move between its     *)
(* steps.  A byte is its arrival number; 0 stands for a character received *)
(* with a line error.                                                      *)
(***************************************************************************)
EXTENDS Naturals, Sequences, FiniteSets

CONSTANTS RX_CAP,        \* ring capacity, one slot stays free (a power of two in the
                         \* code, whose index mask is the remainder here)
          MAX_BYTES,     \* bytes the device receives in a behaviour
          MAX_CALLS      \* console calls each core makes in a behaviour

VARIABLES rxline,      \* RX_LINE: [armed, view]
          rxbase,      \* RX_MMIO_BASE: the published view, 0 or BASE
          locks,       \* owner of the LINE and TX spin locks
          tx,          \* is the transmit handle installed
          uart,        \* the device: [imsc, ris, fifo]
          rxring,      \* the byte ring: [head, tail, buf]
          bytes,       \* [arrived, dropped, flushed, lost, echoed]
          ctodo,       \* per core: the steps its current call still has
          isr,         \* the UART handler on core 0: "none", "drain", "ack"
          lent,        \* the base suspend_rx returned to the demo, 0 if none
          panicking,   \* PANICKING
          locked,      \* history: a core panicked with a console lock in hand
          ccalls       \* calls made, per core

linevars == <<rxline, rxbase, locks, tx, uart, rxring, bytes, ctodo, isr, lent,
              panicking, locked, ccalls>>

Cpus == {0, 1}
BASE == 1
FREE == 2

(* ByteRing: the head is the next slot to write, the tail the next to      *)
(* read; one slot stays empty.                                             *)
RingFull(r) == (r.head + 1) % RX_CAP = r.tail
RingEmpty(r) == r.head = r.tail
Push(r, b) ==
    IF RingFull(r) THEN r
    ELSE [r EXCEPT !.buf[r.head] = b, !.head = (r.head + 1) % RX_CAP]
Pop(r) == [r EXCEPT !.tail = (r.tail + 1) % RX_CAP, !.buf[r.tail] = 0]
RingLen(r) == (r.head + RX_CAP - r.tail) % RX_CAP
RingBytes(r) == [i \in 1..RingLen(r) |-> r.buf[(r.tail + i - 1) % RX_CAP]]

\* Mutant: the view goes before the mask.
PlanSuspendViewFirst(line) == IF line.view = 0 THEN <<>> ELSE <<"clear", "mask">>

(* RxLine: the plans for handing the line over, in the order that never    *)
(* leaves it armed without a view.                                         *)
PlanSuspend(line) == IF line.view = 0 THEN <<>> ELSE <<"mask", "clear">>
PlanResume(base) == IF base = 0 THEN <<>> ELSE <<"publish", "arm">>

(* Masking and arming reach the device through the TX handle, so each is   *)
(* done under the TX lock; the other two steps are plain stores.           *)
StepsOf(op) == IF op \in {"mask", "arm"} THEN <<"lock_tx", op, "unlock_tx">> ELSE <<op>>
Expand(plan) == IF plan = <<>> THEN <<>> ELSE StepsOf(plan[1]) \o StepsOf(plan[2])

NewRing == [head |-> 0, tail |-> 0, buf |-> [i \in 0..RX_CAP - 1 |-> 0]]
NewUart == [imsc |-> TRUE, ris |-> FALSE, fifo |-> <<>>]
NewLine == [armed |-> TRUE, view |-> BASE]           \* enable_rx_irq has run

LineInit ==
    /\ rxline = NewLine
    /\ rxbase = BASE
    /\ locks = [line |-> FREE, tx |-> FREE]
    /\ tx = TRUE                                     \* install_tx has run
    /\ uart = NewUart
    /\ rxring = NewRing
    /\ bytes = [arrived |-> 0, dropped |-> 0, flushed |-> 0, lost |-> 0, echoed |-> <<>>]
    /\ ctodo = [c \in Cpus |-> <<>>]
    /\ isr = "none"
    /\ lent = 0
    /\ panicking = FALSE
    /\ locked = FALSE
    /\ ccalls = [c \in Cpus |-> 0]

(* A byte arrives; the receive interrupt status rises with it, or later as *)
(* the receive timeout while the FIFO is not empty.                        *)
ByteArrives ==
    /\ bytes.arrived < MAX_BYTES
    /\ \E raised, good \in BOOLEAN :
          /\ bytes' = [bytes EXCEPT !.arrived = @ + 1, !.flushed = @ + (IF good THEN 0 ELSE 1)]
          /\ uart' = [uart EXCEPT !.fifo = Append(@, IF good THEN bytes.arrived + 1 ELSE 0),
                                  !.ris = @ \/ raised]
    /\ UNCHANGED <<rxline, rxbase, locks, tx, rxring, ctodo, isr, lent, panicking, locked, ccalls>>

ReceiveTimeout ==
    /\ uart.fifo # <<>> /\ ~uart.ris
    /\ uart' = [uart EXCEPT !.ris = TRUE]
    /\ UNCHANGED <<rxline, rxbase, locks, tx, rxring, bytes, ctodo, isr, lent, panicking,
                   locked, ccalls>>

Holds(c) == {k \in {"line", "tx"} : locks[k] = c}
Panics(c) == ctodo[c] # <<>> /\ ctodo[c][Len(ctodo[c])] = "halt"

(* The UART line is presented and core 0 takes it: the handler reads the   *)
(* published base without a lock and returns at once when there is none.   *)
UartIrq ==
    /\ isr = "none" /\ uart.imsc /\ uart.ris
    /\ Holds(0) = {} /\ ~Panics(0)
    /\ isr' = IF rxbase = 0 THEN "none" ELSE "drain"
    /\ UNCHANGED <<rxline, rxbase, locks, tx, uart, rxring, bytes, ctodo, lent, panicking,
                   locked, ccalls>>

(* drain: pop the FIFO until it is empty, pushing each good byte into the  *)
(* ring or counting it dropped, then clear the interrupt status.           *)
DrainStops(r, b) == FALSE

UartDrain ==
    /\ isr = "drain"
    /\ IF uart.fifo = <<>> \/ DrainStops(rxring, Head(uart.fifo))
       THEN /\ isr' = "ack"
            /\ UNCHANGED <<uart, rxring, bytes>>
       ELSE /\ uart' = [uart EXCEPT !.fifo = Tail(@)]
            /\ rxring' = IF Head(uart.fifo) = 0 THEN rxring ELSE Push(rxring, Head(uart.fifo))
            /\ bytes' = [bytes EXCEPT !.dropped =
                            @ + (IF Head(uart.fifo) # 0 /\ RingFull(rxring) THEN 1 ELSE 0)]
            /\ isr' = isr
    /\ UNCHANGED <<rxline, rxbase, locks, tx, ctodo, lent, panicking, locked, ccalls>>

UartAck ==
    /\ isr = "ack"
    /\ uart' = [uart EXCEPT !.ris = FALSE]
    /\ isr' = "none"
    /\ UNCHANGED <<rxline, rxbase, locks, tx, rxring, bytes, ctodo, lent, panicking, locked, ccalls>>

(* An agent that was lent the line polls the data register itself.         *)
AgentPoll ==
    /\ lent # 0 /\ rxbase = 0 /\ uart.fifo # <<>>
    /\ uart' = [uart EXCEPT !.fifo = Tail(@)]
    /\ bytes' = [bytes EXCEPT !.flushed = @ + (IF Head(uart.fifo) = 0 THEN 0 ELSE 1)]
    /\ UNCHANGED <<rxline, rxbase, locks, tx, rxring, ctodo, isr, lent, panicking, locked, ccalls>>

(* The calls a core makes: the echo of the idle loop, the two halves of    *)
(* the handover (both on core 0), a print from a task on either core.      *)
Echo == <<"lock_tx", "echo", "unlock_tx">>
PrintLine == <<"lock_tx", "print", "unlock_tx">>
Suspend == <<"lock_line", "plan_suspend">>
Resume == <<"lock_line", "plan_resume">>

Call(c) ==
    /\ ctodo[c] = <<>> /\ ccalls[c] < MAX_CALLS
    /\ c = 0 => isr = "none"
    /\ \E call \in {PrintLine} \cup (IF c # 0 THEN {} ELSE
                       (IF rxbase = 0 THEN {} ELSE {Echo, Suspend})
                         \cup (IF lent = 0 THEN {} ELSE {Resume})) :
          ctodo' = [ctodo EXCEPT ![c] = call]
    /\ ccalls' = [ccalls EXCEPT ![c] = @ + 1]
    /\ UNCHANGED <<rxline, rxbase, locks, tx, uart, rxring, bytes, isr, lent, panicking, locked>>

(* A panic on core c: a fault in whatever it was doing, its locks still    *)
(* held.  A second panic parks; the first steals the console: it drops the *)
(* shared handle, withdraws the handler's view, reprograms the device from *)
(* reset and reports.                                                      *)
Reprogram == <<"clear_base", "lock_line", "clear_view", "unlock_line", "configure">>
Steal == <<"lock_tx", "drop_tx", "unlock_tx">> \o Reprogram \o <<"report", "halt">>

Panic(c) ==
    /\ ~Panics(c)
    /\ panicking' = TRUE
    /\ locked' = (locked \/ Holds(c) # {})
    /\ ctodo' = [ctodo EXCEPT ![c] = IF panicking THEN <<"park", "halt">> ELSE Steal]
    /\ isr' = IF c = 0 THEN "none" ELSE isr
    /\ UNCHANGED <<rxline, rxbase, locks, tx, uart, rxring, bytes, lent, ccalls>>

Lock(c, k) ==
    /\ locks[k] = FREE
    /\ locks' = [locks EXCEPT ![k] = c]
    /\ UNCHANGED <<rxline, rxbase, tx, uart, rxring, bytes, lent>>

Unlock(c, k) ==
    /\ locks' = [locks EXCEPT ![k] = FREE]
    /\ UNCHANGED <<rxline, rxbase, tx, uart, rxring, bytes, lent>>

Good(s) == SelectSeq(s, LAMBDA b : b # 0)
Discarded == [uart EXCEPT !.fifo = <<>>, !.ris = FALSE]
Flushed == [bytes EXCEPT !.flushed = @ + Len(Good(uart.fifo))]

(* What one step does to the console's state.                              *)
Effect(op) ==
    CASE op = "mask" /\ tx ->
            /\ uart' = [Discarded EXCEPT !.imsc = FALSE]
            /\ rxline' = [rxline EXCEPT !.armed = FALSE]
            /\ bytes' = Flushed
            /\ UNCHANGED <<rxbase, tx, rxring, lent>>
      [] op = "arm" /\ tx ->
            /\ uart' = [Discarded EXCEPT !.imsc = TRUE]
            /\ rxline' = [rxline EXCEPT !.armed = TRUE]
            /\ lent' = 0
            /\ bytes' = Flushed
            /\ UNCHANGED <<rxbase, tx, rxring>>
      [] op = "clear" ->
            /\ rxbase' = 0
            /\ rxline' = [rxline EXCEPT !.view = 0]
            /\ lent' = rxline.view
            /\ UNCHANGED <<tx, uart, rxring, bytes>>
      [] op = "publish" ->
            /\ rxbase' = lent
            /\ rxline' = [rxline EXCEPT !.view = lent]
            /\ UNCHANGED <<tx, uart, rxring, bytes, lent>>
      [] op = "echo" /\ tx /\ ~RingEmpty(rxring) ->
            /\ rxring' = Pop(rxring)
            /\ bytes' = [bytes EXCEPT !.echoed = Append(@, rxring.buf[rxring.tail])]
            /\ UNCHANGED <<rxline, rxbase, tx, uart, lent>>
      [] op = "drop_tx" ->
            /\ tx' = FALSE
            /\ UNCHANGED <<rxline, rxbase, uart, rxring, bytes, lent>>
      [] op = "clear_base" ->
            /\ rxbase' = 0
            /\ UNCHANGED <<rxline, tx, uart, rxring, bytes, lent>>
      [] op = "clear_view" ->
            /\ rxline' = [rxline EXCEPT !.view = 0]
            /\ UNCHANGED <<rxbase, tx, uart, rxring, bytes, lent>>
      [] op = "configure" ->
            /\ uart' = [Discarded EXCEPT !.imsc = FALSE]
            /\ bytes' = Flushed
            /\ UNCHANGED <<rxline, rxbase, tx, rxring, lent>>
      [] OTHER -> UNCHANGED <<rxline, rxbase, tx, uart, rxring, bytes, lent>>

(* A handover step that cannot reach the device abandons the plan: what is *)
(* left is only to release the locks.                                      *)
Abandoned == <<"unlock_tx", "unlock_line">>
AfterStep(op, rest) ==
    CASE op \in {"mask", "arm"} /\ ~tx -> Abandoned
      [] op = "echo" /\ tx /\ ~RingEmpty(rxring) -> <<"echo">> \o rest
      [] op = "plan_suspend" -> Expand(PlanSuspend(rxline)) \o <<"unlock_line">>
      [] op = "plan_resume" -> Expand(PlanResume(lent)) \o <<"unlock_line">>
      [] OTHER -> rest

(* The echo gives up on a wedged transmitter: the byte just popped is gone *)
(* and no counter says so, the rest stays queued.                          *)
EchoGivesUp ==
    /\ tx /\ ~RingEmpty(rxring)
    /\ rxring' = Pop(rxring)
    /\ bytes' = [bytes EXCEPT !.lost = @ + 1]
    /\ UNCHANGED <<rxline, rxbase, tx, uart, lent, locks>>

(* The next step of core c's call.                                         *)
Step(c) ==
    LET op == Head(ctodo[c]) IN
    /\ ctodo[c] # <<>> /\ op \notin {"halt", "park"}
    /\ c = 0 => isr = "none"
    /\ \/ /\ CASE op = "lock_tx" -> Lock(c, "tx")
               [] op = "lock_line" -> Lock(c, "line")
               [] op = "unlock_tx" -> Unlock(c, "tx")
               [] op = "unlock_line" -> Unlock(c, "line")
               [] OTHER -> Effect(op) /\ locks' = locks
          /\ ctodo' = [ctodo EXCEPT ![c] = AfterStep(op, Tail(@))]
       \/ /\ op = "echo" /\ EchoGivesUp
          /\ ctodo' = [ctodo EXCEPT ![c] = Tail(@)]
    /\ UNCHANGED <<isr, panicking, locked, ccalls>>

LineNext ==
    \/ ByteArrives \/ ReceiveTimeout
    \/ UartIrq \/ UartDrain \/ UartAck \/ AgentPoll
    \/ \E c \in Cpus : Call(c) \/ Step(c) \/ Panic(c)

(* Fairness: the receive timeout is the device's; a pending unmasked line  *)
(* is taken and its handler runs on; a core executes its code.             *)
LineFairness ==
    /\ WF_linevars(ReceiveTimeout)
    /\ WF_linevars(UartIrq) /\ WF_linevars(UartDrain) /\ WF_linevars(UartAck)
    /\ \A c \in Cpus : WF_linevars(Step(c))

LineSpec == LineInit /\ [][LineNext]_linevars /\ LineFairness

-----------------------------------------------------------------------------
Reprogramming(c) ==
    /\ Panics(c)
    /\ \E i \in 1..Len(ctodo[c]) : ctodo[c][i] = "configure"

(* The level-triggered line is never armed without a view the handler can  *)
(* drain through (it would re-present for ever), at any step of a handover *)
(* on one core racing a panic on the other; only the panic's own window,   *)
(* between withdrawing the view and resetting the device, is excepted.     *)
ArmedHasView ==
    uart.imsc /\ rxbase = 0 => \E c \in Cpus : Reprogramming(c)

Increasing(s) == \A i, j \in 1..Len(s) : i < j => s[i] < s[j]

(* The bytes the kernel drains are echoed in the order they arrived, none  *)
(* twice.  What arrived and was not echoed is on its way, is counted in    *)
(* RX_DROPPED, left the kernel at a handover, with the agent that held the *)
(* line, in a panic or as a line error, or is the byte an echo had in hand *)
(* when it gave up on the transmitter: the one loss nothing counts, and at *)
(* most one byte of a call.                                                *)
BytesInOrder ==
    LET seen == bytes.echoed \o RingBytes(rxring) \o Good(uart.fifo) IN
    /\ Increasing(seen)
    /\ Len(seen) + bytes.dropped + bytes.flushed + bytes.lost = bytes.arrived
    /\ bytes.lost <= ccalls[0]

(* After a panic has taken the console and reset the device, no handover   *)
(* still running on the other core arms the receive line again.            *)
PanicKeepsLineMasked ==
    panicking /\ (\A c \in Cpus : ~Reprogramming(c)) => ~uart.imsc

(* The panic report is out: the core that took the console has halted.     *)
Reported == \E c \in Cpus : ctodo[c] = <<"halt">>
=============================================================================
