------------------------------ MODULE WaitPath ------------------------------
(***************************************************************************)
(* How tasks wait and are woken: blocking receive, receive with a timeout, *)
(* waiting for an interrupt, and everything that ends a wait (send, cancel,*)
(* revoke, exit, the park deadlines and the interrupt wake queue).         *)
(*                                                                         *)
(* src/src/ipc/mod.rs, src/src/sched/mod.rs and src/src/irq/wait.rs reach  *)
(* the task table, the mailbox table, the deadline table and the wait      *)
(* table through four locks, held one at a time.  A step of this module is *)
(* one critical section; between two sections the other CPU runs, or a     *)
(* preemption when Preemption is set.  The stack swap that completes a     *)
(* switch is SwitchPath's subject and is one step with the switch here.    *)
(*                                                                         *)
(* A few waiting tasks call the waits in a loop; one worker, their creator,*)
(* sends and supervises.  Slot 0 idles on CPU 0 and slot 1 on CPU 1.       *)
(***************************************************************************)
EXTENDS Tasks, Ipc

LOCAL INSTANCE SequencesExt

CONSTANTS
    Smp,            \* CPU 1 is online
    Preemption,     \* the timer preempts tasks between sections (ADR-0068)
    Receivers,      \* slots of the tasks that receive
    IrqWaiters,     \* slots of the tasks that wait for interrupts
    Worker,         \* slot of the task that sends and supervises
    OnCpu1,         \* slots homed on CPU 1
    Calls,          \* what receivers call: Recv, TimedRecv
    Ops,            \* what the worker does: Send, Reap, Revoke, Exit
    Ephemeral,      \* the channel auto-reaps its waiter (ADR-0031)
    MaxArmed,       \* park deadlines the table holds (parktime::MAX_ARMED)
    Timeout,        \* ticks a timed receive waits
    Cookies,        \* interrupt cookies
    QueueCap        \* tokens the wake queue holds (Q - 1)

Waiting == Receivers \cup IrqWaiters

VARIABLES
    pc,         \* [Slots -> label]: the section a task runs next
    todo,       \* [Slots -> Seq(TaskIds)]: ids the task has left to wake or cancel
    then,       \* [Slots -> label]: where the task goes after those
    timed,      \* [Slots -> BOOLEAN]: inside recv_with_timeout
    result,     \* [Slots -> Results]: what the last wait returned
    busy,       \* [Cpus -> slot or NoSlot]: an exited task finishing switch_with
    cancel_wait,\* [Slots -> BOOLEAN], Tcb::cancel_wait
    deadlines,  \* function from the armed ids to the ticks left
    armed,      \* [Cookies -> task id or NoTask]
    pending,    \* [Slots -> task id or NoTask]
    wakes       \* tokens posted by interrupt handlers, oldest first

localVars == <<pc, todo, then, timed, result>>
irqVars == <<armed, pending, wakes>>
waitVars == <<localVars, busy, cancel_wait, deadlines, irqVars>>
allVars == <<taskVars, ipcVars, waitVars>>

NoSlot == -1
SendCap == [index |-> 0, generation |-> 1]
RecvCap == [index |-> 1, generation |-> 1]
BySlot(a, b) == Slot(a) < Slot(b)
InOrder(ids) == SetToSortSeq(ids, BySlot)

\* The slots with a task, and where each starts.
Idles == {0} \cup (IF Smp THEN {1} ELSE {})
Present == Idles \cup Waiting \cup {Worker}
HomeCpu(s) == IF s \in OnCpu1 THEN 1 ELSE 0
Start(s) == CASE s \in Waiting -> "call" [] s = Worker -> "work" [] OTHER -> "drain"

\* After boot: both idles run, every task has been spawned and not yet run,
\* and the worker has created the channel and holds its SEND end.
WaitInit ==
    /\ states = [s \in Slots |-> IF s \in Idles THEN "Running"
                                 ELSE IF s \in Present THEN "Ready" ELSE "Empty"]
    /\ epochs = [s \in Slots |-> 0]
    /\ home = [s \in Slots |-> HomeCpu(s)]
    /\ stealeable = [s \in Slots |-> FALSE]
    /\ queues = [c \in Cpus |->
            InOrder({<<s, 0>> : s \in {t \in Present \ Idles : HomeCpu(t) = c}})]
    /\ current = [c \in Cpus |-> IF c = 1 /\ Smp THEN <<1, 0>> ELSE IDLE]
    /\ idle = current
    /\ parked = NoTask
    /\ overwrites = 0
    /\ peak = Cardinality(Present)
    /\ endpoints = [e \in Ends |-> [live |-> TRUE, generation |-> 1, mailbox |-> 0,
                                    rights |-> IF e = 0 THEN "SEND" ELSE "RECV"]]
    /\ mailboxes = [b \in Boxes |-> [EmptyBox EXCEPT !.live = TRUE,
                                        !.auto_reap = Ephemeral, !.send_holders = 1]]
    /\ next_gen = NextGen(1)
    /\ refusals = 0
    /\ ret = [res |-> "Ok", msg |-> Empty, wake |-> {}]
    /\ pc = [s \in Slots |-> Start(s)]
    /\ todo = [s \in Slots |-> <<>>]
    /\ then = [s \in Slots |-> Start(s)]
    /\ timed = [s \in Slots |-> FALSE]
    /\ result = [s \in Slots |-> "Ok"]
    /\ busy = [c \in Cpus |-> NoSlot]
    /\ cancel_wait = [s \in Slots |-> FALSE]
    /\ deadlines = <<>>
    /\ armed = [k \in Cookies |-> NoTask]
    /\ pending = [s \in Slots |-> NoTask]
    /\ wakes = <<>>

-----------------------------------------------------------------------------
(* Control *)

\* The CPU executes the code of slot s.
Executes(c, s) ==
    IF busy[c] # NoSlot THEN busy[c] = s ELSE current[c] = LiveId(s)

At(s, label) == pc[s] = label /\ \E c \in OnlineCpus : Executes(c, s)
Goto(s, label) == pc' = [pc EXCEPT ![s] = label]
UnchangedLocals == UNCHANGED <<todo, then, timed, result>>

\* Work through ids at label `first', then continue at `after'.
Process(s, ids, first, after) ==
    /\ todo' = [todo EXCEPT ![s] = ids]
    /\ then' = [then EXCEPT ![s] = after]
    /\ Goto(s, IF ids = <<>> THEN after ELSE first)
    /\ UNCHANGED <<timed, result>>

\* One id is dealt with.
NextTodo(s, first) ==
    /\ todo' = [todo EXCEPT ![s] = Tail(@)]
    /\ Goto(s, IF Tail(todo[s]) = <<>> THEN then[s] ELSE first)
    /\ UNCHANGED <<then, timed, result>>

\* A wait returns; a timed receive still has its deadline to disarm.  After an
\* error the caller yields; after a message a receiver may also call again at
\* once.  (A line that fires at every wait would let its task keep the CPU.)
Finish(s, res) ==
    /\ result' = [result EXCEPT ![s] = res]
    /\ \E label \in IF res = "Ok" /\ s \in Receivers
                 THEN {"call", "drain"} ELSE {"drain"} :
        IF timed[s]
        THEN Goto(s, "disarm_park") /\ then' = [then EXCEPT ![s] = label]
        ELSE Goto(s, label) /\ UNCHANGED then
    /\ UNCHANGED <<todo, timed>>

Switch(s, kind, label) ==
    \E c \in OnlineCpus :
        /\ busy[c] = NoSlot /\ current[c] = LiveId(s)
        /\ SwitchOn(c, kind)
        /\ Goto(s, label)
        /\ UnchangedLocals
        /\ UNCHANGED <<ipcVars, busy, cancel_wait, deadlines, irqVars>>

-----------------------------------------------------------------------------
(* recv and recv_with_timeout *)

TableUnchanged == UNCHANGED <<taskVars, busy, cancel_wait, deadlines, irqVars>>
OnlyLocals == UNCHANGED <<taskVars, ipcVars, busy, deadlines, irqVars>>

\* parktime::Table::arm: replace or add, and do nothing when full.
Armed(id) ==
    IF id \in DOMAIN deadlines \/ Cardinality(DOMAIN deadlines) < MaxArmed
    THEN [i \in DOMAIN deadlines \cup {id} |->
            IF i = id THEN Timeout ELSE deadlines[i]]
    ELSE deadlines

Disarmed(ids) == [i \in DOMAIN deadlines \ ids |-> deadlines[i]]

\* The entry of the wait; a timed receive arms its deadline first.
Call(s) ==
    /\ At(s, "call")
    /\ \/ /\ s \in Receivers /\ "Recv" \in Calls /\ Goto(s, "check")
          /\ UNCHANGED <<timed, deadlines>>
       \/ /\ s \in Receivers /\ "TimedRecv" \in Calls /\ Goto(s, "check")
          /\ timed' = [timed EXCEPT ![s] = TRUE]
          /\ deadlines' = Armed(LiveId(s))
       \/ /\ s \in IrqWaiters /\ Goto(s, "arm")
          /\ UNCHANGED <<timed, deadlines>>
    /\ UNCHANGED <<taskVars, ipcVars, todo, then, result, busy, cancel_wait, irqVars>>

\* take_cancel_wait, before the first look and after every block.
Check(s) ==
    /\ At(s, "check") \/ At(s, "woken")
    /\ cancel_wait' = [cancel_wait EXCEPT ![s] = FALSE]
    /\ IF cancel_wait[s]
       THEN Finish(s, "Cancelled")
       ELSE Goto(s, IF pc[s] = "check" THEN "try" ELSE "check") /\ UnchangedLocals
    /\ OnlyLocals

Try(s) ==
    /\ At(s, "try")
    /\ TryRecv(RecvCap)
    /\ IF ret'.res = "Empty" THEN Goto(s, "park") /\ UnchangedLocals
                            ELSE Finish(s, ret'.res)
    /\ TableUnchanged

ParkStep(s) ==
    /\ At(s, "park")
    /\ Park(RecvCap, LiveId(s))
    /\ IF ret'.res = "Parked" THEN Goto(s, "block") /\ UnchangedLocals
                             ELSE Finish(s, ret'.res)
    /\ TableUnchanged

Block(s) == At(s, "block") /\ Switch(s, "Block", "woken")

DisarmPark(s) ==
    /\ At(s, "disarm_park")
    /\ deadlines' = Disarmed({LiveId(s)})
    /\ timed' = [timed EXCEPT ![s] = FALSE]
    /\ Goto(s, then[s])
    /\ UNCHANGED <<taskVars, ipcVars, todo, then, result, busy, cancel_wait, irqVars>>

-----------------------------------------------------------------------------
(* wait_for_irq *)

\* irqwait::WaitTable::arm refuses a cookie in use and a task already armed.
\* MAX_WAITERS is not reached: there is a waiter slot for every cookie.
Arm(s) ==
    /\ At(s, "arm")
    /\ \E k \in Cookies :
        IF armed[k] # NoTask \/ \E j \in Cookies : armed[j] = LiveId(s)
        THEN Finish(s, "Busy") /\ UNCHANGED armed
        ELSE /\ armed' = [armed EXCEPT ![k] = LiveId(s)]
             /\ Goto(s, "pending") /\ UnchangedLocals
    /\ UNCHANGED <<taskVars, ipcVars, busy, cancel_wait, deadlines, pending, wakes>>

\* take_pending, once before the block and once after it.
TakePending(s) ==
    /\ At(s, "pending") \/ At(s, "irq_woken")
    /\ pending' = [pending EXCEPT ![s] = IF @ = LiveId(s) THEN NoTask ELSE @]
    /\ Goto(s, IF pc[s] = "irq_woken" \/ pending[s] = LiveId(s)
               THEN "disarm" ELSE "irq_block")
    /\ UnchangedLocals
    /\ UNCHANGED <<taskVars, ipcVars, busy, cancel_wait, deadlines, armed, wakes>>

IrqBlock(s) == At(s, "irq_block") /\ Switch(s, "Block", "irq_woken")

DisarmTask(s) ==
    /\ At(s, "disarm")
    /\ armed' = [k \in Cookies |-> IF armed[k] = LiveId(s) THEN NoTask ELSE armed[k]]
    /\ Finish(s, "Ok")
    /\ UNCHANGED <<taskVars, ipcVars, busy, cancel_wait, deadlines, pending, wakes>>

\* The mark and the token for the task that was armed; a full queue drops the
\* token.
Post(id) ==
    /\ pending' = [pending EXCEPT ![Slot(id)] = id]
    /\ wakes' = IF Len(wakes) < QueueCap THEN Append(wakes, id) ELSE wakes

\* An interrupt handler: irq::wait::signal.
Signal(k) ==
    /\ armed[k] # NoTask
    /\ armed' = [armed EXCEPT ![k] = NoTask]
    /\ Post(armed[k])
    /\ UNCHANGED <<taskVars, ipcVars, localVars, busy, cancel_wait, deadlines>>

-----------------------------------------------------------------------------
(* yield_now: poll_wakes (drain, then the park deadlines), then the switch *)

\* Mutant: the tokens are taken and nobody is woken.
DrainDiscards(s) ==
    /\ At(s, "drain")
    /\ wakes' = <<>>
    /\ Goto(s, "expire")
    /\ UnchangedLocals
    /\ UNCHANGED <<taskVars, ipcVars, busy, cancel_wait, deadlines, armed, pending>>

Drain(s) ==
    /\ At(s, "drain")
    /\ wakes' = <<>>
    /\ Process(s, wakes, "wake_token", "expire")
    /\ UNCHANGED <<taskVars, ipcVars, busy, cancel_wait, deadlines, armed, pending>>

\* Mutant: the receiver that send reports is not woken.
WakeNobody(s) == UNCHANGED taskVars

\* wake_task does nothing for an id that is not blocked.
WakeTodo(s) ==
    IF CanWake(Head(todo[s])) THEN Wake(Head(todo[s])) ELSE UNCHANGED taskVars

WakeTask(s) ==
    /\ At(s, "wake_token")
    /\ WakeTodo(s)
    /\ NextTodo(s, "wake_token")
    /\ UNCHANGED <<ipcVars, busy, cancel_wait, deadlines, irqVars>>

\* poll_park_timeouts takes every expired entry out of the table.
Expire(s) ==
    /\ At(s, "expire")
    /\ LET expired == {i \in DOMAIN deadlines : deadlines[i] = 0}
       IN /\ deadlines' = Disarmed(expired)
          /\ Process(s, InOrder(expired), "clear", "yield")
    /\ UNCHANGED <<taskVars, ipcVars, busy, cancel_wait, irqVars>>

\* cancel_blocked: the waiter slot first, under the mailbox lock ...
Clear(s) ==
    /\ At(s, "clear")
    /\ ClearWaiter(Head(todo[s]))
    /\ Goto(s, "prepare")
    /\ UnchangedLocals
    /\ TableUnchanged

\* Mutant: the flag is set whatever the state.
PrepareCancelAny(id) ==
    /\ IF CanWake(id) THEN Wake(id) ELSE UNCHANGED taskVars
    /\ cancel_wait' = [cancel_wait EXCEPT ![Slot(id)] = TRUE]

\* Mutant: the task is woken without its flag.
PrepareUnmarked(id) ==
    /\ IF CanWake(id) THEN Wake(id) ELSE UNCHANGED taskVars
    /\ UNCHANGED cancel_wait

\* prepare_cancel_blocked
PrepareCancel(id) ==
    IF StateOf(id) = "Blocked"
    THEN /\ cancel_wait' = [cancel_wait EXCEPT ![Slot(id)] = TRUE]
         /\ Wake(id)
    ELSE UNCHANGED <<taskVars, cancel_wait>>

\* ... then the flag and the wake, under the scheduler lock.  The waiters that
\* release_holds and revoke_channel return are already out of their slot.
Prepare(s) ==
    /\ At(s, "prepare") \/ At(s, "reap")
    /\ PrepareCancel(Head(todo[s]))
    /\ NextTodo(s, IF pc[s] = "reap" THEN "reap" ELSE "clear")
    /\ UNCHANGED <<ipcVars, busy, deadlines, irqVars>>

Yield(s) == At(s, "yield") /\ Switch(s, "Yield", Start(s))

-----------------------------------------------------------------------------
(* The worker *)

SendStep(s) ==
    /\ At(s, "work") /\ "Send" \in Ops
    /\ \E msg \in Msgs : Send(SendCap, msg)
    /\ Process(s, InOrder(ret'.wake), "wake_token", "drain")
    /\ TableUnchanged

\* supervisor_reap_blocked looks at the state in a section of its own.
ReapStep(s) ==
    /\ At(s, "work") /\ "Reap" \in Ops
    /\ \E t \in Waiting :
        Process(s, IF StateOf(<<t, 0>>) = "Blocked" THEN <<<<t, 0>>>> ELSE <<>>,
                "clear", "drain")
    /\ UNCHANGED <<ipcVars, cancel_wait>>
    /\ UNCHANGED <<taskVars, busy, deadlines, irqVars>>

\* creator_revoke
RevokeStep(s) ==
    /\ At(s, "work") /\ "Revoke" \in Ops
    /\ RevokeChannel(SendCap)
    /\ Process(s, InOrder(ret'.wake), "reap", "drain")
    /\ TableUnchanged

Pause(s) ==
    /\ At(s, "work")
    /\ Goto(s, "drain")
    /\ UnchangedLocals
    /\ UNCHANGED cancel_wait
    /\ OnlyLocals

\* switch_with(Exit): the slot is given up, then the CPU drops the task's holds,
\* cancels its blocked children and collects the stack before it runs anybody.
Exit(s) ==
    /\ At(s, "work") /\ "Exit" \in Ops
    /\ \E c \in OnlineCpus :
        /\ busy[c] = NoSlot /\ current[c] = LiveId(s)
        /\ SwitchOn(c, "Exit")
        /\ busy' = [busy EXCEPT ![c] = s]
    /\ Goto(s, "release")
    /\ UnchangedLocals
    /\ UNCHANGED <<ipcVars, cancel_wait, deadlines, irqVars>>

Release(s) ==
    /\ At(s, "release")
    /\ ReleaseHolds(<<SendCap>>)
    /\ Process(s, InOrder(ret'.wake), "reap", "scan")
    /\ TableUnchanged

\* ADR-0038: the blocked direct children, read in one section.
Scan(s) ==
    /\ At(s, "scan")
    /\ LET kids == {LiveId(t) : t \in {u \in Waiting : states[u] = "Blocked"}}
       IN Process(s, InOrder(kids), "clear", "collect")
    /\ UNCHANGED <<ipcVars, cancel_wait>>
    /\ UNCHANGED <<taskVars, busy, deadlines, irqVars>>

CollectStep(s) ==
    /\ At(s, "collect")
    /\ Collect
    /\ busy' = [c \in Cpus |-> IF busy[c] = s THEN NoSlot ELSE busy[c]]
    /\ Goto(s, "dead")
    /\ UnchangedLocals
    /\ UNCHANGED <<ipcVars, cancel_wait, deadlines, irqVars>>

-----------------------------------------------------------------------------
(* The timer *)

Tick ==
    /\ \E i \in DOMAIN deadlines : deadlines[i] > 0
    /\ deadlines' = [i \in DOMAIN deadlines |->
                        IF deadlines[i] > 0 THEN deadlines[i] - 1 ELSE 0]
    /\ UNCHANGED <<taskVars, ipcVars, localVars, busy, cancel_wait, irqVars>>

\* el1_preempt_from_irq: the interrupt is taken between two sections, never on
\* idle and never inside switch_with.
Preempt(c) ==
    /\ Preemption
    /\ busy[c] = NoSlot
    /\ current[c] # idle[c]
    /\ SwitchOn(c, "Preempt")
    /\ UNCHANGED <<ipcVars, waitVars>>

-----------------------------------------------------------------------------
(* The system *)

WaitStep(s) ==
    \/ Call(s) \/ Check(s) \/ Try(s) \/ ParkStep(s) \/ Block(s) \/ DisarmPark(s)
    \/ Arm(s) \/ TakePending(s) \/ IrqBlock(s) \/ DisarmTask(s)

YieldStep(s) ==
    Drain(s) \/ WakeTask(s) \/ Expire(s) \/ Clear(s) \/ Prepare(s) \/ Yield(s)

WorkerStep(s) ==
    \/ SendStep(s) \/ ReapStep(s) \/ RevokeStep(s) \/ Pause(s)
    \/ Exit(s) \/ Release(s) \/ Scan(s) \/ CollectStep(s)

Step(s) == WaitStep(s) \/ YieldStep(s) \/ WorkerStep(s)

WaitNext ==
    \/ \E s \in Slots : Step(s)
    \/ \E k \in Cookies : Signal(k)
    \/ Tick
    \/ \E c \in OnlineCpus : Preempt(c)

WaitSpec == WaitInit /\ [][WaitNext]_allVars

\* Every CPU that is up keeps executing, and the timer keeps ticking.
WaitFairSpec ==
    /\ WaitSpec
    /\ \A c \in Cpus : WF_allVars(\E s \in Slots : Executes(c, s) /\ Step(s))
    /\ WF_allVars(Tick)

-----------------------------------------------------------------------------
(* Properties *)

\* Somebody has the id in hand, to wake it or to cancel its wait.
InHand(id) == \E s \in Slots : \E i \in DOMAIN todo[s] : todo[s][i] = id

\* "Blocking recv: parks the current task until a message is available"
\* (ipc/mod.rs): a task blocked in a receive still has the waiter slot, so that
\* the next send finds it, or somebody is about to wake it.
BlockedHasWaker ==
    \A s \in Waiting : states[s] = "Blocked" /\ pc[s] = "woken"
        => mailboxes[0].waiter = LiveId(s) \/ InHand(LiveId(s))

\* The waiter slot names a task that is blocked or about to block: no cancel,
\* send or revoke leaves a slot naming a task that has moved on, which would
\* refuse other receivers as Busy.
WaiterIsWaiting ==
    mailboxes[0].waiter # None =>
        LET s == Slot(mailboxes[0].waiter)
        IN pc[s] = "block" \/ (pc[s] = "woken" /\ states[s] = "Blocked")

\* No receive starts with a cancel flag that an earlier one left behind: the
\* flag is set only by waking a task out of a blocked receive, and that receive
\* takes it before it returns, whoever looked at the task's state earlier and
\* in another section.  So a receive that returns Cancelled was itself blocked
\* and cancelled; it need not be the receive the decision to cancel was about.
CancelTakenByItsReceive ==
    \A s \in Receivers : cancel_wait[s] => pc[s] = "woken" /\ states[s] # "Blocked"

\* "Blocking recv that cancels after `timeout_ticks` monotonic ticks"
\* (ipc/mod.rs): a timed receive that is blocked has its deadline in the table,
\* or somebody is cancelling it.
TimeoutPending ==
    \A s \in Waiting : timed[s] /\ states[s] = "Blocked"
        => LiveId(s) \in DOMAIN deadlines \/ InHand(LiveId(s))

\* A timeout ends the receive that armed it: whoever a poll is about to cancel
\* is not blocked in a receive without a timeout.  The code keeps this only as
\* long as nothing runs between the sections of poll_park_timeouts: with two
\* CPUs or preemption the entry taken out of the table outlives its receive.
TimeoutHitsTimed ==
    \A p \in Slots : pc[p] \in {"clear", "prepare"} /\ then[p] = "yield" =>
        \A i \in DOMAIN todo[p] :
            StateOf(todo[p][i]) = "Blocked" => timed[Slot(todo[p][i])]

\* A task blocked on an interrupt that was delivered has its token in the
\* queue or in the hands of a drain ("a drop is latency, not a lost task").
IrqDelivered ==
    \A s \in Waiting :
        pc[s] = "irq_woken" /\ states[s] = "Blocked" /\ pending[s] = LiveId(s)
            => InHand(LiveId(s)) \/ \E i \in DOMAIN wakes : wakes[i] = LiveId(s)

=============================================================================
