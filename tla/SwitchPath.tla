----------------------------- MODULE SwitchPath -----------------------------
(***************************************************************************)
(* switch_with of src/src/sched/mod.rs: what the kernel does around one    *)
(* decision of the task table.  The scheduler lock is dropped between the  *)
(* decision, the bookkeeping and the stack swap, so each of these is an    *)
(* action of its own and the other CPU may run in between.  Interrupts are *)
(* masked throughout, so nothing else of the same CPU does.                *)
(*                                                                         *)
(* A saved context is abstracted to the stack its sp points into.          *)
(***************************************************************************)
EXTENDS Tasks

CONSTANTS
    Stacks,     \* the task stacks the heap can hand out
    Smp,        \* whether CPU 1 is ever started
    TaskKinds,  \* the switches tasks ask for
    Marks       \* whether tasks mark themselves stealeable (oracle builds)

BootStack(cpu) == <<"boot", cpu>>
NoStack == <<"none", 0>>
NoSession == -1             \* a null published pointer
AllStacks == Stacks \cup {BootStack(0), BootStack(1), NoStack}

Phases == {"run", "decided", "save", "load", "collect", "release"}

VARIABLES
    stack,      \* [Slots -> AllStacks]: Tcb::stack
    context,    \* [Slots -> AllStacks]: Tcb::context
    el0,        \* [Cpus -> Slots or NoSession]: whose EL0 session is published
    sp,         \* [Cpus -> AllStacks]: the stack a CPU executes on
    phase,      \* [Cpus -> Phases]
    sw,         \* [Cpus -> the Decision a CPU is carrying out]
    inHand,     \* [Cpus -> AllStacks]: taken for release, not yet freed
    freeStacks, \* stacks the heap can hand out
    abandoned   \* stacks leaked because their guard page could not be remapped

pathVars == <<stack, context, el0, sp, phase, sw, inHand, freeStacks, abandoned>>
vars == <<taskVars, pathVars>>

NoSwitch == [from |-> NoTask, to |-> NoTask, stranded |-> NoTask]

InPhase(cpu, p) == cpu \in OnlineCpus /\ phase[cpu] = p
Enter(cpu, p) == phase' = [phase EXCEPT ![cpu] = p]

\* TaskStack::release of at most one stack: back to the heap, or abandoned when
\* its guard page cannot be mapped again.
Release(ks) ==
    \/ freeStacks' = freeStacks \cup ks /\ UNCHANGED abandoned
    \/ ks # {} /\ abandoned' = abandoned \cup ks /\ UNCHANGED freeStacks

-----------------------------------------------------------------------------

SwitchInit ==
    /\ TasksInit
    /\ stack = [s \in Slots |-> NoStack]
    /\ context = [s \in Slots |-> NoStack]
    /\ el0 = [c \in Cpus |-> IF c = 0 THEN 0 ELSE NoSession]
    /\ sp = [c \in Cpus |-> BootStack(c)]
    /\ phase = [c \in Cpus |-> "run"]
    /\ sw = [c \in Cpus |-> NoSwitch]
    /\ inHand = [c \in Cpus |-> NoStack]
    /\ freeStacks = Stacks
    /\ abandoned = {}

\* start_cpu1: core 1 keeps the stack it booted on.  It publishes its session
\* with its first switch.
BringUpCpu1 ==
    /\ Smp
    /\ phase[0] = "run"
    /\ StartCpu1
    /\ UNCHANGED pathVars

\* spawn_on_inner.  A stack that finds no slot goes straight back to the heap.
\* Writing the Tcb drops the old one, and a dropped TaskStack is leaked.
Spawn(cpu, target) ==
    /\ InPhase(cpu, "run")
    /\ \E k \in freeStacks, s \in Slots :
        /\ AdmitSlot(target, s)
        /\ stack' = [stack EXCEPT ![s] = k]
        /\ context' = [context EXCEPT ![s] = k]
        /\ freeStacks' = freeStacks \ {k}
    /\ UNCHANGED <<el0, sp, phase, sw, inHand, abandoned>>

Mark(cpu, yes) ==
    /\ Marks
    /\ InPhase(cpu, "run")
    /\ SetStealeable(current[cpu], yes)
    /\ UNCHANGED pathVars

\* wake_task, from a running task or from an exit's cascade.
WakeTask(cpu, id) ==
    /\ InPhase(cpu, "run") \/ InPhase(cpu, "decided")
    /\ Wake(id)
    /\ UNCHANGED pathVars

\* The first critical section: the decision, and for an exit the end of the
\* slot's context.
Decide(cpu, kind) ==
    LET me == current[cpu]
        switched == current'[cpu] # me
        exits == switched /\ kind = "Exit"
    IN /\ InPhase(cpu, "run")
       /\ kind \in IF me = idle[cpu] THEN IdleKinds ELSE TaskKinds
       /\ Asked(cpu, kind)
       /\ SwitchOn(cpu, kind)
       /\ IF switched THEN Enter(cpu, "decided") ELSE UNCHANGED phase
       /\ sw' = IF switched
                THEN [sw EXCEPT ![cpu] = [from |-> me, to |-> current'[cpu],
                        stranded |-> IF exits THEN parked ELSE NoTask]]
                ELSE sw
       /\ context' = IF exits THEN [context EXCEPT ![Slot(me)] = NoStack]
                              ELSE context
       /\ UNCHANGED <<stack, el0, sp, inHand, freeStacks, abandoned>>

\* The second: free the stack of a stranded exit, publish the session of the
\* task that runs next, and take the context pointers.
Relock(cpu) ==
    LET stranded == sw[cpu].stranded
        freed == IF stranded = NoTask THEN {} ELSE {stack[Slot(stranded)]}
    IN /\ InPhase(cpu, "decided")
       /\ stack' = IF stranded = NoTask THEN stack
                   ELSE [stack EXCEPT ![Slot(stranded)] = NoStack]
       /\ Release(freed \ {NoStack})
       /\ el0' = [el0 EXCEPT ![cpu] = Slot(sw[cpu].to)]
       /\ Enter(cpu, "save")
       /\ UNCHANGED <<taskVars, context, sp, sw, inHand>>

\* Mutant: the arguments of context_switch are swapped.
SaveSwapped(cpu) ==
    /\ InPhase(cpu, "save")
    /\ context' = [context EXCEPT ![Slot(sw[cpu].to)] = sp[cpu]]
    /\ Enter(cpu, "load")
    /\ UNCHANGED <<taskVars, stack, el0, sp, sw, inHand, freeStacks, abandoned>>

\* context_switch, with the lock released: store to prev, then load from next.
SaveContext(cpu) ==
    /\ InPhase(cpu, "save")
    /\ context' = [context EXCEPT ![Slot(sw[cpu].from)] = sp[cpu]]
    /\ Enter(cpu, "load")
    /\ UNCHANGED <<taskVars, stack, el0, sp, sw, inHand, freeStacks, abandoned>>

LoadContext(cpu) ==
    /\ InPhase(cpu, "load")
    /\ sp' = [sp EXCEPT ![cpu] = context[Slot(sw[cpu].to)]]
    /\ sw' = [sw EXCEPT ![cpu] = NoSwitch]
    /\ Enter(cpu, "collect")
    /\ UNCHANGED <<taskVars, stack, context, el0, inHand, freeStacks, abandoned>>

\* Mutant: the parked stack is left for later.
CollectSkipped(cpu) ==
    /\ InPhase(cpu, "collect")
    /\ Enter(cpu, "run")
    /\ UNCHANGED <<taskVars, stack, context, el0, sp, sw, inHand, freeStacks, abandoned>>

\* collect_exited, at the end of switch_with and at the start of the trampoline:
\* take the parked stack under the lock, free it after.
CollectExited(cpu) ==
    /\ InPhase(cpu, "collect")
    /\ UNCHANGED <<context, el0, sp, sw, freeStacks, abandoned>>
    /\ \/ /\ parked = NoTask
          /\ Enter(cpu, "run")
          /\ UNCHANGED <<taskVars, stack, inHand>>
       \/ /\ Collect
          /\ inHand' = [inHand EXCEPT ![cpu] = stack[Slot(parked)]]
          /\ stack' = [stack EXCEPT ![Slot(parked)] = NoStack]
          /\ Enter(cpu, "release")

\* The collected stack is freed after the lock is dropped.
ReleaseStack(cpu) ==
    /\ InPhase(cpu, "release")
    /\ Release({inHand[cpu]} \ {NoStack})
    /\ inHand' = [inHand EXCEPT ![cpu] = NoStack]
    /\ Enter(cpu, "run")
    /\ UNCHANGED <<taskVars, stack, context, el0, sp, sw>>

SwitchStep(cpu) ==
    \/ Relock(cpu)
    \/ SaveContext(cpu)
    \/ LoadContext(cpu)
    \/ CollectExited(cpu)
    \/ ReleaseStack(cpu)

SwitchNext ==
    \/ BringUpCpu1
    \/ \E cpu \in OnlineCpus, target \in OnlineCpus : Spawn(cpu, target)
    \/ \E cpu \in OnlineCpus, yes \in BOOLEAN : Mark(cpu, yes)
    \/ \E cpu \in OnlineCpus, id \in TaskIds : WakeTask(cpu, id)
    \/ \E cpu \in OnlineCpus, kind \in Kinds : Decide(cpu, kind)
    \/ \E cpu \in OnlineCpus : SwitchStep(cpu)

SwitchSpec == SwitchInit /\ [][SwitchNext]_vars

\* A CPU in switch_with has its interrupts masked and never waits for longer
\* than the other CPU's critical sections, so it reaches the end.
SwitchFairSpec == SwitchSpec /\ \A cpu \in Cpus : WF_vars(SwitchStep(cpu))

-----------------------------------------------------------------------------
(* Properties *)

\* The stack a task runs on: the one attached to its slot, or for an idle task
\* the one its CPU booted on.
StackOf(id) == IF id = idle[0] THEN BootStack(0)
               ELSE IF id = idle[1] THEN BootStack(1) ELSE stack[Slot(id)]

\* A CPU that is not switching executes its current task on that task's own
\* stack, with that task's EL0 session published (CPU 1's idle loop publishes
\* none before its first switch): the decision, the publish and the swap agree
\* although the lock is dropped between them.
OnOwnStack ==
    \A c \in OnlineCpus : phase[c] = "run" =>
        /\ sp[c] = StackOf(current[c])
        /\ \/ el0[c] = Slot(current[c])
           \/ current[c] = idle[1] /\ el0[c] = NoSession

\* A task that is off every CPU can be resumed: its saved context points into
\* its own stack unless the CPU it is leaving has yet to save it.
ContextResumable ==
    \A s \in Slots :
        \/ states[s] \notin {"Ready", "Blocked"}
        \/ \E c \in OnlineCpus : phase[c] \in {"decided", "save"} /\ Slot(sw[c].from) = s
        \/ context[s] = StackOf(LiveId(s))

\* TaskStack::release: "No code may still be executing on this stack."
NoStackFreedInUse ==
    \A c, d \in OnlineCpus : sp[c] \notin freeStacks /\ sp[c] # inHand[d]

\* A stack is free, attached to a slot, in the hand of a collector or counted as
\* abandoned: no order of exits, spawns and collections loses one silently.
NoStackLeaked ==
    /\ \A k \in Stacks : \/ k \in freeStacks \cup abandoned
                         \/ \E s \in Slots : stack[s] = k
                         \/ \E c \in Cpus : inHand[c] = k
    /\ \A s \in Slots : stack[s] # NoStack =>
            states[s] # "Empty" \/ Slot(parked) = s
                                \/ \E c \in Cpus : Slot(sw[c].stranded) = s

\* No two CPUs execute on one stack.
OneCpuPerStack == \A c, d \in OnlineCpus : sp[c] = sp[d] => c = d

\* What switch_with keeps around every decision, whichever CPU runs between its
\* critical sections: the five invariants above.
StacksKept == /\ OnOwnStack /\ ContextResumable /\ OneCpuPerStack
              /\ NoStackFreedInUse /\ NoStackLeaked

\* An exited task's stack is collected by the switch that the exit itself
\* starts, without waiting for any other task to be scheduled.
ExitCollected == parked # NoTask ~> parked = NoTask

=============================================================================
