------------------------------- MODULE MCSched -------------------------------
(***************************************************************************)
(* The task table under its two users, one scene per behaviour (chosen at  *)
(* the start): switch_with on one CPU, exits included ("switch1"), and on  *)
(* two CPUs without exits ("switch2"); the waits and wakes on one CPU      *)
(* without preemption ("wait1") and on two CPUs with it ("wait2").         *)
(***************************************************************************)
EXTENDS Integers, FiniteSets, Sequences

CONSTANTS k1, k2, k3, m1, Empty

Kinds == {"Yield", "Preempt", "Block", "Exit"}
NoTask == <<-1, 0>>
WaitIds == (0 .. 3) \X {0, 1}

VARIABLES
    scene,
    states, epochs, home, stealeable, queues, current, idle, parked, overwrites, peak,
    stack, context, el0, sp, phase, sw, inHand, freeStacks, abandoned,
    endpoints, mailboxes, next_gen, refusals, ret,
    pc, todo, then, timed, result, busy, cancel_wait, deadlines, armed, pending, wakes

taskVars == <<states, epochs, home, stealeable, queues, current, idle,
              parked, overwrites, peak>>
pathVars == <<stack, context, el0, sp, phase, sw, inHand, freeStacks, abandoned>>
waitVars == <<endpoints, mailboxes, next_gen, refusals, ret,
              pc, todo, then, timed, result, busy, cancel_wait, deadlines,
              armed, pending, wakes>>
schedVars == <<scene, taskVars, pathVars, waitVars>>

SwitchOne == INSTANCE SwitchPath WITH
    N <- 4, EpochMod <- 1, MaxOverwrites <- 1, IdleKinds <- {"Yield"}, Smp <- FALSE, Marks <- TRUE,
    Stacks <- {k1, k2, k3}, TaskKinds <- Kinds

SwitchTwo == INSTANCE SwitchPath WITH
    N <- 5, EpochMod <- 1, MaxOverwrites <- 0, IdleKinds <- {"Yield"}, Smp <- TRUE, Marks <- FALSE,
    Stacks <- {k1, k2, k3}, TaskKinds <- Kinds \ {"Exit"}

OneCpu == INSTANCE WaitPath WITH
    N <- 4, EpochMod <- 2, MaxOverwrites <- 0, IdleKinds <- {"Yield"},
    Smp <- FALSE, Preemption <- FALSE, OnCpu1 <- {}, Ephemeral <- TRUE,
    Receivers <- {1}, IrqWaiters <- {2}, Worker <- 3,
    Calls <- {"Recv", "TimedRecv"}, Ops <- {"Send", "Reap", "Revoke", "Exit"},
    MaxArmed <- 2, Timeout <- 1, Cookies <- {"uart"}, QueueCap <- 1,
    MailboxCount <- 1, EndpointCount <- 2, Depth <- 1, GenMax <- 2, HoldersMax <- 2,
    Msgs <- {m1}, MaxStateRefusals <- 1, Waiters <- WaitIds, None <- NoTask, CapLists <- {}

TwoCpus == INSTANCE WaitPath WITH
    N <- 4, EpochMod <- 2, MaxOverwrites <- 0, IdleKinds <- {"Yield"},
    Smp <- TRUE, Preemption <- TRUE, OnCpu1 <- {1, 2}, Ephemeral <- TRUE,
    Receivers <- {2}, IrqWaiters <- {}, Worker <- 3,
    Calls <- {"Recv", "TimedRecv"}, Ops <- {"Send", "Reap", "Revoke", "Exit"},
    MaxArmed <- 2, Timeout <- 1, Cookies <- {}, QueueCap <- 0,
    MailboxCount <- 1, EndpointCount <- 2, Depth <- 1, GenMax <- 2, HoldersMax <- 2,
    Msgs <- {m1}, MaxStateRefusals <- 1, Waiters <- WaitIds, None <- NoTask, CapLists <- {}

NoPath ==
    /\ stack = 0 /\ context = 0 /\ el0 = 0 /\ sp = 0 /\ phase = 0 /\ sw = 0
    /\ inHand = 0 /\ freeStacks = 0 /\ abandoned = 0

NoWait ==
    /\ mailboxes = [b \in {0} |-> [len |-> 0]] /\ timed = [s \in 0 .. 3 |-> FALSE]
    /\ endpoints = 0 /\ next_gen = 0 /\ refusals = 0 /\ ret = 0
    /\ pc = 0 /\ todo = 0 /\ then = 0 /\ result = 0 /\ busy = 0
    /\ cancel_wait = 0 /\ deadlines = 0 /\ armed = 0 /\ pending = 0 /\ wakes = 0

SchedInit ==
    \/ scene = "switch1" /\ SwitchOne!SwitchInit /\ NoWait
    \/ scene = "switch2" /\ SwitchTwo!SwitchInit /\ NoWait
    \/ scene = "wait1" /\ OneCpu!WaitInit /\ NoPath
    \/ scene = "wait2" /\ TwoCpus!WaitInit /\ NoPath

SchedNext ==
    \/ scene = "switch1" /\ SwitchOne!SwitchNext /\ UNCHANGED <<scene, waitVars>>
    \/ scene = "switch2" /\ SwitchTwo!SwitchNext /\ UNCHANGED <<scene, waitVars>>
    \/ scene = "wait1" /\ OneCpu!WaitNext /\ UNCHANGED <<scene, pathVars>>
    \/ scene = "wait2" /\ TwoCpus!WaitNext /\ UNCHANGED <<scene, pathVars>>

\* The fairness of SwitchFairSpec and WaitFairSpec, each in its scene; two CPUs
\* are checked for safety only.
SwitchRuns ==
    scene = "switch1" /\ SwitchOne!SwitchStep(0) /\ UNCHANGED <<scene, waitVars>>

WaitRuns ==
    /\ scene = "wait1" /\ \E s \in 0 .. 3 : OneCpu!Executes(0, s) /\ OneCpu!Step(s)
    /\ UNCHANGED <<scene, pathVars>>

TimerTicks == scene = "wait1" /\ OneCpu!Tick /\ UNCHANGED <<scene, pathVars>>

SchedSpec ==
    /\ SchedInit /\ [][SchedNext]_schedVars
    /\ WF_schedVars(SwitchRuns) /\ WF_schedVars(WaitRuns) /\ WF_schedVars(TimerTicks)

-----------------------------------------------------------------------------
(* Properties of one scene *)

\* Around every switch_with, a CPU runs on its current task's own stack with
\* that task's session published, a task off every CPU can be resumed, no
\* stack in use is freed and none is lost (SwitchPath's OnOwnStack,
\* ContextResumable, NoStackFreedInUse, NoStackLeaked).
StacksKept ==
    /\ scene = "switch1" => SwitchOne!StacksKept
    /\ scene = "switch2" => SwitchTwo!StacksKept

\* An exited task's stack is collected by the switch its exit starts.
ExitCollected == scene = "switch1" /\ parked # NoTask ~> parked = NoTask

\* Without preemption, whoever is blocked in a receive is still the waiter of
\* its mailbox or about to be woken, and no mailbox names a task that moved on.
BlockedHasWaker ==
    scene = "wait1" => OneCpu!BlockedHasWaker /\ OneCpu!WaiterIsWaiting

\* A task blocked on an interrupt that was delivered has its wake token in the
\* queue or in the hands of a drain.
IrqDelivered == scene = "wait1" => OneCpu!IrqDelivered

\* Every queued message is received unless its channel is revoked, and every
\* timed receive returns.
WaitsEnd ==
    /\ scene = "wait1" /\ mailboxes[0].len > 0 ~> mailboxes[0].len = 0
    /\ scene = "wait1" /\ timed[1] ~> ~timed[1]

\* Across CPUs and preemption, no receive starts with a cancel flag left by an
\* earlier one, although supervisor_reap_blocked, poll_park_timeouts and the
\* exit of a parent read the state of a task in one section and cancel it in
\* another; and the mailbox table never counts a state refusal.
CancelTakenByItsReceive ==
    scene = "wait2" => TwoCpus!CancelTakenByItsReceive /\ refusals = 0
=============================================================================
