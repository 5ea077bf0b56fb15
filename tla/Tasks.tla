------------------------------- MODULE Tasks -------------------------------
(***************************************************************************)
(* The scheduler's task table: crates/kernel-core/src/tasks.rs over the    *)
(* FIFO ready queues of crates/kernel-core/src/runqueue.rs.                *)
(*                                                                         *)
(* The table is pure bookkeeping.  The kernel calls it under one lock, so  *)
(* each operation is one atomic action here.  What happens between two     *)
(* operations (the stack swap, the IPC table, interrupts) is the business  *)
(* of the modules that extend this one.                                    *)
(***************************************************************************)
EXTENDS Integers, Sequences, FiniteSets

CONSTANTS
    N,          \* slots in the table (MAX_TASKS in src/src/sched/mod.rs)
    EpochMod,   \* tenancy epochs before the u16 counter wraps (2^16)
    MaxOverwrites, \* bound on the overwrite counter that is explored
    IdleKinds   \* switches asked for while idle is current: {"Yield"} from the
                \* kernel's idle loops, all of them from the table's own tests

ASSUME NAssumption == N \in Nat \ {0, 1}
ASSUME EpochAssumption == EpochMod \in Nat \ {0}
ASSUME OverwriteAssumption == MaxOverwrites \in Nat
ASSUME IdleKindsAssumption == IdleKinds \subseteq {"Yield", "Preempt", "Block", "Exit"}

Slots == 0 .. N - 1
Cpus == {0, 1}
Epochs == 0 .. EpochMod - 1

\* TaskId: a slot and the epoch of the tenancy it names.
TaskIds == Slots \X Epochs
Slot(id) == id[1]
Epoch(id) == id[2]

IDLE == <<0, 0>>
NoTask == <<-1, 0>>         \* Option::None

States == {"Empty", "Ready", "Running", "Blocked"}
Kinds == {"Yield", "Preempt", "Block", "Exit"}

VARIABLES
    states,     \* [Slots -> States]
    epochs,     \* [Slots -> Epochs]
    home,       \* [Slots -> Cpus]
    stealeable, \* [Slots -> BOOLEAN]
    queues,     \* [Cpus -> Seq(TaskIds)], head first
    current,    \* [Cpus -> TaskIds]
    idle,       \* [Cpus -> TaskIds]; idle[1] = IDLE until CPU 1 has started
    parked,     \* the exited task whose stack awaits collection, or NoTask
    overwrites, \* exits that found `parked' taken
    peak        \* high-water mark of occupied slots

taskVars == <<states, epochs, home, stealeable, queues, current, idle,
              parked, overwrites, peak>>

-----------------------------------------------------------------------------
(* Queries *)

LiveId(s) == <<s, epochs[s]>>
Stale(id) == epochs[Slot(id)] # Epoch(id)
IsIdle(id) == id \in {idle[0], idle[1]}
Cpu1Started == idle[1] # IDLE
OnlineCpus == {0} \cup {c \in {1} : Cpu1Started}

\* Tasks::state: "None" for a stale id.
StateOf(id) == IF Stale(id) THEN "None" ELSE states[Slot(id)]

\* is_stealeable: opted in, live and not an idle task.
IsStealeable(id) == ~Stale(id) /\ stealeable[Slot(id)] /\ ~IsIdle(id)

LiveSlots(st) == {s \in Slots : st[s] # "Empty"}

\* note_occupancy, applied to the states an operation is about to write.
NoteOccupancy(st) ==
    peak' = IF Cardinality(LiveSlots(st)) > peak
            THEN Cardinality(LiveSlots(st)) ELSE peak

\* A slot is free when Empty and its last tenant's stack has been collected.
Free(s) == states[s] = "Empty" /\ Slot(parked) # s
FirstFree(s) == Free(s) /\ \A t \in Slots : Free(t) => s <= t

\* RunQueue<N>::enqueue refuses at capacity.
QueueFull(q) == Len(q) = N

\* Mutant: last in, first out.
EnqueueFront(q, id) == <<id>> \o q

\* RunQueue::enqueue of an id there is room for.
Enqueue(q, id) == Append(q, id)

\* The epoch of a slot's next tenant: a u16, wrapping_add(1).
NextEpoch(e) == (e + 1) % EpochMod

-----------------------------------------------------------------------------
(* Operations *)

\* Tasks::new followed by Tasks::start, as src/src/sched/mod.rs init does.
TasksInit ==
    /\ states = [s \in Slots |-> IF s = 0 THEN "Running" ELSE "Empty"]
    /\ epochs = [s \in Slots |-> 0]
    /\ home = [s \in Slots |-> 0]
    /\ stealeable = [s \in Slots |-> FALSE]
    /\ queues = [c \in Cpus |-> <<>>]
    /\ current = [c \in Cpus |-> IDLE]
    /\ idle = [c \in Cpus |-> IDLE]
    /\ parked = NoTask
    /\ overwrites = 0
    /\ peak = 1

\* start_cpu1: CPU 1 takes a slot as its idle identity, running and unqueued.
StartCpu1 ==
    /\ ~Cpu1Started
    /\ \E s \in Slots :
        /\ FirstFree(s)
        /\ states' = [states EXCEPT ![s] = "Running"]
        /\ home' = [home EXCEPT ![s] = 1]
        /\ current' = [current EXCEPT ![1] = LiveId(s)]
        /\ idle' = [idle EXCEPT ![1] = LiveId(s)]
        /\ NoteOccupancy(states')
    /\ UNCHANGED <<epochs, stealeable, queues, parked, overwrites>>

\* admit_on, for the slot it picks.
AdmitSlot(cpu, s) ==
    /\ FirstFree(s)
    /\ ~QueueFull(queues[cpu])
    /\ queues' = [queues EXCEPT ![cpu] = Enqueue(@, LiveId(s))]
    /\ states' = [states EXCEPT ![s] = "Ready"]
    /\ home' = [home EXCEPT ![s] = cpu]
    /\ stealeable' = [stealeable EXCEPT ![s] = FALSE]
    /\ NoteOccupancy(states')
    /\ UNCHANGED <<epochs, current, idle, parked, overwrites>>

AdmitOn(cpu) == \E s \in Slots : AdmitSlot(cpu, s)

SetStealeable(id, yes) ==
    /\ ~Stale(id)
    /\ ~IsIdle(id)
    /\ stealeable' = [stealeable EXCEPT ![Slot(id)] = yes]
    /\ UNCHANGED <<states, epochs, home, queues, current, idle, parked,
                   overwrites, peak>>

\* Tasks::wake answers true exactly for these ids.
CanWake(id) == ~Stale(id) /\ ~IsIdle(id) /\ states[Slot(id)] = "Blocked"

\* The state is written before the enqueue, which could refuse.
Wake(id) ==
    /\ CanWake(id)
    /\ states' = [states EXCEPT ![Slot(id)] = "Ready"]
    /\ queues' = [queues EXCEPT ![home[Slot(id)]] =
                    IF QueueFull(@) THEN @ ELSE Enqueue(@, id)]
    /\ UNCHANGED <<epochs, home, stealeable, current, idle, parked,
                   overwrites, peak>>

\* Mutant: the tenancy is ended by the collector, not by the exit.
CollectEndsTenancy ==
    /\ parked # NoTask
    /\ parked' = NoTask
    /\ epochs' = [epochs EXCEPT ![Slot(parked)] = NextEpoch(@)]
    /\ UNCHANGED <<states, home, stealeable, queues, current, idle,
                   overwrites, peak>>

\* Tasks::collect: the caller frees the stack of the task it takes.
Collect ==
    /\ parked # NoTask
    /\ parked' = NoTask
    /\ UNCHANGED <<states, epochs, home, stealeable, queues, current, idle,
                   overwrites, peak>>

-----------------------------------------------------------------------------
(* Work stealing: try_steal_into walks the peer's queue from its head,     *)
(* moving entries it may not take to the tail, up to the first that is     *)
(* stealeable (taken and re-homed) or is not Ready (the walk gives up).    *)

PassedOver(id) == states[Slot(id)] = "Ready" /\ ~IsStealeable(id)

\* Mutant: the entries the walk skips are not put back.
RotatedAway(q, k) == SubSeq(q, k + 1, Len(q))

\* The queue with its first k entries moved behind the others.
RotatedBy(q, k) == SubSeq(q, k + 1, Len(q)) \o SubSeq(q, 1, k)

StopsAt(q, k) == ~PassedOver(q[k]) /\ \A i \in 1 .. k - 1 : PassedOver(q[i])

\* The queues and homes after the walk stopped at entry k of the peer's queue.
StolenAt(thief, k) ==
    LET peer == 1 - thief
        q == queues[peer]
    IN IF states[Slot(q[k])] = "Ready"
       THEN [queues |-> [queues EXCEPT
                            ![peer] = Tail(RotatedBy(q, k - 1)),
                            ![thief] = <<q[k]>>],
             home   |-> [home EXCEPT ![Slot(q[k])] = thief]]
       ELSE [queues |-> [queues EXCEPT ![peer] = RotatedBy(q, k - 1)],
             home   |-> home]

NothingPulled == [queues |-> queues, home |-> home]

\* The one possible outcome of switch_on's pull, as a singleton set.  Only an
\* idle CPU with an empty queue pulls; a full walk leaves the queue as it was.
Pulled(cpu) ==
    LET q == queues[1 - cpu]
        stops == {k \in 1 .. Len(q) : StopsAt(q, k)}
    IN IF current[cpu] = idle[cpu] /\ queues[cpu] = <<>> /\ stops # {}
       THEN {StolenAt(cpu, k) : k \in stops}
       ELSE {NothingPulled}

-----------------------------------------------------------------------------
(* switch_on *)

Requeues(kind) == kind \in {"Yield", "Preempt"}

\* Idle neither blocks, exits nor is preempted, and a full queue refuses the
\* requeue: Decision::Stay, after the pull.
Refuses(cpu, kind, q) ==
    \/ current[cpu] = idle[cpu] /\ kind # "Yield"
    \/ Requeues(kind) /\ QueueFull(q)

Stay(pull) ==
    /\ queues' = pull.queues
    /\ home' = pull.home
    /\ UNCHANGED <<states, epochs, stealeable, current, idle, parked,
                   overwrites, peak>>

\* Mutant: a blocking task is left Running.
LeftRunning(kind, st) ==
    CASE kind = "Block" -> st
      [] kind = "Exit" -> "Empty"
      [] OTHER -> IF st = "Running" THEN "Ready" ELSE st

\* The state in which the task that leaves the CPU is left.
LeftIn(kind, st) ==
    CASE kind = "Block" -> "Blocked"
      [] kind = "Exit" -> "Empty"
      [] OTHER -> IF st = "Running" THEN "Ready" ELSE st

\* after_yield and what follows.  next = me is the lone yielder, which stays
\* Running: the second EXCEPT overrides the first.
Rotate(cpu, kind, pull) ==
    LET me == current[cpu]
        ready == IF Requeues(kind) THEN Enqueue(pull.queues[cpu], me)
                                   ELSE pull.queues[cpu]
        next == IF ready = <<>> THEN idle[cpu] ELSE Head(ready)
        rest == IF ready = <<>> THEN <<>> ELSE Tail(ready)
        exits == kind = "Exit"
    IN /\ queues' = [pull.queues EXCEPT ![cpu] = rest]
       /\ home' = pull.home
       /\ states' = [states EXCEPT ![Slot(me)] = LeftIn(kind, @),
                                   ![Slot(next)] = "Running"]
       /\ epochs' = IF exits
                    THEN [epochs EXCEPT ![Slot(me)] = NextEpoch(@)]
                    ELSE epochs
       /\ current' = [current EXCEPT ![cpu] = next]
       /\ parked' = IF exits THEN me ELSE parked
       /\ overwrites' = IF exits /\ parked # NoTask
                        THEN overwrites + 1 ELSE overwrites
       /\ UNCHANGED <<stealeable, idle, peak>>

SwitchOn(cpu, kind) ==
    \E pull \in Pulled(cpu) :
        IF Refuses(cpu, kind, pull.queues[cpu])
        THEN Stay(pull)
        ELSE Rotate(cpu, kind, pull)

\* Which switches are asked for.  The overwrite counter is unbounded in the
\* code; explore it up to MaxOverwrites.
Asked(cpu, kind) ==
    /\ current[cpu] = idle[cpu] => kind \in IdleKinds
    /\ kind = "Exit" /\ parked # NoTask => overwrites < MaxOverwrites

-----------------------------------------------------------------------------
(* The table under any order of the calls the kernel makes: CPU 1 is used  *)
(* once it has an idle identity, only running tasks mark themselves, and   *)
(* any id ever minted may be woken.                                        *)

TasksNext ==
    \/ StartCpu1
    \/ \E cpu \in OnlineCpus : AdmitOn(cpu)
    \/ \E cpu \in OnlineCpus, yes \in BOOLEAN : SetStealeable(current[cpu], yes)
    \/ \E id \in TaskIds : Wake(id)
    \/ Collect
    \/ \E cpu \in OnlineCpus, kind \in Kinds :
        Asked(cpu, kind) /\ SwitchOn(cpu, kind)

TasksSpec == TasksInit /\ [][TasksNext]_taskVars

-----------------------------------------------------------------------------
(* Properties *)

\* Every part of the table holds values of its type, no queue exceeds its
\* capacity, and slot 0 keeps the epoch IDLE names.
TasksTypeOK ==
    /\ states \in [Slots -> States]
    /\ epochs \in [Slots -> Epochs]
    /\ home \in [Slots -> Cpus]
    /\ stealeable \in [Slots -> BOOLEAN]
    /\ queues \in [Cpus -> Seq(TaskIds)]
    /\ \A c \in Cpus : Len(queues[c]) <= N
    /\ current \in [Cpus -> TaskIds]
    /\ idle \in [Cpus -> TaskIds]
    /\ idle[0] = IDLE
    /\ parked \in TaskIds \cup {NoTask}
    /\ overwrites \in Nat
    /\ peak \in Nat

\* Whatever a ready queue holds is the live id of a Ready slot whose home is
\* that queue's CPU: wake, admit, requeue and steal never leave a stale,
\* blocked or foreign entry behind (switch_on runs what it dequeues without
\* looking at its state or epoch).
QueuedIsReady ==
    \A c \in Cpus : \A i \in 1 .. Len(queues[c]) :
        LET id == queues[c][i]
        IN /\ id = LiveId(Slot(id))
           /\ states[Slot(id)] = "Ready"
           /\ home[Slot(id)] = c

\* No task is queued twice: one dequeue per wake, so no task can be handed to
\* a CPU while it already runs.
QueuedOnce ==
    \A c \in Cpus : \A i, j \in 1 .. Len(queues[c]) :
        queues[c][i] = queues[c][j] => i = j

\* A Ready task is on its home queue: no interleaving of steal, wake and
\* switch strands a runnable task outside every queue.
ReadyIsQueued ==
    \A s \in Slots : states[s] = "Ready" =>
        \E i \in 1 .. Len(queues[home[s]]) : queues[home[s]][i] = LiveId(s)

\* The ready queues are exact: within their types and capacity, they hold every
\* Ready task once, on its home CPU, and nothing else.
QueuesExact == TasksTypeOK /\ QueuedIsReady /\ QueuedOnce /\ ReadyIsQueued

\* Running is being the current task of exactly one started CPU, and a
\* current task runs on its home CPU.
RunningIsCurrent ==
    /\ \A c \in OnlineCpus : /\ current[c] = LiveId(Slot(current[c]))
                             /\ states[Slot(current[c])] = "Running"
                             /\ home[Slot(current[c])] = c
    /\ \A s \in Slots : states[s] = "Running" =>
                            \E c \in OnlineCpus : Slot(current[c]) = s

\* Each started CPU's idle identity is always current or ready on its own
\* CPU, so switch_on's fallback to idle is never needed (tasks.rs:514).
IdleCurrentOrQueued ==
    \A c \in OnlineCpus :
        /\ idle[c] = LiveId(Slot(idle[c]))
        /\ home[Slot(idle[c])] = c
        /\ \/ current[c] = idle[c]
           \/ states[Slot(idle[c])] = "Ready"

\* A slot whose stack is still parked is not handed to a new task: the stack
\* pointer hangs off the slot (tasks.rs:308).
ParkedSlotUnused ==
    parked # NoTask => states[Slot(parked)] = "Empty"

\* Each started CPU runs one live task of its own and always has its idle
\* identity to fall back on, and an exited task's slot waits for its collection
\* (switch_on, admit_on).
CpusExact == RunningIsCurrent /\ IdleCurrentOrQueued /\ ParkedSlotUnused

\* A task leaves Blocked only by a wake, which makes it Ready: nothing else
\* runs, ends or re-admits a parked task.
BlockedUntilWoken ==
    [][\A s \in Slots : states[s] = "Blocked" /\ states'[s] # "Blocked"
            => /\ states'[s] = "Ready"
               /\ epochs'[s] = epochs[s]
               /\ current' = current]_taskVars

\* A tenancy ends only by the running task's own exit, and the slot it leaves
\* is the parked one: no other CPU's step bumps an epoch.
EpochMovesOnExit ==
    [][\A s \in Slots : epochs'[s] # epochs[s]
            => /\ \E c \in OnlineCpus : Slot(current[c]) = s
               /\ states'[s] = "Empty"
               /\ parked' = LiveId(s)]_taskVars

\* Nobody but a waker ends a task's wait and nobody but the task ends its
\* tenancy, whichever CPU steps (wake, switch_on).
TenancyKept == BlockedUntilWoken /\ EpochMovesOnExit

\* Both CPUs keep scheduling: the timer's quantum and the idle loops call
\* switch_on on every CPU that is up (src/src/sched/mod.rs:391, 842).
TasksFairness ==
    \A cpu \in Cpus :
        WF_taskVars(cpu \in OnlineCpus /\ SwitchOn(cpu, "Yield"))

TasksFairSpec == TasksSpec /\ TasksFairness

\* Every Ready task gets a CPU: the queues are FIFO, and neither the steal
\* walk's rotation nor a peer's wakes can hold a task back for ever.
ReadyRuns ==
    \A s \in Slots : states[s] = "Ready" ~> states[s] = "Running"

=============================================================================
