----------------------------- MODULE SwitchProof -----------------------------
(***************************************************************************)
(* Proofs about switch_with (SwitchPath): for every number of slots,       *)
(* stacks and epochs, the stack swap agrees with the task table although   *)
(* the lock is dropped between the decision, the bookkeeping and the swap. *)
(* The table's own invariant IInv is a conjunct: the path trusts it for    *)
(* which task is queued where.  Every lemma here takes from the table that *)
(* IInv is kept and that rotations have their effect (RotationsExact);     *)
(* SchedProof shows both and draws the theorems.                           *)
(***************************************************************************)
EXTENDS SwitchPath, TasksInv, TLAPS

\* The heap hands out no boot stack, and a missing stack is none of its own.
StacksApart == Stacks \cap {BootStack(0), BootStack(1), NoStack} = {}

\* The kernels the argument is about: one CPU, or two CPUs whose tasks neither
\* exit nor let themselves be stolen.  (With two CPUs an exit frees the stack
\* its own CPU is still on, and a steal can resume a task that is not saved.)
CpusApart == ~Smp \/ ("Exit" \notin TaskKinds /\ ~Marks)

\* switch_with is between its decision and the load of the next context.
Leaving(c) == phase[c] \in {"decided", "save", "load"}

IdleSlot(s) == s = 0 \/ (Cpu1Started /\ s = Slot(idle[1]))

\* The stack of the task in a slot: StackOf by slot, which is all it depends on.
SlotStack(s) == IF s = 0 THEN BootStack(0)
                ELSE IF IdleSlot(s) THEN BootStack(1) ELSE stack[s]

PathTypes ==
    /\ stack \in [Slots -> Stacks \cup {NoStack}]
    /\ context \in [Slots -> AllStacks]
    /\ el0 \in [Cpus -> Slots \cup {NoSession}]
    /\ sp \in [Cpus -> AllStacks]
    /\ phase \in [Cpus -> Phases]
    /\ sw \in [Cpus -> [from : TaskIds \cup {NoTask}, to : TaskIds \cup {NoTask},
                        stranded : {NoTask}]]
    /\ inHand \in [Cpus -> Stacks \cup {NoStack}]
    /\ freeStacks \subseteq Stacks
    /\ abandoned \subseteq Stacks

\* CPU 1 runs, tasks mark themselves and exits park only where CpusApart allows.
Apart ==
    /\ ~Smp => ~Cpu1Started
    /\ Smp => parked = NoTask /\ \A s \in Slots : stealeable[s] = FALSE
    /\ inHand[1] = NoStack
    /\ phase[0] # "release" => inHand[0] = NoStack
    /\ parked # NoTask => /\ phase[0] \in {"decided", "save", "load", "collect"}
                          /\ Leaving(0) => sw[0].from = parked

\* A stack has one owner: a live or parked slot, the collector or the heap.
OneOwner ==
    /\ \A s \in Slots : stack[s] # NoStack <=>
            \/ states[s] # "Empty" /\ ~IdleSlot(s)
            \/ Slot(parked) = s
    /\ \A s, t \in Slots : stack[s] = stack[t] /\ stack[s] # NoStack => s = t
    /\ \A s \in Slots : /\ stack[s] \notin freeStacks
                        /\ stack[s] # NoStack => stack[s] # inHand[0]
    /\ inHand[0] \notin freeStacks
    /\ \A k \in Stacks : \/ k \in freeStacks \cup abandoned
                         \/ \E s \in Slots : stack[s] = k
                         \/ \E c \in Cpus : inHand[c] = k

\* What a CPU that is leaving a task still has to do is what it decided, and
\* the task it goes to can be resumed.
CarriesOut(c) ==
    LET f == sw[c].from
        s == Slot(f)
    IN /\ sw[c].to = current[c]
       /\ f \in TaskIds
       /\ states[s] # "Running"
       /\ states[s] = "Empty" => parked = f
       /\ states[s] # "Empty" => f = LiveId(s) /\ (Smp => home[s] = c)
       /\ context[Slot(current[c])] = SlotStack(Slot(current[c]))

Decided ==
    \A c \in Cpus :
        /\ c \notin OnlineCpus => /\ phase[c] = "run" /\ sp[c] = BootStack(c)
                                  /\ el0[c] = NoSession
        /\ ~Leaving(c) => sw[c] = NoSwitch
        /\ Leaving(c) => CarriesOut(c)

\* The stack and the session of every CPU that is up.
OnStack ==
    \A c \in OnlineCpus :
        /\ sp[c] = SlotStack(Slot(IF Leaving(c) THEN sw[c].from ELSE current[c]))
        /\ phase[c] # "decided" => \/ el0[c] = Slot(current[c])
                                   \/ c = 1 /\ current[c] = idle[1] /\ el0[c] = NoSession

\* A task off every CPU is saved on its own stack, or is about to be.
Saved ==
    \A s \in Slots :
        \/ states[s] \notin {"Ready", "Blocked"}
        \/ \E c \in OnlineCpus : phase[c] \in {"decided", "save"} /\ Slot(sw[c].from) = s
        \/ context[s] = SlotStack(s)

PathInv == /\ IInv /\ PathTypes /\ Apart /\ OneOwner /\ Decided /\ OnStack
           /\ Saved

-----------------------------------------------------------------------------
(* What the invariant gives *)

\* What the invariant gives about the slots of ids, used by every action of the table and the path.
LEMMA IdFacts ==
  ASSUME IInv
  PROVE  /\ \A c \in Cpus : /\ Slot(current[c]) \in Slots
                            /\ Slot(idle[c]) \in Slots
         /\ 0 \in Slots /\ 0 \in Epochs /\ 0 \in OnlineCpus
         /\ OnlineCpus \subseteq Cpus
         /\ states[0] \in {"Running", "Ready"}
<1>1. /\ \A c \in Cpus : Slot(current[c]) \in Slots /\ Slot(idle[c]) \in Slots
      /\ OnlineCpus \subseteq Cpus /\ 0 \in OnlineCpus
  BY Zenon DEF IInv, TasksTypeOK, TaskIds, Slot, Cpus, OnlineCpus
<1>2. 0 \in Slots /\ 0 \in Epochs
  BY NAssumption, EpochAssumption DEF Slots, Epochs
<1>3. idle[0] = IDLE /\ Slot(IDLE) = 0
  BY Zenon DEF IInv, TasksTypeOK, IDLE, Slot
<1>4. states[0] \in {"Running", "Ready"}
  BY <1>1, <1>3 DEF IInv, IdleCurrentOrQueued, RunningIsCurrent
<1> QED BY <1>1, <1>2, <1>4, Zenon

\* The CPUs that are up are CPUs, and the boot CPU is one of them.
LEMMA CpuSets == 0 \in Cpus /\ 1 \in Cpus /\ 0 \in OnlineCpus /\ OnlineCpus \subseteq Cpus
BY Zenon DEF Cpus, OnlineCpus

\* The missing id names no slot.
LEMMA NoTaskOut == Slot(NoTask) \notin Slots /\ NoTask \notin TaskIds
BY DEF Slot, NoTask, Slots, TaskIds

\* The ids a CPU holds name slots.
LEMMA SlotsKnown ==
  ASSUME PathInv
  PROVE  /\ 0 \in Slots
         /\ \A c \in Cpus : Slot(current[c]) \in Slots /\ Slot(idle[c]) \in Slots
<1>1. IInv
  BY Zenon DEF PathInv
<1> QED BY <1>1, IdFacts, Zenon

\* A CPU that is up runs a live task that is at home there.
LEMMA CurrentRuns ==
  ASSUME PathInv
  PROVE  \A c \in OnlineCpus : /\ states[Slot(current[c])] = "Running"
                               /\ current[c] = LiveId(Slot(current[c]))
                               /\ home[Slot(current[c])] = c
<1>1. RunningIsCurrent
  BY Zenon DEF PathInv, IInv
<1> QED BY <1>1, Zenon DEF RunningIsCurrent

\* Two CPUs that are up run two tasks.
LEMMA CurrentsApart ==
  ASSUME PathInv
  PROVE  \A c, d \in OnlineCpus : Slot(current[c]) = Slot(current[d]) => c = d
BY CurrentRuns, Zenon

\* An idle task runs or waits in the queue.
LEMMA IdleLive ==
  ASSUME PathInv
  PROVE  \A s \in Slots : IdleSlot(s) => states[s] \in {"Running", "Ready"}
<1>1. /\ IdleCurrentOrQueued /\ idle[0] = IDLE
  BY Zenon DEF PathInv, IInv, TasksTypeOK
<1>2. Slot(idle[0]) = 0
  BY <1>1 DEF IDLE, Slot
<1>3. \A c \in OnlineCpus : states[Slot(idle[c])] \in {"Running", "Ready"}
  BY <1>1, CurrentRuns, Zenon DEF IdleCurrentOrQueued
<1> QED BY <1>2, <1>3, Zenon DEF IdleSlot, OnlineCpus

\* A CPU that is leaving a task is up, and the task has a slot.
LEMMA LeavingKnown ==
  ASSUME PathInv
  PROVE  \A c \in Cpus : Leaving(c) => c \in OnlineCpus /\ Slot(sw[c].from) \in Slots
<1>1. Decided
  BY Zenon DEF PathInv
<1> QED BY <1>1, Zenon DEF Decided, CarriesOut, Leaving, TaskIds, Slot

\* Without a second CPU the boot CPU is the only one.
LEMMA OneCpu ==
  ASSUME PathInv
  PROVE  ~Smp => OnlineCpus = {0}
<1>1. Apart
  BY Zenon DEF PathInv
<1> QED BY <1>1, Zenon DEF Apart, OnlineCpus

\* The stack of a live task, and of a slot that is empty, is its slot's.
LEMMA StackBySlot ==
  ASSUME IInv, NEW id \in TaskIds,
         id = LiveId(Slot(id)) \/ states[Slot(id)] = "Empty"
  PROVE  StackOf(id) = SlotStack(Slot(id))
<1>1. /\ idle[0] = LiveId(0) /\ idle[0] = <<0, 0>> /\ Slot(idle[0]) = 0
      /\ states[0] # "Empty"
  <2>1. idle[0] = LiveId(Slot(idle[0])) /\ idle[0] = <<0, 0>> /\ states[0] # "Empty"
    BY IdFacts, Zenon DEF IInv, IdleCurrentOrQueued, TasksTypeOK, IDLE
  <2> QED BY <2>1 DEF Slot
<1>2. Cpu1Started => /\ idle[1] = LiveId(Slot(idle[1])) /\ Slot(idle[1]) # 0
                     /\ states[Slot(idle[1])] # "Empty"
  <2> SUFFICES ASSUME Cpu1Started
               PROVE  /\ idle[1] = LiveId(Slot(idle[1])) /\ Slot(idle[1]) # 0
                      /\ states[Slot(idle[1])] # "Empty"
    BY Zenon
  <2>1. 1 \in OnlineCpus /\ 0 \in OnlineCpus
    BY Zenon DEF OnlineCpus
  <2>2. /\ idle[1] = LiveId(Slot(idle[1])) /\ home[Slot(idle[1])] = 1
        /\ home[Slot(idle[0])] = 0
        /\ states[Slot(idle[1])] # "Empty"
    BY <2>1, Zenon DEF IInv, IdleCurrentOrQueued, RunningIsCurrent
  <2> QED BY <2>2, <1>1
<1>3. ~Cpu1Started => idle[1] = idle[0]
  BY Zenon DEF Cpu1Started, IInv, TasksTypeOK
<1>4. CASE Slot(id) = 0
  <2>1. id = idle[0]
    BY <1>1, <1>4, Zenon
  <2> QED BY <2>1, <1>4, Zenon DEF StackOf, SlotStack
<1>5. CASE Slot(id) # 0
  <2>1. id # idle[0]
    BY <1>1, <1>5, Zenon
  <2>2. id = idle[1] <=> Cpu1Started /\ Slot(id) = Slot(idle[1])
    BY <1>2, <1>3, <2>1
  <2> QED BY <1>5, <2>1, <2>2, Zenon DEF StackOf, SlotStack, IdleSlot
<1> QED BY <1>4, <1>5, Zenon

\* The stack a CPU executes on is the boot stack of its idle task or one that
\* is attached to a slot, so it is no stack of the heap or of a collector.
LEMMA StackInUse ==
  ASSUME PathInv, StacksApart, NEW c \in OnlineCpus
  PROVE  LET s == Slot(IF Leaving(c) THEN sw[c].from ELSE current[c])
         IN /\ s \in Slots
            /\ sp[c] = SlotStack(s)
            /\ \/ IdleSlot(s) /\ sp[c] \in {BootStack(0), BootStack(1)}
               \/ ~IdleSlot(s) /\ sp[c] = stack[s] /\ stack[s] # NoStack
            /\ IdleSlot(s) => states[s] # "Empty"
<1> DEFINE x == IF Leaving(c) THEN sw[c].from ELSE current[c]
           s == Slot(x)
<1>1. s \in Slots /\ c \in Cpus
  BY CpuSets, SlotsKnown, LeavingKnown, Zenon
<1>2. states[s] # "Empty" \/ Slot(parked) = s
  <2>1. CASE Leaving(c)
    BY <1>1, <2>1, Zenon DEF PathInv, Decided, CarriesOut
  <2>2. CASE ~Leaving(c)
    BY <2>2, CurrentRuns, Zenon
  <2> QED BY <2>1, <2>2, Zenon
<1>3. sp[c] = SlotStack(s)
  BY Zenon DEF PathInv, OnStack
<1>4. IdleSlot(s) => states[s] # "Empty"
  BY <1>1, IdleLive, Zenon
<1>5. CASE IdleSlot(s)
  BY <1>1, <1>3, <1>4, <1>5, Zenon DEF SlotStack
<1>6. CASE ~IdleSlot(s)
  <2>1. stack[s] # NoStack
    BY <1>1, <1>2, <1>6, Zenon DEF PathInv, OneOwner
  <2>2. SlotStack(s) = stack[s]
    BY <1>6, Zenon DEF SlotStack, IdleSlot
  <2> QED BY <1>1, <1>3, <1>6, <2>1, <2>2, Zenon
<1> QED BY <1>5, <1>6, Zenon

\* The invariant is enough.
LEMMA PathIsEnough == PathInv /\ StacksApart => StacksKept
<1> SUFFICES ASSUME PathInv, StacksApart PROVE StacksKept
  BY Zenon
<1>1. OnOwnStack
  <2> SUFFICES ASSUME NEW c \in OnlineCpus, phase[c] = "run"
               PROVE  /\ sp[c] = StackOf(current[c])
                      /\ \/ el0[c] = Slot(current[c])
                         \/ current[c] = idle[1] /\ el0[c] = NoSession
    BY Zenon DEF OnOwnStack
  <2>1. ~Leaving(c)
    BY Zenon DEF Leaving
  <2>2. current[c] \in TaskIds /\ current[c] = LiveId(Slot(current[c]))
    BY CpuSets, CurrentRuns, Zenon DEF PathInv, IInv, TasksTypeOK
  <2>3. StackOf(current[c]) = SlotStack(Slot(current[c]))
    BY <2>2, StackBySlot, Zenon DEF PathInv
  <2> QED BY <2>1, <2>3, Zenon DEF PathInv, OnStack
<1>2. ContextResumable
  <2> SUFFICES ASSUME NEW s \in Slots, context[s] = SlotStack(s)
               PROVE  context[s] = StackOf(LiveId(s))
    BY Zenon DEF PathInv, Saved, ContextResumable
  <2>1. LiveId(s) \in TaskIds /\ Slot(LiveId(s)) = s
    BY Zenon DEF PathInv, IInv, TasksTypeOK, LiveId, TaskIds, Slot
  <2> QED BY <2>1, StackBySlot, Zenon DEF PathInv
<1>3. OneCpuPerStack
  <2> SUFFICES ASSUME NEW c \in OnlineCpus, NEW d \in OnlineCpus, sp[c] = sp[d], c # d
               PROVE  FALSE
    BY Zenon DEF OneCpuPerStack
  <2> DEFINE S(e) == Slot(IF Leaving(e) THEN sw[e].from ELSE current[e])
  <2>1. Smp /\ c \in Cpus /\ d \in Cpus /\ parked = NoTask
    <3>1. c \in Cpus /\ d \in Cpus /\ (~Smp => c = 0 /\ d = 0)
      BY CpuSets, OneCpu, Zenon
    <3> QED BY Zenon, <3>1 DEF PathInv, Apart
  <2>2. \A e \in OnlineCpus : home[S(e)] = e
    <3> SUFFICES ASSUME NEW e \in OnlineCpus PROVE home[S(e)] = e
      BY Zenon
    <3>1. CASE Leaving(e)
      BY <2>1, <3>1, CpuSets, NoTaskOut, Zenon DEF PathInv, Decided, CarriesOut
    <3>2. CASE ~Leaving(e)
      BY <3>2, CurrentRuns, Zenon
    <3> QED BY <3>1, <3>2, Zenon
  <2>3. \A e \in OnlineCpus :
            /\ S(e) \in Slots
            /\ sp[e] = SlotStack(S(e))
            /\ \/ IdleSlot(S(e)) /\ sp[e] \in {BootStack(0), BootStack(1)}
               \/ ~IdleSlot(S(e)) /\ sp[e] = stack[S(e)] /\ stack[S(e)] # NoStack
    BY StackInUse, Zenon
  <2>4. \A s \in Slots : stack[s] \notin {BootStack(0), BootStack(1)}
    <3>1. BootStack(0) # NoStack /\ BootStack(1) # NoStack
      BY Zenon DEF BootStack, NoStack
    <3> QED BY <3>1, Zenon DEF PathInv, PathTypes, StacksApart
  <2>5. S(c) # S(d)
    BY <2>2, Zenon
  <2>6. BootStack(0) # BootStack(1)
    BY DEF BootStack
  <2> HIDE DEF S
  <2>7. CASE IdleSlot(S(c)) /\ IdleSlot(S(d))
    BY <2>3, <2>5, <2>6, <2>7, Zenon DEF SlotStack, IdleSlot
  <2>8. CASE ~IdleSlot(S(c)) /\ ~IdleSlot(S(d))
    BY <2>3, <2>5, <2>8 DEF PathInv, OneOwner
  <2> QED BY <2>3, <2>4, <2>7, <2>8, Zenon
<1>4. NoStackFreedInUse
  <2> SUFFICES ASSUME NEW c \in OnlineCpus, NEW d \in OnlineCpus
               PROVE  sp[c] \notin freeStacks /\ sp[c] # inHand[d]
    BY Zenon DEF NoStackFreedInUse
  <2>1. PICK s \in Slots : \/ sp[c] \in {BootStack(0), BootStack(1)}
                           \/ sp[c] = stack[s] /\ stack[s] # NoStack
    BY StackInUse, Zenon
  <2>2. inHand[d] \in Stacks \cup {NoStack} /\ freeStacks \subseteq Stacks
    BY CpuSets, Zenon DEF PathInv, PathTypes
  <2>3. CASE sp[c] \in {BootStack(0), BootStack(1)}
    <3>1. BootStack(0) # NoStack /\ BootStack(1) # NoStack
      BY Zenon DEF BootStack, NoStack
    <3> QED BY <3>1, <2>2, <2>3, Zenon DEF StacksApart
  <2>4. CASE sp[c] = stack[s] /\ stack[s] # NoStack
    <3>1. d = 0 \/ d = 1
      BY CpuSets, Zenon DEF Cpus
    <3> QED BY <2>4, <3>1, Zenon DEF PathInv, OneOwner, Apart
  <2> QED BY <2>1, <2>3, <2>4, Zenon
<1>5. NoStackLeaked
  BY Zenon DEF PathInv, OneOwner, NoStackLeaked
<1> QED BY <1>1, <1>2, <1>3, <1>4, <1>5, Zenon DEF StacksKept

-----------------------------------------------------------------------------
(* The table's steps *)

\* Every step of the path is a step of the table, or leaves the table alone.
LEMMA PathIsTable == [SwitchNext]_vars => [TasksNext]_taskVars
<1> SUFFICES ASSUME [SwitchNext]_vars PROVE [TasksNext]_taskVars
  BY Zenon
<1>1. CASE BringUpCpu1
  BY <1>1, Zenon DEF BringUpCpu1, TasksNext
<1>2. ASSUME NEW cpu \in OnlineCpus, NEW target \in OnlineCpus, Spawn(cpu, target)
      PROVE  TasksNext
  BY <1>2, Zenon DEF Spawn, TasksNext, AdmitOn
<1>3. ASSUME NEW cpu \in OnlineCpus, NEW yes \in BOOLEAN, Mark(cpu, yes)
      PROVE  TasksNext
  BY <1>3, Zenon DEF Mark, TasksNext
<1>4. ASSUME NEW cpu \in OnlineCpus, NEW id \in TaskIds, WakeTask(cpu, id)
      PROVE  TasksNext
  BY <1>4, Zenon DEF WakeTask, TasksNext
<1>5. ASSUME NEW cpu \in OnlineCpus, NEW kind \in Kinds, Decide(cpu, kind)
      PROVE  TasksNext
  BY <1>5, Zenon DEF Decide, TasksNext
<1>6. ASSUME NEW cpu \in OnlineCpus, SwitchStep(cpu) PROVE [TasksNext]_taskVars
  BY <1>6, Zenon DEF SwitchStep, Relock, SaveContext, LoadContext, CollectExited,
     ReleaseStack, TasksNext
<1>7. CASE UNCHANGED vars
  BY <1>7, Zenon DEF vars
<1> QED BY <1>1, <1>2, <1>3, <1>4, <1>5, <1>6, <1>7, Zenon DEF SwitchNext

\* Where no task is marked nothing is stolen: the walk passes every entry over.
LEMMA NothingStolen ==
  ASSUME IInv, NEW cpu \in OnlineCpus, \A s \in Slots : stealeable[s] = FALSE
  PROVE  Pulled(cpu) = {NothingPulled}
<1> DEFINE q == queues[1 - cpu]
<1>1. 1 - cpu \in Cpus
  BY DEF OnlineCpus, Cpus
<1>2. q \in Seq(TaskIds)
  BY <1>1, Zenon DEF IInv, TasksTypeOK
<1>3. \A k \in 1 .. Len(q) : ~StopsAt(q, k)
  <2> SUFFICES ASSUME NEW k \in 1 .. Len(q) PROVE PassedOver(q[k])
    BY Zenon DEF StopsAt
  <2>1. q[k] \in TaskIds
    BY <1>2
  <2>2. Slot(q[k]) \in Slots
    BY <2>1, Zenon DEF TaskIds, Slot
  <2>3. states[Slot(q[k])] = "Ready"
    BY <1>1, Zenon DEF IInv, Parts, QueuedIsReady
  <2> QED BY <2>2, <2>3, Zenon DEF PassedOver, IsStealeable
<1> QED BY <1>3, Zenon DEF Pulled

\* What a decision that changes the CPU's task does: the leaving slot me and the
\* slot n of the next task are two, and only they change.
DecideEffect(cpu, kind, me, n) ==
    /\ me \in Slots /\ n \in Slots /\ n # me
    /\ states[me] = "Running" /\ states[n] = "Ready"
    /\ current[cpu] = <<me, epochs[me]>>
    /\ states'[me] \in {"Ready", "Blocked", "Empty"}
    /\ states'[me] = "Empty" <=> kind = "Exit"
    /\ states'[n] = "Running"
    /\ \A s \in Slots : s \notin {me, n} => states'[s] = states[s]
    /\ \A s \in Slots : s # me => epochs'[s] = epochs[s]
    /\ kind # "Exit" => epochs' = epochs
    /\ current' = [current EXCEPT ![cpu] = <<n, epochs[n]>>]
    /\ parked' = (IF kind = "Exit" THEN current[cpu] ELSE parked)
    /\ kind = "Exit" => ~Smp /\ parked = NoTask /\ current[cpu] # idle[cpu]
    /\ Smp => home' = home /\ home[me] = cpu /\ home[n] = cpu
    /\ idle' = idle /\ stealeable' = stealeable
    /\ phase' = [phase EXCEPT ![cpu] = "decided"]
    /\ sw' = [sw EXCEPT ![cpu] = [from |-> current[cpu], to |-> <<n, epochs[n]>>,
                                  stranded |-> NoTask]]
    /\ context' = IF kind = "Exit" THEN [context EXCEPT ![me] = NoStack] ELSE context

\* The same task stays, whatever became of the queues.
SameTasks ==
    /\ UNCHANGED <<states, epochs, current, idle, parked>>
    /\ Smp => home' = home /\ stealeable' = stealeable

\* A decision keeps the task or has that effect.
LEMMA DecideFacts ==
  ASSUME PathInv, CpusApart, RotationsExact, NEW cpu \in OnlineCpus, NEW kind \in Kinds,
         Decide(cpu, kind)
  PROVE  \/ SameTasks /\ UNCHANGED pathVars
         \/ \E n \in Slots : DecideEffect(cpu, kind, Slot(current[cpu]), n)
<1> DEFINE me == Slot(current[cpu])
<1>1. /\ cpu \in Cpus /\ me \in Slots /\ IInv
      /\ current[cpu] = <<me, epochs[me]>> /\ states[me] = "Running"
  BY CpuSets, SlotsKnown, CurrentRuns, Zenon DEF PathInv, LiveId
<1>2. current \in [Cpus -> TaskIds] /\ IInv
  BY Zenon DEF PathInv, IInv, TasksTypeOK
<1>3. PICK pull \in Pulled(cpu) : IF Refuses(cpu, kind, pull.queues[cpu])
                                  THEN Stay(pull) ELSE Rotate(cpu, kind, pull)
  BY Zenon DEF Decide, SwitchOn
<1>4. Smp => pull.home = home
  <2> SUFFICES ASSUME Smp PROVE pull.home = home
    BY Zenon
  <2>1. \A s \in Slots : stealeable[s] = FALSE
    BY Zenon DEF PathInv, Apart
  <2>2. pull = NothingPulled
    <3>1. Pulled(cpu) = {NothingPulled}
      BY <2>1, <1>1, NothingStolen, Zenon
    <3> QED BY <3>1, Zenon
  <2> QED BY <2>2, Zenon DEF NothingPulled
<1>5. CASE Refuses(cpu, kind, pull.queues[cpu])
  <2>1. Stay(pull)
    BY <1>3, <1>5, Zenon
  <2>2. SameTasks
    BY <2>1, <1>4, Zenon DEF Stay, SameTasks
  <2>3. current'[cpu] = current[cpu]
    BY <2>2, Zenon DEF SameTasks
  <2>4. UNCHANGED pathVars
    BY <2>3, Zenon DEF Decide, pathVars
  <2> QED BY <2>2, <2>4, Zenon
<1>6. CASE ~Refuses(cpu, kind, pull.queues[cpu])
  <2>1. Rotate(cpu, kind, pull)
    BY <1>3, <1>6, Zenon
  <2>2. PICK n \in Slots : RotateEffect(cpu, kind, me, n)
    BY <2>1, <1>6, Zenon DEF RotationsExact
  <2>3. home' = pull.home
    BY <2>1, Zenon DEF Rotate
  <2>4. kind = "Exit" => ~Smp /\ parked = NoTask /\ current[cpu] # idle[cpu]
    <3> SUFFICES ASSUME kind = "Exit"
                 PROVE  ~Smp /\ parked = NoTask /\ current[cpu] # idle[cpu]
      BY Zenon
    <3>1. current[cpu] # idle[cpu]
      BY <1>6, Zenon DEF Refuses
    <3>2. "Exit" \in TaskKinds
      BY <3>1, Zenon DEF Decide
    <3>3. ~Smp
      BY <3>2, Zenon DEF CpusApart
    <3>4. cpu = 0 /\ phase[cpu] = "run"
      BY <3>3, OneCpu, Zenon DEF Decide, InPhase
    <3> QED BY <3>1, <3>3, <3>4, Zenon DEF PathInv, Apart
  <2>5. CASE n = me
    <3>1. kind # "Exit" /\ epochs' = epochs
      BY <2>2, <2>5, Zenon DEF RotateEffect
    <3>2. current' = current /\ parked' = parked /\ idle' = idle
          /\ stealeable' = stealeable
      BY <2>2, <2>5, <1>1, <1>2, Zenon DEF RotateEffect
    <3>3. states' = states
      <4>1. states' \in [Slots -> States] /\ states \in [Slots -> States]
        BY <2>2, Zenon DEF RotateEffect, Typed, PathInv, IInv, TasksTypeOK
      <4>2. \A s \in Slots : states'[s] = states[s]
        BY <2>2, <2>5, Zenon DEF RotateEffect
      <4> QED BY <4>1, <4>2
    <3>4. UNCHANGED pathVars
      BY <3>2, Zenon DEF Decide, pathVars
    <3> QED BY <3>1, <3>2, <3>3, <3>4, <2>3, <1>4, Zenon DEF SameTasks
  <2>6. CASE n # me
    <3>1. /\ states[n] = "Ready" /\ states'[n] = "Running"
          /\ states'[me] \in {"Ready", "Blocked", "Empty"}
          /\ states'[me] = "Empty" <=> kind = "Exit"
      BY <2>2, <2>6, <1>1, Zenon DEF RotateEffect, LeftIn
    <3>2. /\ \A s \in Slots : s \notin {me, n} => states'[s] = states[s]
          /\ \A s \in Slots : s # me => epochs'[s] = epochs[s]
          /\ kind # "Exit" => epochs' = epochs
      BY <2>2, Zenon DEF RotateEffect
    <3>3. current' = [current EXCEPT ![cpu] = <<n, epochs[n]>>]
      BY <2>2, Zenon DEF RotateEffect
    <3>4. /\ parked' = (IF kind = "Exit" THEN current[cpu] ELSE parked)
          /\ idle' = idle /\ stealeable' = stealeable
      BY <2>2, Zenon DEF RotateEffect
    <3>5. Smp => home' = home /\ home[me] = cpu /\ home[n] = cpu
      <4>1. home'[me] = cpu /\ home'[n] = cpu
        BY <2>2, Zenon DEF RotateEffect
      <4> QED BY <4>1, <2>3, <1>4, Zenon
    <3>6. current'[cpu] = <<n, epochs[n]>> /\ current'[cpu] # current[cpu]
      BY <3>3, <1>1, <1>2, <2>6
    <3>7. /\ phase' = [phase EXCEPT ![cpu] = "decided"]
          /\ sw' = [sw EXCEPT ![cpu] = [from |-> current[cpu], to |-> <<n, epochs[n]>>,
                                        stranded |-> NoTask]]
          /\ context' = IF kind = "Exit" THEN [context EXCEPT ![me] = NoStack] ELSE context
      BY <3>6, <2>4, Zenon DEF Decide, Enter
    <3> QED BY <1>1, <2>4, <3>1, <3>2, <3>3, <3>4, <3>5, <3>7, Zenon DEF DecideEffect
  <2> QED BY <2>5, <2>6, Zenon
<1> QED BY <1>5, <1>6, Zenon

-----------------------------------------------------------------------------
(* Every step keeps the invariant *)

\* The boot CPU starts on its own stack, with nothing to carry out.
LEMMA PathInit == SwitchInit /\ IInv /\ StacksApart => PathInv
<1> SUFFICES ASSUME SwitchInit, IInv, StacksApart PROVE PathInv
  BY Zenon
<1>1. IInv
  BY Zenon
<1>2. /\ 0 \in Slots /\ Slot(NoTask) \notin Slots /\ Slot(IDLE) = 0
      /\ OnlineCpus = {0} /\ ~Cpu1Started
  BY NAssumption DEF Slot, NoTask, IDLE, SwitchInit, TasksInit, OnlineCpus, Cpu1Started,
     Cpus
<1>3. /\ stack = [s \in Slots |-> NoStack] /\ context = [s \in Slots |-> NoStack]
      /\ el0 = [c \in Cpus |-> IF c = 0 THEN 0 ELSE NoSession]
      /\ sp = [c \in Cpus |-> BootStack(c)] /\ phase = [c \in Cpus |-> "run"]
      /\ sw = [c \in Cpus |-> NoSwitch] /\ inHand = [c \in Cpus |-> NoStack]
      /\ freeStacks = Stacks /\ abandoned = {} /\ parked = NoTask
      /\ states = [s \in Slots |-> IF s = 0 THEN "Running" ELSE "Empty"]
      /\ current = [c \in Cpus |-> IDLE]
      /\ stealeable = [s \in Slots |-> FALSE]
  BY Zenon DEF SwitchInit, TasksInit
<1>4. PathTypes
  BY <1>2, <1>3, Zenon DEF PathTypes, AllStacks, Cpus, Phases, NoSwitch
<1>5. \A c \in Cpus : ~Leaving(c)
  BY <1>3, Zenon DEF Leaving
<1>6. Apart
  BY <1>2, <1>3, Zenon DEF Apart, Cpus
<1>7. OneOwner
  BY <1>2, <1>3, Zenon DEF OneOwner, IdleSlot, StacksApart, Cpus
<1>8. Decided
  BY <1>2, <1>3, <1>5, Zenon DEF Decided
<1>9. OnStack
  BY <1>2, <1>3, <1>5, Zenon DEF OnStack, SlotStack, Cpus
<1>10. Saved
  BY <1>3, Zenon DEF Saved
<1> QED BY <1>4, <1>6, <1>7, <1>8, <1>9, <1>10, Zenon DEF PathInv

\* A step that keeps every task where it is keeps the invariant.
LEMMA SameKeeps ==
  ASSUME PathInv, IInv', SameTasks, UNCHANGED pathVars
  PROVE  PathInv'
<1>1. /\ OnlineCpus' = OnlineCpus /\ Cpu1Started' = Cpu1Started
      /\ \A s : LiveId(s)' = LiveId(s) /\ IdleSlot(s)' = IdleSlot(s)
      /\ \A c : Leaving(c)' = Leaving(c)
  BY Zenon DEF SameTasks, pathVars, OnlineCpus, Cpu1Started, LiveId, IdleSlot, Leaving
<1>2. \A s : SlotStack(s)' = SlotStack(s)
  BY <1>1, Zenon DEF pathVars, SlotStack
<1>3. PathTypes'
  BY Zenon DEF PathInv, PathTypes, pathVars
<1>4. Apart'
  BY <1>1, Zenon DEF PathInv, Apart, SameTasks, pathVars
<1>5. OneOwner'
  BY <1>1, Zenon DEF PathInv, OneOwner, SameTasks, pathVars
<1>6. Decided'
  BY <1>1, <1>2, Zenon DEF PathInv, Decided, CarriesOut, SameTasks, pathVars
<1>7. OnStack'
  BY <1>1, <1>2, Zenon DEF PathInv, OnStack, SameTasks, pathVars
<1>8. Saved'
  BY <1>1, <1>2, Zenon DEF PathInv, Saved, SameTasks, pathVars
<1> QED BY <1>3, <1>4, <1>5, <1>6, <1>7, <1>8, Zenon DEF PathInv

\* start_cpu1 takes a free slot, which owns no stack; core 1 is on its boot
\* stack already.
LEMMA BringUpKeeps ==
  ASSUME PathInv, StacksApart, IInv', BringUpCpu1
  PROVE  PathInv'
<1>1. PICK s \in Slots :
        /\ FirstFree(s)
        /\ states' = [states EXCEPT ![s] = "Running"]
        /\ home' = [home EXCEPT ![s] = 1]
        /\ current' = [current EXCEPT ![1] = LiveId(s)]
        /\ idle' = [idle EXCEPT ![1] = LiveId(s)]
  BY Zenon DEF BringUpCpu1, StartCpu1
<1>2. /\ UNCHANGED <<epochs, stealeable, queues, parked, overwrites>>
      /\ UNCHANGED pathVars /\ ~Cpu1Started /\ Smp
  BY Zenon DEF BringUpCpu1, StartCpu1
<1>3. /\ states[s] = "Empty" /\ Slot(LiveId(s)) = s /\ s # 0
      /\ states \in [Slots -> States] /\ home \in [Slots -> Cpus]
      /\ current \in [Cpus -> TaskIds] /\ idle \in [Cpus -> TaskIds]
      /\ parked = NoTask
  <2>1. states[s] = "Empty" /\ Slot(LiveId(s)) = s
    BY <1>1, Zenon DEF FirstFree, Free, LiveId, Slot
  <2>2. states[0] # "Empty"
    BY IdFacts, Zenon DEF PathInv
  <2> QED BY <1>2, <2>1, <2>2, Zenon DEF PathInv, IInv, TasksTypeOK, Apart
<1>4. /\ OnlineCpus = {0} /\ OnlineCpus' = {0, 1} /\ Cpu1Started'
      /\ idle'[1] = LiveId(s) /\ current'[1] = LiveId(s)
      /\ current'[0] = current[0] /\ Slot(current[0]) # s
  <2>1. idle'[1] = LiveId(s) /\ current'[1] = LiveId(s) /\ current'[0] = current[0]
    BY <1>1, <1>3 DEF Cpus
  <2>2. LiveId(s) # IDLE
    BY <1>3, Zenon DEF LiveId, IDLE
  <2>3. Cpu1Started' /\ OnlineCpus' = {0, 1} /\ OnlineCpus = {0}
    BY <1>2, <2>1, <2>2, Zenon DEF Cpu1Started, OnlineCpus
  <2>4. states[Slot(current[0])] = "Running"
    BY CpuSets, CurrentRuns, Zenon
  <2> QED BY <1>3, <2>1, <2>3, <2>4, Zenon
<1>5. /\ \A t \in Slots : t # s => (IdleSlot(t)' <=> IdleSlot(t))
      /\ IdleSlot(s)' /\ ~IdleSlot(s) /\ ~Cpu1Started
  BY <1>2, <1>3, <1>4, Zenon DEF IdleSlot
<1>6. \A t \in Slots : t # s => SlotStack(t)' = SlotStack(t)
  BY <1>2, <1>5, Zenon DEF SlotStack, pathVars
<1>7. SlotStack(s)' = BootStack(1)
  BY <1>3, <1>5, Zenon DEF SlotStack
<1>8. \A c : Leaving(c)' = Leaving(c)
  BY <1>2, Zenon DEF Leaving, pathVars
<1>9. /\ phase[0] = "run" /\ phase[1] = "run" /\ ~Leaving(0) /\ ~Leaving(1)
      /\ sp[1] = BootStack(1) /\ el0[1] = NoSession
  BY <1>4, CpuSets DEF BringUpCpu1, PathInv, Decided, Leaving
<1>10. PathTypes'
  BY <1>2, Zenon DEF PathInv, PathTypes, pathVars
<1>11. Apart'
  BY <1>2, Zenon DEF PathInv, Apart, pathVars
<1>12. OneOwner'
  <2>1. stack[s] = NoStack
    BY <1>3, NoTaskOut, Zenon DEF PathInv, OneOwner
  <2>2. \A t \in Slots : stack'[t] # NoStack <=> \/ states'[t] # "Empty" /\ ~IdleSlot(t)'
                                                 \/ Slot(parked') = t
    <3>1. stack' = stack /\ parked' = parked /\ \A t \in Slots : t # s => states'[t] = states[t]
      BY <1>1, <1>2 DEF pathVars
    <3>2. Slot(parked) # s
      BY <1>3, NoTaskOut, Zenon
    <3> QED BY <2>1, <3>1, <1>5, Zenon DEF PathInv, OneOwner
  <2> QED BY <2>2, <1>2, Zenon DEF PathInv, OneOwner, pathVars
<1>13. Decided'
  <2>1. \A c \in Cpus : ~Leaving(c)' /\ c \in OnlineCpus'
    BY <1>4, <1>8, <1>9, Zenon DEF Cpus
  <2>2. \A c \in Cpus : sw'[c] = NoSwitch
    BY <1>2, <1>9, Zenon DEF PathInv, Decided, pathVars, Cpus
  <2> QED BY <2>1, <2>2, Zenon DEF Decided
<1>14. OnStack'
  <2>1. sp'[0] = SlotStack(Slot(current[0]))' /\ el0'[0] = Slot(current'[0])
    <3>1. 0 \in OnlineCpus /\ 0 \in Cpus /\ Slot(current[0]) \in Slots
      BY CpuSets, SlotsKnown, Zenon
    <3>2. sp[0] = SlotStack(Slot(current[0])) /\ el0[0] = Slot(current[0])
      BY <3>1, <1>9 DEF PathInv, OnStack
    <3>3. SlotStack(Slot(current[0]))' = SlotStack(Slot(current[0]))
      <4>1. PICK t \in Slots : t = Slot(current[0]) /\ t # s
        BY <3>1, <1>4, Zenon
      <4>2. Slot(current'[0]) = t
        BY <4>1, <1>4, Zenon
      <4> QED BY <4>1, <4>2, <1>2, <1>5, Zenon DEF SlotStack, pathVars
    <3> QED BY <3>2, <3>3, <1>2, <1>4, Zenon DEF pathVars
  <2>2. /\ sp'[1] = SlotStack(Slot(current[1]))'
        /\ current'[1] = idle'[1] /\ el0'[1] = NoSession
    <3>1. Slot(current'[1]) = s
      BY <1>3, <1>4, Zenon
    <3> QED BY <1>2, <1>4, <1>5, <1>9, Zenon DEF pathVars, SlotStack, IdleSlot
  <2> QED BY <2>1, <2>2, <1>4, <1>8, <1>9, Zenon DEF OnStack
<1>15. Saved'
  <2> SUFFICES ASSUME NEW t \in Slots, states'[t] \in {"Ready", "Blocked"}
               PROVE  context'[t] = SlotStack(t)'
    BY Zenon DEF Saved
  <2>1. t # s /\ states[t] = states'[t]
    BY <1>1, <1>3, Zenon
  <2>2. \A c \in OnlineCpus : phase[c] \notin {"decided", "save"}
    BY <1>4, <1>9, Zenon
  <2>3. context[t] = SlotStack(t)
    BY <2>1, <2>2, Zenon DEF PathInv, Saved
  <2> QED BY <2>1, <2>3, <1>2, <1>6, Zenon DEF pathVars
<1> QED BY <1>10, <1>11, <1>12, <1>13, <1>14, <1>15, Zenon DEF PathInv

\* spawn_on_inner: a free slot owns no stack and is no CPU's, so the stack it is
\* given has no other owner and its context is the new task's.
LEMMA SpawnKeeps ==
  ASSUME PathInv, StacksApart, IInv', NEW cpu \in OnlineCpus,
         NEW target \in OnlineCpus, Spawn(cpu, target)
  PROVE  PathInv'
<1>1. PICK k \in freeStacks, s \in Slots :
        /\ AdmitSlot(target, s)
        /\ stack' = [stack EXCEPT ![s] = k]
        /\ context' = [context EXCEPT ![s] = k]
        /\ freeStacks' = freeStacks \ {k}
  BY Zenon DEF Spawn
<1>2. /\ UNCHANGED <<el0, sp, phase, sw, inHand, abandoned>>
      /\ UNCHANGED <<epochs, current, idle, parked>>
      /\ states' = [states EXCEPT ![s] = "Ready"]
      /\ home' = [home EXCEPT ![s] = target]
      /\ stealeable' = [stealeable EXCEPT ![s] = FALSE]
      /\ states[s] = "Empty" /\ Slot(parked) # s
  BY <1>1, Zenon DEF Spawn, AdmitSlot, FirstFree, Free
<1>3. /\ states \in [Slots -> States] /\ home \in [Slots -> Cpus]
      /\ stealeable \in [Slots -> BOOLEAN]
      /\ stack \in [Slots -> Stacks \cup {NoStack}] /\ context \in [Slots -> AllStacks]
      /\ k \in Stacks /\ k # NoStack /\ freeStacks \subseteq Stacks
  BY Zenon DEF PathInv, IInv, TasksTypeOK, PathTypes, StacksApart
<1>4. /\ OnlineCpus' = OnlineCpus /\ Cpu1Started' = Cpu1Started
      /\ \A t : LiveId(t)' = LiveId(t) /\ IdleSlot(t)' = IdleSlot(t)
      /\ \A c : Leaving(c)' = Leaving(c)
  BY <1>2, Zenon DEF OnlineCpus, Cpu1Started, LiveId, IdleSlot, Leaving
<1>5. ~IdleSlot(s) /\ stack[s] = NoStack
  <2>1. ~IdleSlot(s)
    BY <1>2, IdleLive, Zenon
  <2> QED BY <2>1, <1>2, Zenon DEF PathInv, OneOwner
<1>6. \A t \in Slots : t # s => /\ SlotStack(t)' = SlotStack(t) /\ states'[t] = states[t]
                                /\ home'[t] = home[t] /\ context'[t] = context[t]
                                /\ stack'[t] = stack[t]
  <2>1. \A t \in Slots : t # s => /\ states'[t] = states[t] /\ home'[t] = home[t]
                                  /\ context'[t] = context[t] /\ stack'[t] = stack[t]
    BY <1>1, <1>2
  <2> QED BY <2>1, <1>4, Zenon DEF SlotStack
<1>7. SlotStack(s)' = k /\ context'[s] = k /\ stack'[s] = k /\ states'[s] = "Ready"
  <2>1. stack'[s] = k /\ context'[s] = k /\ states'[s] = "Ready"
    BY <1>1, <1>2, <1>3, Zenon
  <2> QED BY <2>1, <1>4, <1>5, Zenon DEF SlotStack, IdleSlot
<1>8. \A c \in OnlineCpus : /\ Slot(current[c]) \in Slots /\ Slot(current[c]) # s
                            /\ Leaving(c) => /\ Slot(sw[c].from) \in Slots
                                             /\ Slot(sw[c].from) # s
  <2> SUFFICES ASSUME NEW c \in OnlineCpus
               PROVE  /\ Slot(current[c]) \in Slots /\ Slot(current[c]) # s
                      /\ Leaving(c) => /\ Slot(sw[c].from) \in Slots
                                       /\ Slot(sw[c].from) # s
    BY Zenon
  <2>1. c \in Cpus /\ Slot(current[c]) \in Slots /\ states[Slot(current[c])] = "Running"
    BY CpuSets, SlotsKnown, CurrentRuns, Zenon
  <2>2. Leaving(c) => Slot(sw[c].from) \in Slots
    BY <2>1, LeavingKnown, Zenon
  <2>3. Leaving(c) /\ states[Slot(sw[c].from)] = "Empty" => parked = sw[c].from
    BY <2>1, Zenon DEF PathInv, Decided, CarriesOut
  <2> QED BY <2>1, <2>2, <2>3, <1>2, Zenon
<1>9. PathTypes'
  BY <1>1, <1>2, Zenon DEF PathInv, PathTypes, AllStacks
<1>10. Apart'
  BY <1>2, <1>4 DEF PathInv, Apart
<1>11. OneOwner'
  <2>1. \A t \in Slots : stack'[t] # NoStack <=> \/ states'[t] # "Empty" /\ ~IdleSlot(t)'
                                                 \/ Slot(parked') = t
    BY <1>2, <1>4, <1>5, <1>6, <1>7 DEF PathInv, OneOwner
  <2>2. \A t \in Slots : t # s => stack[t] # k
    BY Zenon DEF PathInv, OneOwner
  <2>3. \A t, u \in Slots : stack'[t] = stack'[u] /\ stack'[t] # NoStack => t = u
    BY <1>6, <1>7 DEF PathInv, OneOwner
  <2>4. \A t \in Slots : /\ stack'[t] \notin freeStacks'
                         /\ stack'[t] # NoStack => stack'[t] # inHand'[0]
    BY <1>1, <1>2 DEF PathInv, OneOwner
  <2>5. inHand'[0] \notin freeStacks'
    BY <1>1, <1>2, Zenon DEF PathInv, OneOwner
  <2>6. \A j \in Stacks : \/ j \in freeStacks' \cup abandoned'
                          \/ \E t \in Slots : stack'[t] = j
                          \/ \E c \in Cpus : inHand'[c] = j
    <3> SUFFICES ASSUME NEW j \in Stacks
                 PROVE  \/ j \in freeStacks' \cup abandoned'
                        \/ \E t \in Slots : stack'[t] = j
                        \/ \E c \in Cpus : inHand'[c] = j
      BY Zenon
    <3>1. CASE j = k
      BY <3>1, <1>7, Zenon
    <3>2. CASE j # k
      <4>1. \/ j \in freeStacks \cup abandoned
            \/ \E t \in Slots : stack[t] = j
            \/ \E c \in Cpus : inHand[c] = j
        BY Zenon DEF PathInv, OneOwner
      <4>2. \A t \in Slots : stack[t] = j => t # s
        BY <1>5, Zenon DEF StacksApart
      <4> QED BY <4>1, <4>2, <3>2, <1>1, <1>2
    <3> QED BY <3>1, <3>2, Zenon
  <2> QED BY <2>1, <2>3, <2>4, <2>5, <2>6, Zenon DEF OneOwner
<1>12. Decided'
  <2> SUFFICES ASSUME NEW c \in Cpus, Leaving(c) PROVE CarriesOut(c)'
    BY <1>2, <1>4, Zenon DEF PathInv, Decided
  <2>1. c \in OnlineCpus
    BY LeavingKnown, Zenon
  <2>2. PICK t \in Slots : t = Slot(sw[c].from) /\ t # s
    BY <2>1, <1>8, Zenon
  <2>3. PICK u \in Slots : u = Slot(current[c]) /\ u # s
    BY <2>1, <1>8, Zenon
  <2>4. SlotStack(Slot(current[c]))' = SlotStack(u)
    BY <2>3, <1>2, <1>6, Zenon
  <2>5. /\ sw[c].to = current[c] /\ sw[c].from \in TaskIds /\ states[t] # "Running"
        /\ states[t] = "Empty" => parked = sw[c].from
        /\ states[t] # "Empty" => sw[c].from = LiveId(t) /\ (Smp => home[t] = c)
        /\ context[u] = SlotStack(u)
    BY <2>2, <2>3, Zenon DEF PathInv, Decided, CarriesOut
  <2> QED BY <2>2, <2>3, <2>5, <1>2, <1>6, Zenon DEF CarriesOut, LiveId
<1>13. OnStack'
  <2> SUFFICES ASSUME NEW c \in OnlineCpus
               PROVE  /\ sp'[c] = SlotStack(Slot(IF Leaving(c) THEN sw[c].from ELSE current[c]))'
                      /\ phase'[c] # "decided" =>
                            \/ el0'[c] = Slot(current'[c])
                            \/ c = 1 /\ current'[c] = idle'[1] /\ el0'[c] = NoSession
    BY <1>4, Zenon DEF OnStack
  <2>1. PICK t \in Slots : t = Slot(IF Leaving(c) THEN sw[c].from ELSE current[c]) /\ t # s
    BY <1>8, Zenon
  <2>2. SlotStack(Slot(IF Leaving(c) THEN sw[c].from ELSE current[c]))' = SlotStack(t)
    BY <2>1, <1>2, <1>4, <1>6, Zenon
  <2> QED BY <2>1, <2>2, <1>2, Zenon DEF PathInv, OnStack
<1>14. Saved'
  <2> SUFFICES ASSUME NEW t \in Slots
               PROVE  \/ states'[t] \notin {"Ready", "Blocked"}
                      \/ \E c \in OnlineCpus : /\ phase'[c] \in {"decided", "save"}
                                               /\ Slot(sw'[c].from) = t
                      \/ context'[t] = SlotStack(t)'
    BY <1>4, Zenon DEF Saved
  <2>1. CASE t = s
    BY <2>1, <1>7, Zenon
  <2>2. CASE t # s
    BY <2>2, <1>2, <1>6, Zenon DEF PathInv, Saved
  <2> QED BY <2>1, <2>2, Zenon
<1> QED BY <1>9, <1>10, <1>11, <1>12, <1>13, <1>14, Zenon DEF PathInv

\* wake_task makes a blocked task ready where it is.
LEMMA WakeKeeps ==
  ASSUME PathInv, IInv', NEW cpu \in OnlineCpus, NEW id \in TaskIds,
         WakeTask(cpu, id)
  PROVE  PathInv'
<1> DEFINE s == Slot(id)
<1>1. /\ UNCHANGED pathVars
      /\ UNCHANGED <<epochs, home, stealeable, current, idle, parked>>
      /\ states[s] = "Blocked" /\ states' = [states EXCEPT ![s] = "Ready"]
      /\ s \in Slots /\ states \in [Slots -> States]
  BY DEF WakeTask, Wake, CanWake, PathInv, IInv, TasksTypeOK
<1> HIDE DEF s
<1>2. /\ OnlineCpus' = OnlineCpus /\ Cpu1Started' = Cpu1Started
      /\ \A t : LiveId(t)' = LiveId(t) /\ IdleSlot(t)' = IdleSlot(t)
      /\ \A c : Leaving(c)' = Leaving(c)
  BY <1>1, Zenon DEF pathVars, OnlineCpus, Cpu1Started, LiveId, IdleSlot, Leaving
<1>3. \A t : SlotStack(t)' = SlotStack(t)
  BY <1>1, <1>2, Zenon DEF pathVars, SlotStack
<1>4. \A t \in Slots : /\ states'[t] = "Empty" <=> states[t] = "Empty"
                       /\ states'[t] = "Running" <=> states[t] = "Running"
                       /\ states'[t] \in {"Ready", "Blocked"} <=>
                               states[t] \in {"Ready", "Blocked"}
  BY <1>1, Zenon
<1>5. PathTypes'
  BY <1>1, Zenon DEF PathInv, PathTypes, pathVars
<1>6. Apart'
  BY <1>1, <1>2, Zenon DEF PathInv, Apart, pathVars
<1>7. OneOwner'
  BY <1>1, <1>2, Zenon DEF PathInv, OneOwner, pathVars
<1>8. Decided'
  <2>1. \A c \in Cpus : Leaving(c) => Slot(sw[c].from) \in Slots
    BY LeavingKnown, Zenon
  <2> QED BY <1>1, <1>2, <1>3 DEF PathInv, Decided, CarriesOut, pathVars
<1>9. OnStack'
  BY <1>1, <1>2, <1>3, Zenon DEF PathInv, OnStack, pathVars
<1>10. Saved'
  BY <1>1, <1>2, <1>3, Zenon DEF PathInv, Saved, pathVars
<1> QED BY <1>5, <1>6, <1>7, <1>8, <1>9, <1>10, Zenon DEF PathInv

\* The decision: the CPU starts to leave its task, whose slot no other CPU
\* deals with, and goes to a task that is saved.  (One that its CPU is still
\* leaving is at home there, and would have been stolen.)
LEMMA DecideKeeps ==
  ASSUME PathInv, CpusApart, RotationsExact, IInv', NEW cpu \in OnlineCpus,
         NEW kind \in Kinds, Decide(cpu, kind)
  PROVE  PathInv'
<1> DEFINE me == Slot(current[cpu])
<1>1. CASE SameTasks /\ UNCHANGED pathVars
  BY <1>1, SameKeeps, Zenon
<1>2. ASSUME NEW n \in Slots, DecideEffect(cpu, kind, me, n)
      PROVE  PathInv'
  <2>1. /\ me \in Slots /\ n # me /\ states[me] = "Running" /\ states[n] = "Ready"
        /\ cpu \in Cpus /\ phase[cpu] = "run" /\ ~Leaving(cpu)
        /\ current[cpu] = <<me, epochs[me]>>
        /\ UNCHANGED <<stack, el0, sp, inHand, freeStacks, abandoned, idle, stealeable>>
        /\ current[cpu] \in TaskIds /\ <<n, epochs[n]>> \in TaskIds
    <3>1. current[cpu] \in TaskIds /\ <<n, epochs[n]>> \in TaskIds /\ cpu \in Cpus
      BY CpuSets, Zenon DEF PathInv, IInv, TasksTypeOK, TaskIds
    <3> QED BY <1>2, <3>1, Zenon DEF DecideEffect, Decide, InPhase, Leaving
  <2>2. parked = NoTask
    <3>1. cpu = 0 \/ Smp
      BY OneCpu, Zenon
    <3> QED BY <3>1, <2>1, Zenon DEF PathInv, Apart
  <2>3. /\ phase \in [Cpus -> Phases] /\ current \in [Cpus -> TaskIds]
        /\ context \in [Slots -> AllStacks] /\ states \in [Slots -> States]
        /\ sw \in [Cpus -> [from : TaskIds \cup {NoTask}, to : TaskIds \cup {NoTask},
                            stranded : {NoTask}]]
    BY Zenon DEF PathInv, PathTypes, IInv, TasksTypeOK
  <2>4. /\ OnlineCpus' = OnlineCpus /\ Cpu1Started' = Cpu1Started
        /\ \A t : IdleSlot(t)' = IdleSlot(t)
    BY <2>1, Zenon DEF OnlineCpus, Cpu1Started, IdleSlot
  <2>5. \A t : SlotStack(t)' = SlotStack(t)
    BY <2>1, <2>4, Zenon DEF SlotStack
  <2>6. /\ phase'[cpu] = "decided" /\ Leaving(cpu)'
        /\ sw'[cpu].from = current[cpu] /\ sw'[cpu].to = <<n, epochs[n]>>
        /\ current'[cpu] = <<n, epochs[n]>>
    BY <1>2, <2>1, <2>3, Zenon DEF DecideEffect, Leaving
  <2>7. \A c \in Cpus : c # cpu => /\ phase'[c] = phase[c] /\ sw'[c] = sw[c]
                                   /\ current'[c] = current[c]
                                   /\ Leaving(c)' = Leaving(c)
    BY <1>2 DEF DecideEffect, Leaving
  <2>8. \A t \in Slots : t # me => context'[t] = context[t]
    BY <1>2 DEF DecideEffect
  <2>9. Slot(<<n, epochs[n]>>) = n
    BY Zenon DEF Slot
  <2>10. \A c \in OnlineCpus : c # cpu => Smp /\ kind # "Exit"
    BY <1>2, OneCpu DEF DecideEffect
  <2>11. ASSUME NEW c \in OnlineCpus, c # cpu, Leaving(c)
         PROVE  /\ Slot(sw[c].from) \in Slots \ {me, n}
                /\ states[Slot(sw[c].from)] # "Empty"
                /\ home[Slot(sw[c].from)] = c
    <3>1. c \in Cpus /\ Smp /\ Slot(sw[c].from) \in Slots
      BY <2>10, <2>11, CpuSets, LeavingKnown, Zenon
    <3>2. states[Slot(sw[c].from)] # "Empty"
      BY <3>1, <2>2, <2>11, NoTaskOut, Zenon DEF PathInv, Decided, CarriesOut
    <3>3. home[Slot(sw[c].from)] = c
      BY <3>1, <3>2, <2>11, Zenon DEF PathInv, Decided, CarriesOut
    <3>4. home[me] = cpu /\ home[n] = cpu
      BY <1>2, <3>1, Zenon DEF DecideEffect
    <3> QED BY <3>1, <3>2, <3>3, <3>4, <2>11, Zenon
  <2>12. PathTypes'
    <3>1. phase' \in [Cpus -> Phases]
      BY <1>2, <2>3, Zenon DEF DecideEffect, Phases
    <3>2. sw' \in [Cpus -> [from : TaskIds \cup {NoTask}, to : TaskIds \cup {NoTask},
                            stranded : {NoTask}]]
      BY <1>2, <2>1, <2>3, Zenon DEF DecideEffect
    <3>3. context' \in [Slots -> AllStacks]
      BY <1>2, <2>3, Zenon DEF DecideEffect, AllStacks
    <3> QED BY <2>1, <3>1, <3>2, <3>3, Zenon DEF PathInv, PathTypes
  <2>13. Apart'
    <3>1. Smp => parked' = NoTask
      BY <1>2, <2>2, Zenon DEF DecideEffect
    <3>2. kind = "Exit" => cpu = 0 /\ parked' = current[cpu]
      BY <1>2, OneCpu, Zenon DEF DecideEffect
    <3>3. kind # "Exit" => parked' = NoTask
      BY <1>2, <2>2, Zenon DEF DecideEffect
    <3>4. parked' # NoTask => /\ phase'[0] \in {"decided", "save", "load", "collect"}
                              /\ Leaving(0)' => sw'[0].from = parked'
      BY <3>2, <3>3, <2>6, Zenon
    <3>5. phase[0] # "release" \/ phase'[0] = phase[0]
      BY <2>1, <2>7, CpuSets, Zenon
    <3> QED BY <3>1, <3>4, <3>5, <2>1, <2>4, Zenon DEF PathInv, Apart
  <2>14. OneOwner'
    <3>1. \A t \in Slots : (states'[t] # "Empty" /\ ~IdleSlot(t)) \/ Slot(parked') = t
                       <=> (states[t] # "Empty" /\ ~IdleSlot(t)) \/ Slot(parked) = t
      <4>1. CASE kind # "Exit"
        <5>1. parked' = parked /\ \A t \in Slots : states'[t] = "Empty" <=> states[t] = "Empty"
          BY <1>2, <4>1, Zenon DEF DecideEffect
        <5> QED BY <5>1, Zenon
      <4>2. CASE kind = "Exit"
        <5>1. /\ parked' = current[cpu] /\ ~Smp /\ current[cpu] # idle[cpu]
              /\ states'[me] = "Empty"
              /\ \A t \in Slots : t # me => (states'[t] = "Empty" <=> states[t] = "Empty")
          BY <1>2, <4>2, Zenon DEF DecideEffect
        <5>2. Slot(parked') = me /\ Slot(parked) \notin Slots
          BY <5>1, <2>2, NoTaskOut, Zenon
        <5>3. ~IdleSlot(me)
          <6>1. cpu = 0
            BY <5>1, OneCpu, Zenon
          <6>2. ~Cpu1Started
            BY Zenon, <5>1 DEF PathInv, Apart
          <6>3. idle[0] = LiveId(Slot(idle[0])) /\ idle[0] = <<0, 0>>
            <7>1. 0 \in OnlineCpus
              BY CpuSets, Zenon
            <7> QED BY <7>1, Zenon DEF PathInv, IInv, IdleCurrentOrQueued, TasksTypeOK, IDLE
          <6>4. Slot(idle[0]) = 0
            BY <6>3 DEF Slot
          <6> QED BY <6>1, <6>2, <6>3, <5>1, <2>1 DEF IdleSlot, LiveId
        <5> QED BY <5>1, <5>2, <5>3, <2>1, Zenon
      <4> QED BY <4>1, <4>2, Zenon
    <3> QED BY <3>1, <2>1, <2>4, Zenon DEF PathInv, OneOwner
  <2>15. context[n] = SlotStack(n)
    <3> SUFFICES ASSUME NEW c \in OnlineCpus, phase[c] \in {"decided", "save"},
                        Slot(sw[c].from) = n
                 PROVE  FALSE
      BY <2>1, Zenon DEF PathInv, Saved
    <3>1. c # cpu /\ Leaving(c)
      BY <2>1, Zenon DEF Leaving
    <3> QED BY <3>1, <2>11, Zenon
  <2>16. Decided'
    <3>1. CarriesOut(cpu)'
      <4>1. /\ states'[me] # "Running" /\ current[cpu] \in TaskIds
            /\ states'[me] = "Empty" => parked' = current[cpu]
            /\ states'[me] # "Empty" => /\ current[cpu] = <<me, epochs'[me]>>
                                        /\ Smp => home'[me] = cpu
        BY <1>2, <2>1, Zenon DEF DecideEffect
      <4>2. context'[n] = SlotStack(n)'
        BY <2>1, <2>5, <2>8, <2>15, Zenon
      <4> QED BY <4>1, <4>2, <2>6, <2>9, Zenon DEF CarriesOut, LiveId
    <3>2. ASSUME NEW c \in Cpus, c # cpu, Leaving(c) PROVE CarriesOut(c)'
      <4>1. c \in OnlineCpus /\ Smp /\ kind # "Exit" /\ CarriesOut(c)
        BY <3>2, <2>10, LeavingKnown, Zenon DEF PathInv, Decided
      <4>2. PICK t \in Slots : t = Slot(sw[c].from) /\ t \notin {me, n} /\ states[t] # "Empty"
        BY <3>2, <4>1, <2>11, Zenon
      <4>3. PICK u \in Slots : u = Slot(current[c]) /\ u # me
        BY <3>2, <4>1, SlotsKnown, CurrentsApart, Zenon
      <4>4. states'[t] = states[t] /\ epochs' = epochs /\ home' = home
        BY <1>2, <4>1, <4>2, Zenon DEF DecideEffect
      <4>5. context'[u] = context[u] /\ SlotStack(u)' = SlotStack(u)
        BY <4>3, <2>5, <2>8, Zenon
      <4>6. sw'[c] = sw[c] /\ current'[c] = current[c]
        BY <3>2, <2>7, Zenon
      <4> QED BY <4>1, <4>2, <4>3, <4>4, <4>5, <4>6, Zenon DEF CarriesOut, LiveId
    <3> QED BY <3>1, <3>2, <2>1, <2>4, <2>6, <2>7, Zenon DEF PathInv, Decided
  <2>17. OnStack'
    <3>1. sp[cpu] = SlotStack(me)
      BY <2>1, Zenon DEF PathInv, OnStack
    <3>2. sp'[cpu] = SlotStack(Slot(sw[cpu].from))'
      BY <3>1, <2>1, <2>4, <2>6, Zenon DEF SlotStack
    <3>3. ASSUME NEW c \in OnlineCpus, c # cpu
          PROVE  SlotStack(Slot(IF Leaving(c) THEN sw[c].from ELSE current[c]))'
                   = SlotStack(Slot(IF Leaving(c) THEN sw[c].from ELSE current[c]))
      BY <3>3, <2>1, <2>4, <2>7, CpuSets, Zenon DEF SlotStack
    <3>4. ASSUME NEW c \in OnlineCpus, c # cpu
          PROVE  /\ sp'[c] = SlotStack(Slot(IF Leaving(c) THEN sw[c].from ELSE current[c]))'
                 /\ phase'[c] # "decided" =>
                        \/ el0'[c] = Slot(current'[c])
                        \/ c = 1 /\ current'[c] = idle'[1] /\ el0'[c] = NoSession
      <4>1. c \in Cpus
        BY CpuSets, Zenon
      <4> QED BY <3>3, <3>4, <4>1, <2>1, <2>7, Zenon DEF PathInv, OnStack
    <3> QED BY <3>2, <3>4, <2>4, <2>6, Zenon DEF OnStack
  <2>18. Saved'
    <3> SUFFICES ASSUME NEW t \in Slots, states'[t] \in {"Ready", "Blocked"},
                        ~ \E c \in OnlineCpus : /\ phase'[c] \in {"decided", "save"}
                                                /\ Slot(sw'[c].from) = t
                 PROVE  context'[t] = SlotStack(t)'
      BY <2>4, Zenon DEF Saved
    <3>1. t # me
      BY <2>6, Zenon
    <3>2. t # n /\ states[t] \in {"Ready", "Blocked"}
      BY <1>2, <3>1, Zenon DEF DecideEffect
    <3>3. ~ \E c \in OnlineCpus : phase[c] \in {"decided", "save"} /\ Slot(sw[c].from) = t
      BY <2>1, <2>7, CpuSets, Zenon
    <3> QED BY <3>1, <3>2, <3>3, <2>5, <2>8, Zenon DEF PathInv, Saved
  <2> QED BY <2>12, <2>13, <2>14, <2>16, <2>17, <2>18, Zenon DEF PathInv
<1> QED BY <1>1, <1>2, DecideFacts, Zenon

\* What a step that leaves the table alone leaves alone.
LEMMA TableSame ==
  ASSUME UNCHANGED taskVars
  PROVE  /\ UNCHANGED <<states, epochs, home, stealeable, current, idle, parked>>
         /\ OnlineCpus' = OnlineCpus /\ Cpu1Started' = Cpu1Started
         /\ \A t : LiveId(t)' = LiveId(t) /\ IdleSlot(t)' = IdleSlot(t)
         /\ UNCHANGED stack => \A t : SlotStack(t)' = SlotStack(t)
<1>1. UNCHANGED <<states, epochs, home, stealeable, current, idle, parked>>
  BY Zenon DEF taskVars
<1>2. /\ OnlineCpus' = OnlineCpus /\ Cpu1Started' = Cpu1Started
      /\ \A t : LiveId(t)' = LiveId(t) /\ IdleSlot(t)' = IdleSlot(t)
  BY <1>1, Zenon DEF OnlineCpus, Cpu1Started, LiveId, IdleSlot
<1> QED BY <1>1, <1>2, Zenon DEF SlotStack

\* The second critical section publishes the session of the next task; no exit
\* is stranded, so it frees nothing.
LEMMA RelockKeeps ==
  ASSUME PathInv, IInv', NEW cpu \in OnlineCpus, Relock(cpu)
  PROVE  PathInv'
<1>1. /\ cpu \in Cpus /\ sw[cpu].stranded = NoTask /\ phase[cpu] = "decided"
      /\ Leaving(cpu) /\ sw[cpu].to = current[cpu] /\ Slot(current[cpu]) \in Slots
  <2>1. cpu \in Cpus /\ phase[cpu] = "decided" /\ Leaving(cpu)
    BY CpuSets, Zenon DEF Relock, InPhase, Leaving
  <2> QED BY <2>1, SlotsKnown, Zenon DEF PathInv, PathTypes, Decided, CarriesOut
<1>2. /\ UNCHANGED <<stack, context, sp, sw, inHand, freeStacks, abandoned>>
      /\ UNCHANGED taskVars
      /\ el0' = [el0 EXCEPT ![cpu] = Slot(current[cpu])]
      /\ phase' = [phase EXCEPT ![cpu] = "save"]
  BY <1>1, Zenon DEF Relock, Release, Enter
<1>3. /\ UNCHANGED <<states, epochs, home, stealeable, current, idle, parked>>
      /\ OnlineCpus' = OnlineCpus /\ Cpu1Started' = Cpu1Started
      /\ \A t : LiveId(t)' = LiveId(t) /\ IdleSlot(t)' = IdleSlot(t)
      /\ \A t : SlotStack(t)' = SlotStack(t)
  BY <1>2, TableSame, Zenon
<1>4. phase \in [Cpus -> Phases] /\ el0 \in [Cpus -> Slots \cup {NoSession}]
  BY Zenon DEF PathInv, PathTypes
<1>5. /\ \A c \in Cpus : Leaving(c)' = Leaving(c)
      /\ \A c \in Cpus : phase'[c] \in {"decided", "save"} <=> phase[c] \in {"decided", "save"}
      /\ phase'[cpu] = "save" /\ el0'[cpu] = Slot(current[cpu])
      /\ \A c \in Cpus : c # cpu => phase'[c] = phase[c] /\ el0'[c] = el0[c]
  BY <1>1, <1>2, <1>4 DEF Leaving
<1>6. PathTypes'
  <2>1. phase' \in [Cpus -> Phases] /\ el0' \in [Cpus -> Slots \cup {NoSession}]
    BY <1>1, <1>2, <1>4, Zenon DEF Phases
  <2> QED BY <2>1, <1>2, Zenon DEF PathInv, PathTypes
<1>7. Apart'
  <2>1. 0 \in Cpus /\ (phase'[0] # phase[0] => phase'[0] = "save")
    BY <1>5, CpuSets, Zenon
  <2> QED BY <2>1, <1>2, <1>3, <1>5, Zenon DEF PathInv, Apart
<1>8. OneOwner'
  BY <1>2, <1>3, Zenon DEF PathInv, OneOwner
<1>9. Decided'
  <2>1. \A c \in Cpus : CarriesOut(c) => CarriesOut(c)'
    BY <1>2, <1>3, Zenon DEF CarriesOut
  <2> QED BY <2>1, <1>2, <1>3, <1>5, Zenon DEF PathInv, Decided
<1>10. OnStack'
  <2>1. OnlineCpus \subseteq Cpus
    BY CpuSets, Zenon
  <2> QED BY <2>1, <1>2, <1>3, <1>5, Zenon DEF PathInv, OnStack
<1>11. Saved'
  <2>1. OnlineCpus \subseteq Cpus
    BY CpuSets, Zenon
  <2> QED BY <1>2, <1>3 DEF PathInv, Saved
<1> QED BY <1>6, <1>7, <1>8, <1>9, <1>10, <1>11, Zenon DEF PathInv

\* The store half of context_switch: the CPU is on the leaving task's stack, and
\* no CPU is about to load from that task's slot.
LEMMA SaveKeeps ==
  ASSUME PathInv, IInv', NEW cpu \in OnlineCpus, SaveContext(cpu)
  PROVE  PathInv'
<1> DEFINE s == Slot(sw[cpu].from)
<1>1. /\ cpu \in Cpus /\ phase[cpu] = "save" /\ Leaving(cpu) /\ s \in Slots
      /\ sp[cpu] = SlotStack(s) /\ sp[cpu] \in AllStacks /\ states[s] # "Running"
  <2>1. cpu \in Cpus /\ phase[cpu] = "save" /\ Leaving(cpu)
    BY CpuSets, Zenon DEF SaveContext, InPhase, Leaving
  <2> QED BY <2>1, LeavingKnown, Zenon DEF PathInv, PathTypes, OnStack, Decided, CarriesOut
<1>2. /\ UNCHANGED <<stack, el0, sp, sw, inHand, freeStacks, abandoned>>
      /\ UNCHANGED taskVars
      /\ context' = [context EXCEPT ![s] = sp[cpu]]
      /\ phase' = [phase EXCEPT ![cpu] = "load"]
  BY Zenon DEF SaveContext, Enter
<1>3. /\ UNCHANGED <<states, epochs, home, stealeable, current, idle, parked>>
      /\ OnlineCpus' = OnlineCpus /\ Cpu1Started' = Cpu1Started
      /\ \A t : LiveId(t)' = LiveId(t) /\ IdleSlot(t)' = IdleSlot(t)
      /\ \A t : SlotStack(t)' = SlotStack(t)
  BY <1>2, TableSame, Zenon
<1> HIDE DEF s
<1>4. phase \in [Cpus -> Phases] /\ context \in [Slots -> AllStacks]
  BY Zenon DEF PathInv, PathTypes
<1>5. /\ \A c \in Cpus : Leaving(c)' = Leaving(c)
      /\ phase'[cpu] = "load"
      /\ \A c \in Cpus : c # cpu => phase'[c] = phase[c]
      /\ context'[s] = SlotStack(s)
      /\ \A t \in Slots : t # s => context'[t] = context[t]
  BY <1>1, <1>2, <1>4 DEF Leaving
<1>6. PathTypes'
  <2>1. phase' \in [Cpus -> Phases] /\ context' \in [Slots -> AllStacks]
    BY <1>1, <1>2, <1>4, Zenon DEF Phases
  <2> QED BY <2>1, <1>2, Zenon DEF PathInv, PathTypes
<1>7. Apart'
  <2>1. 0 \in Cpus /\ (phase'[0] # phase[0] => phase[0] = "save" /\ phase'[0] = "load")
    BY <1>1, <1>5, CpuSets, Zenon
  <2> QED BY <2>1, <1>2, <1>3, <1>5, Zenon DEF PathInv, Apart
<1>8. OneOwner'
  BY <1>2, <1>3, Zenon DEF PathInv, OneOwner
<1>9. Decided'
  <2>1. ASSUME NEW c \in Cpus, Leaving(c) PROVE CarriesOut(c)'
    <3>1. Slot(current[c]) \in Slots /\ Slot(current[c]) # s
      BY <2>1, <1>1, SlotsKnown, CurrentRuns, LeavingKnown, Zenon
    <3>2. CarriesOut(c)
      BY <2>1, Zenon DEF PathInv, Decided
    <3> QED BY <3>1, <3>2, <1>2, <1>3 DEF CarriesOut
  <2> QED BY <2>1, <1>2, <1>3, <1>5, Zenon DEF PathInv, Decided
<1>10. OnStack'
  <2>1. OnlineCpus \subseteq Cpus
    BY CpuSets, Zenon
  <2>2. \A c \in OnlineCpus : phase'[c] # "decided" => phase[c] # "decided"
    BY <2>1, <1>1, <1>5, Zenon
  <2> QED BY <2>1, <2>2, <1>2, <1>3, <1>5, Zenon DEF PathInv, OnStack
<1>11. Saved'
  <2> SUFFICES ASSUME NEW t \in Slots
               PROVE  \/ states'[t] \notin {"Ready", "Blocked"}
                      \/ \E c \in OnlineCpus : /\ phase'[c] \in {"decided", "save"}
                                               /\ Slot(sw'[c].from) = t
                      \/ context'[t] = SlotStack(t)'
    BY <1>3, Zenon DEF Saved
  <2>1. CASE t = s
    BY <2>1, <1>3, <1>5, Zenon
  <2>2. CASE t # s
    <3>1. ASSUME NEW c \in OnlineCpus, phase[c] \in {"decided", "save"}, Slot(sw[c].from) = t
          PROVE  phase'[c] \in {"decided", "save"} /\ Slot(sw'[c].from) = t
      BY <2>2, <3>1, <1>2 DEF s
    <3> QED BY <3>1, <1>3, <1>5, Zenon DEF PathInv, Saved
  <2> QED BY <2>1, <2>2, Zenon
<1> QED BY <1>6, <1>7, <1>8, <1>9, <1>10, <1>11, Zenon DEF PathInv

\* The load half: the CPU is on the next task's own stack.
LEMMA LoadKeeps ==
  ASSUME PathInv, IInv', NEW cpu \in OnlineCpus, LoadContext(cpu)
  PROVE  PathInv'
<1>1. /\ cpu \in Cpus /\ phase[cpu] = "load" /\ Leaving(cpu)
      /\ Slot(current[cpu]) \in Slots /\ sw[cpu].to = current[cpu]
      /\ context[Slot(current[cpu])] = SlotStack(Slot(current[cpu]))
      /\ context[Slot(current[cpu])] \in AllStacks
  <2>1. cpu \in Cpus /\ phase[cpu] = "load" /\ Leaving(cpu)
    BY CpuSets, Zenon DEF LoadContext, InPhase, Leaving
  <2> QED BY <2>1, SlotsKnown, Zenon DEF PathInv, PathTypes, Decided, CarriesOut
<1>2. /\ UNCHANGED <<stack, context, el0, inHand, freeStacks, abandoned>>
      /\ UNCHANGED taskVars
      /\ sp' = [sp EXCEPT ![cpu] = context[Slot(current[cpu])]]
      /\ sw' = [sw EXCEPT ![cpu] = NoSwitch]
      /\ phase' = [phase EXCEPT ![cpu] = "collect"]
  BY <1>1, Zenon DEF LoadContext, Enter
<1>3. /\ UNCHANGED <<states, epochs, home, stealeable, current, idle, parked>>
      /\ OnlineCpus' = OnlineCpus /\ Cpu1Started' = Cpu1Started
      /\ \A t : LiveId(t)' = LiveId(t) /\ IdleSlot(t)' = IdleSlot(t)
      /\ \A t : SlotStack(t)' = SlotStack(t)
  BY <1>2, TableSame, Zenon
<1>4. /\ phase \in [Cpus -> Phases] /\ sp \in [Cpus -> AllStacks]
      /\ sw \in [Cpus -> [from : TaskIds \cup {NoTask}, to : TaskIds \cup {NoTask},
                          stranded : {NoTask}]]
  BY Zenon DEF PathInv, PathTypes
<1>5. /\ phase'[cpu] = "collect" /\ ~Leaving(cpu)' /\ sw'[cpu] = NoSwitch
      /\ sp'[cpu] = SlotStack(Slot(current[cpu]))
      /\ \A c \in Cpus : c # cpu => /\ phase'[c] = phase[c] /\ sw'[c] = sw[c]
                                    /\ sp'[c] = sp[c] /\ Leaving(c)' = Leaving(c)
  BY <1>1, <1>2, <1>4, Zenon DEF Leaving
<1>6. PathTypes'
  <2>1. phase' \in [Cpus -> Phases] /\ sp' \in [Cpus -> AllStacks]
    BY <1>1, <1>2, <1>4, Zenon DEF Phases
  <2>2. sw' \in [Cpus -> [from : TaskIds \cup {NoTask}, to : TaskIds \cup {NoTask},
                          stranded : {NoTask}]]
    BY <1>2, <1>4, Zenon DEF NoSwitch
  <2> QED BY <2>1, <2>2, <1>2, Zenon DEF PathInv, PathTypes
<1>7. Apart'
  <2>1. 0 \in Cpus /\ \/ phase[0] = "load" /\ phase'[0] = "collect" /\ ~Leaving(0)'
                      \/ phase'[0] = phase[0] /\ sw'[0] = sw[0] /\ Leaving(0)' = Leaving(0)
    BY <1>1, <1>5, CpuSets, Zenon
  <2> QED BY <2>1, <1>2, <1>3, Zenon DEF PathInv, Apart
<1>8. OneOwner'
  BY <1>2, <1>3, Zenon DEF PathInv, OneOwner
<1>9. Decided'
  <2>1. ASSUME NEW c \in Cpus, c # cpu, Leaving(c) PROVE CarriesOut(c)'
    <3>1. CarriesOut(c) /\ sw'[c] = sw[c]
      BY <2>1, <1>5, Zenon DEF PathInv, Decided
    <3> QED BY <3>1, <1>2, <1>3 DEF CarriesOut
  <2> QED BY <2>1, <1>2, <1>3, <1>5, Zenon DEF PathInv, Decided
<1>10. OnStack'
  <2>1. OnlineCpus \subseteq Cpus
    BY CpuSets, Zenon
  <2>2. phase[cpu] # "decided"
    BY <1>1, Zenon
  <2> QED BY <2>1, <2>2, <1>2, <1>3, <1>5 DEF PathInv, OnStack
<1>11. Saved'
  <2>1. ASSUME NEW c \in OnlineCpus, phase[c] \in {"decided", "save"}
        PROVE  phase'[c] \in {"decided", "save"} /\ sw'[c] = sw[c]
    BY <2>1, <1>1, <1>5, CpuSets, Zenon
  <2> QED BY <2>1, <1>2, <1>3, Zenon DEF PathInv, Saved
<1> QED BY <1>6, <1>7, <1>8, <1>9, <1>10, <1>11, Zenon DEF PathInv

\* collect_exited takes the stack of the parked task, which nobody is on: the
\* CPU that left it has loaded its next context.
LEMMA CollectKeeps ==
  ASSUME PathInv, StacksApart, IInv', NEW cpu \in OnlineCpus, CollectExited(cpu)
  PROVE  PathInv'
<1>1. /\ cpu \in Cpus /\ phase[cpu] = "collect" /\ ~Leaving(cpu)
      /\ UNCHANGED <<context, el0, sp, sw, freeStacks, abandoned>>
      /\ phase \in [Cpus -> Phases]
  BY CpuSets, Zenon DEF CollectExited, InPhase, Leaving, PathInv, PathTypes
<1>2. CASE parked = NoTask /\ Enter(cpu, "run") /\ UNCHANGED <<taskVars, stack, inHand>>
  <2>1. /\ UNCHANGED <<states, epochs, home, stealeable, current, idle, parked>>
        /\ OnlineCpus' = OnlineCpus /\ Cpu1Started' = Cpu1Started
        /\ \A t : LiveId(t)' = LiveId(t) /\ IdleSlot(t)' = IdleSlot(t)
        /\ \A t : SlotStack(t)' = SlotStack(t)
    BY <1>2, TableSame, Zenon
  <2>2. /\ phase'[cpu] = "run" /\ \A c \in Cpus : Leaving(c)' = Leaving(c)
        /\ \A c \in Cpus : c # cpu => phase'[c] = phase[c]
        /\ phase' \in [Cpus -> Phases]
    BY <1>1, <1>2 DEF Enter, Leaving, Phases
  <2>3. PathTypes'
    BY <1>1, <1>2, <2>2, Zenon DEF PathInv, PathTypes
  <2>4. Apart'
    <3>1. phase[0] # "release" \/ phase'[0] = phase[0]
      BY <1>1, <2>2, CpuSets, Zenon
    <3> QED BY <3>1, <1>2, <2>1, Zenon DEF PathInv, Apart
  <2>5. OneOwner'
    BY <1>1, <1>2, <2>1, Zenon DEF PathInv, OneOwner
  <2>6. Decided'
    <3>1. \A c \in Cpus : CarriesOut(c) => CarriesOut(c)'
      BY <1>1, <2>1, Zenon DEF CarriesOut
    <3> QED BY <3>1, <1>1, <2>1, <2>2, Zenon DEF PathInv, Decided
  <2>7. OnStack'
    <3>1. OnlineCpus \subseteq Cpus
      BY CpuSets, Zenon
    <3>2. \A c \in OnlineCpus : phase'[c] # "decided" => phase[c] # "decided"
      BY <3>1, <1>1, <2>2, Zenon
    <3> QED BY <3>1, <1>1, <2>1, <2>2, Zenon DEF PathInv, OnStack
  <2>8. Saved'
    <3>1. \A c \in OnlineCpus : phase[c] \in {"decided", "save"} => phase'[c] = phase[c]
      BY <1>1, <2>2, CpuSets, Zenon
    <3> QED BY <3>1, <1>1, <2>1, Zenon DEF PathInv, Saved
  <2> QED BY <2>3, <2>4, <2>5, <2>6, <2>7, <2>8, Zenon DEF PathInv
<1>3. CASE /\ Collect
           /\ inHand' = [inHand EXCEPT ![cpu] = stack[Slot(parked)]]
           /\ stack' = [stack EXCEPT ![Slot(parked)] = NoStack]
           /\ Enter(cpu, "release")
  <2>1. /\ UNCHANGED <<states, epochs, home, stealeable, current, idle>>
        /\ parked # NoTask /\ parked' = NoTask
    BY <1>3, Zenon DEF Collect
  <2>2. PICK s \in Slots : s = Slot(parked) /\ states[s] = "Empty"
    BY <2>1, Zenon DEF PathInv, IInv, TasksTypeOK, ParkedSlotUnused, TaskIds, Slot
  <2>3. ~Smp /\ cpu = 0 /\ OnlineCpus = {0}
    <3>1. ~Smp
      BY <2>1, Zenon DEF PathInv, Apart
    <3> QED BY <3>1, OneCpu, Zenon
  <2>4. /\ OnlineCpus' = OnlineCpus /\ Cpu1Started' = Cpu1Started
        /\ \A t : LiveId(t)' = LiveId(t) /\ IdleSlot(t)' = IdleSlot(t)
    BY <2>1, Zenon DEF OnlineCpus, Cpu1Started, LiveId, IdleSlot
  <2>5. /\ stack \in [Slots -> Stacks \cup {NoStack}] /\ inHand \in [Cpus -> Stacks \cup {NoStack}]
        /\ inHand[0] = NoStack /\ inHand[1] = NoStack
        /\ stack[s] # NoStack
    BY <1>1, <2>2, <2>3, Zenon DEF PathInv, PathTypes, Apart, OneOwner
  <2>6. /\ stack'[s] = NoStack /\ \A t \in Slots : t # s => stack'[t] = stack[t]
        /\ inHand'[0] = stack[s] /\ inHand'[1] = NoStack
        /\ phase'[0] = "release" /\ \A c \in Cpus : Leaving(c)' = Leaving(c)
        /\ \A c \in Cpus : c # 0 => phase'[c] = phase[c]
    BY <1>1, <1>3, <2>2, <2>3, <2>5 DEF Enter, Leaving
  <2>7. \A t \in Slots : t # s => SlotStack(t)' = SlotStack(t)
    BY <2>4, <2>6, Zenon DEF SlotStack
  <2>8. PathTypes'
    <3>1. /\ stack' \in [Slots -> Stacks \cup {NoStack}]
          /\ inHand' \in [Cpus -> Stacks \cup {NoStack}]
          /\ phase' \in [Cpus -> Phases]
      BY <1>1, <1>3, <2>2, <2>5, Zenon DEF Enter, Phases
    <3> QED BY <3>1, <1>1, Zenon DEF PathInv, PathTypes
  <2>9. Apart'
    BY <2>1, <2>4, <2>6, Zenon DEF PathInv, Apart
  <2>10. OneOwner'
    <3>1. \A t \in Slots : stack'[t] # NoStack <=> \/ states'[t] # "Empty" /\ ~IdleSlot(t)'
                                                   \/ Slot(parked') = t
      BY <2>1, <2>2, <2>4, <2>6, NoTaskOut, Zenon DEF PathInv, OneOwner
    <3>2. \A t, u \in Slots : stack'[t] = stack'[u] /\ stack'[t] # NoStack => t = u
      BY <2>6 DEF PathInv, OneOwner
    <3>3. NoStack \notin freeStacks
      BY Zenon DEF PathInv, PathTypes, StacksApart
    <3>4. \A t \in Slots : /\ stack'[t] \notin freeStacks'
                           /\ stack'[t] # NoStack => stack'[t] # inHand'[0]
      BY <3>3, <1>1, <2>6 DEF PathInv, OneOwner
    <3>5. inHand'[0] \notin freeStacks'
      BY <1>1, <2>6, Zenon DEF PathInv, OneOwner
    <3>6. \A j \in Stacks : \/ j \in freeStacks' \cup abandoned'
                            \/ \E t \in Slots : stack'[t] = j
                            \/ \E c \in Cpus : inHand'[c] = j
      <4> SUFFICES ASSUME NEW j \in Stacks
                   PROVE  \/ j \in freeStacks' \cup abandoned'
                          \/ \E t \in Slots : stack'[t] = j
                          \/ \E c \in Cpus : inHand'[c] = j
        BY Zenon
      <4>1. CASE j = stack[s]
        BY <4>1, <2>6, Zenon DEF Cpus
      <4>2. CASE j # stack[s]
        <5>1. \A c \in Cpus : inHand[c] # j
          BY <2>5, Zenon DEF Cpus, StacksApart
        <5>2. j \in freeStacks \cup abandoned \/ \E t \in Slots : stack[t] = j
          BY <5>1, Zenon DEF PathInv, OneOwner
        <5> QED BY <5>2, <4>2, <1>1, <2>6, Zenon
      <4> QED BY <4>1, <4>2, Zenon
    <3> QED BY <3>1, <3>2, <3>4, <3>5, <3>6, Zenon DEF OneOwner
  <2>11. Decided'
    <3>1. \A c \in Cpus : ~Leaving(c)
      BY <1>1, <2>3, LeavingKnown, Zenon
    <3> QED BY <3>1, <1>1, <2>3, <2>4, <2>6, Zenon DEF PathInv, Decided
  <2>12. OnStack'
    <3>1. PICK u \in Slots : u = Slot(current[0]) /\ u # s
      BY <2>2, CpuSets, SlotsKnown, CurrentRuns, Zenon
    <3>2. sp[0] = SlotStack(u) /\ el0[0] = u
      BY <3>1, <1>1, <2>3 DEF PathInv, OnStack
    <3>3. SlotStack(Slot(IF Leaving(0) THEN sw[0].from ELSE current[0]))' = SlotStack(u)
      BY <3>1, <1>1, <2>1, <2>3, <2>4, <2>6, Zenon DEF SlotStack
    <3> QED BY <3>1, <3>2, <3>3, <1>1, <2>1, <2>3, <2>4, Zenon DEF OnStack
  <2>13. Saved'
    <3> SUFFICES ASSUME NEW t \in Slots, states[t] \in {"Ready", "Blocked"}
                 PROVE  context[t] = SlotStack(t)'
      BY <1>1, <2>1, Zenon DEF Saved
    <3> QED BY <1>1, <2>2, <2>3, <2>7, Zenon DEF PathInv, Saved
  <2> QED BY <2>8, <2>9, <2>10, <2>11, <2>12, <2>13, Zenon DEF PathInv
<1> QED BY <1>2, <1>3, Zenon DEF CollectExited

\* TaskStack::release of the stack in hand, which no slot owns.
LEMMA ReleaseKeeps ==
  ASSUME PathInv, StacksApart, IInv', NEW cpu \in OnlineCpus, ReleaseStack(cpu)
  PROVE  PathInv'
<1> DEFINE ks == {inHand[cpu]} \ {NoStack}
<1>1. /\ cpu \in Cpus /\ phase[cpu] = "release" /\ ~Leaving(cpu)
      /\ UNCHANGED <<stack, context, el0, sp, sw>> /\ UNCHANGED taskVars
      /\ phase \in [Cpus -> Phases] /\ inHand \in [Cpus -> Stacks \cup {NoStack}]
      /\ inHand' = [inHand EXCEPT ![cpu] = NoStack]
      /\ phase' = [phase EXCEPT ![cpu] = "run"]
      /\ Release(ks)
  BY CpuSets, Zenon DEF ReleaseStack, Enter, InPhase, Leaving, PathInv, PathTypes
<1>2. /\ UNCHANGED <<states, epochs, home, stealeable, current, idle, parked>>
      /\ OnlineCpus' = OnlineCpus /\ Cpu1Started' = Cpu1Started
      /\ \A t : LiveId(t)' = LiveId(t) /\ IdleSlot(t)' = IdleSlot(t)
      /\ \A t : SlotStack(t)' = SlotStack(t)
  BY <1>1, TableSame, Zenon
<1>3. /\ phase'[cpu] = "run" /\ \A c \in Cpus : Leaving(c)' = Leaving(c)
      /\ \A c \in Cpus : c # cpu => phase'[c] = phase[c] /\ inHand'[c] = inHand[c]
      /\ inHand'[cpu] = NoStack
  BY <1>1 DEF Leaving
<1>4. /\ freeStacks \subseteq freeStacks' /\ abandoned \subseteq abandoned'
      /\ freeStacks' \cup abandoned' = (freeStacks \cup abandoned) \cup ks
      /\ freeStacks' \subseteq freeStacks \cup ks
  BY <1>1, Zenon DEF Release
<1>5. ks \subseteq Stacks
  BY <1>1, Zenon
<1>6. PathTypes'
  <2>1. /\ inHand' \in [Cpus -> Stacks \cup {NoStack}] /\ phase' \in [Cpus -> Phases]
    BY <1>1, Zenon DEF Phases
  <2>2. freeStacks' \subseteq Stacks /\ abandoned' \subseteq Stacks
    <3>1. freeStacks \subseteq Stacks /\ abandoned \subseteq Stacks
      BY Zenon DEF PathInv, PathTypes
    <3> HIDE DEF ks
    <3> QED BY <3>1, <1>4, <1>5, Zenon
  <2> QED BY <2>1, <2>2, <1>1, Zenon DEF PathInv, PathTypes
<1>7. Apart'
  <2>1. /\ inHand'[1] = NoStack /\ (phase'[0] # "release" => inHand'[0] = NoStack)
    BY <1>1 DEF PathInv, Apart
  <2>2. parked # NoTask => /\ phase'[0] \in {"decided", "save", "load", "collect"}
                           /\ Leaving(0)' => sw'[0].from = parked
    BY <1>1, <1>3, CpuSets, Zenon DEF PathInv, Apart
  <2> QED BY <2>1, <2>2, <1>2, Zenon DEF PathInv, Apart
<1>8. OneOwner'
  <2>1. \A s \in Slots : stack[s] # NoStack => stack[s] # inHand[0]
    BY Zenon DEF PathInv, OneOwner
  <2>2. \A s \in Slots : stack[s] \notin ks
    <3>1. cpu = 0 \/ inHand[cpu] = NoStack
      BY <1>1, Zenon DEF PathInv, Apart, Cpus
    <3> QED BY <2>1, <3>1, Zenon
  <2>3. NoStack \notin ks /\ NoStack \notin freeStacks
    BY Zenon DEF PathInv, PathTypes, StacksApart
  <2>4. inHand'[0] = NoStack \/ (inHand'[0] = inHand[0] /\ ks = {})
    <3>1. cpu = 0 \/ (cpu = 1 /\ inHand[cpu] = NoStack)
      BY <1>1, Zenon DEF PathInv, Apart, Cpus
    <3> QED BY <3>1, <1>3, CpuSets, Zenon
  <2>5. \A j \in Stacks : \/ j \in freeStacks' \cup abandoned'
                          \/ \E t \in Slots : stack'[t] = j
                          \/ \E c \in Cpus : inHand'[c] = j
    <3> SUFFICES ASSUME NEW j \in Stacks
                 PROVE  \/ j \in freeStacks' \cup abandoned'
                        \/ \E t \in Slots : stack'[t] = j
                        \/ \E c \in Cpus : inHand'[c] = j
      BY Zenon
    <3>1. CASE j = inHand[cpu]
      <4>1. j \in ks
        BY <3>1, Zenon DEF StacksApart
      <4> HIDE DEF ks
      <4> QED BY <4>1, <1>4, Zenon
    <3>2. CASE j # inHand[cpu]
      <4>1. \/ j \in freeStacks \cup abandoned
            \/ \E t \in Slots : stack[t] = j
            \/ \E c \in Cpus : inHand[c] = j
        BY Zenon DEF PathInv, OneOwner
      <4> HIDE DEF ks
      <4> QED BY <4>1, <3>2, <1>1, <1>4, Zenon
    <3> QED BY <3>1, <3>2, Zenon
  <2> HIDE DEF ks
  <2>6. inHand'[0] \notin freeStacks'
    <3>1. inHand[0] \notin freeStacks
      BY Zenon DEF PathInv, OneOwner
    <3> QED BY <3>1, <2>3, <2>4, <1>4, Zenon
  <2>7. \A s \in Slots : /\ stack'[s] \notin freeStacks'
                         /\ stack'[s] # NoStack => stack'[s] # inHand'[0]
    <3>1. \A s \in Slots : stack[s] \notin freeStacks
      BY Zenon DEF PathInv, OneOwner
    <3> QED BY <3>1, <2>1, <2>2, <1>1, <1>4
  <2> QED BY <2>5, <2>6, <2>7, <1>1, <1>2, Zenon DEF PathInv, OneOwner
<1>9. Decided'
  <2>1. \A c \in Cpus : CarriesOut(c) => CarriesOut(c)'
    BY <1>1, <1>2, Zenon DEF CarriesOut
  <2> QED BY <2>1, <1>1, <1>2, <1>3, Zenon DEF PathInv, Decided
<1>10. OnStack'
  <2>1. OnlineCpus \subseteq Cpus
    BY CpuSets, Zenon
  <2>2. \A c \in OnlineCpus : phase'[c] # "decided" => phase[c] # "decided"
    BY <1>1
  <2> QED BY <2>1, <1>1, <1>2, <1>3, Zenon DEF PathInv, OnStack
<1>11. Saved'
  <2>1. \A c \in OnlineCpus : phase[c] \in {"decided", "save"} => phase'[c] = phase[c]
    BY <1>1
  <2> QED BY <1>1, <1>2 DEF PathInv, Saved
<1> QED BY <1>6, <1>7, <1>8, <1>9, <1>10, <1>11, Zenon DEF PathInv

=============================================================================
