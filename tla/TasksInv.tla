------------------------------ MODULE TasksInv ------------------------------
(***************************************************************************)
(* The inductive invariant of the task table and what a rotation does,     *)
(* shared by the proofs about the table (SchedProof) and about the switch  *)
(* path (SwitchProof).  The queue part of the invariant is stated over     *)
(* explicit queues, homes, states and epochs, so that switch_on can be     *)
(* followed through its pull, its requeue and its dequeue one after the    *)
(* other.                                                                  *)
(***************************************************************************)
EXTENDS Tasks

QueueInv(qs, hm, st, ep) ==
    /\ qs \in [Cpus -> Seq(TaskIds)]
    /\ \A c \in Cpus : Len(qs[c]) <= N
    /\ \A c \in Cpus : \A i \in 1 .. Len(qs[c]) :
        /\ qs[c][i] = <<Slot(qs[c][i]), ep[Slot(qs[c][i])]>>
        /\ st[Slot(qs[c][i])] = "Ready"
        /\ hm[Slot(qs[c][i])] = c
    /\ \A c \in Cpus : \A i, j \in 1 .. Len(qs[c]) :
        qs[c][i] = qs[c][j] => i = j
    /\ \A s \in Slots : st[s] = "Ready" =>
        \E i \in 1 .. Len(qs[hm[s]]) : qs[hm[s]][i] = <<s, ep[s]>>

Typed(hm, st, ep) ==
    /\ hm \in [Slots -> Cpus]
    /\ st \in [Slots -> States]
    /\ ep \in [Slots -> Epochs]

(* The inductive invariant: the run-checked invariants but the watermark,  *)
(* which need one another (QueueInv is the first three of them).           *)

Parts == QueuedIsReady /\ QueuedOnce /\ ReadyIsQueued

IInv ==
    /\ TasksTypeOK
    /\ Parts
    /\ RunningIsCurrent
    /\ IdleCurrentOrQueued
    /\ ParkedSlotUnused

\* What a rotation does: the leaving task's slot and the slot n of the task that
\* takes the CPU are the only ones whose state changes, and n was Ready or is
\* the leaving task itself.
RotateEffect(cpu, kind, me, n) ==
    LET left == LeftIn(kind, states[me])
    IN /\ QueueInv(queues', home', states', epochs')
       /\ Typed(home', states', epochs')
       /\ states[me] = "Running" /\ current[cpu] = LiveId(me) /\ home'[me] = cpu
       /\ n # me => states[n] = "Ready"
       /\ home'[n] = cpu
       /\ left \in {"Ready", "Blocked", "Empty"}
       /\ kind # "Exit" => epochs' = epochs
       /\ kind = "Yield" => left = "Ready"
       /\ kind = "Exit" => left = "Empty" /\ me # n
       /\ \A s \in Slots :
           /\ s # me => epochs'[s] = epochs[s]
           /\ s = n => states'[s] = "Running"
           /\ s = me /\ s # n => states'[s] = left
           /\ s # me /\ s # n => states'[s] = states[s]
       /\ current' = [current EXCEPT ![cpu] = <<n, epochs'[n]>>]
       /\ parked' = (IF kind = "Exit" THEN current[cpu] ELSE parked)
       /\ overwrites' \in {overwrites, overwrites + 1}
       /\ UNCHANGED <<stealeable, idle, peak>>
       /\ \A s \in Slots : states[s] # "Ready" => home'[s] = home[s]
       /\ \A c \in Cpus : idle[c] = LiveId(Slot(idle[c])) =>
               home'[Slot(idle[c])] = home[Slot(idle[c])]

\* The effect of every rotation, for the slot at the head of the queue.
RotationsExact ==
    \A cpu \in OnlineCpus, kind \in Kinds : \A pull \in Pulled(cpu) :
        ~Refuses(cpu, kind, pull.queues[cpu]) /\ Rotate(cpu, kind, pull) =>
            \E n \in Slots : RotateEffect(cpu, kind, Slot(current[cpu]), n)

=============================================================================
