---------------------------- MODULE AgentSession ----------------------------
(***************************************************************************)
(* EL0 sessions of agents on one CPU: entry, exceptions and resume         *)
(* (src/src/arch/aarch64/el0.rs, exception/vectors.s), and the session     *)
(* loop that serves system calls (src/src/agent/mod.rs, kernel-core        *)
(* syscall.rs and reply.rs).                                               *)
(*                                                                         *)
(* enter, resume and end_session run with interrupts masked and are one    *)
(* step each; so is an exception.  Between them the loop can be preempted  *)
(* at any point.  What the mailbox, interrupt and capability layers answer *)
(* is any answer they have (Ipc, WaitPath and Authority are about those).  *)
(* A task that owns an address space never changes CPU, so one CPU is all  *)
(* a session sees.                                                         *)
(***************************************************************************)
EXTENDS Naturals, FiniteSets

CONSTANTS
    Agents,     \* tasks with an address space
    IrqAgents,  \* those that ask for interrupts at EL0 (set_entry_irqs_unmasked)
    Kernel,     \* every other task; also: the kernel's translation root
    NoOne       \* no session published; a cleared root

ASSUME AgentAssumption ==
    /\ Kernel \notin Agents /\ NoOne \notin Agents \cup {Kernel}
    /\ IrqAgents \subseteq Agents

Tasks == Agents \cup {Kernel}

VARIABLES
    el,         \* exception level the CPU runs at: "EL1" or "EL0"
    onCpu,    \* the task that runs
    published,  \* CURRENT_EL0: whose session the assembly reaches
    ttbr0,      \* whose translation root is installed
    regs,       \* the user register file while at EL0
    session,    \* [Tasks -> El0Session]
    at,         \* [Agents -> where the session loop is]
    event,      \* [Agents -> the event or the answer the loop has in hand]
    blocked,    \* tasks that wait in a call
    cancelled,  \* tasks whose wait was cancelled: the call will answer so
    force_exit, \* agents asked to stop
    cancelling, \* the agent whose wait the supervisor is about to cancel
    owed,       \* history: the registers an agent must find when it resumes
    panicked    \* a check failed and the kernel stopped

vars == <<el, onCpu, published, ttbr0, regs, session, at, event, blocked,
          cancelled, force_exit, cancelling, owed, panicked>>
cpuVars == <<el, onCpu, published, ttbr0, regs>>

-----------------------------------------------------------------------------
(* The system call ABI *)

\* syscall::decode: what an immediate asks for.  Quick stands for the calls
\* that never wait: send, try_recv, resolve, transfer.
Calls == {"Quick", "Recv", "WaitIrq"}
Svcs == Calls \cup {"Ping", "Exit", "Unknown"}

\* What the layers below answer.  Done is any success without a message (sent,
\* woken, installed, moved); NotNow is full, empty or busy; Refused is any
\* refusal of authority.  A timed receive is a Recv here (WaitPath has both).
RecvOutcomes == {"Got", "NotNow", "Refused"}
WaitIrqOutcomes == {"Done", "NotNow", "Refused"}

Answers(call) ==
    CASE call = "Quick"   -> {"Done", "Got", "NotNow", "Refused"}
      [] call = "Recv"    -> RecvOutcomes
      [] call = "WaitIrq" -> WaitIrqOutcomes

\* reply.rs: the status of an answer, and what x1 to x3 get.
Status(answer) ==
    CASE answer \in {"Done", "Got"} -> "Ok"
      [] answer = "Refused" -> "Authority"
      [] OTHER -> answer

\* Registers: x0, x1, x2 with x3, and all others.
User(a) == [x0 |-> a, x1 |-> a, x23 |-> a, others |-> a]

\* Mutant: the detail of a refusal is written like a payload.
WithPayloadOrDetailWide(r, answer) ==
    IF answer = "Got" THEN [r EXCEPT !.x1 = "message", !.x23 = "message"]
    ELSE IF answer = "Refused" THEN [r EXCEPT !.x1 = "detail", !.x23 = "detail"]
    ELSE r

\* The first half of apply_reply: a received message, or why a call is refused.
WithPayloadOrDetail(r, answer) ==
    IF answer = "Got" THEN [r EXCEPT !.x1 = "message", !.x23 = "message"]
    ELSE IF answer = "Refused" THEN [r EXCEPT !.x1 = "detail"]
    ELSE r

\* The ABI table of syscall.rs: what an agent finds after a call.  A payload
\* arrives only with Ok; a refusal leaves x2 and x3 the agent's own.
Answered(r, answer) ==
    [x0 |-> Status(answer),
     x1 |-> CASE answer = "Got" -> "message" [] answer = "Refused" -> "detail"
              [] OTHER -> r.x1,
     x23 |-> IF answer = "Got" THEN "message" ELSE r.x23,
     others |-> r.others]

-----------------------------------------------------------------------------
(* El0Session *)

\* El0Session::new, and what end_session leaves.
NoSession == [user_ttbr |-> NoOne, kernel_ttbr0 |-> NoOne, can_resume |-> FALSE,
              irqs |-> FALSE, saved |-> User(NoOne)]

SessionInit ==
    /\ el = "EL1" /\ onCpu = Kernel /\ published = Kernel /\ ttbr0 = Kernel
    /\ regs = User(NoOne)
    /\ session = [t \in Tasks |-> NoSession]
    /\ at = [a \in Agents |-> "idle"]
    /\ event = [a \in Agents |-> "none"]
    /\ blocked = {} /\ cancelled = {} /\ force_exit = {} /\ cancelling = NoOne
    /\ owed = [a \in Agents |-> User(a)]
    /\ panicked = FALSE

\* Agent a's session loop is at label l and has the CPU.
Runs(a, l) == ~panicked /\ el = "EL1" /\ onCpu = a /\ at[a] = l
MoveTo(a, l) == at' = [at EXCEPT ![a] = l]

\* A check of el0.rs or of the vectors; when it fails the kernel stops.
Require(ok) == panicked' = ~ok

\* entry_spsr: whether interrupts are open at EL0.
EntryIrqs(a) == a \in IrqAgents

\* enter: the roots are recorded before the user root goes in, can_resume is
\* cleared; el0_run then returns to the loop by way of an exception.
EnterEl0(a) ==
    /\ session' = [session EXCEPT ![a] =
            [@ EXCEPT !.user_ttbr = a, !.can_resume = FALSE,
                      !.kernel_ttbr0 = Kernel, !.irqs = EntryIrqs(a)]]
    /\ ttbr0' = a /\ el' = "EL0" /\ regs' = User(a)
    /\ owed' = [owed EXCEPT ![a] = User(a)]

Enter(a) ==
    /\ Runs(a, "idle")
    /\ Require(published = a)
    /\ EnterEl0(a)
    /\ MoveTo(a, "el0")
    /\ UNCHANGED <<onCpu, published, event, blocked, cancelled, force_exit, cancelling>>

\* restore_kernel_ttbr0_require_session: the root the published session has.
KernelRoot == session[published].kernel_ttbr0

\* The vector path's classification: only a system call or an interrupt can be
\* resumed, and an event it does not know counts as a fault.
Kind(e) == IF e \in Svcs THEN "Svc" ELSE IF e = "Irq" THEN "Irq" ELSE "OtherSync"

\* exception_sync_el0 and exception_irq_el0 save the context of a resumable
\* event; el0_run_finish clears the kernel root after any other.
Saved(s, kind) ==
    IF kind \in {"Svc", "Irq"} THEN [s EXCEPT !.saved = User(onCpu), !.can_resume = TRUE]
    ELSE [s EXCEPT !.can_resume = FALSE, !.kernel_ttbr0 = NoOne]

\* A lower-EL exception; by then the user program has rewritten its registers.
\* It returns to the loop whose stack the published session recorded.
Exception(e) ==
    /\ ~panicked /\ el = "EL0"
    /\ Require(session[published].kernel_ttbr0 # NoOne)
    /\ ttbr0' = KernelRoot /\ el' = "EL1" /\ regs' = User(NoOne)
    /\ session' = [session EXCEPT ![published] = Saved(@, Kind(e))]
    /\ event' = [event EXCEPT ![published] = e]
    /\ owed' = [owed EXCEPT ![onCpu] = User(onCpu)]
    /\ MoveTo(published, "event")
    /\ UNCHANGED <<onCpu, published, blocked, cancelled, force_exit, cancelling>>

Svc == \E e \in Svcs : Exception(e)
UserIrq == onCpu \in Agents /\ session[onCpu].irqs /\ Exception("Irq")
Fault == Exception("Fault")

-----------------------------------------------------------------------------
(* The session loop *)

\* end_session.  The saved registers, which it leaves, are written again before
\* anything reads them.
Ended == NoSession

EndStep(a) ==
    /\ Require(published = a)
    /\ session' = [session EXCEPT ![a] = Ended]
    /\ event' = [event EXCEPT ![a] = "none"]
    /\ owed' = [owed EXCEPT ![a] = User(a)]
    /\ MoveTo(a, "idle")

\* SessionEnd, but for Forced: the events that end a session.
SessionEnds == {"Exit", "Unknown", "Fault"}

\* Mutant: the request to stop is not looked at.
MustEndUnforced(a) == event[a] \in SessionEnds

\* take_force_exit: a request to stop goes before the event.
MustEnd(a) == a \in force_exit \/ event[a] \in SessionEnds

\* The top of the loop.
Loop(a) ==
    /\ Runs(a, "event")
    /\ \/ MustEnd(a) /\ EndStep(a) /\ force_exit' = force_exit \ {a}
       \/ /\ ~MustEnd(a)
          /\ IF event[a] \in Calls THEN MoveTo(a, "serve") /\ UNCHANGED event
             ELSE MoveTo(a, "resume") /\ event' = [event EXCEPT ![a] = "none"]
          /\ UNCHANGED <<session, force_exit, owed, panicked>>
    /\ UNCHANGED <<cpuVars, blocked, cancelled, cancelling>>

\* The layers below answer the call.  A receive looks at the cancel mark
\* before the mailbox, and after the slot it was given; nothing else does.
Serve(a, answer) ==
    /\ \/ /\ Runs(a, "serve") /\ answer \in Answers(event[a])
          /\ event[a] = "Recv" /\ a \in cancelled => answer = "Refused"
          /\ UNCHANGED cancelled
       \/ /\ Runs(a, "serve") /\ answer = "Cancelled"
          /\ event[a] = "Recv" /\ a \in cancelled
          /\ cancelled' = cancelled \ {a}
       \/ Runs(a, "waited") /\ answer = "Done" /\ UNCHANGED cancelled
    /\ event' = [event EXCEPT ![a] = answer]
    /\ owed' = [owed EXCEPT ![a] = Answered(@, answer)]
    /\ MoveTo(a, "payload")
    /\ UNCHANGED <<cpuVars, session, blocked, force_exit, cancelling, panicked>>

\* set_saved_gpr, in two of the places apply_reply calls it.
WriteReply(a, r) ==
    /\ Require(published = a)
    /\ session' = [session EXCEPT ![published].saved = r]
    /\ UNCHANGED <<cpuVars, blocked, cancelled, force_exit, cancelling, owed>>

WritePayload(a) ==
    /\ Runs(a, "payload")
    /\ WriteReply(a, WithPayloadOrDetail(session[published].saved, event[a]))
    /\ MoveTo(a, "status")
    /\ UNCHANGED event

WriteReplyStatus(a) ==
    /\ Runs(a, "status")
    /\ WriteReply(a, [session[published].saved EXCEPT !.x0 = Status(event[a])])
    /\ MoveTo(a, "resume")
    /\ event' = [event EXCEPT ![a] = "none"]

\* el0::resume: both preconditions of el0_resume are checked.
ResumeEl0(a) ==
    /\ Require(/\ published = a
               /\ session[a].can_resume /\ session[a].kernel_ttbr0 # NoOne)
    /\ ttbr0' = session[published].user_ttbr /\ el' = "EL0"
    /\ regs' = session[published].saved

Resume(a) ==
    /\ Runs(a, "resume")
    /\ ResumeEl0(a)
    /\ MoveTo(a, "el0")
    /\ UNCHANGED <<onCpu, published, session, event, blocked, cancelled,
                   force_exit, cancelling, owed>>

-----------------------------------------------------------------------------
(* The scheduler, as sessions see it: SwitchPath has its steps. *)

\* Mutant: a switch forgets to publish.
SwitchUnpublished(t) == onCpu' = t /\ UNCHANGED published

\* The pointer the assembly of this CPU reaches.
Publish(t) == published' = t

\* Every switch-in publishes the session of the task it switches to.
SwitchTo(t) == onCpu' = t /\ Publish(t)

Runnable == Tasks \ blocked

\* A switch between two steps: preempt_switch before a resume, or the timer
\* interrupt at EL1.
Preempt(t) ==
    /\ ~panicked /\ el = "EL1" /\ t \in Runnable \ {onCpu}
    /\ SwitchTo(t)
    /\ UNCHANGED <<el, ttbr0, regs, session, at, event, blocked, cancelled,
                   force_exit, cancelling, owed, panicked>>

\* A call that waits blocks its task: a receive unless it is cancelled, and a
\* wait for an interrupt whatever the mark.
Wait(a) ==
    /\ Runs(a, "serve") /\ event[a] \in {"Recv", "WaitIrq"}
    /\ event[a] = "Recv" => a \notin cancelled
    /\ blocked' = blocked \cup {a}
    /\ MoveTo(a, IF event[a] = "Recv" THEN "serve" ELSE "waited")
    /\ \E t \in Runnable \ {a} : SwitchTo(t)
    /\ UNCHANGED <<el, ttbr0, regs, session, event, cancelled, force_exit,
                   cancelling, owed, panicked>>

\* A message or an interrupt; a receive then looks again.
WakeAgent(a) ==
    /\ ~panicked /\ el = "EL1" /\ a \in blocked
    /\ blocked' = blocked \ {a}
    /\ UNCHANGED <<cpuVars, session, at, event, cancelled, force_exit, cancelling,
                   owed, panicked>>

\* supervisor_force_exit, by a kernel task: the flag, and for a blocked task,
\* after the scheduler's lock is let go, the cancellation.
ForceExit(a) ==
    /\ ~panicked /\ el = "EL1" /\ onCpu = Kernel /\ cancelling = NoOne
    /\ force_exit' = force_exit \cup {a}
    /\ cancelling' = IF a \in blocked THEN a ELSE NoOne
    /\ UNCHANGED <<cpuVars, session, at, event, blocked, cancelled, owed, panicked>>

\* cancel_blocked: by now the task may have been woken, or wait once more.
CancelBlocked ==
    /\ ~panicked /\ el = "EL1" /\ onCpu = Kernel /\ cancelling # NoOne
    /\ cancelled' = cancelled \cup ({cancelling} \cap blocked)
    /\ blocked' = blocked \ {cancelling}
    /\ cancelling' = NoOne
    /\ UNCHANGED <<cpuVars, session, at, event, force_exit, owed, panicked>>

-----------------------------------------------------------------------------

LoopStep(a) ==
    \/ Enter(a) \/ Loop(a) \/ WritePayload(a) \/ WriteReplyStatus(a) \/ Resume(a)
    \/ Wait(a)
    \/ \E answer \in {"Done", "Got", "NotNow", "Refused", "Cancelled"} :
          Serve(a, answer)

SessionNext ==
    \/ \E a \in Agents : LoopStep(a) \/ WakeAgent(a) \/ ForceExit(a)
    \/ Svc \/ UserIrq \/ Fault \/ CancelBlocked
    \/ \E t \in Tasks : Preempt(t)

\* An agent that can run gets the CPU again and again and then does run: the
\* round-robin queue and the quantum see to that (ReadyRuns of Tasks).  Nothing
\* is asked of the kernel task.
SessionSpec ==
    /\ SessionInit /\ [][SessionNext]_vars
    /\ \A a \in Agents : SF_vars(Preempt(a)) /\ SF_vars(LoopStep(a))

-----------------------------------------------------------------------------
(* Properties *)

\* The checks of require_published, resume and the vectors never fail: the
\* published session is the running task's and can be resumed when it is,
\* and the kernel root is recorded when EL0 runs (el0.rs, vectors.s).
NoPanic == ~panicked

\* "Non-zero exactly while a session is live": the root an exception restores
\* is there from enter to the end of the session, across any number of waits
\* and switches, and the root in use is the running agent's exactly at EL0.
RootFollowsLevel ==
    /\ ttbr0 = IF el = "EL0" THEN onCpu ELSE Kernel
    /\ \A a \in Agents :
          session[a].kernel_ttbr0 # NoOne
              <=> at[a] \notin {"idle"} /\ ~(at[a] = "event" /\ event[a] = "Fault")

\* What the session code checks, and what it relies on, is always so (el0.rs,
\* vectors.s).
SessionSound == NoPanic /\ RootFollowsLevel

\* An agent goes on with its own registers and, after a call, with the answer
\* to that call: the status in x0, a message in x1 to x3 only with Ok, the
\* reason of a refusal in x1 alone (reply.rs and apply_reply), whatever ran
\* while it waited or was preempted halfway through the reply.
RegistersAreOwed == el = "EL0" => regs = owed[onCpu]

\* An agent asked to stop when it is past its wait, or in none, ends its
\* session at the next turn of the loop, if no agent keeps the CPU for ever
\* (supervisor_force_exit and take_force_exit).
Leaving(a) ==
    a \in force_exit /\ at[a] \in {"el0", "event", "payload", "status", "resume", "waited"}
                    /\ a \notin blocked
ForcedLeaves ==
    []<>(el = "EL1") => \A a \in Agents : Leaving(a) ~> at[a] = "idle"

=============================================================================
