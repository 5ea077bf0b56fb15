----------------------------- MODULE Authority -----------------------------
(***************************************************************************)
(* Who holds which capability: the per-task capability slots               *)
(* (kernel-core capslots.rs), task capabilities (taskcap.rs), names        *)
(* (naming.rs), the resolve grant, and the mailbox table's count of SEND   *)
(* holders, through spawn, transfer, resolve and exit in                   *)
(* src/src/sched/mod.rs and src/src/agent/mod.rs.                          *)
(*                                                                         *)
(* The slots are under the scheduler's lock, the holder counts under the   *)
(* mailbox lock, the task capabilities and the names under locks of their  *)
(* own, taken one after the other.  A step is one critical section; `at'   *)
(* is what a task still has to do in the call it is in.  Other tasks may   *)
(* come between two sections (preemption, or CPU 1).                       *)
(*                                                                         *)
(* Of the task table only liveness and epochs matter here.  Slot 0 is the  *)
(* bootstrap task, which never exits.                                      *)
(***************************************************************************)
EXTENDS Ipc, FiniteSetsExt

CONSTANTS
    TaskCount,      \* MAX_TASKS
    SlotCount,      \* MAX_CAPS_PER_TASK
    TaskCapCount,   \* MAX_TASK_CAPS
    MaxSpawns,      \* bound: spawns explored
    MaxMints,       \* bound: task capabilities minted per entry
    NameSet,        \* names in the registry; MAX_NAMES is not reached
    Modes           \* what a behaviour explores: [inside, channels, uses]

ASSUME AuthorityAssumption ==
    /\ {TaskCount, SlotCount, TaskCapCount, MaxSpawns, MaxMints} \subseteq Nat \ {0}
    /\ Modes \subseteq [inside : Nat \ {0}, channels : Nat,
                    uses : {"taskcaps", "names"}]
    /\ TaskCount * SlotCount <= HoldersMax        \* a count never saturates
    /\ \A m \in Modes : m.channels < GenMax       \* no generation repeats

TaskSlots == 0 .. TaskCount - 1
CapSlots == 0 .. SlotCount - 1
TaskCaps == 0 .. TaskCapCount - 1

VARIABLES
    mode,           \* bounds, chosen at boot: tasks inside a call at once,
                    \* channels made, task capabilities or names used
    tcb,            \* [TaskSlots -> [live, epoch, creator, may_resolve]]
    rows,           \* [TaskSlots -> [CapSlots -> capability or NoCap]]
    taskcaps,       \* [TaskCaps -> [live, generation, task]]
    names,          \* [NameSet -> capability or NoCap]
    at,             \* [TaskSlots -> the rest of the call a task is in]
    given           \* ledger <<task id, slot, cap>>: who was given what, by name

slotVars == <<mode, tcb, rows, taskcaps, names, at, given>>
authorityVars == <<ipcVars, slotVars>>

NoCap == [index |-> -1, generation |-> 0]
Resolving == [index |-> -2, generation |-> 0]   \* the grant, in `given'
Free == [do |-> "run"]
LiveId(s) == <<s, tcb[s].epoch>>

\* Mutant: whoever has the slot is meant.
ExistsInSlot(id) == tcb[id[1]].live

\* Tasks::state answers Empty or None for every other id.
Exists(id) == tcb[id[1]].live /\ LiveId(id[1]) = id

\* CapId::classify, for the bands in use: endpoint indices, then task-caps.
TaskCap(i, gen) == [index |-> EndpointCount + 1 + i, generation |-> gen]
IsEndpoint(cap) == cap.index <= EndpointCount
TaskIndex(cap) == cap.index - EndpointCount - 1

\* The capabilities of a row, as the slices passed to the mailbox table.
Slice(row) == [i \in 1 .. SlotCount |-> row[i - 1]]
EmptyRow == [i \in CapSlots |-> NoCap]
Held(row) == {i \in CapSlots : row[i] # NoCap}
RowWith(i, cap) == [EmptyRow EXCEPT ![i] = cap]

AuthorityInit ==
    /\ IpcInit
    /\ mode \in Modes
    /\ tcb = [s \in TaskSlots |-> [live |-> s = 0, epoch |-> 0,
                                   creator |-> <<0, 0>>, may_resolve |-> s = 0]]
    /\ rows = [s \in TaskSlots |-> EmptyRow]
    /\ taskcaps = [i \in TaskCaps |-> [live |-> FALSE, generation |-> 0,
                                       task |-> <<0, 0>>]]
    /\ names = [n \in NameSet |-> NoCap]
    /\ at = [s \in TaskSlots |-> Free]
    /\ given = {<<<<0, 0>>, 0, Resolving>>}

\* The tasks that are inside a call; with mode.inside = 1 calls are atomic.
Inside == {s \in TaskSlots : at[s] # Free}
Idle(s) == tcb[s].live /\ at[s] = Free /\ Cardinality(Inside) < mode.inside
In(s, do) == at[s].do = do
Continue(s, rest) == at' = [at EXCEPT ![s] = rest]

\* The capabilities that are handed out here: SEND ends, as they are now or
\* were last.  RECV ends move the same way and count for nothing.
SendCaps ==
    {[index |-> e, generation |-> endpoints[e].generation] :
        e \in {f \in Ends : endpoints[f].rights = "SEND"}}

-----------------------------------------------------------------------------
(* Channels are made and revoked by the bootstrap task. *)

Create ==
    /\ Idle(0) /\ next_gen <= mode.channels
    /\ CreateChannel(FALSE)
    /\ UNCHANGED slotVars

Revoke ==
    /\ Idle(0)
    /\ \E cap \in SendCaps : RevokeChannel(cap)
    /\ UNCHANGED slotVars

-----------------------------------------------------------------------------
(* spawn: the row is seeded under the scheduler lock, the holds are        *)
(* registered afterwards.  A slot is free once its last tenant's exit is   *)
(* complete.                                                               *)

Spawns == MapThenSumSet(LAMBDA s : tcb[s].epoch + (IF tcb[s].live THEN 1 ELSE 0),
                        TaskSlots \ {0})
FreeSlot(s) == ~tcb[s].live /\ at[s] = Free

NewTcb(s, p) == [live |-> TRUE, epoch |-> tcb[s].epoch, creator |-> LiveId(p),
                 may_resolve |-> FALSE]

SpawnWithSlots(p, row) ==
    /\ Idle(p) /\ Spawns < MaxSpawns
    /\ \E s \in TaskSlots :
        /\ FreeSlot(s) /\ \A t \in TaskSlots : FreeSlot(t) => s <= t
        /\ tcb' = [tcb EXCEPT ![s] = NewTcb(s, p)]
        /\ rows' = [rows EXCEPT ![s] = row]
        /\ given' = given \cup {<<LiveId(s), i, row[i]>> : i \in Held(row)}
    /\ Continue(p, [do |-> "register", row |-> row])
    /\ UNCHANGED <<ipcVars, mode, taskcaps, names>>

Register(s) ==
    /\ In(s, "register")
    /\ RegisterHolds(Slice(at[s].row))
    /\ Continue(s, Free)
    /\ UNCHANGED <<mode, tcb, rows, taskcaps, names, given>>

-----------------------------------------------------------------------------
(* exit: the row is drained with the slot, then the holds are released and *)
(* the task-caps that name the task die.                                   *)

\* capslots::Table::drain
Drained(s) == [rows EXCEPT ![s] = EmptyRow]

Exit(s) ==
    /\ Idle(s) /\ s # 0
    /\ tcb' = [tcb EXCEPT ![s].live = FALSE, ![s].epoch = @ + 1]
    /\ rows' = Drained(s)
    /\ given' = {g \in given : g[1] # LiveId(s)}
    /\ Continue(s, [do |-> "release", row |-> rows[s], id |-> LiveId(s)])
    /\ UNCHANGED <<ipcVars, mode, taskcaps, names>>

Release(s) ==
    /\ In(s, "release")
    /\ ReleaseHolds(Slice(at[s].row))
    /\ Continue(s, [do |-> "revoke", id |-> at[s].id])
    /\ UNCHANGED <<mode, tcb, rows, taskcaps, names, given>>

\* taskcap::Table::revoke_task
Revoked(id) ==
    [i \in TaskCaps |->
        IF taskcaps[i].live /\ taskcaps[i].task = id
        THEN [taskcaps[i] EXCEPT !.live = FALSE] ELSE taskcaps[i]]

RevokeTask(s) ==
    /\ In(s, "revoke")
    /\ taskcaps' = Revoked(at[s].id)
    /\ Continue(s, Free)
    /\ UNCHANGED <<ipcVars, mode, tcb, rows, names, given>>

-----------------------------------------------------------------------------
(* install_cap, for a minted task-cap and for SYS_RESOLVE *)

\* The bootstrap task picks a task that is live and a slot for its cap ...
PickTask(slot) ==
    /\ Idle(0) /\ mode.uses = "taskcaps"
    /\ \A i \in TaskCaps : taskcaps[i].generation < MaxMints
    /\ \E t \in TaskSlots :
        tcb[t].live /\ Continue(0, [do |-> "mint", id |-> LiveId(t), slot |-> slot])
    /\ UNCHANGED <<ipcVars, mode, tcb, rows, taskcaps, names, given>>

\* ... and mints, into the first dead entry.
Mint(s) ==
    /\ In(s, "mint")
    /\ \/ \E i \in TaskCaps :
            /\ ~taskcaps[i].live /\ \A j \in TaskCaps : ~taskcaps[j].live => i <= j
            /\ taskcaps' = [taskcaps EXCEPT ![i] =
                    [live |-> TRUE, generation |-> NextGen(@.generation),
                     task |-> at[s].id]]
            /\ Continue(s, [do |-> "install", slot |-> at[s].slot,
                            cap |-> TaskCap(i, taskcaps'[i].generation)])
       \/ /\ \A i \in TaskCaps : taskcaps[i].live
          /\ Continue(s, Free)
          /\ UNCHANGED taskcaps
    /\ UNCHANGED <<ipcVars, mode, tcb, rows, names, given>>

\* resolve_outcome, up to the install.  The grant and the binding are read in
\* sections of their own, but nobody takes a grant back.
Resolve(s, slot, name) ==
    /\ Idle(s)
    /\ tcb[s].may_resolve
    /\ names[name] # NoCap
    /\ Continue(s, [do |-> "install", slot |-> slot, cap |-> names[name]])
    /\ UNCHANGED <<ipcVars, mode, tcb, rows, taskcaps, names, given>>

\* capslots::Table::install, then the holds in a section of their own.
InstallCap(s) ==
    /\ In(s, "install")
    /\ IF rows[s][at[s].slot] = NoCap
       THEN /\ rows' = [rows EXCEPT ![s][at[s].slot] = at[s].cap]
            /\ given' = given \cup {<<LiveId(s), at[s].slot, at[s].cap>>}
            /\ Continue(s, [do |-> "register", row |-> RowWith(at[s].slot, at[s].cap)])
       ELSE Continue(s, Free) /\ UNCHANGED <<rows, given>>
    /\ UNCHANGED <<ipcVars, mode, tcb, taskcaps, names>>

Bind(name, cap) ==
    /\ Idle(0) /\ mode.uses = "names"
    /\ names' = [names EXCEPT ![name] = cap]
    /\ UNCHANGED <<ipcVars, mode, tcb, rows, taskcaps, at, given>>

Unbind(name) ==
    /\ Idle(0)
    /\ names' = [names EXCEPT ![name] = NoCap]
    /\ UNCHANGED <<ipcVars, mode, tcb, rows, taskcaps, at, given>>

\* grant_resolve, for an id that may be out of date.
GrantResolve(id) ==
    /\ Idle(0) /\ mode.uses = "names"
    /\ Exists(id)
    /\ tcb' = [tcb EXCEPT ![id[1]].may_resolve = TRUE]
    /\ given' = given \cup {<<id, 0, Resolving>>}
    /\ UNCHANGED <<ipcVars, mode, rows, taskcaps, names, at>>

-----------------------------------------------------------------------------
(* transfer_held and the three destinations of SYS_TRANSFER *)

\* Mutant: every kind of capability moves.
MovableAny(cap) == cap # NoCap

\* Only endpoints move (ADR-0055).
Movable(cap) == cap # NoCap /\ IsEndpoint(cap)

\* Mutant: the source keeps its copy.
MovedCopy(s, from, t, to) == [rows EXCEPT ![t][to] = rows[s][from]]

\* The rows after a move the checks allow.
Moved(s, from, t, to) ==
    [rows EXCEPT ![s][from] = NoCap, ![t][to] = rows[s][from]]

\* One section: liveness of the destination, the same-slot no-op, then
\* capslots::Table::transfer.  A refusal changes nothing.
TransferHeld(s, from, id, to) ==
    IF /\ id = LiveId(s) \/ Exists(id)
       /\ ~(id[1] = s /\ from = to)
       /\ Movable(rows[s][from])
       /\ rows[id[1]][to] = NoCap
    THEN /\ rows' = Moved(s, from, id[1], to)
         /\ given' = (given \ {<<LiveId(s), from, rows[s][from]>>})
                    \cup {<<id, to, rows[s][from]>>}
    ELSE UNCHANGED <<rows, given>>

ToSelf(s, from, to) ==
    /\ Idle(s)
    /\ TransferHeld(s, from, LiveId(s), to)
    /\ UNCHANGED <<ipcVars, mode, tcb, taskcaps, names, at>>

\* The creator's id is read in a section of its own.
ToCreator(s, from, to) ==
    /\ Idle(s)
    /\ tcb[s].creator # LiveId(s)
    /\ Continue(s, [do |-> "move", from |-> from, id |-> tcb[s].creator, to |-> to])
    /\ UNCHANGED <<ipcVars, mode, tcb, rows, taskcaps, names, given>>

\* transfer_held_to_peer: the slot is read, then the cap looked up ...
ToPeer(s, from, to, slot) ==
    /\ Idle(s)
    /\ rows[s][slot] # NoCap
    /\ Continue(s, [do |-> "lookup", from |-> from, cap |-> rows[s][slot], to |-> to])
    /\ UNCHANGED <<ipcVars, mode, tcb, rows, taskcaps, names, given>>

\* taskcap::Table::lookup
NamesTask(cap) ==
    /\ ~IsEndpoint(cap)
    /\ taskcaps[TaskIndex(cap)].live
    /\ taskcaps[TaskIndex(cap)].generation = cap.generation

Lookup(s) ==
    /\ In(s, "lookup")
    /\ LET cap == at[s].cap
       IN IF NamesTask(cap) /\ taskcaps[TaskIndex(cap)].task # LiveId(s)
          THEN Continue(s, [do |-> "move", from |-> at[s].from, to |-> at[s].to,
                            id |-> taskcaps[TaskIndex(cap)].task])
          ELSE Continue(s, Free)
    /\ UNCHANGED <<ipcVars, mode, tcb, rows, taskcaps, names, given>>

\* ... and the move is made with what the slot holds by then.
Move(s) ==
    /\ In(s, "move")
    /\ TransferHeld(s, at[s].from, at[s].id, at[s].to)
    /\ Continue(s, Free)
    /\ UNCHANGED <<ipcVars, mode, tcb, taskcaps, names>>

-----------------------------------------------------------------------------

SlotStep(s) ==
    \/ \E cap \in SendCaps \cup {NoCap} : SpawnWithSlots(s, RowWith(0, cap))
    \/ Register(s) \/ Exit(s) \/ Release(s) \/ RevokeTask(s)
    \/ Mint(s) \/ InstallCap(s) \/ Lookup(s) \/ Move(s)
    \/ \E slot \in CapSlots, name \in NameSet : Resolve(s, slot, name)
    \/ \E from, to \in CapSlots :
        \/ ToSelf(s, from, to) \/ ToCreator(s, from, to)
        \/ \E slot \in CapSlots : ToPeer(s, from, to, slot)

BootStep ==
    \/ Create \/ Revoke
    \/ \E slot \in CapSlots : PickTask(slot)
    \/ \E name \in NameSet, cap \in SendCaps : Bind(name, cap)
    \/ \E name \in NameSet : Unbind(name)
    \/ \E s \in TaskSlots \ {0}, e \in 0 .. MaxSpawns - 1 : GrantResolve(<<s, e>>)

AuthorityNext == BootStep \/ \E s \in TaskSlots : SlotStep(s)

AuthoritySpec == AuthorityInit /\ [][AuthorityNext]_authorityVars

-----------------------------------------------------------------------------
(* Properties *)

\* A capability sits in a row only if that very tenancy was given it, by its
\* creator, by a transfer that named it or by its own resolve: a transfer that
\* was on its way when its destination exited does not reach the next tenant
\* of the slot (transfer_held: "stale epoch (ADR-0062)").
GivenToTenant ==
    \A s \in TaskSlots, i \in CapSlots :
        rows[s][i] # NoCap => tcb[s].live /\ <<LiveId(s), i, rows[s][i]>> \in given

\* SYS_RESOLVE "is not ambient" (ADR-0052): the grant is that of the tenancy
\* that was granted it, although exit leaves the flag in the slot.
GrantIsPersonal ==
    \A s \in TaskSlots :
        tcb[s].live /\ tcb[s].may_resolve => <<LiveId(s), 0, Resolving>> \in given

\* Authority is personal: no capability and no right to resolve reaches a
\* tenancy it was not given to (spawn, transfer_held, SYS_RESOLVE).
AuthorityPersonal == GivenToTenant /\ GrantIsPersonal

\* Task capabilities are not delegated: one enters a row only with the row
\* itself or by an install, never by a transfer (ADR-0055).
TaskCapsStay ==
    [][\A s \in TaskSlots, i \in CapSlots :
        rows'[s][i] # rows[s][i] /\ rows'[s][i] # NoCap /\ ~IsEndpoint(rows'[s][i])
            => ~tcb[s].live \/ at[s].do = "install"]_authorityVars

\* The slots that hold a SEND end of mailbox b.
SendSlots(b) ==
    {p \in TaskSlots \X CapSlots :
        Resolves(rows[p[1]][p[2]], "SEND") /\ BoxOf(rows[p[1]][p[2]]) = b}

\* SEND ends of b that a task has still to register, or to release.
OnTheWay(do, b) ==
    {p \in TaskSlots \X CapSlots :
        /\ at[p[1]].do = do
        /\ Resolves(at[p[1]].row[p[2]], "SEND") /\ BoxOf(at[p[1]].row[p[2]]) = b}

\* Mailbox::send_holders is "TCB slots that currently hold a SEND end of this
\* mailbox" (ipc.rs), but for the calls that are under way.
HoldsExact ==
    \A b \in Boxes : mailboxes[b].live =>
        mailboxes[b].send_holders + Cardinality(OnTheWay("register", b))
            = Cardinality(SendSlots(b)) + Cardinality(OnTheWay("release", b))

\* Without interleaving the holder counts are exact: spawn, install, transfer
\* and exit each leave them as they should be, through revokes and reuse.
HoldsCounted == mode.inside = 1 => HoldsExact

\* Without interleaving a live task-cap entry names a task that exists, but
\* for the exit that is about to kill it.
TaskCapsCurrent ==
    mode.inside = 1 => \A i \in TaskCaps : taskcaps[i].live =>
        \/ Exists(taskcaps[i].task)
        \/ \E s \in TaskSlots : at[s].do \in {"release", "revoke"}
                                /\ at[s].id = taskcaps[i].task

\* Without interleaving both ledgers of authority are exact: the holder counts
\* that reap a mailbox and the task capabilities that name a task (ipc.rs,
\* taskcap.rs).
LedgersExact == HoldsCounted /\ TaskCapsCurrent

=============================================================================
