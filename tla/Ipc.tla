-------------------------------- MODULE Ipc --------------------------------
(***************************************************************************)
(* The mailbox and capability table: crates/kernel-core/src/ipc.rs.        *)
(*                                                                         *)
(* src/src/ipc/mod.rs runs every operation under one lock (with_table), so *)
(* each is one atomic action.  The table acts on nobody: the tasks a call  *)
(* wants woken or cancelled are in the value it returns, kept in ret.      *)
(* Only the refusal counter for broken bookkeeping is modelled; the other  *)
(* two count events and decide nothing.                                    *)
(***************************************************************************)
EXTENDS Integers, FiniteSets, Sequences

CONSTANTS
    MailboxCount,   \* MAX_MAILBOXES
    EndpointCount,  \* MAX_ENDPOINTS
    Depth,          \* MAILBOX_DEPTH
    GenMax,         \* the largest generation (u16::MAX)
    HoldersMax,     \* the largest holder count (u32::MAX)
    Msgs,           \* message contents told apart
    Empty,          \* Message::EMPTY
    Waiters,        \* task ids that park
    None,           \* Option::None
    CapLists,       \* the capability slices passed to register and release
    MaxStateRefusals \* the count of state refusals stops here; nothing reads it

ASSUME SizeAssumption ==
    /\ MailboxCount \in Nat \ {0}
    /\ EndpointCount \in Nat \ {0}
    /\ Depth \in Nat \ {0}
    /\ GenMax \in Nat \ {0}
    /\ HoldersMax \in Nat \ {0}
    /\ MaxStateRefusals \in Nat \ {0}
ASSUME NoneAssumption == None \notin Waiters

Boxes == 0 .. MailboxCount - 1
Ends == 0 .. EndpointCount - 1
Gens == 0 .. GenMax
Rights == {"SEND", "RECV"}

\* CapId: an endpoint index and a generation.  One capability stands for all
\* whose index is out of range.
Caps == [index : Ends, generation : Gens]
            \cup {[index |-> EndpointCount, generation |-> 1]}

ASSUME CapListsAssumption == CapLists \subseteq Seq(Caps)

VARIABLES
    endpoints,  \* [Ends -> [live, generation, rights, mailbox]]
    mailboxes,  \* [Boxes -> [live, buf, head, tail, len, waiter,
                \*            send_holders, auto_reap]]
    next_gen,   \* generation of the next channel
    refusals,   \* state refusals: bookkeeping found broken
    ret         \* what the last call returned: [res, msg, wake]

ipcVars == <<endpoints, mailboxes, next_gen, refusals, ret>>

Returns(res) == ret' = [res |-> res, msg |-> Empty, wake |-> {}]
ReturnsMsg(msg) == ret' = [res |-> "Ok", msg |-> msg, wake |-> {}]
ReturnsTasks(tasks) == ret' = [res |-> "Ok", msg |-> Empty, wake |-> tasks]

EmptyEnd == [live |-> FALSE, generation |-> 0, rights |-> "None", mailbox |-> 0]

EmptyBox ==
    [live |-> FALSE, buf |-> [i \in 0 .. Depth - 1 |-> Empty], head |-> 0,
     tail |-> 0, len |-> 0, waiter |-> None, send_holders |-> 0,
     auto_reap |-> FALSE]

\* One more state refusal.
CountRefusal ==
    refusals' = IF refusals < MaxStateRefusals THEN refusals + 1 ELSE refusals

-----------------------------------------------------------------------------
(* The message ring *)

Push(box, msg) ==
    [box EXCEPT !.buf[box.head] = msg,
                !.head = (@ + 1) % Depth,
                !.len = @ + 1]

\* The mailbox after pop; the message itself is box.buf[box.tail].
Pop(box) == [box EXCEPT !.tail = (@ + 1) % Depth, !.len = @ - 1]

-----------------------------------------------------------------------------
(* lookup *)

\* Mutant: the generation is not compared.
NamesAnyGeneration(cap) == cap.index \in Ends /\ endpoints[cap.index].live

\* The capability names a live endpoint of its own generation.
Names(cap) ==
    /\ cap.index \in Ends
    /\ endpoints[cap.index].live
    /\ endpoints[cap.index].generation = cap.generation

Resolves(cap, need) == Names(cap) /\ endpoints[cap.index].rights = need

BoxOf(cap) == endpoints[cap.index].mailbox

\* The guard send, try_recv and park share.  A resolved end on a dead mailbox
\* is a state refusal.
Refused(cap, need) ==
    /\ ~ (Resolves(cap, need) /\ mailboxes[BoxOf(cap)].live)
    /\ IF Resolves(cap, need) THEN CountRefusal ELSE UNCHANGED refusals
    /\ Returns("BadCap")
    /\ UNCHANGED <<endpoints, mailboxes, next_gen>>

Reaches(cap, need) == Resolves(cap, need) /\ mailboxes[BoxOf(cap)].live

-----------------------------------------------------------------------------
(* Operations *)

IpcInit ==
    /\ endpoints = [e \in Ends |-> EmptyEnd]
    /\ mailboxes = [b \in Boxes |-> EmptyBox]
    /\ next_gen = 1
    /\ refusals = 0
    /\ ret = [res |-> "Ok", msg |-> Empty, wake |-> {}]

\* wrapping_add(1).max(1)
NextGen(g) == IF g = GenMax THEN 1 ELSE g + 1

FirstDeadBox(b) == ~mailboxes[b].live /\ \A c \in Boxes : c < b => mailboxes[c].live

\* The first dead endpoint other than those in skip.
FirstDeadEnd(e, skip) ==
    /\ ~endpoints[e].live /\ e \notin skip
    /\ \A f \in Ends : f < e => endpoints[f].live \/ f \in skip

\* What create_channel writes, for the slots it picks.
OpenChannel(b, s, r, reap) ==
    /\ endpoints' = [endpoints EXCEPT
            ![s] = [live |-> TRUE, generation |-> next_gen, rights |-> "SEND",
                    mailbox |-> b],
            ![r] = [live |-> TRUE, generation |-> next_gen, rights |-> "RECV",
                    mailbox |-> b]]
    /\ mailboxes' = [mailboxes EXCEPT
            ![b] = [EmptyBox EXCEPT !.live = TRUE, !.auto_reap = reap]]

CanCreate ==
    /\ \E b \in Boxes : ~mailboxes[b].live
    /\ Cardinality({e \in Ends : ~endpoints[e].live}) >= 2

CreateChannel(reap) ==
    \/ \E b \in Boxes, s, r \in Ends :
        /\ FirstDeadBox(b) /\ FirstDeadEnd(s, {}) /\ FirstDeadEnd(r, {s})
        /\ OpenChannel(b, s, r, reap)
        /\ next_gen' = NextGen(next_gen)
        /\ Returns("Ok")
        /\ UNCHANGED refusals
    \/ /\ ~CanCreate
       /\ Returns("NoRoom")
       /\ UNCHANGED <<endpoints, mailboxes, next_gen, refusals>>

\* How many entries of the slice are SEND ends of mailbox b.
SendEnds(caps, b) ==
    Cardinality({i \in DOMAIN caps : Resolves(caps[i], "SEND") /\ BoxOf(caps[i]) = b})

\* register_holds: each entry adds one, saturating.
RegisterHolds(caps) ==
    /\ mailboxes' = [b \in Boxes |->
            LET total == mailboxes[b].send_holders + SendEnds(caps, b)
            IN [mailboxes[b] EXCEPT
                    !.send_holders = IF total > HoldersMax THEN HoldersMax ELSE total]]
    /\ Returns("Ok")
    /\ UNCHANGED <<endpoints, next_gen, refusals>>

\* Mutant: auto-reap looks at the count before the drop.
ReapsBeforeDrop(caps, b) ==
    /\ SendEnds(caps, b) > 0
    /\ mailboxes[b].auto_reap
    /\ mailboxes[b].send_holders = 0

\* The slice drops the last SEND hold of an auto-reap mailbox.
Reaps(caps, b) ==
    /\ SendEnds(caps, b) > 0
    /\ mailboxes[b].auto_reap
    /\ mailboxes[b].send_holders <= SendEnds(caps, b)

\* release_holds: each entry takes one off a count that is not zero; the
\* waiters of mailboxes left without a sender are returned.
ReleaseHolds(caps) ==
    /\ mailboxes' = [b \in Boxes |->
            LET left == mailboxes[b].send_holders - SendEnds(caps, b)
            IN [mailboxes[b] EXCEPT
                    !.send_holders = IF left < 0 THEN 0 ELSE left,
                    !.waiter = IF Reaps(caps, b) THEN None ELSE @]]
    /\ ReturnsTasks({mailboxes[b].waiter : b \in {c \in Boxes : Reaps(caps, c)}} \ {None})
    /\ UNCHANGED <<endpoints, next_gen, refusals>>

\* Both ends of the channel die; the generation stays in the slot.
Killed(cap) ==
    [e \in Ends |-> IF endpoints[e].live /\ endpoints[e].mailbox = BoxOf(cap)
                    THEN [endpoints[e] EXCEPT !.live = FALSE]
                    ELSE endpoints[e]]

RevokeChannel(cap) ==
    \/ /\ ~Names(cap)
       /\ Returns("BadCap")
       /\ UNCHANGED <<endpoints, mailboxes, next_gen, refusals>>
    \/ /\ Names(cap)
       /\ endpoints' = Killed(cap)
       /\ mailboxes' = [mailboxes EXCEPT ![BoxOf(cap)] = EmptyBox]
       /\ ReturnsTasks({mailboxes[BoxOf(cap)].waiter} \ {None})
       /\ UNCHANGED <<next_gen, refusals>>

\* The mailbox after a message was queued: whoever waits leaves the slot.
Delivered(box, msg) == [Push(box, msg) EXCEPT !.waiter = None]

Send(cap, msg) ==
    \/ Refused(cap, "SEND")
    \/ /\ Reaches(cap, "SEND")
       /\ UNCHANGED <<endpoints, next_gen, refusals>>
       /\ LET b == BoxOf(cap)
          IN IF mailboxes[b].len = Depth
             THEN /\ Returns("Full")
                  /\ UNCHANGED mailboxes
             ELSE /\ mailboxes' = [mailboxes EXCEPT ![b] = Delivered(@, msg)]
                  /\ ReturnsTasks({mailboxes[b].waiter} \ {None})

\* The head message is taken and returned.
Take(b) ==
    /\ mailboxes[b].len > 0
    /\ mailboxes' = [mailboxes EXCEPT ![b] = Pop(@)]
    /\ ReturnsMsg(mailboxes[b].buf[mailboxes[b].tail])
    /\ UNCHANGED refusals

TryRecv(cap) ==
    \/ Refused(cap, "RECV")
    \/ /\ Reaches(cap, "RECV")
       /\ UNCHANGED <<endpoints, next_gen>>
       /\ \/ Take(BoxOf(cap))
          \/ /\ mailboxes[BoxOf(cap)].len = 0
             /\ Returns("Empty")
             /\ UNCHANGED <<mailboxes, refusals>>

ClearWaiter(id) ==
    /\ mailboxes' = [b \in Boxes |->
            IF mailboxes[b].waiter = id
            THEN [mailboxes[b] EXCEPT !.waiter = None] ELSE mailboxes[b]]
    /\ Returns("Ok")
    /\ UNCHANGED <<endpoints, next_gen, refusals>>

\* The second look at the mailbox, under the lock.
HasMail(b) == mailboxes[b].len > 0

\* An ephemeral channel that nobody can send to any more.
Senderless(b) == mailboxes[b].auto_reap /\ mailboxes[b].send_holders = 0

\* Mutant: the slot is taken from whoever has it.
ClaimableAlways(b, me) == TRUE

\* The waiter slot is free, or is the caller's own.
Claimable(b, me) == mailboxes[b].waiter \in {None, me}

\* park, on a mailbox that is empty.
Claim(b, me) ==
    \/ /\ Senderless(b)
       /\ Returns("Cancelled")
       /\ UNCHANGED <<mailboxes, refusals>>
    \/ /\ ~Senderless(b) /\ ~Claimable(b, me)
       /\ CountRefusal
       /\ Returns("Busy")
       /\ UNCHANGED mailboxes
    \/ /\ ~Senderless(b) /\ Claimable(b, me)
       /\ mailboxes' = [mailboxes EXCEPT ![b].waiter = me]
       /\ Returns("Parked")
       /\ UNCHANGED refusals

Park(cap, me) ==
    \/ Refused(cap, "RECV")
    \/ /\ Reaches(cap, "RECV")
       /\ UNCHANGED <<endpoints, next_gen>>
       /\ \/ HasMail(BoxOf(cap)) /\ Take(BoxOf(cap))
          \/ ~HasMail(BoxOf(cap)) /\ Claim(BoxOf(cap), me)

-----------------------------------------------------------------------------
(* The table under any order of calls, with every capability a caller can  *)
(* put together: live, stale, of the wrong right or never minted.          *)

IpcNext ==
    \/ \E reap \in BOOLEAN : CreateChannel(reap)
    \/ \E caps \in CapLists : RegisterHolds(caps) \/ ReleaseHolds(caps)
    \/ \E cap \in Caps : RevokeChannel(cap)
    \/ \E cap \in Caps, msg \in Msgs : Send(cap, msg)
    \/ \E cap \in Caps : TryRecv(cap)
    \/ \E cap \in Caps, me \in Waiters : Park(cap, me)
    \/ \E id \in Waiters : ClearWaiter(id)

IpcSpec == IpcInit /\ [][IpcNext]_ipcVars

-----------------------------------------------------------------------------
(* Properties *)

Results == {"Ok", "BadCap", "NoRoom", "Full", "Empty", "Cancelled", "Busy", "Parked"}

\* Every field holds a value of its type, the ring positions stay inside the
\* buffer and no live endpoint carries generation 0, which EMPTY slots have.
IpcTypeOK ==
    /\ endpoints \in [Ends -> [live : BOOLEAN, generation : Gens,
                               rights : Rights \cup {"None"}, mailbox : Boxes]]
    /\ mailboxes \in [Boxes ->
            [live : BOOLEAN, buf : [0 .. Depth - 1 -> Msgs \cup {Empty}],
             head : 0 .. Depth - 1, tail : 0 .. Depth - 1, len : 0 .. Depth,
             waiter : Waiters \cup {None}, send_holders : 0 .. HoldersMax,
             auto_reap : BOOLEAN]]
    /\ next_gen \in Gens \ {0}
    /\ refusals \in Nat
    /\ ret \in [res : Results, msg : Msgs \cup {Empty},
                wake : SUBSET Waiters]
    /\ \A e \in Ends : endpoints[e].live => endpoints[e].generation # 0

\* The ends that name mailbox b with a right.
LiveEnds(b, right) ==
    {e \in Ends : endpoints[e].live /\ endpoints[e].mailbox = b
                                    /\ endpoints[e].rights = right}

\* A live mailbox has exactly one live end of each right, minted together, and
\* no live end names a dead mailbox: through every create, revoke and reuse
\* the "dead mailbox" arms of send, try_recv and park stay unreachable.
EndsPaired ==
    \A b \in Boxes :
        IF mailboxes[b].live
        THEN \E s, r \in Ends :
                /\ LiveEnds(b, "SEND") = {s}
                /\ LiveEnds(b, "RECV") = {r}
                /\ endpoints[s].generation = endpoints[r].generation
        ELSE \A e \in Ends : ~(endpoints[e].live /\ endpoints[e].mailbox = b)

\* Nobody waits on a mailbox that holds a message: send empties the slot it
\* fills the mailbox for, and park looks again before it claims the slot.
NoWaiterWithMail ==
    \A b \in Boxes : mailboxes[b].waiter # None => mailboxes[b].len = 0

\* Nobody waits on an ephemeral mailbox without senders: park refuses it and
\* the last release takes the waiter out (ADR-0031).
NoOrphanWaiter ==
    \A b \in Boxes : mailboxes[b].waiter # None => ~Senderless(b)

\* The ring holds len messages between tail and head, so a push never writes
\* over a message that was not taken.
RingConsistent ==
    \A b \in Boxes :
        mailboxes[b].head = (mailboxes[b].tail + mailboxes[b].len) % Depth

\* The endpoint and mailbox tables are exact: typed, their ends paired, their
\* rings consistent, and no waiter left where a message or nobody will come.
MailboxesExact ==
    IpcTypeOK /\ EndsPaired /\ NoWaiterWithMail /\ NoOrphanWaiter /\ RingConsistent

\* A task leaves a waiter slot only by being handed to the caller, who wakes
\* or cancels it, or by the cancel that names it: the slot is never taken over
\* and never forgotten (ipc.rs, park: "an overwritten waiter stays Blocked").
WaiterHandedOver ==
    [][\A b \in Boxes :
        LET t == mailboxes[b].waiter
        IN t # None /\ mailboxes'[b].waiter # t
            => \/ t \in ret'.wake
               \/ ClearWaiter(t)]_ipcVars

=============================================================================
