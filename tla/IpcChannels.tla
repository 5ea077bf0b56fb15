---------------------------- MODULE IpcChannels ----------------------------
(***************************************************************************)
(* The mailbox table implements Channels.  History variables remember      *)
(* which capabilities each channel was given and which channel a mailbox   *)
(* slot belongs to; the table never reads them.                            *)
(***************************************************************************)
EXTENDS Ipc

CONSTANTS
    MaxChannels,    \* channels created; at most GenMax, so no generation repeats
    Forged

ASSUME ChannelsAssumption ==
    /\ MaxChannels \in 0 .. GenMax
    /\ Forged \notin Nat \X Rights

VARIABLES
    minted,     \* sequence of [send, recv], the capabilities of each channel
    owner,      \* [Boxes -> channel number]; 0 before the first channel
    call        \* the handles the last call named

historyVars == <<minted, owner, call>>
channelVars == <<ipcVars, historyVars>>

\* What a capability was minted for.
Handle(cap) ==
    LET for == {c \in DOMAIN minted : cap \in {minted[c].send, minted[c].recv}}
    IN IF for = {} THEN Forged
       ELSE LET c == CHOOSE d \in for : TRUE
            IN <<c, IF cap = minted[c].send THEN "SEND" ELSE "RECV">>

ChannelsInit ==
    /\ IpcInit
    /\ minted = <<>>
    /\ owner = [b \in Boxes |-> 0]
    /\ call = <<>>

\* create_channel hands out the Channel it built.
CreateStep(reap) ==
    /\ CreateChannel(reap)
    /\ call' = <<>>
    /\ \/ /\ ret'.res = "Ok"
          /\ Len(minted) < MaxChannels
          /\ \E b \in Boxes, s, r \in Ends :
                /\ FirstDeadBox(b) /\ FirstDeadEnd(s, {}) /\ FirstDeadEnd(r, {s})
                /\ minted' = Append(minted,
                        [send |-> [index |-> s, generation |-> next_gen],
                         recv |-> [index |-> r, generation |-> next_gen]])
                /\ owner' = [owner EXCEPT ![b] = Len(minted) + 1]
       \/ ret'.res # "Ok" /\ UNCHANGED <<minted, owner>>

\* Calls that name the capabilities in caps.
Naming(caps) ==
    /\ call' = [i \in DOMAIN caps |-> Handle(caps[i])]
    /\ UNCHANGED <<minted, owner>>

ChannelsNext ==
    \/ \E reap \in BOOLEAN : CreateStep(reap)
    \/ \E caps \in CapLists :
        Naming(caps) /\ (RegisterHolds(caps) \/ ReleaseHolds(caps))
    \/ \E cap \in Caps :
        /\ Naming(<<cap>>)
        /\ \/ RevokeChannel(cap)
           \/ \E msg \in Msgs : Send(cap, msg)
           \/ TryRecv(cap)
           \/ \E me \in Waiters : Park(cap, me)
    \/ \E id \in Waiters : ClearWaiter(id) /\ Naming(<<>>)

ChannelsSpec == ChannelsInit /\ [][ChannelsNext]_channelVars

-----------------------------------------------------------------------------
(* The channel a caller sees, read out of the table. *)

\* The queued messages, oldest first.
QueueOf(box) == [i \in 1 .. box.len |-> box.buf[(box.tail + i - 1) % Depth]]

ChannelIn(b) ==
    [open |-> TRUE, queue |-> QueueOf(mailboxes[b]),
     waiter |-> mailboxes[b].waiter, holders |-> mailboxes[b].send_holders,
     reap |-> mailboxes[b].auto_reap]

ClosedChannel ==
    [open |-> FALSE, queue |-> <<>>, waiter |-> None, holders |-> 0,
     reap |-> FALSE]

ChansOfTable ==
    [c \in DOMAIN minted |->
        IF \E b \in Boxes : mailboxes[b].live /\ owner[b] = c
        THEN ChannelIn(CHOOSE b \in Boxes : mailboxes[b].live /\ owner[b] = c)
        ELSE ClosedChannel]

Abstract == INSTANCE Channels WITH chans <- ChansOfTable

\* The table behaves as FIFO channels that are never mistaken for one another:
\* a message is received once, in order, through the channel it was sent on,
\* and a capability kept across a revoke and the reuse of its slot is refused.
ImplementsChannels == Abstract!Spec

=============================================================================
