------------------------------ MODULE Channels ------------------------------
(***************************************************************************)
(* What the mailbox table promises its callers.  Channels are numbered in  *)
(* the order of their creation and a number is never used again; a channel *)
(* is a bounded FIFO queue with one waiter and a count of senders.  A      *)
(* caller names a channel by a handle: its number and one right.  There    *)
(* are no slots, no generations and no ring here.                          *)
(***************************************************************************)
EXTENDS Integers, FiniteSets, Sequences

CONSTANTS Depth, HoldersMax, Msgs, Empty, Waiters, None,
          Forged        \* the handle of a capability that was never minted

VARIABLES
    chans,  \* sequence of [open, queue, waiter, holders, reap]
    ret,    \* what the last call returned: [res, msg, wake]
    call    \* the handles the last call named, in order

vars == <<chans, ret, call>>

Returned(res, msg, wake) == ret' = [res |-> res, msg |-> msg, wake |-> wake]
Refuse(res) == Returned(res, Empty, {}) /\ UNCHANGED chans
Done(wake) == Returned("Ok", Empty, wake)

Closed == [open |-> FALSE, queue |-> <<>>, waiter |-> None, holders |-> 0,
           reap |-> FALSE]

\* The handle names an open channel and carries the right.
Good(h, rights) == h # Forged /\ h[2] \in rights /\ chans[h[1]].open

Init ==
    /\ chans = <<>>
    /\ ret = [res |-> "Ok", msg |-> Empty, wake |-> {}]
    /\ call = <<>>

Create(reap) ==
    /\ call' = <<>>
    /\ \/ /\ chans' = Append(chans, [Closed EXCEPT !.open = TRUE, !.reap = reap])
          /\ Done({})
       \/ Refuse("NoRoom")

SendsTo(c, hs) ==
    Cardinality({i \in DOMAIN hs : Good(hs[i], {"SEND"}) /\ hs[i][1] = c})

Hold ==
    /\ chans' = [c \in DOMAIN chans |->
            LET total == chans[c].holders + SendsTo(c, call')
            IN [chans[c] EXCEPT
                    !.holders = IF total > HoldersMax THEN HoldersMax ELSE total]]
    /\ Done({})

\* The last sender of an ephemeral channel leaves.
LastLeaves(c) ==
    /\ SendsTo(c, call') > 0
    /\ chans[c].reap
    /\ chans[c].holders <= SendsTo(c, call')

Drop ==
    /\ chans' = [c \in DOMAIN chans |->
            LET left == chans[c].holders - SendsTo(c, call')
            IN [chans[c] EXCEPT
                    !.holders = IF left < 0 THEN 0 ELSE left,
                    !.waiter = IF LastLeaves(c) THEN None ELSE @]]
    /\ Done({chans[c].waiter : c \in {d \in DOMAIN chans : LastLeaves(d)}} \ {None})

Revoke(h) ==
    \/ ~Good(h, {"SEND", "RECV"}) /\ Refuse("BadCap")
    \/ /\ Good(h, {"SEND", "RECV"})
       /\ chans' = [chans EXCEPT ![h[1]] = Closed]
       /\ Done({chans[h[1]].waiter} \ {None})

Send(h, msg) ==
    \/ ~Good(h, {"SEND"}) /\ Refuse("BadCap")
    \/ /\ Good(h, {"SEND"})
       /\ Len(chans[h[1]].queue) = Depth
       /\ Refuse("Full")
    \/ /\ Good(h, {"SEND"})
       /\ Len(chans[h[1]].queue) < Depth
       /\ chans' = [chans EXCEPT ![h[1]].queue = Append(@, msg),
                                 ![h[1]].waiter = None]
       /\ Done({chans[h[1]].waiter} \ {None})

Take(c) ==
    /\ chans[c].queue # <<>>
    /\ chans' = [chans EXCEPT ![c].queue = Tail(@)]
    /\ Returned("Ok", Head(chans[c].queue), {})

TryRecv(h) ==
    \/ ~Good(h, {"RECV"}) /\ Refuse("BadCap")
    \/ Good(h, {"RECV"}) /\ Take(h[1])
    \/ Good(h, {"RECV"}) /\ chans[h[1]].queue = <<>> /\ Refuse("Empty")

Park(h, me) ==
    \/ ~Good(h, {"RECV"}) /\ Refuse("BadCap")
    \/ Good(h, {"RECV"}) /\ Take(h[1])
    \/ /\ Good(h, {"RECV"})
       /\ chans[h[1]].queue = <<>>
       /\ LET c == h[1]
              alone == chans[c].reap /\ chans[c].holders = 0
          IN \/ alone /\ Refuse("Cancelled")
             \/ ~alone /\ chans[c].waiter \notin {None, me} /\ Refuse("Busy")
             \/ /\ ~alone /\ chans[c].waiter \in {None, me}
                /\ chans' = [chans EXCEPT ![c].waiter = me]
                /\ Returned("Parked", Empty, {})

ClearWaiter(id) ==
    /\ call' = <<>>
    /\ chans' = [c \in DOMAIN chans |->
            IF chans[c].waiter = id THEN [chans[c] EXCEPT !.waiter = None]
                                    ELSE chans[c]]
    /\ Done({})

\* A call that names handles names them in call'.
Through(h) == call' = <<h>>

Handles == {Forged} \cup ((DOMAIN chans) \X {"SEND", "RECV"})

Next ==
    \/ \E reap \in BOOLEAN : Create(reap)
    \/ Hold \/ Drop
    \/ \E h \in Handles : Through(h) /\ Revoke(h)
    \/ \E h \in Handles, msg \in Msgs : Through(h) /\ Send(h, msg)
    \/ \E h \in Handles : Through(h) /\ TryRecv(h)
    \/ \E h \in Handles, me \in Waiters : Through(h) /\ Park(h, me)
    \/ \E id \in Waiters : ClearWaiter(id)

Spec == Init /\ [][Next]_vars
=============================================================================
