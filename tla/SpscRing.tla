------------------------------ MODULE SpscRing ------------------------------
(***************************************************************************)
(* The queue of wake tokens between an interrupt handler and the voluntary *)
(* path (kernel-core wake.rs, used by irq/wait.rs; ring.rs is the same     *)
(* algorithm for bytes).  The producer owns head, the consumer owns tail,  *)
(* and each access to the other's index or to a slot is a step of its own, *)
(* so the two calls interleave at every load and store.  Only the UART     *)
(* handler of CPU 0 pushes, and the wait table's lock lets one CPU pop at  *)
(* a time.                                                                 *)
(***************************************************************************)
EXTENDS Integers, Sequences

CONSTANTS
    N,          \* slots of the ring; one stays empty
    Tokens      \* what is queued

ASSUME RingAssumption == N \in Nat /\ N >= 2 /\ 0 \in Tokens

VARIABLES
    slots, head, tail,  \* the ring
    producer,   \* where push is: "idle", "write", "publish"
    token,      \* what push was called with
    consumer,   \* where pop is: "idle", "read", "free"
    got,        \* what pop read
    queued      \* history: the tokens published and not yet freed

ringVars == <<slots, head, tail, producer, token, consumer, got, queued>>

Indices == 0..(N - 1)

\* (i + 1) & mask, for a power of two.
Succ(i) == IF i + 1 = N THEN 0 ELSE i + 1

RingInit ==
    /\ slots = [i \in Indices |-> 0]
    /\ head = 0 /\ tail = 0
    /\ producer = "idle" /\ token = 0
    /\ consumer = "idle" /\ got = 0
    /\ queued = <<>>

\* Mutant: no slot is kept empty.
FullAtTail(h, t) == FALSE

Full(h, t) == Succ(h) = t

\* push: look at the consumer's index; a full ring drops the token.
PushLook(tok) ==
    /\ producer = "idle"
    /\ token' = tok
    /\ producer' = IF Full(head, tail) THEN "idle" ELSE "write"
    /\ UNCHANGED <<slots, head, tail, consumer, got, queued>>

PushWrite ==
    /\ producer = "write"
    /\ slots' = [slots EXCEPT ![head] = token]
    /\ producer' = "publish"
    /\ UNCHANGED <<head, tail, token, consumer, got, queued>>

\* The Release store of head: the token is in the queue.
PushPublish ==
    /\ producer = "publish"
    /\ head' = Succ(head)
    /\ queued' = Append(queued, token)
    /\ producer' = "idle"
    /\ UNCHANGED <<slots, tail, token, consumer, got>>

\* pop: look at the producer's index; an empty ring has nothing.
PopLook ==
    /\ consumer = "idle" /\ tail # head
    /\ consumer' = "read"
    /\ UNCHANGED <<slots, head, tail, producer, token, got, queued>>

PopRead ==
    /\ consumer = "read"
    /\ got' = slots[tail]
    /\ consumer' = "free"
    /\ UNCHANGED <<slots, head, tail, producer, token, queued>>

\* The Release store of tail: the slot is the producer's again.
PopFree ==
    /\ consumer = "free"
    /\ tail' = Succ(tail)
    /\ queued' = Tail(queued)
    /\ consumer' = "idle"
    /\ UNCHANGED <<slots, head, producer, token, got>>

RingNext ==
    \/ \E tok \in Tokens : PushLook(tok)
    \/ PushWrite \/ PushPublish \/ PopLook \/ PopRead \/ PopFree

RingSpec == RingInit /\ [][RingNext]_ringVars

-----------------------------------------------------------------------------
\* The slot i places after the tail.
Pos(t, i) == IF t + i < N THEN t + i ELSE t + i - N

RingTypeOK ==
    /\ slots \in [Indices -> Tokens] /\ head \in Indices /\ tail \in Indices
    /\ producer \in {"idle", "write", "publish"} /\ token \in Tokens
    /\ consumer \in {"idle", "read", "free"} /\ got \in Tokens
    /\ queued \in Seq(Tokens)

\* The ring holds the queue: the inductive invariant behind QueueIsFifo.
RingHoldsQueue ==
    /\ RingTypeOK
    /\ Len(queued) < N
    /\ head = Pos(tail, Len(queued))
    /\ \A i \in 1..Len(queued) : slots[Pos(tail, i - 1)] = queued[i]
    /\ producer # "idle" => Len(queued) < N - 1
    /\ producer = "publish" => slots[head] = token
    /\ consumer # "idle" => queued # <<>>
    /\ consumer = "free" => got = queued[1]

\* Whatever loads and stores of push and pop interleave: what pop returns is
\* the oldest token published and not yet taken, a push that finds the ring full
\* finds N - 1 tokens in it, and the two never touch a slot at the same time
\* (the SAFETY comments of wake.rs and ring.rs).
QueueIsFifo ==
    /\ consumer = "free" => queued # <<>> /\ got = Head(queued)
    /\ Full(head, tail) => Len(queued) = N - 1
    /\ producer = "write" /\ consumer = "read" => head # tail
=============================================================================
