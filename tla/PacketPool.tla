----------------------------- MODULE PacketPool -----------------------------
(***************************************************************************)
(* The packet ownership table between an agent and the network service     *)
(* (kernel-core/src/net.rs).  The first half of the slots carries frames   *)
(* from the agent, the second half frames to it; a token names a slot and  *)
(* the generation it was handed out in.  A frame length is a class:        *)
(* "short" is below the Ethernet minimum or above the packet size, "long"  *)
(* fits the packet but not a GENET descriptor, "ok" fits everything.       *)
(***************************************************************************)
EXTENDS Integers, Sequences

CONSTANTS
    TxSlots,        \* the agent's half of PACKET_SLOTS
    RxSlots,        \* the service's half, in posting order
    GENERATIONS     \* generations wrap modulo this (2^32 in the code)

Lens == {"ok", "short", "long"}

RxSet == {RxSlots[i] : i \in 1..Len(RxSlots)}
Slots == TxSlots \union RxSet

\* A token, no token, and the bring-up probe's token, which names no slot of
\* the pool's life and whose length is zero.
Token(s, g) == <<s, g>>
NoToken == <<-1, 0>>
Probe == <<-2, 0>>

FrameOk(len) == len # "short"

FreshStates == [s \in Slots |-> IF s \in TxSlots THEN "TxAgent" ELSE "RxService"]

NewPool == [gen |-> 0, state |-> FreshStates]

\* The mutant of a table that forgets the generation check.
CheckedAnyGeneration(p, tok) == tok[1] \in Slots

\* slot in range and generation current: every refusal before the owner check.
Checked(p, tok) == tok[1] \in Slots /\ tok[2] = p.gen

Owned(p, tok, state) == Checked(p, tok) /\ p.state[tok[1]] = state

AcceptsTx(p, tok) == Owned(p, tok, "TxAgent") /\ tok[1] \in TxSlots

AcceptTx(p, tok) == [p EXCEPT !.state[tok[1]] = "TxService"]

\* complete_tx reports a wrong owner instead of moving the slot.
CompleteTx(p, tok) ==
    IF Owned(p, tok, "TxService")
    THEN [p EXCEPT !.state[tok[1]] = "TxAgent"]
    ELSE p

PublishesRx(p, s) == s \in RxSet /\ p.state[s] = "RxService"

PublishRx(p, s) == [p EXCEPT !.state[s] = "RxAgent"]

ReturnsRx(p, tok) == Owned(p, tok, "RxAgent")

ReturnRx(p, tok) == [p EXCEPT !.state[tok[1]] = "RxService"]

\* Every slot moves to the next generation and back to its first owner.
ResetPool(p) == [gen |-> (p.gen + 1) % GENERATIONS, state |-> FreshStates]

-----------------------------------------------------------------------------
(* Transport operations return an outcome and the transport they leave;    *)
(* Then is the `?' operator: go on with the transport of a success, hand   *)
(* a refusal to the caller.                                                *)

Done(n) == [ok |-> TRUE, nic |-> n]
Fail(n) == [ok |-> FALSE, nic |-> n]

Then(r, Op(_)) == CHOOSE y \in {IF x.ok THEN Op(x.nic) ELSE x : x \in {r}} : TRUE
=============================================================================
