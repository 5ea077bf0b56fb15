---------------------------- MODULE MCAuthority ----------------------------
(* The bootstrap task and two others, one channel, one name. *)
EXTENDS Authority

MCCapLists == {}
MCModes ==
    {[inside |-> 1, channels |-> 2, uses |-> "taskcaps"],
     [inside |-> 1, channels |-> 1, uses |-> "names"],
     [inside |-> 2, channels |-> 1, uses |-> "taskcaps"]}
MCInterleaved == {[inside |-> 2, channels |-> 1, uses |-> "taskcaps"]}
\* No step reads the answer of the last call to the mailbox table.
MCView == <<endpoints, mailboxes, next_gen, refusals, slotVars>>
=============================================================================
