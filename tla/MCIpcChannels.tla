--------------------------- MODULE MCIpcChannels ---------------------------
EXTENDS IpcChannels, TLC

CONSTANTS m1, m2, t1, t2

\* A task's one slot, holding any capability.
MCCapLists == {<<c>> : c \in [index : 0 .. EndpointCount - 1, generation : 1 .. GenMax]}

\* Messages and waiters are only moved and compared.
MCSymmetry == Permutations({m1, m2}) \cup Permutations({t1, t2})

\* No step reads the last call or its answer.
MCView == <<endpoints, mailboxes, next_gen, refusals, minted, owner>>
=============================================================================
