---------------------------- MODULE MCWaitPath ----------------------------
(* One channel, its creator, and one or two tasks that wait. *)
EXTENDS WaitPath

CONSTANT m1

MCWaiters == TaskIds
MCNone == NoTask
MCCapLists == {}
=============================================================================
