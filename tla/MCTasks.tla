------------------------------ MODULE MCTasks ------------------------------
(***************************************************************************)
(* The task table and what runs on one of its CPUs, one scene per          *)
(* behaviour (chosen at the start): both idle identities and two worker    *)
(* slots ("table"), and the EL0 sessions of two agents ("sessions").  The  *)
(* part that is not on keeps its initial state.                            *)
(***************************************************************************)
EXTENDS Tasks, AgentSession

VARIABLE scene

mcVars == <<scene, taskVars, vars>>

MCInit == scene \in {"table", "sessions"} /\ TasksInit /\ SessionInit

MCNext ==
    \/ scene = "table" /\ TasksNext /\ UNCHANGED <<scene, vars>>
    \/ scene = "sessions" /\ SessionNext /\ UNCHANGED <<scene, taskVars>>

\* The fairness of TasksFairSpec and SessionSpec, each in its scene.  A step of
\* a session loop needs the CPU at EL1 anyway: said first, most states are
\* decided without looking at the steps.
Yields(cpu) == scene = "table" /\ cpu \in OnlineCpus /\ SwitchOn(cpu, "Yield")
Switches(a) == scene = "sessions" /\ Preempt(a)
Continues(a) == scene = "sessions" /\ onCpu = a /\ el = "EL1" /\ LoopStep(a)

MCSpec ==
    /\ MCInit /\ [][MCNext]_mcVars
    /\ \A cpu \in Cpus : WF_taskVars(Yields(cpu))
    /\ \A a \in Agents : SF_vars(Switches(a)) /\ SF_vars(Continues(a))
=============================================================================
