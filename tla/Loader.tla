------------------------------- MODULE Loader -------------------------------
(***************************************************************************)
(* From the store in the image to running agents: the vocabulary of        *)
(* capabilities and windows that bootstrap assembles (held::Set,           *)
(* authority::assemble), the store's parse into manifest entries           *)
(* (agentstore), the plan that binds each entry to the vocabulary          *)
(* (manifest, loaderplan), and the loader that spawns one task per entry   *)
(* while the tasks it has spawned already run on either core (loader).     *)
(*                                                                         *)
(* A capability is the name of the endpoint it was minted for, so what an  *)
(* agent was given can be compared with what its entry means.  Any service *)
(* may fail to start, any framebuffer may be reported, any spawn may be    *)
(* refused.                                                                *)
(***************************************************************************)
EXTENDS Integers, Sequences, FiniteSets

CONSTANTS Stores,        \* the store contents an image may carry
          Builtin,       \* the oracle's manifest, used when the store is bad
          Framebuffers,  \* the framebuffer windows the firmware may report
          RngWindow,     \* the RNG's page
          TaskSlots,     \* scheduler slots the loader's tasks may get
          PAGE,          \* page size
          PA_END,        \* first address past the physical space
          N_CPUS,
          MAX_HELD, MAX_AGENTS,
          MAILBOX_DEPTH,
          DRAIN_WAIT_TICKS

VARIABLES step,      \* where bootstrap stands
          held,      \* the capability vocabulary
          windows,   \* the window vocabulary
          network,   \* the packet transport is there
          served,    \* the console server runs
          table,     \* the entries being loaded: side.active
          plans,     \* loaderplan's verdict on each
          next,      \* the entry being loaded
          side,      \* SIDE: its holder, and each task slot's entry and window
          task,      \* each slot's task
          console    \* messages in the console's mailbox

loaderVars == <<step, held, windows, network, served, table, plans, next, side,
                task, console>>

NONE == -1
VACANT == "vacant"
HeldNames == <<"console", "blob", "blob-reply", "net-tx", "net-tx-complete", "net-rx",
               "net-rx-return">>
PACKET_CAPABILITY_START == 3
NoWindow == [pa |-> 0, len |-> 0]

\* What an entry asks for: capability positions, a window and name resolution.
\* A position is a byte of the wire, or absent.
Asks(e) == /\ e.slots \in Seq(Nat \cup {NONE})
           /\ e.window \in Nat \cup {NONE}
           /\ e.resolve \in BOOLEAN

ASSUME LoaderAssumption ==
  /\ NONE \notin TaskSlots
  /\ MAX_HELD \in Nat /\ DRAIN_WAIT_TICKS \in Nat
  /\ Framebuffers \cup {RngWindow} \subseteq [pa : Nat, len : Nat]
  /\ \A store \in Stores : /\ store.agents \in Seq({store.agents[i] : i \in DOMAIN store.agents})
                           /\ \A i \in DOMAIN store.agents : Asks(store.agents[i])
  /\ Builtin \in Seq({Builtin[i] : i \in DOMAIN Builtin})
  /\ \A i \in DOMAIN Builtin : Asks(Builtin[i])

-----------------------------------------------------------------------------
(* held::Set: positions are declared once, in order, and provided at most once.
   An index counts from zero. *)

Declare(set, name, max) ==
  IF Len(set) = max \/ \E i \in DOMAIN set : set[i].name = name THEN set
  ELSE Append(set, [name |-> name, item |-> VACANT])

\* declare_or_report keeps the index only when it is the one the ABI gives.
IndexOf(set, name) == IF \E i \in DOMAIN set : set[i].name = name
                        THEN (CHOOSE i \in DOMAIN set : set[i].name = name) - 1
                        ELSE NONE
DeclaredAt(set, name, abi) == IndexOf(set, name) = abi

Provide(set, index, item) ==
  IF index + 1 \in DOMAIN set /\ set[index + 1].item = VACANT
    THEN [set EXCEPT ![index + 1].item = item]
    ELSE set

WindowValid(w) == /\ w.pa % PAGE = 0
                  /\ w.len % PAGE = 0
                  /\ w.len # 0
                  /\ w.pa + w.len < PA_END

WindowsOverlap(a, b) == a.pa < b.pa + b.len /\ b.pa < a.pa + a.len

ProvideWindow(set, index, w) ==
  IF ~WindowValid(w) \/ \E i \in DOMAIN set : /\ set[i].item = "window"
                                              /\ WindowsOverlap(set[i].at, w)
    THEN set
    ELSE IF set[index + 1].item = VACANT
           THEN [set EXCEPT ![index + 1] = [@ EXCEPT !.item = "window", !.at = w]]
           ELSE set

-----------------------------------------------------------------------------
(* authority::assemble *)

LoaderInit ==
  /\ step = "console"
  /\ held = <<>>
  /\ windows = <<>>
  /\ network \in BOOLEAN
  /\ served = FALSE
  /\ table = <<>>
  /\ plans = <<>>
  /\ next = 1
  /\ side = [holder |-> NONE, entry |-> [s \in TaskSlots |-> NONE],
             window |-> [s \in TaskSlots |-> NoWindow]]
  /\ task = [s \in TaskSlots |-> [state |-> "empty"]]
  /\ console = 0

DeclareOrReport(set, name) == Declare(set, name, MAX_HELD)

\* A service's endpoint, provided at the position its name was declared at.
ProvideOrReport(set, name) == Provide(set, IndexOf(set, name), name)

AbiAgrees(set, names) ==
  \A i \in DOMAIN names :
    DeclaredAt(set, names[i],
               (CHOOSE j \in DOMAIN HeldNames : HeldNames[j] = names[i]) - 1)

\* The console's capability is minted with its channel; the server may still
\* fail to spawn.
AssembleConsole ==
  /\ step = "console"
  /\ LET set == DeclareOrReport(held, "console")
     IN  \E channel, server \in BOOLEAN :
           /\ held' = IF channel /\ AbiAgrees(set, <<"console">>)
                        THEN ProvideOrReport(set, "console") ELSE set
           /\ served' = (channel /\ server)
  /\ step' = "blob"
  /\ UNCHANGED <<windows, network, table, plans, next, side, task, console>>

\* The blob and the packet endpoints exist only with a service behind them.
AssembleService(names, set, provided) ==
  \E started \in BOOLEAN : held' = IF started /\ AbiAgrees(set, names) THEN provided ELSE set

AssembleBlob ==
  /\ step = "blob"
  /\ LET set == DeclareOrReport(DeclareOrReport(held, "blob"), "blob-reply")
     IN  AssembleService(<<"blob", "blob-reply">>, set,
                         ProvideOrReport(ProvideOrReport(set, "blob"), "blob-reply"))
  /\ step' = "net"
  /\ UNCHANGED <<windows, network, served, table, plans, next, side, task, console>>

AssembleNet ==
  /\ step = "net"
  /\ LET tx  == DeclareOrReport(DeclareOrReport(held, "net-tx"), "net-tx-complete")
         set == DeclareOrReport(DeclareOrReport(tx, "net-rx"), "net-rx-return")
         out == ProvideOrReport(ProvideOrReport(set, "net-tx"), "net-tx-complete")
         all == ProvideOrReport(ProvideOrReport(out, "net-rx"), "net-rx-return")
     IN  AssembleService(<<"net-tx", "net-tx-complete", "net-rx", "net-rx-return">>, set,
                         IF network THEN all ELSE set)
  /\ step' = "windows"
  /\ UNCHANGED <<windows, network, served, table, plans, next, side, task, console>>

AssembleWindows ==
  /\ step = "windows"
  /\ \E rng \in BOOLEAN, fb \in Framebuffers \cup {NoWindow} :
       LET none == [i \in 1..2 |-> [name |-> <<"rng", "framebuffer">>[i], item |-> VACANT,
                                    at |-> NoWindow]]
           first == IF rng THEN ProvideWindow(none, 0, RngWindow) ELSE none
       IN  windows' = IF fb # NoWindow THEN ProvideWindow(first, 1, fb) ELSE first
  /\ step' = "store"
  /\ UNCHANGED <<held, network, served, table, plans, next, side, task, console>>

-----------------------------------------------------------------------------
(* The store and the plan *)

\* agentstore::parse: one bad agent refuses the whole store.
AgentParses(a) ==
  /\ a.named
  /\ a.text # 0 /\ a.stack # 0
  /\ a.reserved = 0
  /\ a.home < N_CPUS
  /\ IF a.window = NONE THEN a.va = 0 ELSE a.va % PAGE = 0
  /\ ~a.truncated
  /\ a.image <= a.text * PAGE

Parses(store) == /\ store.header
                 /\ Len(store.agents) \in 1..MAX_AGENTS
                 /\ \A i \in DOMAIN store.agents : AgentParses(store.agents[i])

\* to_entry: the wire's sentinels become absences.
ToEntry(a) == [name |-> a.name, image |-> a.image, text |-> a.text, stack |-> a.stack,
               slots |-> a.slots, resolve |-> a.resolve, pool |-> a.pool,
               home |-> a.home, window |-> a.window, va |-> a.va]

Validates(e) == /\ e.text # 0 /\ e.stack # 0
                /\ e.image <= e.text * PAGE
                /\ e.home < N_CPUS

\* bind: every slot the entry names must be declared, allowed and provided.
Binds(e, set) ==
  \A i \in DOMAIN e.slots :
    e.slots[i] # NONE =>
      /\ e.slots[i] < Len(set)
      /\ e.slots[i] >= PACKET_CAPABILITY_START => e.pool
      /\ set[e.slots[i] + 1].item # VACANT

Bound(e, set) == [i \in DOMAIN e.slots |->
                    IF e.slots[i] = NONE THEN VACANT ELSE set[e.slots[i] + 1].item]

BindsWindow(e, set) == e.window # NONE => /\ e.window < Len(set)
                                          /\ set[e.window + 1].item # VACANT
                                          /\ WindowValid(set[e.window + 1].at)

BoundWindow(e, set) == IF e.window = NONE THEN NoWindow ELSE set[e.window + 1].at

PlanOf(e, h, w) == IF Validates(e) /\ Binds(e, h) /\ BindsWindow(e, w)
                     THEN [spawn |-> TRUE, slots |-> Bound(e, h), window |-> BoundWindow(e, w)]
                     ELSE [spawn |-> FALSE]

\* The product loads the store or nothing; the oracle falls back.
LoadStore ==
  /\ step = "store"
  /\ \E store \in Stores, oracle \in BOOLEAN :
       LET t == IF Parses(store) THEN [i \in DOMAIN store.agents |-> ToEntry(store.agents[i])]
                ELSE IF oracle THEN Builtin ELSE <<>>
       IN  /\ table' = t
           /\ plans' = IF Len(t) > MAX_AGENTS THEN <<>>
                       ELSE [i \in DOMAIN t |-> PlanOf(t[i], held, windows)]
  /\ step' = "load"
  /\ UNCHANGED <<held, windows, network, served, next, side, task, console>>

-----------------------------------------------------------------------------
(* load_all: for each entry, the task and its row of the side tables are made
   under SIDE, which a task that already runs must take to find its entry. *)

\* A refused entry, or one whose packet pool is not there, is passed over.
Skip ==
  /\ step = "load"
  /\ next <= Len(plans)
  /\ ~plans[next].spawn \/ (table[next].pool /\ ~network)
  /\ next' = next + 1
  /\ UNCHANGED <<step, held, windows, network, served, table, plans, side, task, console>>

\* SIDE is taken and the task exists: its home core may run it from here on.
SpawnTask ==
  /\ step = "load"
  /\ next <= Len(plans)
  /\ plans[next].spawn
  /\ table[next].pool => network
  /\ side.holder = NONE
  /\ \/ \E s \in TaskSlots :
          /\ task[s].state = "empty"
          /\ task' = [task EXCEPT ![s] = [state |-> "ready", of |-> next,
                                          slots |-> plans[next].slots, resolve |-> FALSE,
                                          found |-> NONE, window |-> NoWindow,
                                          left |-> 0]]
          /\ side' = [side EXCEPT !.holder = s]
          /\ step' = "record"
          /\ next' = next
     \/ /\ next' = next + 1
        /\ UNCHANGED <<step, task, side>>
  /\ UNCHANGED <<held, windows, network, served, table, plans, console>>

\* The grant and the task's row, then SIDE is released.
RecordEntry ==
  /\ step = "record"
  /\ LET s == side.holder
     IN  /\ task' = IF table[next].resolve /\ task[s].state # "empty"
                      THEN [task EXCEPT ![s].resolve = TRUE] ELSE task
         /\ side' = [side EXCEPT !.holder = NONE, !.entry[s] = next,
                                 !.window[s] = plans[next].window]
  /\ next' = next + 1
  /\ step' = "load"
  /\ UNCHANGED <<held, windows, network, served, table, plans, console>>

LoadDone ==
  /\ step = "load"
  /\ next > Len(plans)
  /\ step' = "done"
  /\ UNCHANGED <<held, windows, network, served, table, plans, next, side, task, console>>

-----------------------------------------------------------------------------
(* The agents *)

\* Mutant: the lookup does not wait for the side table.
MayLookAnyTime == TRUE

\* entry_for_task waits for SIDE, which the loader holds while it spawns.
MayLook == side.holder = NONE

\* agent_body, dispatched on the task's home core, looks its entry up.
FindEntry(s) ==
  /\ task[s].state = "ready"
  /\ MayLook
  /\ task' = [task EXCEPT ![s] = IF side.entry[s] = NONE THEN [state |-> "empty"]
                                 ELSE [@ EXCEPT !.state = "run", !.found = side.entry[s],
                                                !.window = side.window[s]]]
  /\ UNCHANGED <<step, held, windows, network, served, table, plans, next, side, console>>

\* A running agent writes to the console through its first slot.
AgentSends(s) ==
  /\ task[s].state = "run"
  /\ task[s].slots[1] = "console"
  /\ console < MAILBOX_DEPTH
  /\ console' = console + 1
  /\ UNCHANGED <<step, held, windows, network, served, table, plans, next, side, task>>

\* run ends: an agent that could not be built, faulted or was forced out leaves
\* at once; one that exited waits for the console to drain.
AgentEnds(s) ==
  /\ task[s].state = "run"
  /\ \/ task' = [task EXCEPT ![s] = [state |-> "empty"]]
     \/ /\ task[s].slots[1] = "console"
        /\ task' = [task EXCEPT ![s].state = "drain", ![s].left = DRAIN_WAIT_TICKS]
  /\ UNCHANGED <<step, held, windows, network, served, table, plans, next, side, console>>

\* Mutant: the deadline is not looked at.
DrainUntilEmpty(s) == console = 0

\* yield_until_empty: an empty mailbox or a passed deadline ends the wait.
DrainOver(s) == console = 0 \/ task[s].left = 0

AgentDrained(s) ==
  /\ task[s].state = "drain"
  /\ DrainOver(s)
  /\ task' = [task EXCEPT ![s] = [state |-> "empty"]]
  /\ UNCHANGED <<step, held, windows, network, served, table, plans, next, side, console>>

Draining == {s \in TaskSlots : task[s].state = "drain"}

LoaderTick ==
  /\ \E s \in Draining : task[s].left > 0
  /\ task' = [s \in TaskSlots |-> IF s \in Draining /\ task[s].left > 0
                                    THEN [task[s] EXCEPT !.left = @ - 1] ELSE task[s]]
  /\ UNCHANGED <<step, held, windows, network, served, table, plans, next, side, console>>

\* console_server::run drains everything that is queued once it runs.
ConsoleServe ==
  /\ served
  /\ console > 0
  /\ console' = 0
  /\ UNCHANGED <<step, held, windows, network, served, table, plans, next, side, task>>

LoaderStep == \/ AssembleConsole \/ AssembleBlob \/ AssembleNet \/ AssembleWindows
              \/ LoadStore \/ Skip \/ SpawnTask \/ RecordEntry \/ LoadDone

AgentStep(s) == FindEntry(s) \/ AgentDrained(s)

LoaderNext ==
  \/ LoaderStep
  \/ \E s \in TaskSlots : AgentStep(s) \/ AgentSends(s) \/ AgentEnds(s)
  \/ LoaderTick
  \/ ConsoleServe

LoaderSpec == /\ LoaderInit
              /\ [][LoaderNext]_loaderVars
              /\ WF_loaderVars(LoaderStep)
              /\ \A s \in TaskSlots : WF_loaderVars(AgentStep(s))
              /\ WF_loaderVars(LoaderTick)

-----------------------------------------------------------------------------
(* Properties *)

\* An agent runs as the entry it was spawned for and with that entry's
\* authority: its body finds that entry's index and window even when its slot
\* belonged to another agent before, its capabilities are the endpoints whose
\* ABI positions the entry names, whichever services failed to start, and it
\* may resolve names exactly when the entry says so.
EntryDelivered ==
  \A s \in TaskSlots :
    task[s].state \in {"run", "drain"} =>
      LET e == table[task[s].of]
      IN  /\ task[s].found = task[s].of
          /\ task[s].window = BoundWindow(e, windows)
          /\ task[s].resolve = e.resolve
          /\ \A i \in DOMAIN e.slots :
               task[s].slots[i] = IF e.slots[i] = NONE THEN VACANT
                                  ELSE HeldNames[e.slots[i] + 1]

\* Two windows that agents may be given never share a page, whatever the
\* firmware reports for the framebuffer (held::Set::provide_window).
WindowsDisjoint ==
  \A s, t \in TaskSlots :
    /\ task[s].state = "run" /\ task[t].state = "run"
    /\ task[s].window # task[t].window
    => ~WindowsOverlap(task[s].window, task[t].window)

\* An agent that runs was given the entry the loader decided on for it, and
\* its window; no slot's leftover side entry reaches a later task, and no two
\* agents that run share a page of two windows (loader.rs).
AgentRunsItsEntry == EntryDelivered /\ WindowsDisjoint
=============================================================================
