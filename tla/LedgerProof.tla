---------------------------- MODULE LedgerProof ----------------------------
(***************************************************************************)
(* Where calls do not interleave the ledgers of authority are exact: the   *)
(* holder counts that reap a mailbox and the task capabilities that name a *)
(* task, for any number of tasks, slots, channels and names.               *)
(***************************************************************************)
EXTENDS AuthorityProof

-----------------------------------------------------------------------------
(* The inductive invariant *)

\* A capability of an endpoint was minted before now.
Known(cap) == cap.index \in Ends => cap.generation < next_gen

\* No capability in use is one that a later channel will mint.
CapsKnown ==
    /\ next_gen <= mode.channels + 1
    /\ \A e \in Ends : endpoints[e].generation < next_gen
    /\ \A s \in TaskSlots, i \in CapSlots : Known(rows[s][i])
    /\ \A n \in NameSet : Known(names[n])
    /\ \A s \in TaskSlots : at[s].do = "install" => Known(at[s].cap)

\* With calls that are atomic only one task is inside one, and the task it
\* mints a capability for is there.
OneInside ==
    mode.inside = 1 =>
        /\ \A s, t \in TaskSlots : at[s] # Free /\ at[t] # Free => s = t
        /\ \A s \in TaskSlots : at[s].do = "mint" => Exists(at[s].id)

LedgerInv == AuthInv /\ CapsKnown /\ OneInside /\ LedgersExact

-----------------------------------------------------------------------------

LEMMA Finite ==
    /\ IsFiniteSet(TaskSlots \X CapSlots)
    /\ Cardinality(TaskSlots \X CapSlots) = TaskCount * SlotCount
    /\ IsFiniteSet(TaskSlots)
<1>1. IsFiniteSet(TaskSlots) /\ Cardinality(TaskSlots) = TaskCount
  <2>1. 0 \in Int /\ TaskCount - 1 \in Int /\ 0 <= TaskCount - 1
    BY Counts
  <2>2. IsFiniteSet(0 .. TaskCount - 1) /\ Cardinality(0 .. TaskCount - 1) = TaskCount - 1 + 1
    BY <2>1, FS_Interval
  <2>3. QED BY <2>2, Counts DEF TaskSlots
<1>2. IsFiniteSet(CapSlots) /\ Cardinality(CapSlots) = SlotCount
  <2>1. 0 \in Int /\ SlotCount - 1 \in Int /\ 0 <= SlotCount - 1
    BY Counts
  <2>2. IsFiniteSet(0 .. SlotCount - 1) /\ Cardinality(0 .. SlotCount - 1) = SlotCount - 1 + 1
    BY <2>1, FS_Interval
  <2>3. QED BY <2>2, Counts DEF CapSlots
<1>3. QED BY <1>1, <1>2, FS_Product, Zenon

\* With atomic calls nobody is inside one when a call begins.
LEMMA Quiet ==
    ASSUME AuthInv, mode.inside = 1, NEW s, Idle(s)
    PROVE  \A t \in TaskSlots : at[t] = Free
<1>1. Inside \in SUBSET TaskSlots
  BY Zenon DEF Inside
<1>2. IsFiniteSet(Inside) /\ Cardinality(Inside) \in Nat
  BY <1>1, Finite, FS_Subset, FS_CardinalityType, Zenon
<1>3. Cardinality(Inside) = 0
  BY <1>2 DEF Idle
<1>4. Inside = {}
  BY <1>2, <1>3, FS_EmptySet, Zenon
<1>5. QED BY <1>4, Zenon DEF Inside

-----------------------------------------------------------------------------
(* No capability in use is one that a later channel will mint. *)

LEMMA SendCapsKnown == ASSUME CapsKnown, NEW cap \in SendCaps PROVE Known(cap)
BY DEF CapsKnown, SendCaps, Known

LEMMA NoCapKnown == Known(NoCap)
BY CapFacts, Zenon DEF Known

LEMMA KnownKeep ==
    ASSUME CapsKnown, UNCHANGED <<endpoints, next_gen, mode>>,
           \A s \in TaskSlots, i \in CapSlots : Known(rows'[s][i]),
           \A n \in NameSet : Known(names'[n]),
           \A s \in TaskSlots : at'[s].do = "install" => Known(at'[s].cap)
    PROVE  CapsKnown'
BY Zenon DEF CapsKnown, Known

\* A step that moves one task on.
LEMMA KnownOn ==
    ASSUME AuthInv, CapsKnown, UNCHANGED <<endpoints, next_gen, mode, rows, names>>,
           NEW s \in TaskSlots, NEW rest, Continue(s, rest),
           rest.do = "install" => Known(rest.cap)
    PROVE  CapsKnown'
<1>1. at'[s] = rest /\ \A t \in TaskSlots \ {s} : at'[t] = at[t]
  BY Zenon DEF Continue, AuthInv, AuthorityTypes, AtTyped
<1>2. QED BY <1>1, KnownKeep, Zenon DEF CapsKnown

LEMMA CreateKnown == ASSUME AuthInv, CapsKnown, Create PROVE CapsKnown'
<1>1. /\ endpoints \in [Ends -> EndType] /\ next_gen \in Gens /\ next_gen \in Nat
      /\ mode.channels \in Nat /\ mode.channels < GenMax /\ GenMax \in Nat
  BY AuthorityAssumption, SizeAssumption DEF AuthInv, AuthorityTypes, IpcInv, Gens
<1>2. next_gen <= mode.channels /\ CreateChannel(FALSE) /\ UNCHANGED slotVars
  BY Zenon DEF Create
<1>3. CASE UNCHANGED <<endpoints, next_gen>>
  BY <1>2, <1>3, Zenon DEF CapsKnown, Known, slotVars
<1>4. CASE \E b \in Boxes, s, r \in Ends :
             OpenChannel(b, s, r, FALSE) /\ next_gen' = NextGen(next_gen)
  <2>1. PICK b \in Boxes, s \in Ends, r \in Ends :
          OpenChannel(b, s, r, FALSE) /\ next_gen' = NextGen(next_gen)
    BY <1>4, Zenon
  <2>2. next_gen' = next_gen + 1
    BY <1>1, <1>2, <2>1 DEF NextGen
  <2>3. \A e \in Ends : \/ endpoints'[e].generation = endpoints[e].generation
                        \/ endpoints'[e].generation = next_gen
    BY <1>1, <2>1, Zenon DEF OpenChannel
  <2>4. \A e \in Ends : endpoints[e].generation \in Nat
    BY <1>1, SizeAssumption DEF EndType, Gens
  <2>5. \A e \in Ends : endpoints'[e].generation < next_gen'
    BY <1>1, <2>2, <2>3, <2>4 DEF CapsKnown
  <2>6. \A cap \in CapType : Known(cap) => Known(cap)'
    BY <1>1, <2>2 DEF Known, CapType, NoCap
  <2>7. /\ \A s1 \in TaskSlots, i \in CapSlots : rows[s1][i] \in CapType
        /\ \A n \in NameSet : names[n] \in CapType
        /\ \A s1 \in TaskSlots : at[s1].do = "install" => at[s1].cap \in CapType
    BY Zenon DEF AuthInv, AuthorityTypes, RowType, AtTyped, AtOK
  <2>8. UNCHANGED <<rows, names, at, mode>>
    BY <1>2, Zenon DEF slotVars
  <2>9. next_gen' <= mode'.channels + 1
    BY <1>1, <1>2, <2>2, <2>8
  <2>10. /\ \A s1 \in TaskSlots, i \in CapSlots : Known(rows[s1][i])'
         /\ \A n \in NameSet : Known(names[n])'
         /\ \A s1 \in TaskSlots : at[s1].do = "install" => Known(at[s1].cap)'
    BY <2>6, <2>7, <2>8, Zenon DEF CapsKnown, Known
  <2>11. QED BY <2>5, <2>8, <2>9, <2>10, Zenon DEF CapsKnown
<1>5. QED BY <1>2, <1>3, <1>4, Zenon DEF CreateChannel

LEMMA RevokeKnown == ASSUME AuthInv, CapsKnown, Revoke PROVE CapsKnown'
<1>1. PICK cap : RevokeChannel(cap)
  BY Zenon DEF Revoke
<1>2. UNCHANGED next_gen /\ \A e \in Ends : endpoints'[e].generation = endpoints[e].generation
  BY <1>1 DEF RevokeChannel, Killed, AuthInv, IpcInv, EndType
<1>3. UNCHANGED <<mode, rows, names, at>>
  BY Zenon DEF Revoke, slotVars
<1>4. QED BY <1>2, <1>3, Zenon DEF CapsKnown, Known

LEMMA TransferKnown ==
    ASSUME AuthInv, CapsKnown, NEW s \in TaskSlots, NEW from \in CapSlots,
           NEW to \in CapSlots, NEW id \in Ids, TransferHeld(s, from, id, to),
           UNCHANGED <<endpoints, next_gen, mode, names>>,
           \A u \in TaskSlots : at'[u] = at[u] \/ at'[u] = Free
    PROVE  CapsKnown'
<1>1. PICK t \in TaskSlots : t = id[1]
  BY Zenon DEF Ids
<1>2. rows \in [TaskSlots -> RowType]
  BY Zenon DEF AuthInv, AuthorityTypes
<1>3. CASE UNCHANGED rows
  BY <1>3, KnownKeep DEF CapsKnown, Free
<1>4. CASE rows' = Moved(s, from, t, to) /\ ~(t = s /\ from = to)
  <2>1. /\ rows'[s][from] = NoCap /\ rows'[t][to] = rows[s][from]
        /\ \A u \in TaskSlots, i \in CapSlots :
              ~(u = s /\ i = from) /\ ~(u = t /\ i = to) => rows'[u][i] = rows[u][i]
    BY <1>2, <1>4, MovedReads
  <2>2. \A u \in TaskSlots, i \in CapSlots : Known(rows'[u][i])
    BY <2>1, NoCapKnown DEF CapsKnown
  <2>3. QED BY <2>2, KnownKeep DEF CapsKnown, Free
<1>5. QED BY <1>1, <1>3, <1>4, Zenon DEF TransferHeld

LEMMA BootKnown == ASSUME AuthInv, CapsKnown, BootStep PROVE CapsKnown'
<1>1. ASSUME NEW slot \in CapSlots, PickTask(slot) PROVE CapsKnown'
  <2>1. PICK t \in TaskSlots : Continue(0, [do |-> "mint", id |-> LiveId(t), slot |-> slot])
    BY <1>1, Zenon DEF PickTask
  <2>2. 0 \in TaskSlots
    BY Counts DEF TaskSlots
  <2>3. QED BY <1>1, <2>1, <2>2, KnownOn, Zenon DEF PickTask, ipcVars
<1>2. ASSUME NEW name \in NameSet, NEW cap, Known(cap), names' = [names EXCEPT ![name] = cap],
             UNCHANGED <<ipcVars, mode, rows, at>>
      PROVE  CapsKnown'
  <2>1. \A n \in NameSet : names'[n] \in {names[n], cap}
    BY <1>2, Zenon DEF AuthInv, AuthorityTypes
  <2>2. QED BY <1>2, <2>1, KnownKeep, Zenon DEF CapsKnown, ipcVars
<1>3. ASSUME NEW name \in NameSet, NEW cap \in SendCaps, Bind(name, cap) PROVE CapsKnown'
  BY <1>2, <1>3, SendCapsKnown, Zenon DEF Bind
<1>4. ASSUME NEW name \in NameSet, Unbind(name) PROVE CapsKnown'
  BY <1>2, <1>4, NoCapKnown, Zenon DEF Unbind
<1>5. ASSUME NEW id, GrantResolve(id) PROVE CapsKnown'
  BY <1>5, KnownKeep, Zenon DEF GrantResolve, CapsKnown, ipcVars
<1>6. QED BY <1>1, <1>3, <1>4, <1>5, CreateKnown, RevokeKnown, Zenon DEF BootStep

LEMMA SlotKnown == ASSUME AuthInv, CapsKnown, NEW s \in TaskSlots, SlotStep(s) PROVE CapsKnown'
<1>1. /\ rows \in [TaskSlots -> RowType] /\ AtTyped /\ AtOK(at[s])
      /\ taskcaps \in [TaskCaps -> TaskCapType] /\ LiveId(s) \in Ids
  BY Zenon DEF AuthInv, AuthorityTypes, AtTyped, TcbType, LiveId, Ids
<1>2. ASSUME NEW cap \in SendCaps \cup {NoCap}, SpawnWithSlots(s, RowWith(0, cap))
      PROVE  CapsKnown'
  <2>1. PICK t \in TaskSlots : rows' = [rows EXCEPT ![t] = RowWith(0, cap)]
    BY <1>2, Zenon DEF SpawnWithSlots
  <2>2. cap \in CapType /\ Known(cap)
    BY SendCapsTyped, SendCapsKnown, NoCapKnown, CapFacts, Zenon DEF AuthInv
  <2>3. 0 \in CapSlots
    BY Counts DEF CapSlots
  <2>4. \A i \in CapSlots : RowWith(0, cap)[i] \in {cap, NoCap}
    BY <2>2, <2>3, CapFacts
  <2>5. \A u \in TaskSlots, i \in CapSlots : rows'[u][i] \in {rows[u][i], cap, NoCap}
    BY <1>1, <2>1, <2>4, Zenon
  <2>6. /\ Continue(s, [do |-> "register", row |-> RowWith(0, cap)])
        /\ UNCHANGED <<endpoints, next_gen, mode, names>>
    BY <1>2, Zenon DEF SpawnWithSlots, ipcVars
  <2>7. \A u \in TaskSlots : at'[u].do = "install" => at'[u] = at[u]
    BY <1>1, <2>6, Zenon DEF Continue, AtTyped
  <2>8. QED BY <2>2, <2>5, <2>6, <2>7, NoCapKnown, KnownKeep, Zenon DEF CapsKnown
<1>3. CASE Register(s)
  BY <1>3, KnownOn, Zenon DEF Register, RegisterHolds, Free
<1>4. CASE Release(s)
  BY <1>4, KnownOn, Zenon DEF Release, ReleaseHolds
<1>5. CASE RevokeTask(s)
  BY <1>5, KnownOn, Zenon DEF RevokeTask, ipcVars, Free
<1>6. CASE Lookup(s)
  BY <1>6, KnownOn, Zenon DEF Lookup, ipcVars, Free
<1>7. CASE Exit(s)
  <2>1. \A u \in TaskSlots, i \in CapSlots : rows'[u][i] \in {rows[u][i], NoCap}
    BY <1>1, <1>7, Zenon DEF Exit, Drained, EmptyRow
  <2>2. \A u \in TaskSlots : at'[u].do = "install" => at'[u] = at[u]
    BY <1>1, <1>7, Zenon DEF Exit, Continue, AtTyped
  <2>3. QED BY <1>7, <2>1, <2>2, NoCapKnown, KnownKeep, Zenon DEF CapsKnown, Exit, ipcVars
<1>8. CASE Mint(s)
  <2>1. UNCHANGED <<endpoints, next_gen, mode, rows, names>>
    BY <1>8, Zenon DEF Mint, ipcVars
  <2>2. CASE Continue(s, Free)
    BY <2>1, <2>2, KnownOn, Zenon DEF Free
  <2>3. CASE \E i \in TaskCaps :
               /\ taskcaps' = [taskcaps EXCEPT ![i] =
                      [live |-> TRUE, generation |-> NextGen(@.generation), task |-> at[s].id]]
               /\ Continue(s, [do |-> "install", slot |-> at[s].slot,
                               cap |-> TaskCap(i, taskcaps'[i].generation)])
    <3>1. PICK i \in TaskCaps :
               /\ taskcaps' = [taskcaps EXCEPT ![i] =
                      [live |-> TRUE, generation |-> NextGen(@.generation), task |-> at[s].id]]
               /\ Continue(s, [do |-> "install", slot |-> at[s].slot,
                               cap |-> TaskCap(i, taskcaps'[i].generation)])
      BY <2>3, Zenon
    <3>2. PICK gen : gen = taskcaps'[i].generation
      BY Zenon
    <3>3. TaskCap(i, gen).index \notin Ends
      BY Counts DEF TaskCap, TaskCaps, Ends
    <3>4. Known(TaskCap(i, gen))
      BY <3>3, Zenon DEF Known
    <3>5. QED BY <2>1, <3>1, <3>2, <3>4, KnownOn, Zenon
  <2>4. QED BY <1>8, <2>2, <2>3, Zenon DEF Mint
<1>9. CASE InstallCap(s)
  <2>1. at[s].do = "install" /\ at[s].slot \in CapSlots /\ Known(at[s].cap)
    BY <1>1, <1>9, Zenon DEF InstallCap, In, AtOK, CapsKnown
  <2>2. \A u \in TaskSlots, i \in CapSlots : rows'[u][i] \in {rows[u][i], at[s].cap}
    BY <1>1, <1>9, <2>1 DEF InstallCap, RowType
  <2>3. \A u \in TaskSlots : at'[u].do = "install" => at'[u] = at[u]
    BY <1>1, <1>9 DEF InstallCap, Continue, AtTyped, Free
  <2>4. QED BY <1>9, <2>1, <2>2, <2>3, KnownKeep, Zenon DEF CapsKnown, InstallCap, ipcVars
<1>10. CASE Move(s)
  <2>1. at[s].from \in CapSlots /\ at[s].to \in CapSlots /\ at[s].id \in Ids
    BY <1>1, <1>10, Zenon DEF AtOK, Move, In
  <2>2. \A u \in TaskSlots : at'[u] = at[u] \/ at'[u] = Free
    BY <1>1, <1>10, Zenon DEF Move, Continue, AtTyped
  <2>3. QED BY <1>10, <2>1, <2>2, TransferKnown, Zenon DEF Move, ipcVars
<1>11. ASSUME NEW slot \in CapSlots, NEW name \in NameSet, Resolve(s, slot, name)
       PROVE  CapsKnown'
  BY <1>11, KnownOn, Zenon DEF Resolve, ipcVars, CapsKnown
<1>12. ASSUME NEW from \in CapSlots, NEW to \in CapSlots, ToSelf(s, from, to)
       PROVE  CapsKnown'
  BY <1>1, <1>12, TransferKnown, Zenon DEF ToSelf, ipcVars
<1>13. ASSUME NEW from \in CapSlots, NEW to \in CapSlots, ToCreator(s, from, to)
       PROVE  CapsKnown'
  BY <1>13, KnownOn, Zenon DEF ToCreator, ipcVars
<1>14. ASSUME NEW from \in CapSlots, NEW to \in CapSlots, NEW slot \in CapSlots,
              ToPeer(s, from, to, slot)
       PROVE  CapsKnown'
  BY <1>14, KnownOn, Zenon DEF ToPeer, ipcVars
<1>15. QED BY <1>2, <1>3, <1>4, <1>5, <1>6, <1>7, <1>8, <1>9, <1>10, <1>11, <1>12, <1>13,
              <1>14, Zenon DEF SlotStep

LEMMA KnownStep == AuthInv /\ CapsKnown /\ [AuthorityNext]_authorityVars => CapsKnown'
<1>1. ASSUME CapsKnown, UNCHANGED authorityVars PROVE CapsKnown'
  BY <1>1, Zenon DEF CapsKnown, Known, authorityVars, slotVars, ipcVars
<1>2. QED BY <1>1, BootKnown, SlotKnown, Zenon DEF AuthorityNext

-----------------------------------------------------------------------------
(* With atomic calls one task is inside a call at a time. *)

\* What a step does to the tasks' places in their calls.
LEMMA SlotAt ==
    ASSUME AuthInv, NEW s \in TaskSlots, SlotStep(s)
    PROVE  /\ mode' = mode /\ at'[s].do # "mint"
           /\ \A t \in TaskSlots \ {s} : at'[t] = at[t]
           /\ Idle(s) \/ at[s] # Free
<1>1. AtTyped
  BY Zenon DEF AuthInv, AuthorityTypes
<1>2. \A rest : Continue(s, rest) => at'[s] = rest /\ \A t \in TaskSlots \ {s} : at'[t] = at[t]
  BY <1>1, Zenon DEF Continue, AtTyped
<1>3. ASSUME NEW row, SpawnWithSlots(s, row)
      PROVE  /\ mode' = mode /\ at'[s].do # "mint" /\ Idle(s)
             /\ \A t \in TaskSlots \ {s} : at'[t] = at[t]
  BY <1>2, <1>3 DEF SpawnWithSlots
<1>4. CASE Register(s) \/ Release(s) \/ RevokeTask(s) \/ Lookup(s) \/ Move(s)
  BY <1>2, <1>4 DEF Register, Release, RevokeTask, Lookup, Move, In, Free
<1>5. CASE Exit(s)
  BY <1>2, <1>5 DEF Exit
<1>6. CASE InstallCap(s)
  BY <1>2, <1>6 DEF InstallCap, In, Free
<1>7. CASE Mint(s)
  <2>1. mode' = mode /\ at[s] # Free
    BY <1>7 DEF Mint, In, Free
  <2>2. \E rest : Continue(s, rest) /\ rest.do # "mint"
    <3>1. CASE Continue(s, Free)
      BY <3>1 DEF Free
    <3>2. CASE \E slot, cap : Continue(s, [do |-> "install", slot |-> slot, cap |-> cap])
      <4>1. PICK slot, cap : Continue(s, [do |-> "install", slot |-> slot, cap |-> cap])
        BY <3>2, Zenon
      <4>2. [do |-> "install", slot |-> slot, cap |-> cap].do # "mint"
        BY Zenon
      <4>3. QED BY <4>1, <4>2, Zenon
    <3>3. QED BY <1>7, <3>1, <3>2, Zenon DEF Mint
  <2>3. QED BY <1>2, <2>1, <2>2, Zenon
<1>8. ASSUME NEW slot, NEW name, Resolve(s, slot, name)
      PROVE  /\ mode' = mode /\ at'[s].do # "mint" /\ Idle(s)
             /\ \A t \in TaskSlots \ {s} : at'[t] = at[t]
  BY <1>2, <1>8 DEF Resolve
<1>9. ASSUME NEW from, NEW to, ToSelf(s, from, to) \/ ToCreator(s, from, to)
      PROVE  /\ mode' = mode /\ at'[s].do # "mint" /\ Idle(s)
             /\ \A t \in TaskSlots \ {s} : at'[t] = at[t]
  BY <1>2, <1>9 DEF ToSelf, ToCreator, Idle, Free
<1>10. ASSUME NEW from, NEW to, NEW slot, ToPeer(s, from, to, slot)
       PROVE  /\ mode' = mode /\ at'[s].do # "mint" /\ Idle(s)
              /\ \A t \in TaskSlots \ {s} : at'[t] = at[t]
  BY <1>2, <1>10 DEF ToPeer
<1>11. QED BY <1>3, <1>4, <1>5, <1>6, <1>7, <1>8, <1>9, <1>10, Zenon DEF SlotStep

\* The task that takes a step is the only one inside a call.
LEMMA Alone ==
    ASSUME AuthInv, OneInside, mode.inside = 1, NEW s \in TaskSlots, Idle(s) \/ at[s] # Free
    PROVE  \A t \in TaskSlots \ {s} : at[t] = Free
BY Quiet, Zenon DEF OneInside

LEMMA OneStep == AuthInv /\ OneInside /\ [AuthorityNext]_authorityVars => OneInside'
<1> SUFFICES ASSUME AuthInv, OneInside, [AuthorityNext]_authorityVars, mode'.inside = 1
             PROVE  /\ \A s, t \in TaskSlots : at'[s] # Free /\ at'[t] # Free => s = t
                    /\ \A s \in TaskSlots : at'[s].do = "mint" => Exists(at[s].id)'
  BY Zenon DEF OneInside, Free
<1>1. CASE UNCHANGED authorityVars
  BY <1>1, Zenon DEF authorityVars, slotVars, OneInside, Exists, LiveId
<1>2. ASSUME NEW s \in TaskSlots, SlotStep(s)
      PROVE  /\ \A u, t \in TaskSlots : at'[u] # Free /\ at'[t] # Free => u = t
             /\ \A u \in TaskSlots : at'[u].do = "mint" => Exists(at[u].id)'
  <2>1. /\ mode' = mode /\ at'[s].do # "mint" /\ \A t \in TaskSlots \ {s} : at'[t] = at[t]
        /\ Idle(s) \/ at[s] # Free
    BY <1>2, SlotAt, Zenon
  <2>2. \A t \in TaskSlots \ {s} : at'[t] = Free
    BY <2>1, Alone, Zenon
  <2>3. QED BY <2>1, <2>2 DEF Free
<1>3. CASE BootStep
  <2>1. mode' = mode /\ Idle(0)
    BY <1>3, Zenon DEF BootStep, Create, Revoke, PickTask, Bind, Unbind, GrantResolve,
       slotVars
  <2>2. \A t \in TaskSlots : at[t] = Free
    BY <2>1, Quiet, Zenon
  <2>3. CASE at' = at
    BY <2>2, <2>3 DEF Free
  <2>4. ASSUME NEW slot \in CapSlots, PickTask(slot)
        PROVE  /\ \A u, t \in TaskSlots : at'[u] # Free /\ at'[t] # Free => u = t
               /\ \A u \in TaskSlots : at'[u].do = "mint" => Exists(at[u].id)'
    <3>1. PICK t \in TaskSlots :
            tcb[t].live /\ Continue(0, [do |-> "mint", id |-> LiveId(t), slot |-> slot])
      BY <2>4, Zenon DEF PickTask
    <3>2. /\ at'[0] = [do |-> "mint", id |-> LiveId(t), slot |-> slot]
          /\ \A u \in TaskSlots \ {0} : at'[u] = Free
      BY <2>2, <3>1, Counts DEF Continue, AuthInv, AuthorityTypes, AtTyped, TaskSlots
    <3>3. at'[0].id = <<t, tcb[t].epoch>> /\ tcb' = tcb
      BY <2>4, <3>2 DEF LiveId, PickTask
    <3>4. Exists(at[0].id)'
      BY <3>1, <3>3 DEF Exists, LiveId
    <3>5. QED BY <3>2, <3>4 DEF Free
  <2>5. QED BY <1>3, <2>3, <2>4, Zenon DEF BootStep, Create, Revoke, Bind, Unbind,
               GrantResolve, slotVars
<1>4. QED BY <1>1, <1>2, <1>3, Zenon DEF AuthorityNext

-----------------------------------------------------------------------------
(* A live task capability names a task that exists, or one whose exit is   *)
(* about to kill it.                                                       *)

Leaving(a) == a.do \in {"release", "revoke"}

LEMMA CurrentKeep ==
    ASSUME AuthInv, TaskCapsCurrent, UNCHANGED <<mode, taskcaps>>,
           \A t \in TaskSlots : tcb[t].live => tcb'[t].live /\ tcb'[t].epoch = tcb[t].epoch,
           \A t \in TaskSlots : Leaving(at[t]) => Leaving(at'[t]) /\ at'[t].id = at[t].id
    PROVE  TaskCapsCurrent'
<1> SUFFICES ASSUME mode.inside = 1, NEW i \in TaskCaps, taskcaps[i].live
             PROVE  \/ Exists(taskcaps[i].task)'
                    \/ \E s \in TaskSlots : Leaving(at'[s]) /\ at'[s].id = taskcaps[i].task
  BY Zenon DEF TaskCapsCurrent, Leaving
<1>1. taskcaps[i].task \in Ids
  BY Zenon DEF AuthInv, AuthorityTypes, TaskCapType
<1>2. CASE Exists(taskcaps[i].task)
  BY <1>1, <1>2, Zenon DEF Exists, LiveId, Ids
<1>3. CASE \E s \in TaskSlots : Leaving(at[s]) /\ at[s].id = taskcaps[i].task
  BY <1>3, Zenon
<1>4. QED BY <1>2, <1>3, Zenon DEF TaskCapsCurrent, Leaving

LEMMA ExitCurrent ==
    ASSUME AuthInv, TaskCapsCurrent, NEW s \in TaskSlots, Exit(s) PROVE TaskCapsCurrent'
<1>1. /\ tcb' = [tcb EXCEPT ![s].live = FALSE, ![s].epoch = @ + 1]
      /\ Continue(s, [do |-> "release", row |-> rows[s], id |-> LiveId(s)])
      /\ UNCHANGED <<mode, taskcaps>> /\ at[s] = Free
  BY Zenon DEF Exit, Idle
<1>2. /\ at'[s].do = "release" /\ at'[s].id = LiveId(s)
      /\ \A t \in TaskSlots \ {s} : at'[t] = at[t]
  BY <1>1, Zenon DEF Continue, AuthInv, AuthorityTypes, AtTyped
<1>3. \A t \in TaskSlots \ {s} : tcb'[t] = tcb[t]
  BY <1>1, Zenon DEF AuthInv, AuthorityTypes
<1>4. ASSUME mode.inside = 1, NEW i \in TaskCaps, taskcaps[i].live
      PROVE  \/ Exists(taskcaps[i].task)'
             \/ \E t \in TaskSlots : Leaving(at'[t]) /\ at'[t].id = taskcaps[i].task
  <2>1. taskcaps[i].task \in Ids
    BY Zenon DEF AuthInv, AuthorityTypes, TaskCapType
  <2>2. CASE Exists(taskcaps[i].task) /\ taskcaps[i].task[1] = s
    BY <1>2, <2>2, Zenon DEF Exists, Leaving
  <2>3. CASE Exists(taskcaps[i].task) /\ taskcaps[i].task[1] # s
    BY <1>1, <1>3, <2>1, <2>3 DEF Exists, LiveId, Ids
  <2>4. CASE \E t \in TaskSlots : Leaving(at[t]) /\ at[t].id = taskcaps[i].task
    BY <1>1, <1>2, <2>4 DEF Leaving, Free
  <2>5. QED BY <1>4, <2>2, <2>3, <2>4, Zenon DEF TaskCapsCurrent, Leaving
<1>5. QED BY <1>1, <1>4, Zenon DEF TaskCapsCurrent, Leaving

LEMMA RevokeTaskCurrent ==
    ASSUME AuthInv, TaskCapsCurrent, NEW s \in TaskSlots, RevokeTask(s) PROVE TaskCapsCurrent'
<1>1. /\ taskcaps' = Revoked(at[s].id) /\ Continue(s, Free) /\ UNCHANGED <<mode, tcb>>
      /\ at[s].do = "revoke"
  BY Zenon DEF RevokeTask, In
<1>2. \A t \in TaskSlots \ {s} : at'[t] = at[t]
  BY <1>1, Zenon DEF Continue, AuthInv, AuthorityTypes, AtTyped
<1>3. \A i \in TaskCaps : taskcaps'[i].live =>
        taskcaps'[i] = taskcaps[i] /\ taskcaps[i].task # at[s].id
  BY <1>1, Zenon DEF Revoked, AuthInv, AuthorityTypes, TaskCapType
<1>4. QED BY <1>1, <1>2, <1>3 DEF TaskCapsCurrent, Exists, LiveId

LEMMA MintCurrent ==
    ASSUME AuthInv, OneInside, TaskCapsCurrent, NEW s \in TaskSlots, Mint(s)
    PROVE  TaskCapsCurrent'
<1>1. at[s].do = "mint" /\ UNCHANGED <<mode, tcb>>
  BY Zenon DEF Mint, In
<1>2. \A t \in TaskSlots \ {s} : at'[t] = at[t]
  BY Zenon DEF Mint, Continue, AuthInv, AuthorityTypes, AtTyped
<1>3. \A i \in TaskCaps : taskcaps'[i] = taskcaps[i] \/ taskcaps'[i].task = at[s].id
  <2>1. taskcaps \in [TaskCaps -> TaskCapType]
    BY Zenon DEF AuthInv, AuthorityTypes
  <2>2. CASE UNCHANGED taskcaps
    BY <2>2, Zenon
  <2>3. CASE \E i \in TaskCaps : taskcaps' = [taskcaps EXCEPT ![i] =
               [live |-> TRUE, generation |-> NextGen(@.generation), task |-> at[s].id]]
    BY <2>1, <2>3
  <2>4. QED BY <2>2, <2>3, Zenon DEF Mint
<1>4. mode.inside = 1 => Exists(at[s].id)
  BY <1>1, Zenon DEF OneInside
<1>5. ASSUME mode.inside = 1, NEW i \in TaskCaps, taskcaps'[i].live
      PROVE  \/ Exists(taskcaps'[i].task)
             \/ \E t \in TaskSlots : Leaving(at'[t]) /\ at'[t].id = taskcaps'[i].task
  BY <1>1, <1>2, <1>3, <1>4, <1>5 DEF TaskCapsCurrent, Leaving
<1>6. QED BY <1>1, <1>5, Zenon DEF TaskCapsCurrent, Leaving, Exists, LiveId

LEMMA CurrentStep ==
    AuthInv /\ OneInside /\ TaskCapsCurrent /\ [AuthorityNext]_authorityVars => TaskCapsCurrent'
<1> SUFFICES ASSUME AuthInv, OneInside, TaskCapsCurrent, [AuthorityNext]_authorityVars
             PROVE  TaskCapsCurrent'
  BY Zenon
<1>0. AtTyped /\ tcb \in [TaskSlots -> TcbType]
  BY Zenon DEF AuthInv, AuthorityTypes
<1>1. CASE UNCHANGED authorityVars
  BY <1>1, CurrentKeep, Zenon DEF authorityVars, slotVars
<1>2. CASE BootStep
  <2>1. /\ UNCHANGED <<mode, taskcaps>> /\ at[0] = Free
        /\ \A t \in TaskSlots \ {0} : at'[t] = at[t]
    <3>1. ASSUME NEW slot, PickTask(slot)
          PROVE  /\ UNCHANGED <<mode, taskcaps>> /\ at[0] = Free
                 /\ \A t \in TaskSlots \ {0} : at'[t] = at[t]
      BY <1>0, <3>1, Zenon DEF PickTask, Idle, Continue, AtTyped
    <3>2. QED BY <1>2, <3>1, Zenon DEF BootStep, Create, Revoke, Bind, Unbind, GrantResolve,
                 slotVars, Idle
  <2>2. \A t \in TaskSlots : tcb[t].live => tcb'[t].live /\ tcb'[t].epoch = tcb[t].epoch
    <3>1. ASSUME NEW s \in TaskSlots, NEW e, GrantResolve(<<s, e>>)
          PROVE  \A t \in TaskSlots : tcb[t].live => tcb'[t].live /\ tcb'[t].epoch = tcb[t].epoch
      <4>1. tcb' = [tcb EXCEPT ![s].may_resolve = TRUE]
        BY <3>1, Zenon DEF GrantResolve
      <4>2. QED BY <1>0, <4>1, Zenon DEF TcbType
    <3>2. (\E s \in TaskSlots, e \in 0 .. MaxSpawns - 1 : GrantResolve(<<s, e>>)) \/ tcb' = tcb
      BY <1>2, Zenon DEF BootStep, Create, Revoke, PickTask, Bind, Unbind, slotVars
    <3>3. QED BY <3>1, <3>2, Zenon
  <2>3. QED BY <2>1, <2>2, CurrentKeep DEF Leaving, Free
<1>3. ASSUME NEW s \in TaskSlots, SlotStep(s) PROVE TaskCapsCurrent'
  <2>1. mode' = mode /\ \A t \in TaskSlots \ {s} : at'[t] = at[t]
    BY <1>3, SlotAt, Zenon
  <2>2. ASSUME ~Leaving(at[s]), UNCHANGED taskcaps,
               \A t \in TaskSlots : tcb[t].live => tcb'[t].live /\ tcb'[t].epoch = tcb[t].epoch
        PROVE  TaskCapsCurrent'
    BY <2>1, <2>2, CurrentKeep, Zenon
  <2>3. ASSUME NEW row, SpawnWithSlots(s, row) PROVE TaskCapsCurrent'
    <3>1. \A t \in TaskSlots : tcb[t].live => tcb'[t].live /\ tcb'[t].epoch = tcb[t].epoch
      BY <1>0, <2>3, Zenon DEF SpawnWithSlots, FreeSlot
    <3>2. QED BY <2>2, <2>3, <3>1 DEF SpawnWithSlots, Idle, Leaving, Free
  <2>4. CASE Register(s) \/ Lookup(s) \/ InstallCap(s) \/ Move(s)
    BY <2>2, <2>4, Zenon DEF Register, Lookup, InstallCap, Move, In, Leaving
  <2>5. CASE Release(s)
    <3>1. /\ UNCHANGED <<mode, taskcaps, tcb>>
          /\ Continue(s, [do |-> "revoke", id |-> at[s].id])
      BY <2>5, Zenon DEF Release
    <3>2. Leaving(at'[s]) /\ at'[s].id = at[s].id
      BY <1>0, <3>1, Zenon DEF Leaving, Continue, AtTyped
    <3>3. QED BY <2>1, <3>1, <3>2, CurrentKeep, Zenon
  <2>6. ASSUME NEW slot, NEW name, Resolve(s, slot, name) PROVE TaskCapsCurrent'
    BY <2>2, <2>6 DEF Resolve, Idle, Leaving, Free
  <2>7. ASSUME NEW from, NEW to, ToSelf(s, from, to) \/ ToCreator(s, from, to)
        PROVE  TaskCapsCurrent'
    BY <2>2, <2>7 DEF ToSelf, ToCreator, Idle, Leaving, Free
  <2>8. ASSUME NEW from, NEW to, NEW slot, ToPeer(s, from, to, slot) PROVE TaskCapsCurrent'
    BY <2>2, <2>8 DEF ToPeer, Idle, Leaving, Free
  <2>9. QED BY <1>3, <2>3, <2>4, <2>5, <2>6, <2>7, <2>8, ExitCurrent, RevokeTaskCurrent,
               MintCurrent, Zenon DEF SlotStep
<1>4. QED BY <1>1, <1>2, <1>3, Zenon DEF AuthorityNext

-----------------------------------------------------------------------------
(* The holder counts *)

\* A slot that holds a SEND end of b.
SendOf(cap, b) == Resolves(cap, "SEND") /\ BoxOf(cap) = b

Registering(a) == a.do \in {"register", "release"}

LEMMA NoCapSends == \A b : ~SendOf(NoCap, b)
BY CapFacts, Zenon DEF SendOf, Resolves, Names

LEMMA SetsFinite ==
    /\ \A b : /\ IsFiniteSet(SendSlots(b)) /\ Cardinality(SendSlots(b)) \in Nat
              /\ Cardinality(SendSlots(b)) <= HoldersMax
    /\ \A do, b : IsFiniteSet(OnTheWay(do, b)) /\ Cardinality(OnTheWay(do, b)) \in Nat
<1>1. ASSUME NEW T \in SUBSET (TaskSlots \X CapSlots)
      PROVE  /\ IsFiniteSet(T) /\ Cardinality(T) \in Nat
             /\ Cardinality(T) <= TaskCount * SlotCount
  BY Finite, FS_Subset, FS_CardinalityType, Zenon
<1>2. ASSUME NEW b
      PROVE  /\ IsFiniteSet(SendSlots(b)) /\ Cardinality(SendSlots(b)) \in Nat
             /\ Cardinality(SendSlots(b)) <= HoldersMax
  <2>1. SendSlots(b) \in SUBSET (TaskSlots \X CapSlots)
    BY Zenon DEF SendSlots
  <2>2. TaskCount * SlotCount <= HoldersMax /\ TaskCount * SlotCount \in Nat /\ HoldersMax \in Nat
    BY AuthorityAssumption, SizeAssumption, Counts
  <2>3. QED BY <1>1, <2>1, <2>2
<1>3. ASSUME NEW do, NEW b
      PROVE  IsFiniteSet(OnTheWay(do, b)) /\ Cardinality(OnTheWay(do, b)) \in Nat
  BY <1>1, Zenon DEF OnTheWay
<1>4. QED BY <1>2, <1>3, Zenon

\* Nobody registers or releases.
LEMMA NoneOnTheWay ==
    (\A t \in TaskSlots : ~Registering(at[t]))
        => \A b : OnTheWay("register", b) = {} /\ OnTheWay("release", b) = {}
BY Zenon DEF OnTheWay, Registering

\* One task does: its ends are those of the slice it passes to the table.
LEMMA RowCount ==
    ASSUME NEW s \in TaskSlots, NEW b, NEW do, at[s].do = do,
           \A t \in TaskSlots \ {s} : at[t].do # do
    PROVE  SendEnds(Slice(at[s].row), b) = Cardinality(OnTheWay(do, b))
<1>1. PICK row : row = at[s].row
  BY Zenon
<1>2. Slice(row) = [i \in 1 .. SlotCount |-> row[i - 1]]
  BY Zenon DEF Slice
<1> DEFINE A == {i \in 1 .. SlotCount : SendOf(row[i - 1], b)}
           B == OnTheWay(do, b)
           f == [x \in B |-> x[2] + 1]
<1>3. SendEnds(Slice(row), b) = Cardinality(A)
  <2>1. {i \in DOMAIN Slice(row) : Resolves(Slice(row)[i], "SEND") /\ BoxOf(Slice(row)[i]) = b} = A
    BY <1>2, Zenon DEF SendOf
  <2>2. QED BY <2>1, Zenon DEF SendEnds
<1>4. B = {p \in TaskSlots \X CapSlots : p[1] = s /\ SendOf(row[p[2]], b)}
  BY <1>1, Zenon DEF OnTheWay, SendOf
<1>5. f \in [B -> A]
  <2>1. ASSUME NEW p \in B PROVE p[2] + 1 \in A
    <3>1. p[2] \in CapSlots /\ SendOf(row[p[2]], b)
      BY <1>4, <2>1, Zenon
    <3>2. p[2] + 1 \in 1 .. SlotCount /\ (p[2] + 1) - 1 = p[2]
      BY <3>1, Counts DEF CapSlots
    <3>3. PICK k : k = p[2] + 1
      BY Zenon
    <3>4. k \in 1 .. SlotCount /\ SendOf(row[k - 1], b)
      BY <3>1, <3>2, <3>3, Zenon
    <3>5. QED BY <3>3, <3>4, Zenon
  <2>2. QED BY <2>1, Zenon
<1>6. \A x, y \in B : f[x] = f[y] => x = y
  <2>1. ASSUME NEW x \in B, NEW y \in B, f[x] = f[y] PROVE x = y
    <3>1. x \in TaskSlots \X CapSlots /\ y \in TaskSlots \X CapSlots /\ x[1] = s /\ y[1] = s
      BY <1>4, Zenon
    <3>2. x[2] + 1 = y[2] + 1 /\ x[2] \in Int /\ y[2] \in Int
      BY <2>1, <3>1 DEF CapSlots
    <3>3. x[2] = y[2]
      BY <3>2
    <3>4. QED BY <3>1, <3>3
  <2>2. QED BY <2>1, Zenon
<1>7. \A i \in A : \E x \in B : f[x] = i
  <2>1. ASSUME NEW i \in A PROVE \E x \in B : f[x] = i
    <3>1. i \in 1 .. SlotCount /\ SendOf(row[i - 1], b)
      BY Zenon
    <3>2. i - 1 \in CapSlots /\ (i - 1) + 1 = i
      BY <3>1, Counts DEF CapSlots
    <3>3. <<s, i - 1>> \in B
      BY <1>4, <3>1, <3>2, Zenon
    <3>4. QED BY <3>2, <3>3, Zenon
  <2>2. QED BY <2>1, Zenon
<1> HIDE DEF f
<1>8. ExistsBijection(B, A)
  BY <1>5, <1>6, <1>7 DEF ExistsBijection, Bijection, Injection, Surjection, IsInjective
<1>9. QED BY <1>1, <1>3, <1>8, SetsFinite, FS_Bijection, Zenon

\* The ledger after a step that touches neither the ends in the rows nor those
\* on the way.
LEMMA HoldsSame ==
    ASSUME HoldsExact, UNCHANGED <<endpoints, mailboxes, rows>>,
           \A t \in TaskSlots : Registering(at[t]) \/ Registering(at'[t]) => at'[t] = at[t]
    PROVE  HoldsExact'
<1>1. \A b : SendSlots(b)' = SendSlots(b)
  BY Zenon DEF SendSlots, Resolves, Names, BoxOf
<1>2. \A b : OnTheWay("register", b)' = OnTheWay("register", b)
  BY DEF OnTheWay, Resolves, Names, BoxOf, Registering
<1>3. \A b : OnTheWay("release", b)' = OnTheWay("release", b)
  BY DEF OnTheWay, Resolves, Names, BoxOf, Registering
<1>4. QED BY <1>1, <1>2, <1>3, Zenon DEF HoldsExact

\* A capability is placed in an empty slot, by spawn or by install: it counts
\* in the row and on the way.
LEMMA PlaceHolds ==
    ASSUME HoldsExact, IpcInv, NEW s \in TaskSlots, NEW t \in TaskSlots, NEW slot \in CapSlots,
           NEW cap \in CapType, rows[t][slot] = NoCap, rows'[t][slot] = cap,
           \A u \in TaskSlots, i \in CapSlots : ~(u = t /\ i = slot) => rows'[u][i] = rows[u][i],
           UNCHANGED <<endpoints, mailboxes>>, \A u \in TaskSlots : ~Registering(at[u]),
           at'[s] = [do |-> "register", row |-> RowWith(slot, cap)],
           \A u \in TaskSlots \ {s} : at'[u] = at[u]
    PROVE  HoldsExact'
<1> SUFFICES ASSUME NEW b \in Boxes, mailboxes[b].live
             PROVE  mailboxes[b].send_holders + Cardinality(OnTheWay("register", b)')
                        = Cardinality(SendSlots(b)') + Cardinality(OnTheWay("release", b)')
  BY Zenon DEF HoldsExact
<1>1. OnTheWay("register", b) = {} /\ OnTheWay("release", b) = {}
  BY NoneOnTheWay, Zenon
<1>2. /\ Cardinality({}) = 0 /\ mailboxes[b].send_holders \in Nat
      /\ IsFiniteSet(SendSlots(b)) /\ Cardinality(SendSlots(b)) \in Nat
  BY SetsFinite, FS_EmptySet, SizeAssumption DEF IpcInv, BoxType
<1>3. mailboxes[b].send_holders = Cardinality(SendSlots(b))
  <2>1. mailboxes[b].send_holders + Cardinality(OnTheWay("register", b))
            = Cardinality(SendSlots(b)) + Cardinality(OnTheWay("release", b))
    BY Zenon DEF HoldsExact
  <2>2. mailboxes[b].send_holders + 0 = Cardinality(SendSlots(b)) + 0
    BY <1>1, <1>2, <2>1, Zenon
  <2>3. QED BY <1>2, <2>2
<1>4. \A c : SendOf(c, b)' = SendOf(c, b)
  BY Zenon DEF SendOf, Resolves, Names, BoxOf
<1>5. SendSlots(b)' = {p \in TaskSlots \X CapSlots : SendOf(rows'[p[1]][p[2]], b)}
  BY <1>4, Zenon DEF SendSlots, SendOf, Resolves, Names, BoxOf
<1>6. SendSlots(b) = {p \in TaskSlots \X CapSlots : SendOf(rows[p[1]][p[2]], b)}
  BY Zenon DEF SendSlots, SendOf
<1>7. OnTheWay("release", b)' = {}
  BY DEF OnTheWay, Registering
<1>8. OnTheWay("register", b)' =
        {p \in TaskSlots \X CapSlots : p[1] = s /\ SendOf(RowWith(slot, cap)[p[2]], b)}
  <2>1. at'[s].do = "register" /\ at'[s].row = RowWith(slot, cap)
    OBVIOUS
  <2>2. \A u \in TaskSlots \ {s} : at'[u].do # "register"
    BY Zenon DEF Registering
  <2>3. OnTheWay("register", b)' =
            {p \in TaskSlots \X CapSlots :
                at'[p[1]].do = "register" /\ SendOf(at'[p[1]].row[p[2]], b)}
    BY <1>4, Zenon DEF OnTheWay, SendOf, Resolves, Names, BoxOf
  <2>4. QED BY <2>1, <2>2, <2>3
<1>9. /\ RowWith(slot, cap)[slot] = cap
      /\ \A j \in CapSlots \ {slot} : ~SendOf(RowWith(slot, cap)[j], b)
  BY CapFacts, NoCapSends
<1>10. CASE SendOf(cap, b)
  <2>1. OnTheWay("register", b)' = {<<s, slot>>}
    BY <1>8, <1>9, <1>10
  <2>2. SendSlots(b)' = SendSlots(b) \cup {<<t, slot>>} /\ <<t, slot>> \notin SendSlots(b)
    BY <1>5, <1>6, <1>10, NoCapSends
  <2>3. Cardinality(SendSlots(b)') = Cardinality(SendSlots(b)) + 1
    BY <1>2, <2>2, FS_AddElement
  <2>4. Cardinality({<<s, slot>>}) = 1
    BY FS_Singleton, Zenon
  <2>5. Cardinality(OnTheWay("register", b)') = 1 /\ Cardinality(OnTheWay("release", b)') = 0
    BY <1>2, <1>7, <2>1, <2>4, Zenon
  <2>6. QED BY <1>2, <1>3, <2>3, <2>5
<1>11. CASE ~SendOf(cap, b)
  <2>1. OnTheWay("register", b)' = {}
    BY <1>8, <1>9, <1>11, Zenon
  <2>2. SendSlots(b)' = SendSlots(b)
    BY <1>5, <1>6, <1>11, NoCapSends
  <2>3. QED BY <1>2, <1>3, <1>7, <2>1, <2>2, Zenon
<1>12. QED BY <1>10, <1>11, Zenon

\* The ledger when nobody registers or releases.
LEMMA HoldsAtRest ==
    ASSUME HoldsExact, IpcInv, \A t \in TaskSlots : ~Registering(at[t]),
           NEW b \in Boxes, mailboxes[b].live
    PROVE  mailboxes[b].send_holders = Cardinality(SendSlots(b))
<1>1. Cardinality(OnTheWay("register", b)) = 0 /\ Cardinality(OnTheWay("release", b)) = 0
  BY NoneOnTheWay, FS_EmptySet, Zenon
<1>2. mailboxes[b].send_holders \in Nat /\ Cardinality(SendSlots(b)) \in Nat
  BY SetsFinite, SizeAssumption DEF IpcInv, BoxType
<1>3. QED BY <1>1, <1>2 DEF HoldsExact

\* The same, the other way round.
LEMMA RestHolds ==
    ASSUME \A t \in TaskSlots : ~Registering(at'[t]),
           \A b \in Boxes : mailboxes'[b].live =>
                /\ mailboxes'[b].send_holders = Cardinality(SendSlots(b)')
                /\ Cardinality(SendSlots(b)') \in Nat
    PROVE  HoldsExact'
<1>1. \A b : OnTheWay("register", b)' = {} /\ OnTheWay("release", b)' = {}
  BY Zenon DEF OnTheWay, Registering
<1>2. QED BY <1>1, FS_EmptySet, Zenon DEF HoldsExact

\* register_holds: the ends on the way are counted, and the count is one of
\* slots, so it does not saturate.
LEMMA RegisterHoldsExact ==
    ASSUME AuthInv, HoldsExact, NEW s \in TaskSlots, Register(s),
           \A t \in TaskSlots \ {s} : at[t] = Free
    PROVE  HoldsExact'
<1>1. /\ at[s].do = "register" /\ RegisterHolds(Slice(at[s].row)) /\ Continue(s, Free)
      /\ UNCHANGED <<endpoints, rows>> /\ IpcInv
  BY Zenon DEF Register, In, RegisterHolds, AuthInv
<1>2. \A t \in TaskSlots : at'[t] = Free
  BY <1>1, Zenon DEF Continue, AuthInv, AuthorityTypes, AtTyped
<1>3. \A b : SendSlots(b)' = SendSlots(b)
  BY <1>1, Zenon DEF SendSlots, Resolves, Names, BoxOf
<1>4. ASSUME NEW b \in Boxes, mailboxes'[b].live
      PROVE  mailboxes'[b].send_holders = Cardinality(SendSlots(b))
  <2>1. PICK n : n = SendEnds(Slice(at[s].row), b)
    BY Zenon
  <2>2. n = Cardinality(OnTheWay("register", b)) /\ n \in Nat
    BY <1>1, <2>1, RowCount, SetsFinite DEF Free
  <2>3. mailboxes[b] \in BoxType
    BY <1>1, Zenon DEF IpcInv
  <2>4. mailboxes'[b] = [mailboxes[b] EXCEPT !.send_holders =
            IF mailboxes[b].send_holders + n > HoldersMax
            THEN HoldersMax ELSE mailboxes[b].send_holders + n]
    BY <1>1, <2>1, Zenon DEF RegisterHolds
  <2>5. mailboxes[b].live /\ mailboxes[b].send_holders \in Nat
    BY <1>4, <2>3, <2>4, SizeAssumption DEF BoxType
  <2>6. OnTheWay("release", b) = {}
    BY <1>1 DEF OnTheWay, Free
  <2>7. mailboxes[b].send_holders + n = Cardinality(SendSlots(b)) + 0
    BY <2>2, <2>5, <2>6, FS_EmptySet, Zenon DEF HoldsExact
  <2>8. Cardinality(SendSlots(b)) \in Nat /\ Cardinality(SendSlots(b)) <= HoldersMax
    BY SetsFinite, Zenon
  <2>9. mailboxes'[b].send_holders =
            IF mailboxes[b].send_holders + n > HoldersMax
            THEN HoldersMax ELSE mailboxes[b].send_holders + n
    BY <2>3, <2>4, Zenon DEF BoxType
  <2>10. QED BY <2>2, <2>5, <2>7, <2>8, <2>9, SizeAssumption
<1>5. QED BY <1>2, <1>3, <1>4, SetsFinite, RestHolds DEF Registering, Free

\* release_holds: the ends on the way are taken off, and there are as many.
LEMMA ReleaseHoldsExact ==
    ASSUME AuthInv, HoldsExact, NEW s \in TaskSlots, Release(s),
           \A t \in TaskSlots \ {s} : at[t] = Free
    PROVE  HoldsExact'
<1>1. /\ at[s].do = "release" /\ ReleaseHolds(Slice(at[s].row))
      /\ Continue(s, [do |-> "revoke", id |-> at[s].id])
      /\ UNCHANGED <<endpoints, rows>> /\ IpcInv
  BY Zenon DEF Release, In, ReleaseHolds, AuthInv
<1>2. \A t \in TaskSlots : ~Registering(at'[t])
  BY <1>1 DEF Continue, AuthInv, AuthorityTypes, AtTyped, Registering, Free
<1>3. \A b : SendSlots(b)' = SendSlots(b)
  BY <1>1, Zenon DEF SendSlots, Resolves, Names, BoxOf
<1>4. ASSUME NEW b \in Boxes, mailboxes'[b].live
      PROVE  mailboxes'[b].send_holders = Cardinality(SendSlots(b))
  <2>1. PICK n : n = SendEnds(Slice(at[s].row), b)
    BY Zenon
  <2>2. n = Cardinality(OnTheWay("release", b)) /\ n \in Nat
    BY <1>1, <2>1, RowCount, SetsFinite DEF Free
  <2>3. mailboxes[b] \in BoxType
    BY <1>1, Zenon DEF IpcInv
  <2>4. PICK w : mailboxes'[b] = [mailboxes[b] EXCEPT
            !.send_holders = IF mailboxes[b].send_holders - n < 0
                             THEN 0 ELSE mailboxes[b].send_holders - n,
            !.waiter = w]
    BY <1>1, <2>1, Zenon DEF ReleaseHolds
  <2>5. /\ mailboxes[b].live /\ mailboxes[b].send_holders \in Nat
        /\ mailboxes'[b].send_holders = IF mailboxes[b].send_holders - n < 0
                                        THEN 0 ELSE mailboxes[b].send_holders - n
    BY <1>4, <2>3, <2>4, SizeAssumption DEF BoxType
  <2>6. OnTheWay("register", b) = {}
    BY <1>1 DEF OnTheWay, Free
  <2>7. mailboxes[b].send_holders + 0 = Cardinality(SendSlots(b)) + n
    BY <2>2, <2>5, <2>6, FS_EmptySet, Zenon DEF HoldsExact
  <2>8. Cardinality(SendSlots(b)) \in Nat
    BY SetsFinite, Zenon
  <2>9. QED BY <2>2, <2>5, <2>7, <2>8
<1>5. QED BY <1>2, <1>3, <1>4, SetsFinite, RestHolds, Zenon

\* exit: the ends of the row go from the row to the way.
LEMMA ExitHolds ==
    ASSUME AuthInv, HoldsExact, NEW s \in TaskSlots, Exit(s),
           \A t \in TaskSlots : at[t] = Free
    PROVE  HoldsExact'
<1>1. /\ rows' = [rows EXCEPT ![s] = EmptyRow] /\ UNCHANGED <<endpoints, mailboxes>>
      /\ Continue(s, [do |-> "release", row |-> rows[s], id |-> LiveId(s)])
      /\ rows \in [TaskSlots -> RowType] /\ IpcInv
  BY Zenon DEF Exit, Drained, ipcVars, AuthInv, AuthorityTypes
<1>2. /\ at'[s].do = "release" /\ at'[s].row = rows[s]
      /\ \A t \in TaskSlots \ {s} : at'[t] = Free
  BY <1>1, Zenon DEF Continue, AuthInv, AuthorityTypes, AtTyped
<1>3. /\ \A i \in CapSlots : rows'[s][i] = NoCap
      /\ \A t \in TaskSlots \ {s} : rows'[t] = rows[t]
  BY <1>1, Zenon DEF EmptyRow
<1>4. ASSUME NEW b \in Boxes, mailboxes[b].live
      PROVE  mailboxes[b].send_holders + Cardinality(OnTheWay("register", b)')
                 = Cardinality(SendSlots(b)') + Cardinality(OnTheWay("release", b)')
  <2>1. \A c : SendOf(c, b)' = SendOf(c, b)
    BY <1>1, Zenon DEF SendOf, Resolves, Names, BoxOf
  <2>2. SendSlots(b)' = {p \in TaskSlots \X CapSlots : SendOf(rows'[p[1]][p[2]], b)}
    BY <1>1, Zenon DEF SendSlots, SendOf, Resolves, Names, BoxOf
  <2>3. SendSlots(b) = {p \in TaskSlots \X CapSlots : SendOf(rows[p[1]][p[2]], b)}
    BY Zenon DEF SendSlots, SendOf
  <2>4. OnTheWay("release", b)' =
            {p \in TaskSlots \X CapSlots :
                at'[p[1]].do = "release" /\ SendOf(at'[p[1]].row[p[2]], b)}
    BY <1>1, Zenon DEF OnTheWay, SendOf, Resolves, Names, BoxOf
  <2>5. OnTheWay("register", b)' = {}
    BY <1>2 DEF OnTheWay, Free
  <2>6. PICK gone : gone = {p \in SendSlots(b) : p[1] = s}
    BY Zenon
  <2>7. OnTheWay("release", b)' = gone
    <3>1. ASSUME NEW p \in TaskSlots \X CapSlots
          PROVE  at'[p[1]].do = "release" /\ SendOf(at'[p[1]].row[p[2]], b)
                     <=> p[1] = s /\ SendOf(rows[p[1]][p[2]], b)
      <4>1. CASE p[1] = s
        BY <1>2, <4>1, Zenon
      <4>2. CASE p[1] # s
        BY <1>2, <4>2 DEF Free
      <4>3. QED BY <4>1, <4>2, Zenon
    <3>2. QED BY <2>3, <2>4, <2>6, <3>1, Zenon
  <2>8. SendSlots(b)' = SendSlots(b) \ gone
    BY <1>3, <2>2, <2>3, <2>6, NoCapSends
  <2>9. gone \in SUBSET SendSlots(b) /\ IsFiniteSet(SendSlots(b))
    BY <2>6, SetsFinite, Zenon
  <2>10. PICK kept : kept = SendSlots(b) \ gone
    BY Zenon
  <2>11. IsFiniteSet(gone) /\ IsFiniteSet(kept)
    BY <2>9, <2>10, FS_Subset, Zenon
  <2>12. SendSlots(b) = kept \cup gone /\ kept \cap gone = {}
    BY <2>9, <2>10, Zenon
  <2>13. Cardinality(SendSlots(b)) = Cardinality(kept) + Cardinality(gone) - 0
    BY <2>11, <2>12, FS_Union, FS_EmptySet
  <2>14. mailboxes[b].send_holders = Cardinality(SendSlots(b))
    BY <1>1, <1>4, HoldsAtRest DEF Registering, Free
  <2>15. Cardinality(kept) \in Nat /\ Cardinality(gone) \in Nat
    BY <2>11, FS_CardinalityType, Zenon
  <2>16. Cardinality(OnTheWay("register", b)') = 0
    BY <2>5, FS_EmptySet, Zenon
  <2>17. QED BY <2>7, <2>8, <2>10, <2>13, <2>14, <2>15, <2>16
<1>5. QED BY <1>1, <1>4, Zenon DEF HoldsExact

\* transfer_held: one slot for another.
LEMMA TransferHolds ==
    ASSUME AuthInv, HoldsExact, NEW s \in TaskSlots, NEW from \in CapSlots,
           NEW to \in CapSlots, NEW id \in Ids, TransferHeld(s, from, id, to),
           UNCHANGED <<endpoints, mailboxes>>,
           \A u \in TaskSlots : ~Registering(at[u]) /\ ~Registering(at'[u])
    PROVE  HoldsExact'
<1>1. CASE UNCHANGED rows
  BY <1>1, HoldsSame, Zenon
<1>2. CASE ~UNCHANGED rows
  <2>1. PICK t \in TaskSlots : t = id[1]
    BY Zenon DEF Ids
  <2>2. /\ rows \in [TaskSlots -> RowType] /\ IpcInv
        /\ rows' = Moved(s, from, t, to) /\ ~(t = s /\ from = to) /\ rows[t][to] = NoCap
    BY <1>2, <2>1, Zenon DEF TransferHeld, AuthInv, AuthorityTypes
  <2>3. /\ rows'[s][from] = NoCap /\ rows'[t][to] = rows[s][from]
        /\ \A u \in TaskSlots, i \in CapSlots :
              ~(u = s /\ i = from) /\ ~(u = t /\ i = to) => rows'[u][i] = rows[u][i]
    BY <2>2, MovedReads
  <2>4. ASSUME NEW b \in Boxes, mailboxes[b].live
        PROVE  Cardinality(SendSlots(b)') = Cardinality(SendSlots(b))
    <3>1. SendSlots(b)' = {p \in TaskSlots \X CapSlots : SendOf(rows'[p[1]][p[2]], b)}
      BY Zenon DEF SendSlots, SendOf, Resolves, Names, BoxOf
    <3>2. SendSlots(b) = {p \in TaskSlots \X CapSlots : SendOf(rows[p[1]][p[2]], b)}
      BY Zenon DEF SendSlots, SendOf
    <3>3. ~SendOf(rows'[s][from], b) /\ ~SendOf(rows[t][to], b)
      BY <2>2, <2>3, NoCapSends, Zenon
    <3>4. CASE SendOf(rows[s][from], b)
      <4>1. PICK mid : mid = SendSlots(b) \ {<<s, from>>}
        BY Zenon
      <4>2. <<s, from>> \in SendSlots(b) /\ <<t, to>> \notin mid
        BY <3>2, <3>3, <3>4, <4>1, Zenon
      <4>3. SendSlots(b)' = mid \cup {<<t, to>>}
        <5>1. ASSUME NEW u \in TaskSlots, NEW i \in CapSlots
              PROVE  SendOf(rows'[u][i], b)
                         <=> \/ SendOf(rows[u][i], b) /\ ~(u = s /\ i = from)
                             \/ u = t /\ i = to
          <6>1. CASE u = s /\ i = from
            BY <2>2, <3>3, <6>1, Zenon
          <6>2. CASE u = t /\ i = to
            BY <2>3, <3>4, <6>2, Zenon
          <6>3. CASE ~(u = s /\ i = from) /\ ~(u = t /\ i = to)
            BY <2>3, <6>3, Zenon
          <6>4. QED BY <6>1, <6>2, <6>3, Zenon
        <5>2. ASSUME NEW p \in TaskSlots \X CapSlots
              PROVE  p \in SendSlots(b)' <=> p \in mid \/ p = <<t, to>>
          <6>1. PICK u \in TaskSlots, i \in CapSlots : p = <<u, i>>
            OBVIOUS
          <6>2. QED BY <3>1, <3>2, <4>1, <5>1, <6>1, Zenon
        <5>3. /\ SendSlots(b)' \subseteq TaskSlots \X CapSlots
              /\ mid \cup {<<t, to>>} \subseteq TaskSlots \X CapSlots
          BY <3>1, <3>2, <4>1
        <5>4. QED BY <5>2, <5>3, Zenon
      <4>4. IsFiniteSet(mid) /\ Cardinality(mid) = Cardinality(SendSlots(b)) - 1
        BY <4>1, <4>2, SetsFinite, FS_RemoveElement, Zenon
      <4>5. Cardinality(SendSlots(b)') = Cardinality(mid) + 1
        BY <4>2, <4>3, <4>4, FS_AddElement, Zenon
      <4>6. Cardinality(SendSlots(b)) \in Nat
        BY SetsFinite, Zenon
      <4>7. QED BY <4>4, <4>5, <4>6
    <3>5. CASE ~SendOf(rows[s][from], b)
      <4>1. SendSlots(b)' = SendSlots(b)
        BY <2>3, <3>1, <3>2, <3>3, <3>5
      <4>2. QED BY <4>1, Zenon
    <3>6. QED BY <3>4, <3>5, Zenon
  <2>5. QED BY <2>2, <2>4, HoldsAtRest, RestHolds, SetsFinite, Zenon
<1>3. QED BY <1>1, <1>2, Zenon

\* create_channel: no capability in a row is one of the new channel's.
LEMMA CreateHolds ==
    ASSUME AuthInv, CapsKnown, HoldsExact, Create, \A t \in TaskSlots : at[t] = Free
    PROVE  HoldsExact'
<1>1. /\ CreateChannel(FALSE) /\ UNCHANGED <<rows, at>> /\ IpcInv
      /\ endpoints \in [Ends -> EndType] /\ mailboxes \in [Boxes -> BoxType] /\ next_gen \in Nat
  <2>1. CreateChannel(FALSE) /\ UNCHANGED <<rows, at>> /\ IpcInv
    BY Zenon DEF Create, slotVars, AuthInv
  <2>2. /\ endpoints \in [Ends -> EndType] /\ mailboxes \in [Boxes -> BoxType]
        /\ next_gen \in Gens
    BY <2>1, Zenon DEF IpcInv
  <2>3. next_gen \in Nat
    BY <2>2, SizeAssumption DEF Gens
  <2>4. QED BY <2>1, <2>2, <2>3, Zenon
<1>2. CASE UNCHANGED <<endpoints, mailboxes>>
  BY <1>1, <1>2, HoldsSame, Zenon
<1>3. CASE \E b \in Boxes, s, r \in Ends :
             /\ FirstDeadBox(b) /\ FirstDeadEnd(s, {}) /\ FirstDeadEnd(r, {s})
             /\ OpenChannel(b, s, r, FALSE)
  <2>1. PICK b \in Boxes, s \in Ends, r \in Ends :
             /\ FirstDeadBox(b) /\ FirstDeadEnd(s, {}) /\ FirstDeadEnd(r, {s})
             /\ OpenChannel(b, s, r, FALSE)
    BY <1>3, Zenon
  <2>2. /\ ~mailboxes[b].live /\ ~endpoints[s].live /\ ~endpoints[r].live
    BY <2>1, Zenon DEF FirstDeadBox, FirstDeadEnd
  <2>3. /\ endpoints'[s].generation = next_gen /\ endpoints'[r].generation = next_gen
        /\ \A e \in Ends \ {s, r} : endpoints'[e] = endpoints[e]
    BY <1>1, <2>1, Zenon DEF OpenChannel
  <2>4. /\ mailboxes'[b].send_holders = 0
        /\ \A c \in Boxes \ {b} : mailboxes'[c] = mailboxes[c]
    BY <1>1, <2>1, Zenon DEF OpenChannel, EmptyBox
  <2>5. ASSUME NEW cap, Known(cap), cap.index \in Ends => cap.generation \in Nat, NEW c \in Boxes
        PROVE  SendOf(cap, c)' <=> SendOf(cap, c)
    <3>1. CASE cap.index \in {s, r}
      <4>1. ~SendOf(cap, c)
        BY <2>2, <3>1, Zenon DEF SendOf, Resolves, Names
      <4>2. endpoints'[cap.index].generation # cap.generation
        BY <1>1, <2>3, <2>5, <3>1 DEF Known
      <4>3. ~SendOf(cap, c)'
        BY <4>2, Zenon DEF SendOf, Resolves, Names
      <4>4. QED BY <4>1, <4>3, Zenon
    <3>2. CASE cap.index \notin {s, r}
      BY <2>3, <3>2, Zenon DEF SendOf, Resolves, Names, BoxOf
    <3>3. QED BY <3>1, <3>2, Zenon
  <2>6. \A u \in TaskSlots, i \in CapSlots :
            /\ Known(rows[u][i])
            /\ rows[u][i].index \in Ends => rows[u][i].generation \in Nat
    BY CapFacts DEF CapsKnown, AuthInv, AuthorityTypes, RowType, CapType
  <2>7. ASSUME NEW c \in Boxes PROVE SendSlots(c)' = SendSlots(c)
    <3>1. \A u \in TaskSlots, i \in CapSlots : SendOf(rows[u][i], c)' <=> SendOf(rows[u][i], c)
      <4>1. ASSUME NEW u \in TaskSlots, NEW i \in CapSlots
            PROVE  SendOf(rows[u][i], c)' <=> SendOf(rows[u][i], c)
        <5>1. PICK cap : cap = rows[u][i]
          BY Zenon
        <5>2. SendOf(cap, c)' <=> SendOf(cap, c)
          BY <2>5, <2>6, <5>1, Zenon
        <5>3. rows'[u][i] = cap
          BY <1>1, <5>1, Zenon
        <5>4. QED BY <5>1, <5>2, <5>3, Zenon DEF SendOf, Resolves, Names, BoxOf
      <4>2. QED BY <4>1, Zenon
    <3>2. SendSlots(c)' = {p \in TaskSlots \X CapSlots : SendOf(rows[p[1]][p[2]], c)'}
      BY Zenon DEF SendSlots, SendOf
    <3>3. SendSlots(c) = {p \in TaskSlots \X CapSlots : SendOf(rows[p[1]][p[2]], c)}
      BY Zenon DEF SendSlots, SendOf
    <3>4. QED BY <3>1, <3>2, <3>3, Zenon
  <2>8. SendSlots(b) = {}
    <3>1. \A e \in Ends : ~(endpoints[e].live /\ endpoints[e].mailbox = b)
      BY <1>1, <2>2, Zenon DEF IpcInv, EndsPaired
    <3>2. QED BY <3>1, Zenon DEF SendSlots, Resolves, Names, BoxOf
  <2>9. ASSUME NEW c \in Boxes, mailboxes'[c].live
        PROVE  mailboxes'[c].send_holders = Cardinality(SendSlots(c))
    <3>1. CASE c = b
      BY <2>4, <2>8, <3>1, FS_EmptySet, Zenon
    <3>2. CASE c # b
      BY <1>1, <2>4, <2>9, <3>2, HoldsAtRest DEF Registering, Free
    <3>3. QED BY <3>1, <3>2, Zenon
  <2>10. QED BY <1>1, <2>7, <2>9, SetsFinite, RestHolds DEF Registering, Free
<1>4. QED BY <1>1, <1>2, <1>3, Zenon DEF CreateChannel

\* revoke_channel: the ends of the other channels are what they were.
LEMMA RevokeHolds ==
    ASSUME AuthInv, HoldsExact, Revoke, \A t \in TaskSlots : at[t] = Free
    PROVE  HoldsExact'
<1>1. /\ UNCHANGED <<rows, at>> /\ IpcInv
      /\ endpoints \in [Ends -> EndType] /\ mailboxes \in [Boxes -> BoxType]
  BY Zenon DEF Revoke, slotVars, AuthInv, IpcInv
<1>2. PICK cap : RevokeChannel(cap)
  BY Zenon DEF Revoke
<1>3. CASE ~Names(cap)
  BY <1>1, <1>2, <1>3, HoldsSame, Zenon DEF RevokeChannel
<1>4. CASE Names(cap)
  <2>1. PICK d : d = BoxOf(cap)
    BY Zenon
  <2>2. d \in Boxes
    BY <1>1, <1>4, <2>1, Zenon DEF Names, BoxOf, EndType
  <2>3. /\ ~mailboxes'[d].live /\ \A c \in Boxes \ {d} : mailboxes'[c] = mailboxes[c]
    BY <1>1, <1>2, <1>4, <2>1, <2>2 DEF RevokeChannel, EmptyBox
  <2>4. \A e \in Ends : \/ endpoints'[e] = endpoints[e]
                        \/ endpoints[e].mailbox = d /\ ~endpoints'[e].live
    BY <1>1, <1>2, <1>4, <2>1 DEF RevokeChannel, Killed, EndType
  <2>5. ASSUME NEW c \in Boxes \ {d} PROVE SendSlots(c)' = SendSlots(c)
    BY <1>1, <2>4, Zenon DEF SendSlots, Resolves, Names, BoxOf
  <2>6. ASSUME NEW c \in Boxes, mailboxes'[c].live
        PROVE  /\ mailboxes'[c].send_holders = Cardinality(SendSlots(c)')
               /\ Cardinality(SendSlots(c)') \in Nat
    <3>1. c # d
      BY <2>3, <2>6, Zenon
    <3>2. mailboxes[c].live /\ mailboxes'[c] = mailboxes[c] /\ SendSlots(c)' = SendSlots(c)
      BY <2>3, <2>5, <2>6, <3>1, Zenon
    <3>3. QED BY <1>1, <3>2, HoldsAtRest, SetsFinite DEF Registering, Free
  <2>7. \A t \in TaskSlots : ~Registering(at'[t])
    BY <1>1 DEF Registering, Free
  <2>8. QED BY <2>6, <2>7, RestHolds, Zenon
<1>5. QED BY <1>3, <1>4, Zenon

\* Every other step leaves the rows and the table alone, and who registers or
\* releases.
LEMMA BootHolds ==
    ASSUME LedgerInv, BootStep, mode.inside = 1 PROVE HoldsExact'
<1>1. AuthInv /\ CapsKnown /\ HoldsExact
  BY Zenon DEF LedgerInv, LedgersExact, HoldsCounted
<1>2. Idle(0)
  BY Zenon DEF BootStep, Create, Revoke, PickTask, Bind, Unbind, GrantResolve
<1>3. \A t \in TaskSlots : at[t] = Free
  BY <1>1, <1>2, Quiet, Zenon
<1>4. CASE Create
  BY <1>1, <1>3, <1>4, CreateHolds, Zenon
<1>5. CASE Revoke
  BY <1>1, <1>3, <1>5, RevokeHolds, Zenon
<1>6. CASE UNCHANGED <<endpoints, mailboxes, rows, at>>
  BY <1>1, <1>6, HoldsSame, Zenon
<1>7. ASSUME NEW slot \in CapSlots, PickTask(slot) PROVE HoldsExact'
  <2>1. \A t \in TaskSlots : ~Registering(at'[t])
    <3>1. PICK rest : Continue(0, rest) /\ rest.do = "mint"
      BY <1>7 DEF PickTask
    <3>2. QED BY <1>1, <1>3, <3>1 DEF Continue, AuthInv, AuthorityTypes, AtTyped, Registering, Free
  <2>2. QED BY <1>1, <1>3, <1>7, <2>1, HoldsSame DEF PickTask, ipcVars, Registering, Free
<1>8. QED BY <1>4, <1>5, <1>6, <1>7, Zenon DEF BootStep, Bind, Unbind, GrantResolve, ipcVars

LEMMA SlotHolds ==
    ASSUME LedgerInv, NEW s \in TaskSlots, SlotStep(s), mode.inside = 1 PROVE HoldsExact'
<1>1. /\ AuthInv /\ CapsKnown /\ OneInside /\ HoldsExact /\ IpcInv
      /\ AtTyped /\ AtOK(at[s]) /\ rows \in [TaskSlots -> RowType] /\ GivenToTenant
      /\ LiveId(s) \in Ids
  BY Zenon DEF LedgerInv, LedgersExact, HoldsCounted, AuthInv, AuthorityTypes, AtTyped,
     AuthorityPersonal, TcbType, LiveId, Ids
<1>2. \A t \in TaskSlots \ {s} : at[t] = Free /\ at'[t] = Free
  BY <1>1, SlotAt, Alone, Zenon
<1>3. \A rest : Continue(s, rest) => at'[s] = rest
  BY <1>1, Zenon DEF Continue, AtTyped
<1>4. ASSUME UNCHANGED <<endpoints, mailboxes, rows>>, ~Registering(at[s]), ~Registering(at'[s])
      PROVE  HoldsExact'
  BY <1>1, <1>2, <1>4, HoldsSame, Zenon
<1>5. ASSUME NEW cap \in SendCaps \cup {NoCap}, SpawnWithSlots(s, RowWith(0, cap))
      PROVE  HoldsExact'
  <2>1. cap \in CapType /\ 0 \in CapSlots
    BY <1>1, SendCapsTyped, CapFacts, Counts DEF CapSlots
  <2>2. PICK t \in TaskSlots : ~tcb[t].live /\ rows' = [rows EXCEPT ![t] = RowWith(0, cap)]
    BY <1>5, Zenon DEF SpawnWithSlots, FreeSlot
  <2>3. \A i \in CapSlots : rows[t][i] = NoCap
    BY <1>1, <2>2, Zenon DEF GivenToTenant
  <2>4. /\ rows'[t][0] = cap
        /\ \A u \in TaskSlots, i \in CapSlots : ~(u = t /\ i = 0) => rows'[u][i] = rows[u][i]
    BY <1>1, <2>1, <2>2, <2>3, CapFacts
  <2>5. /\ UNCHANGED <<endpoints, mailboxes>> /\ at[s] = Free
        /\ at'[s] = [do |-> "register", row |-> RowWith(0, cap)]
    BY <1>3, <1>5, Zenon DEF SpawnWithSlots, ipcVars, Idle
  <2>6. \A u \in TaskSlots : ~Registering(at[u])
    BY <1>2, <2>5 DEF Registering, Free
  <2>7. QED BY <1>1, <1>2, <2>1, <2>3, <2>4, <2>5, <2>6, PlaceHolds
<1>6. CASE InstallCap(s)
  <2>1. at[s].do = "install" /\ at[s].slot \in CapSlots /\ at[s].cap \in CapType
    BY <1>1, <1>6, Zenon DEF InstallCap, In, AtOK
  <2>2. PICK slot, cap : slot = at[s].slot /\ cap = at[s].cap
    BY Zenon
  <2>3. CASE rows[s][slot] = NoCap
    <3>1. /\ rows' = [rows EXCEPT ![s][slot] = cap] /\ UNCHANGED <<endpoints, mailboxes>>
          /\ at'[s] = [do |-> "register", row |-> RowWith(slot, cap)]
      BY <1>3, <1>6, <2>2, <2>3, Zenon DEF InstallCap, ipcVars
    <3>2. /\ rows'[s][slot] = cap
          /\ \A u \in TaskSlots, i \in CapSlots : ~(u = s /\ i = slot) => rows'[u][i] = rows[u][i]
      BY <1>1, <2>1, <2>2, <3>1, Zenon DEF RowType
    <3>3. \A u \in TaskSlots : ~Registering(at[u])
      BY <1>2, <2>1 DEF Registering, Free
    <3>4. slot \in CapSlots /\ cap \in CapType
      BY <2>1, <2>2, Zenon
    <3>5. HoldsExact /\ IpcInv /\ \A u \in TaskSlots \ {s} : at'[u] = at[u]
      BY <1>1, <1>2, Zenon
    <3>6. QED BY <2>3, <3>1, <3>2, <3>3, <3>4, <3>5, PlaceHolds
  <2>4. CASE rows[s][slot] # NoCap
    BY <1>3, <1>4, <1>6, <2>1, <2>2, <2>4 DEF InstallCap, ipcVars, Registering, Free
  <2>5. QED BY <2>3, <2>4, Zenon
<1>7. CASE Register(s)
  BY <1>1, <1>2, <1>7, RegisterHoldsExact, Zenon
<1>8. CASE Release(s)
  BY <1>1, <1>2, <1>8, ReleaseHoldsExact, Zenon
<1>9. CASE Exit(s)
  BY <1>1, <1>2, <1>9, ExitHolds, Zenon DEF Exit, Idle
<1>10. CASE Move(s)
  <2>1. at[s].from \in CapSlots /\ at[s].to \in CapSlots /\ at[s].id \in Ids /\ at[s].do = "move"
    BY <1>1, <1>10, Zenon DEF AtOK, Move, In
  <2>2. at'[s] = Free /\ UNCHANGED <<endpoints, mailboxes>>
    BY <1>3, <1>10, Zenon DEF Move, ipcVars
  <2>3. \A u \in TaskSlots : ~Registering(at[u]) /\ ~Registering(at'[u])
    BY <1>2, <2>1, <2>2 DEF Registering, Free
  <2>4. QED BY <1>1, <1>10, <2>1, <2>2, <2>3, TransferHolds, Zenon DEF Move
<1>11. ASSUME NEW from \in CapSlots, NEW to \in CapSlots, ToSelf(s, from, to)
       PROVE  HoldsExact'
  <2>1. /\ UNCHANGED <<endpoints, mailboxes>> /\ at[s] = Free /\ at'[s] = Free
        /\ TransferHeld(s, from, LiveId(s), to)
    BY <1>11, Zenon DEF ToSelf, ipcVars, Idle
  <2>2. \A u \in TaskSlots : ~Registering(at[u]) /\ ~Registering(at'[u])
    BY <1>2, <2>1 DEF Registering, Free
  <2>3. QED BY <1>1, <2>1, <2>2, TransferHolds, Zenon
<1>12. CASE RevokeTask(s)
  BY <1>3, <1>4, <1>12 DEF RevokeTask, ipcVars, In, Registering, Free
<1>13. CASE Lookup(s)
  <2>1. UNCHANGED <<endpoints, mailboxes, rows>> /\ ~Registering(at[s])
    BY <1>13, Zenon DEF Lookup, ipcVars, In, Registering
  <2>2. ~Registering(at'[s])
    BY <1>3, <1>13 DEF Lookup, Registering, Free
  <2>3. QED BY <1>4, <2>1, <2>2, Zenon
<1>14. CASE Mint(s)
  <2>1. UNCHANGED <<endpoints, mailboxes, rows>> /\ ~Registering(at[s])
    BY <1>14, Zenon DEF Mint, ipcVars, In, Registering
  <2>2. CASE Continue(s, Free)
    BY <1>3, <1>4, <2>1, <2>2 DEF Registering, Free
  <2>3. CASE \E slot, cap : Continue(s, [do |-> "install", slot |-> slot, cap |-> cap])
    BY <1>3, <1>4, <2>1, <2>3 DEF Registering
  <2>4. QED BY <1>14, <2>2, <2>3, Zenon DEF Mint
<1>15. ASSUME NEW slot \in CapSlots, NEW name \in NameSet, Resolve(s, slot, name)
       PROVE  HoldsExact'
  BY <1>3, <1>4, <1>15 DEF Resolve, ipcVars, Idle, Registering, Free
<1>16. ASSUME NEW from \in CapSlots, NEW to \in CapSlots, ToCreator(s, from, to)
       PROVE  HoldsExact'
  BY <1>3, <1>4, <1>16 DEF ToCreator, ipcVars, Idle, Registering, Free
<1>17. ASSUME NEW from \in CapSlots, NEW to \in CapSlots, NEW slot \in CapSlots,
              ToPeer(s, from, to, slot)
       PROVE  HoldsExact'
  BY <1>3, <1>4, <1>17 DEF ToPeer, ipcVars, Idle, Registering, Free
<1>18. QED BY <1>5, <1>6, <1>7, <1>8, <1>9, <1>10, <1>11, <1>12, <1>13, <1>14, <1>15, <1>16,
              <1>17, Zenon DEF SlotStep

LEMMA HoldsStep == LedgerInv /\ [AuthorityNext]_authorityVars => HoldsCounted'
<1> SUFFICES ASSUME LedgerInv, [AuthorityNext]_authorityVars, mode'.inside = 1
             PROVE  HoldsExact'
  BY Zenon DEF HoldsCounted
<1>1. CASE UNCHANGED authorityVars
  BY <1>1, HoldsSame, Zenon DEF authorityVars, slotVars, ipcVars, LedgerInv, LedgersExact,
     HoldsCounted
<1>2. CASE BootStep
  <2>1. mode' = mode
    BY <1>2, Zenon DEF BootStep, Create, Revoke, PickTask, Bind, Unbind, GrantResolve,
       slotVars
  <2>2. QED BY <1>2, <2>1, BootHolds, Zenon
<1>3. ASSUME NEW s \in TaskSlots, SlotStep(s) PROVE HoldsExact'
  BY <1>3, SlotAt, SlotHolds, Zenon DEF LedgerInv
<1>4. QED BY <1>1, <1>2, <1>3, Zenon DEF AuthorityNext

LEMMA LedgerInit == AuthorityInit => LedgerInv
<1> SUFFICES ASSUME AuthorityInit PROVE LedgerInv
  BY Zenon
<1>1. AuthInv
  BY AuthInit, Zenon
<1>2. CapsKnown
  <2>1. /\ next_gen = 1 /\ mode.channels \in Nat /\ \A e \in Ends : endpoints[e].generation = 0
    BY AuthorityAssumption, Zenon DEF AuthorityInit, IpcInit, EmptyEnd
  <2>2. \A s \in TaskSlots, i \in CapSlots : rows[s][i] = NoCap
    BY Zenon DEF AuthorityInit, EmptyRow
  <2>3. \A n \in NameSet : names[n] = NoCap
    BY Zenon DEF AuthorityInit
  <2>4. \A s \in TaskSlots : at[s].do # "install"
    BY Zenon DEF AuthorityInit, Free
  <2>5. QED BY <2>1, <2>2, <2>3, <2>4, NoCapKnown DEF CapsKnown
<1>3. \A s \in TaskSlots : at[s] = Free
  BY Zenon DEF AuthorityInit
<1>4. OneInside
  BY <1>3 DEF OneInside, Free
<1>5. TaskCapsCurrent
  BY Zenon DEF TaskCapsCurrent, AuthorityInit
<1>6. \A b \in Boxes : ~mailboxes[b].live
  BY Zenon DEF AuthorityInit, IpcInit, EmptyBox
<1>7. QED BY <1>1, <1>2, <1>4, <1>5, <1>6, Zenon DEF LedgerInv, LedgersExact, HoldsCounted,
             HoldsExact

LEMMA LedgerStep == LedgerInv /\ [AuthorityNext]_authorityVars => LedgerInv'
BY AuthStep, KnownStep, OneStep, CurrentStep, HoldsStep, Zenon DEF LedgerInv, LedgersExact

\* Where calls do not interleave the holder counts of the mailbox table are the
\* slots that hold a SEND end, and a live task capability names a task that
\* exists, but for what the call under way has still to do (register_holds,
\* release_holds, taskcap::Table::revoke_task).
THEOREM LedgersAreExact == AuthoritySpec => []LedgersExact
<1>1. LedgerInv => LedgersExact
  BY Zenon DEF LedgerInv
<1>2. QED BY <1>1, LedgerInit, LedgerStep, PTL DEF AuthoritySpec
=============================================================================
