--------------------------- MODULE AuthorityProof ---------------------------
(***************************************************************************)
(* Authority is personal and task capabilities are not delegated, for any  *)
(* number of tasks, slots, channels, names and tasks inside a call at      *)
(* once.                                                                   *)
(***************************************************************************)
EXTENDS Authority, FiniteSetTheorems, TLAPS

BoxType ==
    [live : BOOLEAN, buf : [0 .. Depth - 1 -> Msgs \cup {Empty}],
     head : 0 .. Depth - 1, tail : 0 .. Depth - 1, len : 0 .. Depth,
     waiter : Waiters \cup {None}, send_holders : 0 .. HoldersMax,
     auto_reap : BOOLEAN]

\* What one mailbox must satisfy by itself.  A waiter is there only while the
\* channel is open, empty and has somebody to send.
BoxOK(box) ==
    /\ box \in BoxType
    /\ box.head = (box.tail + box.len) % Depth
    /\ box.waiter # None => /\ box.live /\ box.len = 0
                            /\ ~(box.auto_reap /\ box.send_holders = 0)

EndType == [live : BOOLEAN, generation : Gens, rights : Rights \cup {"None"},
            mailbox : Boxes]

RetType == [res : Results, msg : Msgs \cup {Empty}, wake : SUBSET Waiters]

IpcInv ==
    /\ endpoints \in [Ends -> EndType]
    /\ mailboxes \in [Boxes -> BoxType]
    /\ next_gen \in Gens \ {0} /\ refusals \in Nat
    /\ ret \in RetType
    /\ \A e \in Ends : endpoints[e].live => endpoints[e].generation # 0
    /\ EndsPaired
    /\ \A b \in Boxes : BoxOK(mailboxes[b])

-----------------------------------------------------------------------------
(* One mailbox *)

\* Stepping a ring index by one, and by what the ring holds.
LEMMA RingStep ==
    ASSUME NEW x \in 0 .. Depth - 1
    PROVE  (x + 1) % Depth = IF x + 1 = Depth THEN 0 ELSE x + 1
BY SizeAssumption

LEMMA RingSum ==
    ASSUME NEW x \in 0 .. Depth - 1, NEW n \in 0 .. Depth
    PROVE  (x + n) % Depth = IF x + n >= Depth THEN x + n - Depth ELSE x + n
BY SizeAssumption

\* A push moves the head where the longer ring ends; a pop moves the tail and
\* leaves the head where it is.
LEMMA RingMoves ==
    ASSUME NEW t \in 0 .. Depth - 1
    PROVE  /\ \A n \in 0 .. Depth - 1 :
                (((t + n) % Depth) + 1) % Depth = (t + (n + 1)) % Depth
           /\ \A n \in 1 .. Depth :
                (((t + 1) % Depth) + (n - 1)) % Depth = (t + n) % Depth
<1>1. ASSUME NEW n \in 0 .. Depth - 1
      PROVE  (((t + n) % Depth) + 1) % Depth = (t + (n + 1)) % Depth
  <2>1. (t + n) % Depth = IF t + n >= Depth THEN t + n - Depth ELSE t + n
    BY SizeAssumption, RingSum
  <2>2. (t + n) % Depth \in 0 .. Depth - 1
    BY <2>1, SizeAssumption
  <2>3. (((t + n) % Depth) + 1) % Depth
          = IF ((t + n) % Depth) + 1 = Depth THEN 0 ELSE ((t + n) % Depth) + 1
    BY <2>2, RingStep, Zenon
  <2>4. (t + (n + 1)) % Depth
          = IF t + (n + 1) >= Depth THEN t + (n + 1) - Depth ELSE t + (n + 1)
    <3>1. n + 1 \in 0 .. Depth
      BY SizeAssumption
    <3>2. QED BY <3>1, RingSum, Zenon
  <2>5. QED BY <2>1, <2>3, <2>4, SizeAssumption
<1>2. ASSUME NEW n \in 1 .. Depth
      PROVE  (((t + 1) % Depth) + (n - 1)) % Depth = (t + n) % Depth
  <2>1. (t + 1) % Depth = IF t + 1 = Depth THEN 0 ELSE t + 1
    BY RingStep, Zenon
  <2>2. (t + 1) % Depth \in 0 .. Depth - 1 /\ n - 1 \in 0 .. Depth
    BY <2>1, SizeAssumption
  <2>3. (((t + 1) % Depth) + (n - 1)) % Depth
          = IF ((t + 1) % Depth) + (n - 1) >= Depth
            THEN ((t + 1) % Depth) + (n - 1) - Depth ELSE ((t + 1) % Depth) + (n - 1)
    BY <2>2, RingSum, Zenon
  <2>4. (t + n) % Depth = IF t + n >= Depth THEN t + n - Depth ELSE t + n
    <3>1. n \in 0 .. Depth
      BY SizeAssumption
    <3>2. QED BY <3>1, RingSum, Zenon
  <2>5. QED BY <2>1, <2>3, <2>4, SizeAssumption
<1>3. QED BY <1>1, <1>2, Zenon

\* A fresh and a dead mailbox are sound.
LEMMA EmptyOK ==
    ASSUME NEW alive \in BOOLEAN, NEW reap \in BOOLEAN
    PROVE  /\ BoxOK([EmptyBox EXCEPT !.live = alive, !.auto_reap = reap])
           /\ [EmptyBox EXCEPT !.live = alive, !.auto_reap = reap].live = alive
           /\ BoxOK(EmptyBox) /\ ~EmptyBox.live /\ EmptyBox.waiter = None
<1>1. 0 \in 0 .. Depth - 1 /\ 0 \in 0 .. Depth /\ 0 \in 0 .. HoldersMax
  BY SizeAssumption
<1>2. (0 + 0) % Depth = 0
  BY SizeAssumption
<1>3. QED BY <1>1, <1>2, Zenon DEF EmptyBox, BoxOK, BoxType

\* Queueing a message in a mailbox with room leaves it sound and nobody waits.
LEMMA DeliveredOK ==
    ASSUME NEW box, BoxOK(box), box.len < Depth, NEW msg \in Msgs
    PROVE  /\ BoxOK(Delivered(box, msg))
           /\ Delivered(box, msg).live = box.live
           /\ Delivered(box, msg).waiter = None
<1>1. /\ box \in BoxType /\ box.head \in 0 .. Depth - 1 /\ box.tail \in 0 .. Depth - 1
      /\ box.len \in 0 .. Depth /\ Depth \in Nat
      /\ box.head = (box.tail + box.len) % Depth
  BY SizeAssumption, Zenon DEF BoxOK, BoxType
<1>2. (box.head + 1) % Depth \in 0 .. Depth - 1 /\ box.len + 1 \in 0 .. Depth
  BY <1>1, RingStep
<1>3. (box.head + 1) % Depth = (box.tail + (box.len + 1)) % Depth
  <2>1. box.len \in 0 .. Depth - 1
    BY <1>1
  <2>2. QED BY <1>1, <2>1, RingMoves
<1>4. Delivered(box, msg) =
        [box EXCEPT !.buf = [box.buf EXCEPT ![box.head] = msg],
                    !.head = (box.head + 1) % Depth, !.len = box.len + 1,
                    !.waiter = None]
  BY <1>1, Zenon DEF Delivered, Push, BoxType
<1>5. [box.buf EXCEPT ![box.head] = msg] \in [0 .. Depth - 1 -> Msgs \cup {Empty}]
  BY <1>1, Zenon DEF BoxType
<1>6. QED BY <1>1, <1>2, <1>3, <1>4, <1>5 DEF BoxOK, BoxType

\* Taking the oldest message leaves the mailbox sound.
LEMMA PopOK ==
    ASSUME NEW box, BoxOK(box), box.len > 0
    PROVE  /\ BoxOK(Pop(box)) /\ Pop(box).live = box.live
           /\ Pop(box).waiter = box.waiter
           /\ box.buf[box.tail] \in Msgs \cup {Empty}
<1>1. /\ box \in BoxType /\ box.head \in 0 .. Depth - 1 /\ box.tail \in 0 .. Depth - 1
      /\ box.len \in 1 .. Depth /\ Depth \in Nat
      /\ box.head = (box.tail + box.len) % Depth
  BY SizeAssumption DEF BoxOK, BoxType
<1>2. (box.tail + 1) % Depth \in 0 .. Depth - 1 /\ box.len - 1 \in 0 .. Depth
  BY <1>1, RingStep
<1>3. (((box.tail + 1) % Depth) + (box.len - 1)) % Depth = box.head
  BY <1>1, RingMoves, Zenon
<1>4. Pop(box) = [box EXCEPT !.tail = (box.tail + 1) % Depth, !.len = box.len - 1]
  BY Zenon DEF Pop
<1>5. box.waiter = None
  BY <1>1 DEF BoxOK
<1>6. QED BY <1>1, <1>2, <1>3, <1>4, <1>5, Zenon DEF BoxOK, BoxType

\* More holders never leave a waiter without a sender.
LEMMA HoldOK ==
    ASSUME NEW box, BoxOK(box), NEW n \in Nat
    PROVE  LET held == IF box.send_holders + n > HoldersMax THEN HoldersMax
                       ELSE box.send_holders + n
               new == [box EXCEPT !.send_holders = held]
           IN BoxOK(new) /\ new.live = box.live /\ new.waiter = box.waiter
<1> DEFINE held == IF box.send_holders + n > HoldersMax THEN HoldersMax
                   ELSE box.send_holders + n
           new == [box EXCEPT !.send_holders = held]
<1>1. held \in 0 .. HoldersMax /\ (held = 0 => box.send_holders = 0)
  BY SizeAssumption DEF BoxOK, BoxType
<1>2. QED
  <2> HIDE DEF held
  <2>1. /\ new \in BoxType /\ new.live = box.live /\ new.send_holders = held
        /\ new.waiter = box.waiter
        /\ new.head = box.head /\ new.tail = box.tail /\ new.len = box.len
        /\ new.auto_reap = box.auto_reap
    BY <1>1, Zenon DEF BoxOK, BoxType
  <2> HIDE DEF new
  <2>2. BoxOK(new)
    BY <1>1, <2>1, Zenon DEF BoxOK
  <2>3. QED BY <2>1, <2>2, Zenon DEF new, held

\* Fewer holders do not either, if the waiter goes with the last one.
LEMMA DropOK ==
    ASSUME NEW box, BoxOK(box), NEW n \in Nat, NEW reaps \in BOOLEAN,
           reaps <=> n > 0 /\ box.auto_reap /\ box.send_holders <= n
    PROVE  LET left == IF box.send_holders - n < 0 THEN 0 ELSE box.send_holders - n
               new == [box EXCEPT !.send_holders = left,
                                  !.waiter = IF reaps THEN None ELSE @]
           IN BoxOK(new) /\ new.live = box.live
              /\ new.waiter = IF reaps THEN None ELSE box.waiter
<1> DEFINE left == IF box.send_holders - n < 0 THEN 0 ELSE box.send_holders - n
           new == [box EXCEPT !.send_holders = left,
                              !.waiter = IF reaps THEN None ELSE @]
<1>1. left \in 0 .. HoldersMax
  BY SizeAssumption DEF BoxOK, BoxType
<1>2. left = 0 /\ box.auto_reap /\ ~reaps => box.send_holders = 0
  BY SizeAssumption DEF BoxOK, BoxType
<1>3. QED
  <2> HIDE DEF left
  <2>1. /\ new \in BoxType /\ new.live = box.live /\ new.send_holders = left
        /\ new.waiter = IF reaps THEN None ELSE box.waiter
        /\ new.head = box.head /\ new.tail = box.tail /\ new.len = box.len
        /\ new.auto_reap = box.auto_reap
    BY <1>1, Zenon DEF BoxOK, BoxType
  <2> HIDE DEF new
  <2>2. BoxOK(new)
    BY <1>2, <2>1, Zenon DEF BoxOK
  <2>3. QED BY <2>1, <2>2, Zenon DEF new, left

\* Claiming or leaving the waiter slot.
LEMMA WaiterOK ==
    ASSUME NEW box, BoxOK(box), NEW t \in Waiters \cup {None},
           t # None => /\ box.live /\ box.len = 0
                       /\ ~(box.auto_reap /\ box.send_holders = 0)
    PROVE  LET new == [box EXCEPT !.waiter = t]
           IN BoxOK(new) /\ new.live = box.live /\ new.waiter = t
BY Zenon DEF BoxOK, BoxType

-----------------------------------------------------------------------------
(* The tables *)

\* EndsPaired looks only at the endpoints and at which mailboxes live.
LEMMA PairedSame ==
    ASSUME EndsPaired, endpoints' = endpoints,
           \A b \in Boxes : mailboxes'[b].live = mailboxes[b].live
    PROVE  EndsPaired'
BY DEF EndsPaired, LiveEnds

\* A live end leads to a live mailbox: the "dead mailbox" arms are unreachable.
LEMMA NamesLive ==
    ASSUME IpcInv, NEW cap, Names(cap)
    PROVE  BoxOf(cap) \in Boxes /\ mailboxes[BoxOf(cap)].live
BY Zenon DEF IpcInv, Names, BoxOf, EndsPaired, EndType

\* A call that leaves the endpoints alone and every mailbox sound.
LEMMA TablesKeep ==
    ASSUME IpcInv, UNCHANGED <<endpoints, next_gen>>, refusals' \in Nat,
           ret' \in RetType, mailboxes' = [b \in Boxes |-> mailboxes'[b]],
           \A b \in Boxes : BoxOK(mailboxes'[b]) /\ mailboxes'[b].live = mailboxes[b].live
    PROVE  IpcInv'
<1>1. mailboxes' \in [Boxes -> BoxType]
  BY Zenon DEF BoxOK
<1>2. EndsPaired'
  BY PairedSame, Zenon DEF IpcInv
<1>3. QED BY <1>1, <1>2, Zenon DEF IpcInv

LEMMA OneBoxKeeps ==
    ASSUME IpcInv, UNCHANGED <<endpoints, next_gen>>, refusals' \in Nat,
           ret' \in RetType, NEW b \in Boxes, NEW box,
           mailboxes' = [mailboxes EXCEPT ![b] = box],
           BoxOK(box), box.live = mailboxes[b].live
    PROVE  IpcInv'
<1>1. /\ mailboxes' = [c \in Boxes |-> mailboxes'[c]] /\ mailboxes'[b] = box
      /\ \A c \in Boxes \ {b} : mailboxes'[c] = mailboxes[c]
  BY Zenon DEF IpcInv
<1>2. \A c \in Boxes : BoxOK(mailboxes'[c]) /\ mailboxes'[c].live = mailboxes[c].live
  BY <1>1, Zenon DEF IpcInv
<1>3. QED BY <1>1, <1>2, TablesKeep, Zenon

\* A refusal of any kind changes no table.
LEMMA NothingKeeps ==
    ASSUME IpcInv, UNCHANGED <<endpoints, mailboxes, next_gen>>, refusals' \in Nat,
           ret' \in RetType
    PROVE  IpcInv'
<1>1. EndsPaired'
  BY PairedSame, Zenon DEF IpcInv
<1>2. QED BY <1>1, Zenon DEF IpcInv

\* What a call returns is of its type.
LEMMA ReturnTypes ==
    /\ \A res \in Results : Returns(res) => ret' \in RetType
    /\ \A msg \in Msgs \cup {Empty} : ReturnsMsg(msg) => ret' \in RetType
    /\ \A tasks \in SUBSET Waiters : ReturnsTasks(tasks) => ret' \in RetType
BY DEF Returns, ReturnsMsg, ReturnsTasks, RetType, Results

LEMMA CountType == IpcInv /\ CountRefusal => refusals' \in Nat
BY DEF IpcInv, CountRefusal

\* The holder count of a slice is a number.
LEMMA SendEndsNat ==
    ASSUME NEW caps, NEW n \in Nat, DOMAIN caps = 1 .. n, NEW b
    PROVE  SendEnds(caps, b) \in Nat
<1> DEFINE S == {i \in DOMAIN caps : Resolves(caps[i], "SEND") /\ BoxOf(caps[i]) = b}
<1>1. IsFiniteSet(1 .. n)
  BY FS_Interval
<1>2. S \in SUBSET (1 .. n)
  BY Zenon
<1>3. IsFiniteSet(S)
  BY <1>1, <1>2, FS_Subset, Zenon
<1>4. QED BY <1>3, FS_CardinalityType, Zenon DEF SendEnds

LEMMA IpcInitInv == IpcInit => IpcInv
<1> SUFFICES ASSUME IpcInit PROVE IpcInv
  BY Zenon
<1> USE DEF IpcInit
<1>1. EmptyEnd \in EndType
  BY SizeAssumption DEF EmptyEnd, EndType, Gens, Boxes
<1>3. BoxOK(EmptyBox) /\ ~EmptyBox.live
  BY EmptyOK, Zenon
<1>4. \A b \in Boxes : BoxOK(mailboxes[b]) /\ ~mailboxes[b].live
  BY <1>3, Zenon
<1>5. \A e \in Ends : ~endpoints[e].live
  BY Zenon DEF EmptyEnd
<1>6. EndsPaired
  BY <1>4, <1>5, Zenon DEF EndsPaired
<1>7. mailboxes \in [Boxes -> BoxType] /\ endpoints \in [Ends -> EndType]
  BY <1>1, <1>3, Zenon DEF BoxOK
<1>8. ret \in RetType /\ next_gen \in Gens \ {0} /\ refusals \in Nat
  BY SizeAssumption DEF RetType, Results, Gens
<1>9. QED BY <1>4, <1>5, <1>6, <1>7, <1>8, Zenon DEF IpcInv

-----------------------------------------------------------------------------
(* One call of each kind *)

LEMMA RefusedInv == ASSUME IpcInv, NEW cap, NEW need, Refused(cap, need) PROVE IpcInv'
<1>1. refusals' \in Nat
  BY CountType, Zenon DEF Refused, IpcInv
<1>2. ret' \in RetType
  BY ReturnTypes, Zenon DEF Refused, Results
<1>3. QED BY <1>1, <1>2, NothingKeeps, Zenon DEF Refused

\* create_channel: two dead ends and a dead mailbox come to life together.
LEMMA CreateInv == ASSUME IpcInv, NEW reap \in BOOLEAN, CreateChannel(reap) PROVE IpcInv'
<1>1. CASE ~CanCreate /\ Returns("NoRoom") /\ UNCHANGED <<endpoints, mailboxes, next_gen, refusals>>
  BY <1>1, NothingKeeps, ReturnTypes, Zenon DEF IpcInv, Results
<1>2. ASSUME NEW b \in Boxes, NEW s \in Ends, NEW r \in Ends,
             FirstDeadBox(b), FirstDeadEnd(s, {}), FirstDeadEnd(r, {s}),
             OpenChannel(b, s, r, reap), next_gen' = NextGen(next_gen),
             Returns("Ok"), UNCHANGED refusals
      PROVE  IpcInv'
  <2> DEFINE es == [live |-> TRUE, generation |-> next_gen, rights |-> "SEND", mailbox |-> b]
             er == [live |-> TRUE, generation |-> next_gen, rights |-> "RECV", mailbox |-> b]
             box == [EmptyBox EXCEPT !.live = TRUE, !.auto_reap = reap]
  <2>1. /\ s # r /\ ~endpoints[s].live /\ ~endpoints[r].live /\ ~mailboxes[b].live
        /\ endpoints' = [endpoints EXCEPT ![s] = es, ![r] = er]
        /\ mailboxes' = [mailboxes EXCEPT ![b] = box]
        /\ endpoints \in [Ends -> EndType] /\ mailboxes \in [Boxes -> BoxType]
        /\ next_gen \in Gens \ {0}
    BY <1>2, Zenon DEF FirstDeadBox, FirstDeadEnd, OpenChannel, IpcInv
  <2>2. es \in EndType /\ er \in EndType
    BY <2>1, Zenon DEF EndType, Rights
  <2>3. BoxOK(box) /\ box.live
    BY EmptyOK, Zenon
  <2>4. /\ endpoints' \in [Ends -> EndType] /\ endpoints'[s] = es /\ endpoints'[r] = er
        /\ \A e \in Ends \ {s, r} : endpoints'[e] = endpoints[e]
    BY <2>1, <2>2, Zenon
  <2>5. /\ mailboxes' \in [Boxes -> BoxType] /\ mailboxes'[b] = box
        /\ \A c \in Boxes \ {b} : mailboxes'[c] = mailboxes[c]
    BY <2>1, <2>3, Zenon DEF BoxOK
  <2>6. \A c \in Boxes : BoxOK(mailboxes'[c])
    BY <2>3, <2>5, Zenon DEF IpcInv
  <2>7. \A e \in Ends : endpoints'[e].live => endpoints'[e].generation # 0
    BY <2>1, <2>4, Zenon DEF IpcInv
  <2>8. EndsPaired'
    <3>1. \A e \in Ends : ~(endpoints[e].live /\ endpoints[e].mailbox = b)
      BY <2>1, Zenon DEF IpcInv, EndsPaired
    <3>2. LiveEnds(b, "SEND")' = {s} /\ LiveEnds(b, "RECV")' = {r}
      BY <2>1, <2>4, <3>1, Zenon DEF LiveEnds
    <3>3. ASSUME NEW c \in Boxes, c # b
          PROVE  /\ \A right : LiveEnds(c, right)' = LiveEnds(c, right)
                 /\ mailboxes'[c] = mailboxes[c]
                 /\ \A e \in Ends : endpoints[e].live /\ endpoints[e].mailbox = c
                                    => endpoints'[e] = endpoints[e]
                 /\ \A e \in Ends : endpoints'[e].live /\ endpoints'[e].mailbox = c
                                    => endpoints'[e] = endpoints[e]
      BY <2>1, <2>4, <2>5, <3>3, Zenon DEF LiveEnds
    <3>4. ASSUME NEW c \in Boxes, c # b, mailboxes[c].live
          PROVE  \E x, y \in Ends : /\ LiveEnds(c, "SEND")' = {x}
                                    /\ LiveEnds(c, "RECV")' = {y}
                                    /\ endpoints'[x].generation = endpoints'[y].generation
      <4>1. PICK x \in Ends, y \in Ends :
               /\ LiveEnds(c, "SEND") = {x} /\ LiveEnds(c, "RECV") = {y}
               /\ endpoints[x].generation = endpoints[y].generation
        BY <3>4, Zenon DEF IpcInv, EndsPaired
      <4>2. endpoints'[x] = endpoints[x] /\ endpoints'[y] = endpoints[y]
        BY <3>3, <3>4, <4>1 DEF LiveEnds
      <4>3. QED BY <3>3, <3>4, <4>1, <4>2
    <3>5. ASSUME NEW c \in Boxes, c # b, ~mailboxes[c].live
          PROVE  \A e \in Ends : ~(endpoints'[e].live /\ endpoints'[e].mailbox = c)
      BY <3>3, <3>5 DEF IpcInv, EndsPaired
    <3>6. endpoints'[s].generation = endpoints'[r].generation /\ mailboxes'[b].live
      BY <2>3, <2>4, <2>5
    <3>7. \A c \in Boxes \ {b} : mailboxes'[c].live = mailboxes[c].live
      BY <2>5, Zenon
    <3>8. QED BY <3>2, <3>4, <3>5, <3>6, <3>7, Zenon DEF EndsPaired
  <2>9. next_gen' \in Gens \ {0}
    BY <1>2, <2>1, SizeAssumption DEF NextGen, Gens
  <2>10. ret' \in RetType /\ refusals' \in Nat
    BY <1>2, ReturnTypes, Zenon DEF IpcInv, Results
  <2>11. QED BY <2>4, <2>5, <2>6, <2>7, <2>8, <2>9, <2>10, Zenon DEF IpcInv
<1>3. QED BY <1>1, <1>2, Zenon DEF CreateChannel

\* register_holds and release_holds, for any slice: the slice of a row may name
\* dead, foreign or empty slots, which count for nothing.
LEMMA RegisterInv ==
    ASSUME IpcInv, NEW caps, NEW n \in Nat, DOMAIN caps = 1 .. n, RegisterHolds(caps)
    PROVE  /\ IpcInv'
           /\ \A b \in Boxes : mailboxes'[b].waiter = mailboxes[b].waiter
<1>1. /\ mailboxes' = [b \in Boxes |->
            [mailboxes[b] EXCEPT !.send_holders =
                IF mailboxes[b].send_holders + SendEnds(caps, b) > HoldersMax
                THEN HoldersMax ELSE mailboxes[b].send_holders + SendEnds(caps, b)]]
      /\ Returns("Ok") /\ UNCHANGED <<endpoints, next_gen, refusals>>
  BY Zenon DEF RegisterHolds
<1>2. ASSUME NEW b \in Boxes
      PROVE  /\ BoxOK(mailboxes'[b]) /\ mailboxes'[b].live = mailboxes[b].live
             /\ mailboxes'[b].waiter = mailboxes[b].waiter
  <2>1. SendEnds(caps, b) \in Nat /\ BoxOK(mailboxes[b])
    BY SendEndsNat, Zenon DEF IpcInv
  <2>2. QED BY <1>1, <2>1, HoldOK, Zenon
<1>3. ret' \in RetType /\ refusals' \in Nat
  BY <1>1, ReturnTypes, Zenon DEF IpcInv, Results
<1>4. mailboxes' = [b \in Boxes |-> mailboxes'[b]]
  BY <1>1, Zenon
<1>5. QED BY <1>1, <1>2, <1>3, <1>4, TablesKeep, Zenon

LEMMA ReleaseInv ==
    ASSUME IpcInv, NEW caps, NEW n \in Nat, DOMAIN caps = 1 .. n, ReleaseHolds(caps)
    PROVE  /\ IpcInv'
           /\ \A b \in Boxes : \/ mailboxes'[b].waiter = mailboxes[b].waiter
                               \/ mailboxes[b].waiter \in ret'.wake \cup {None}
<1> DEFINE woken == {mailboxes[b].waiter : b \in {c \in Boxes : Reaps(caps, c)}} \ {None}
<1>1. /\ mailboxes' = [b \in Boxes |->
            [mailboxes[b] EXCEPT
                !.send_holders = IF mailboxes[b].send_holders - SendEnds(caps, b) < 0 THEN 0
                                 ELSE mailboxes[b].send_holders - SendEnds(caps, b),
                !.waiter = IF Reaps(caps, b) THEN None ELSE @]]
      /\ ReturnsTasks(woken) /\ UNCHANGED <<endpoints, next_gen, refusals>>
  BY Zenon DEF ReleaseHolds
<1>2. ASSUME NEW b \in Boxes
      PROVE  /\ BoxOK(mailboxes'[b]) /\ mailboxes'[b].live = mailboxes[b].live
             /\ mailboxes'[b].waiter = IF Reaps(caps, b) THEN None ELSE mailboxes[b].waiter
  <2>1. SendEnds(caps, b) \in Nat /\ BoxOK(mailboxes[b])
    BY SendEndsNat, Zenon DEF IpcInv
  <2>2. /\ Reaps(caps, b) \in BOOLEAN
        /\ Reaps(caps, b) <=> /\ SendEnds(caps, b) > 0 /\ mailboxes[b].auto_reap
                              /\ mailboxes[b].send_holders <= SendEnds(caps, b)
    BY Zenon DEF Reaps
  <2> DEFINE left == IF mailboxes[b].send_holders - SendEnds(caps, b) < 0 THEN 0
                     ELSE mailboxes[b].send_holders - SendEnds(caps, b)
             new == [mailboxes[b] EXCEPT !.send_holders = left,
                                         !.waiter = IF Reaps(caps, b) THEN None ELSE @]
  <2>3. BoxOK(new) /\ new.live = mailboxes[b].live
        /\ new.waiter = IF Reaps(caps, b) THEN None ELSE mailboxes[b].waiter
    BY <2>1, <2>2, DropOK
  <2>4. mailboxes'[b] = new
    BY <1>1, Zenon
  <2>5. QED BY <2>3, <2>4, Zenon
<1>3. woken \in SUBSET Waiters
  BY DEF IpcInv, BoxType
<1>4. ret' \in RetType /\ refusals' \in Nat /\ ret'.wake = woken
  BY <1>1, <1>3, ReturnTypes, Zenon DEF IpcInv, ReturnsTasks
<1>5. mailboxes' = [b \in Boxes |-> mailboxes'[b]]
  BY <1>1, Zenon
<1>6. IpcInv'
  BY <1>1, <1>2, <1>4, <1>5, TablesKeep, Zenon
<1>7. QED BY <1>2, <1>4, <1>6, Zenon

\* revoke_channel: both ends and the mailbox die together.
LEMMA RevokeInv ==
    ASSUME IpcInv, NEW cap, RevokeChannel(cap)
    PROVE  /\ IpcInv'
           /\ \A b \in Boxes : \/ mailboxes'[b].waiter = mailboxes[b].waiter
                               \/ mailboxes[b].waiter \in ret'.wake \cup {None}
<1>1. CASE ~Names(cap)
  <2>1. Returns("BadCap") /\ UNCHANGED <<endpoints, mailboxes, next_gen, refusals>>
    BY <1>1, Zenon DEF RevokeChannel
  <2>2. IpcInv'
    BY <2>1, NothingKeeps, ReturnTypes, Zenon DEF IpcInv, Results
  <2>3. QED BY <2>1, <2>2, Zenon
<1>2. CASE Names(cap)
  <2> DEFINE b == BoxOf(cap)
             woken == {mailboxes[b].waiter} \ {None}
  <2>1. /\ endpoints' = Killed(cap) /\ mailboxes' = [mailboxes EXCEPT ![b] = EmptyBox]
        /\ ReturnsTasks(woken) /\ UNCHANGED <<next_gen, refusals>>
        /\ b \in Boxes /\ mailboxes[b].live
    BY <1>2, NamesLive, Zenon DEF RevokeChannel
  <2> HIDE DEF b
  <2>2. /\ endpoints \in [Ends -> EndType] /\ mailboxes \in [Boxes -> BoxType]
        /\ BoxOK(EmptyBox) /\ ~EmptyBox.live /\ EmptyBox.waiter = None
    BY EmptyOK, Zenon DEF IpcInv
  <2>3. /\ endpoints' \in [Ends -> EndType]
        /\ \A e \in Ends : endpoints[e].live /\ endpoints[e].mailbox = b
                           => ~endpoints'[e].live
        /\ \A e \in Ends : ~(endpoints[e].live /\ endpoints[e].mailbox = b)
                           => endpoints'[e] = endpoints[e]
    BY <2>1, <2>2 DEF Killed, EndType, b
  <2>4. /\ mailboxes' \in [Boxes -> BoxType] /\ mailboxes'[b] = EmptyBox
        /\ \A c \in Boxes \ {b} : mailboxes'[c] = mailboxes[c]
    BY <2>1, <2>2, Zenon DEF BoxOK
  <2>5. \A c \in Boxes : BoxOK(mailboxes'[c])
    BY <2>2, <2>4, Zenon DEF IpcInv
  <2>6. \A e \in Ends : endpoints'[e].live => endpoints'[e].generation # 0
    BY <2>3, Zenon DEF IpcInv
  <2>7. EndsPaired'
    <3>1. \A e \in Ends : ~(endpoints'[e].live /\ endpoints'[e].mailbox = b)
      BY <2>3, Zenon
    <3>2. ASSUME NEW c \in Boxes, c # b, mailboxes[c].live
          PROVE  \E x, y \in Ends : /\ LiveEnds(c, "SEND")' = {x}
                                    /\ LiveEnds(c, "RECV")' = {y}
                                    /\ endpoints'[x].generation = endpoints'[y].generation
      <4>1. PICK x \in Ends, y \in Ends :
               /\ LiveEnds(c, "SEND") = {x} /\ LiveEnds(c, "RECV") = {y}
               /\ endpoints[x].generation = endpoints[y].generation
        BY <3>2, Zenon DEF IpcInv, EndsPaired
      <4>2. \A right : LiveEnds(c, right)' = LiveEnds(c, right)
        BY <2>3, <3>2, Zenon DEF LiveEnds
      <4>3. endpoints'[x] = endpoints[x] /\ endpoints'[y] = endpoints[y]
        BY <2>3, <3>2, <4>1 DEF LiveEnds
      <4>4. QED BY <4>1, <4>2, <4>3
    <3>3. ASSUME NEW c \in Boxes, c # b, ~mailboxes[c].live
          PROVE  \A e \in Ends : ~(endpoints'[e].live /\ endpoints'[e].mailbox = c)
      BY <2>3, <3>3, Zenon DEF IpcInv, EndsPaired
    <3>4. \A c \in Boxes \ {b} : mailboxes'[c].live = mailboxes[c].live
      BY <2>4, Zenon
    <3>5. ~mailboxes'[b].live
      BY <2>2, <2>4, Zenon
    <3>6. QED BY <3>1, <3>2, <3>3, <3>4, <3>5, Zenon DEF EndsPaired
  <2>8. woken \in SUBSET Waiters
    BY <2>1, <2>2, Zenon DEF BoxType
  <2>9. ret' \in RetType /\ refusals' \in Nat /\ next_gen' \in Gens \ {0} /\ ret'.wake = woken
    BY <2>1, <2>8, ReturnTypes, Zenon DEF IpcInv, ReturnsTasks
  <2>10. IpcInv'
    BY <2>3, <2>4, <2>5, <2>6, <2>7, <2>9, Zenon DEF IpcInv
  <2>11. QED BY <2>4, <2>9, <2>10, Zenon
<1>3. QED BY <1>1, <1>2, Zenon

LEMMA SendInv ==
    ASSUME IpcInv, NEW cap, NEW msg \in Msgs, Send(cap, msg)
    PROVE  /\ IpcInv'
           /\ \A b \in Boxes : \/ mailboxes'[b].waiter = mailboxes[b].waiter
                               \/ mailboxes[b].waiter \in ret'.wake \cup {None}
<1>1. CASE Refused(cap, "SEND")
  BY <1>1, RefusedInv, Zenon DEF Refused
<1>2. CASE ~Refused(cap, "SEND")
  <2> DEFINE b == BoxOf(cap)
             woken == {mailboxes[b].waiter} \ {None}
             new == Delivered(mailboxes[b], msg)
  <2>1. /\ UNCHANGED <<endpoints, next_gen, refusals>>
        /\ Names(cap)
    BY <1>2, Zenon DEF Send, Reaches, Resolves
  <2>2. b \in Boxes /\ BoxOK(mailboxes[b]) /\ refusals' \in Nat
    BY <2>1, NamesLive, Zenon DEF IpcInv
  <2>3. CASE mailboxes[b].len = Depth
    <3>1. Returns("Full") /\ UNCHANGED mailboxes
      BY <1>2, <2>3, Zenon DEF Send
    <3>2. IpcInv'
      BY <2>1, <2>2, <3>1, NothingKeeps, ReturnTypes, Zenon DEF Results
    <3>3. QED BY <3>1, <3>2, Zenon
  <2>4. CASE mailboxes[b].len # Depth
    <3>1. mailboxes' = [mailboxes EXCEPT ![b] = new] /\ ReturnsTasks(woken)
      BY <1>2, <2>4, Zenon DEF Send
    <3>2. mailboxes[b].len < Depth
      BY <2>2, <2>4, SizeAssumption DEF BoxOK, BoxType
    <3>3. BoxOK(new) /\ new.live = mailboxes[b].live
      BY <2>2, <3>2, DeliveredOK, Zenon
    <3>4. woken \in SUBSET Waiters
      BY <2>2, Zenon DEF BoxOK, BoxType
    <3>5. ret' \in RetType /\ ret'.wake = woken
      BY <3>1, <3>4, ReturnTypes, Zenon DEF ReturnsTasks
    <3> HIDE DEF new, b
    <3>6. IpcInv'
      BY <2>1, <2>2, <3>1, <3>3, <3>5, OneBoxKeeps, Zenon
    <3>7. \A c \in Boxes : c # b => mailboxes'[c] = mailboxes[c]
      BY <3>1, Zenon DEF IpcInv
    <3>8. QED BY <3>5, <3>6, <3>7, Zenon
  <2>5. QED BY <2>3, <2>4, Zenon
<1>3. QED BY <1>1, <1>2, Zenon

LEMMA TakeInv ==
    ASSUME IpcInv, NEW b \in Boxes, Take(b), UNCHANGED <<endpoints, next_gen>>
    PROVE  /\ IpcInv'
           /\ \A c \in Boxes : mailboxes'[c].waiter = mailboxes[c].waiter
<1> DEFINE new == Pop(mailboxes[b])
           msg == mailboxes[b].buf[mailboxes[b].tail]
<1>1. /\ mailboxes' = [mailboxes EXCEPT ![b] = new] /\ ReturnsMsg(msg)
      /\ mailboxes[b].len > 0 /\ refusals' = refusals /\ BoxOK(mailboxes[b])
  BY Zenon DEF Take, IpcInv
<1>2. /\ BoxOK(new) /\ new.live = mailboxes[b].live /\ msg \in Msgs \cup {Empty}
      /\ new.waiter = mailboxes[b].waiter
  BY <1>1, PopOK, Zenon
<1>3. ret' \in RetType /\ refusals' \in Nat
  BY <1>1, <1>2, ReturnTypes, Zenon DEF IpcInv
<1> HIDE DEF new
<1>4. IpcInv'
  BY <1>1, <1>2, <1>3, OneBoxKeeps, Zenon
<1>5. QED BY <1>1, <1>2, <1>4, Zenon DEF IpcInv

LEMMA TryRecvInv ==
    ASSUME IpcInv, NEW cap, TryRecv(cap)
    PROVE  /\ IpcInv'
           /\ \A b \in Boxes : mailboxes'[b].waiter = mailboxes[b].waiter
<1>1. CASE Refused(cap, "RECV")
  BY <1>1, RefusedInv, Zenon DEF Refused
<1>2. CASE ~Refused(cap, "RECV")
  <2>1. UNCHANGED <<endpoints, next_gen>> /\ BoxOf(cap) \in Boxes
    BY <1>2, NamesLive, Zenon DEF TryRecv, Reaches, Resolves
  <2>2. CASE Take(BoxOf(cap))
    BY <2>1, <2>2, TakeInv, Zenon
  <2>3. CASE Returns("Empty") /\ UNCHANGED <<mailboxes, refusals>>
    BY <2>1, <2>3, NothingKeeps, ReturnTypes, Zenon DEF IpcInv, Results
  <2>4. QED BY <1>2, <2>2, <2>3, Zenon DEF TryRecv
<1>3. QED BY <1>1, <1>2, Zenon

LEMMA ClearInv ==
    ASSUME IpcInv, NEW id \in Waiters, ClearWaiter(id)
    PROVE  /\ IpcInv'
           /\ \A b \in Boxes : \/ mailboxes'[b].waiter = mailboxes[b].waiter
                               \/ mailboxes[b].waiter = id
<1>1. /\ mailboxes' = [b \in Boxes |->
            IF mailboxes[b].waiter = id
            THEN [mailboxes[b] EXCEPT !.waiter = None] ELSE mailboxes[b]]
      /\ Returns("Ok") /\ UNCHANGED <<endpoints, next_gen, refusals>>
  BY Zenon DEF ClearWaiter
<1>2. ASSUME NEW b \in Boxes
      PROVE  BoxOK(mailboxes'[b]) /\ mailboxes'[b].live = mailboxes[b].live
  <2>1. BoxOK(mailboxes[b])
    BY Zenon DEF IpcInv
  <2> DEFINE new == [mailboxes[b] EXCEPT !.waiter = None]
  <2>2. BoxOK(new) /\ new.live = mailboxes[b].live
    BY <2>1, WaiterOK, Zenon
  <2>3. mailboxes'[b] = IF mailboxes[b].waiter = id THEN new ELSE mailboxes[b]
    BY <1>1, Zenon
  <2>4. QED BY <2>1, <2>2, <2>3, Zenon
<1>3. ret' \in RetType /\ refusals' \in Nat
  BY <1>1, ReturnTypes, Zenon DEF IpcInv, Results
<1>4. mailboxes' = [b \in Boxes |-> mailboxes'[b]]
  BY <1>1, Zenon
<1>5. IpcInv'
  BY <1>1, <1>2, <1>3, <1>4, TablesKeep, Zenon
<1>6. QED BY <1>1, <1>5, Zenon

LEMMA ParkInv ==
    ASSUME IpcInv, NEW cap, NEW me \in Waiters, Park(cap, me)
    PROVE  /\ IpcInv'
           /\ \A b \in Boxes : \/ mailboxes'[b].waiter = mailboxes[b].waiter
                               \/ mailboxes[b].waiter = None
<1>1. CASE Refused(cap, "RECV")
  BY <1>1, RefusedInv, Zenon DEF Refused
<1>2. CASE ~Refused(cap, "RECV")
  <2> DEFINE b == BoxOf(cap)
             new == [mailboxes[b] EXCEPT !.waiter = me]
  <2>1. /\ UNCHANGED <<endpoints, next_gen>> /\ b \in Boxes /\ mailboxes[b].live
        /\ BoxOK(mailboxes[b])
    BY <1>2, NamesLive, Zenon DEF Park, Reaches, Resolves, IpcInv
  <2>2. CASE Take(b)
    BY <2>1, <2>2, TakeInv, Zenon
  <2>3. ASSUME NEW res \in Results, Returns(res), UNCHANGED mailboxes,
               refusals' \in Nat
        PROVE  IpcInv' /\ \A c \in Boxes : mailboxes'[c].waiter = mailboxes[c].waiter
    BY <2>1, <2>3, NothingKeeps, ReturnTypes, Zenon
  <2>4. CASE /\ ~HasMail(b) /\ ~Senderless(b) /\ Claimable(b, me)
             /\ mailboxes' = [mailboxes EXCEPT ![b].waiter = me]
             /\ Returns("Parked") /\ UNCHANGED refusals
    <3>1. mailboxes[b].len = 0 /\ ~(mailboxes[b].auto_reap /\ mailboxes[b].send_holders = 0)
      BY <2>1, <2>4 DEF HasMail, Senderless, BoxOK, BoxType
    <3>2. BoxOK(new) /\ new.live = mailboxes[b].live /\ new.waiter = me
      BY <2>1, <3>1, WaiterOK, Zenon
    <3>3. mailboxes' = [mailboxes EXCEPT ![b] = new]
      BY <2>4, Zenon
    <3>4. ret' \in RetType /\ refusals' \in Nat
      BY <2>4, ReturnTypes, Zenon DEF IpcInv, Results
    <3>5. mailboxes[b].waiter \in {None, me}
      BY <2>4, Zenon DEF Claimable
    <3> HIDE DEF new, b
    <3>6. IpcInv'
      BY <2>1, <3>2, <3>3, <3>4, OneBoxKeeps, Zenon
    <3>7. mailboxes'[b] = new /\ \A c \in Boxes : c # b => mailboxes'[c] = mailboxes[c]
      BY <2>1, <3>3, Zenon DEF IpcInv
    <3>8. QED BY <3>2, <3>5, <3>6, <3>7, Zenon
  <2>5. CASE ~HasMail(b) /\ Claim(b, me) /\ ~(~Senderless(b) /\ Claimable(b, me))
    <3>1. \/ Returns("Cancelled") /\ UNCHANGED <<mailboxes, refusals>>
          \/ CountRefusal /\ Returns("Busy") /\ UNCHANGED mailboxes
      BY <2>5, Zenon DEF Claim
    <3>2. QED BY <2>3, <3>1, CountType, Zenon DEF IpcInv, Results
  <2>6. QED BY <1>2, <2>2, <2>4, <2>5, Zenon DEF Park, Claim
<1>3. QED BY <1>1, <1>2, Zenon

\* A new channel takes over a mailbox that nobody waits on.
LEMMA CreateWaiters ==
    ASSUME IpcInv, NEW reap \in BOOLEAN, CreateChannel(reap), NEW b \in Boxes
    PROVE  mailboxes'[b].waiter = mailboxes[b].waiter \/ mailboxes[b].waiter = None
<1>1. CASE UNCHANGED mailboxes
  BY <1>1, Zenon
<1>2. ASSUME NEW c \in Boxes, ~mailboxes[c].live,
             mailboxes' = [mailboxes EXCEPT
                ![c] = [EmptyBox EXCEPT !.live = TRUE, !.auto_reap = reap]]
      PROVE  mailboxes'[b].waiter = mailboxes[b].waiter \/ mailboxes[b].waiter = None
  <2>1. CASE b = c
    BY <1>2, <2>1, Zenon DEF IpcInv, BoxOK
  <2>2. CASE b # c
    BY <1>2, <2>2, Zenon DEF IpcInv
  <2>3. QED BY <2>1, <2>2, Zenon
<1>3. QED BY <1>1, <1>2, Zenon DEF CreateChannel, OpenChannel, FirstDeadBox

\* What a step does to whoever waits.
HandsOver ==
    \A b \in Boxes :
        LET t == mailboxes[b].waiter
        IN t # None /\ mailboxes'[b].waiter # t
            => \/ t \in ret'.wake
               \/ ClearWaiter(t)

LEMMA IpcStep == IpcInv /\ [IpcNext]_ipcVars => IpcInv' /\ HandsOver
<1> SUFFICES ASSUME IpcInv, [IpcNext]_ipcVars PROVE IpcInv' /\ HandsOver
  BY Zenon
<1>1. ASSUME NEW reap \in BOOLEAN, CreateChannel(reap) PROVE IpcInv' /\ HandsOver
  BY <1>1, CreateInv, CreateWaiters, Zenon DEF HandsOver
<1>2. ASSUME NEW caps \in CapLists, RegisterHolds(caps) \/ ReleaseHolds(caps)
      PROVE  IpcInv' /\ HandsOver
  <2>1. Len(caps) \in Nat /\ DOMAIN caps = 1 .. Len(caps)
    BY CapListsAssumption
  <2>2. CASE RegisterHolds(caps)
    BY <2>1, <2>2, RegisterInv, Zenon DEF HandsOver
  <2>3. CASE ReleaseHolds(caps)
    BY <2>1, <2>3, ReleaseInv, Zenon DEF HandsOver
  <2>4. QED BY <1>2, <2>2, <2>3, Zenon
<1>3. ASSUME NEW cap \in Caps, RevokeChannel(cap) PROVE IpcInv' /\ HandsOver
  BY <1>3, RevokeInv, Zenon DEF HandsOver
<1>4. ASSUME NEW cap \in Caps, NEW msg \in Msgs, Send(cap, msg) PROVE IpcInv' /\ HandsOver
  BY <1>4, SendInv, Zenon DEF HandsOver
<1>5. ASSUME NEW cap \in Caps, TryRecv(cap) PROVE IpcInv' /\ HandsOver
  BY <1>5, TryRecvInv, Zenon DEF HandsOver
<1>6. ASSUME NEW cap \in Caps, NEW me \in Waiters, Park(cap, me)
      PROVE  IpcInv' /\ HandsOver
  BY <1>6, ParkInv, Zenon DEF HandsOver
<1>7. ASSUME NEW id \in Waiters, ClearWaiter(id) PROVE IpcInv' /\ HandsOver
  BY <1>7, ClearInv, Zenon DEF HandsOver
<1>8. CASE UNCHANGED ipcVars
  BY <1>8, NothingKeeps, Zenon DEF ipcVars, IpcInv, HandsOver
<1>9. QED BY <1>1, <1>2, <1>3, <1>4, <1>5, <1>6, <1>7, <1>8, Zenon DEF IpcNext

\* The invariant has the five parts of MailboxesExact.
LEMMA InvIsExact == IpcInv => MailboxesExact
<1> SUFFICES ASSUME IpcInv PROVE MailboxesExact
  BY Zenon
<1>1. IpcTypeOK
  BY Zenon DEF IpcInv, IpcTypeOK, EndType, BoxType, RetType
<1>2. NoWaiterWithMail /\ NoOrphanWaiter /\ RingConsistent
  BY Zenon DEF IpcInv, BoxOK, NoWaiterWithMail, NoOrphanWaiter, RingConsistent, Senderless
<1>3. QED BY <1>1, <1>2, Zenon DEF MailboxesExact, IpcInv

-----------------------------------------------------------------------------
(* Theorems *)

\* Through any calls, with any capabilities: a live mailbox has one live end of
\* each right and no live end leads to a dead one, no waiter is left where a
\* message is or nobody will send, and the rings are consistent (ipc.rs).
THEOREM MailboxesHold == IpcSpec => []MailboxesExact
<1>1. IpcSpec => []IpcInv
  BY IpcInitInv, IpcStep, PTL DEF IpcSpec
<1>2. QED BY <1>1, InvIsExact, PTL

\* A waiter is never overwritten or forgotten: it leaves its slot only in the
\* hands of the caller or by the cancel that names it (send, release_holds,
\* revoke_channel, park, clear_waiter).
THEOREM WaitersHandedOver == IpcSpec => WaiterHandedOver
<1>1. IpcSpec => []IpcInv
  BY IpcInitInv, IpcStep, PTL DEF IpcSpec
<1>2. IpcInv /\ [IpcNext]_ipcVars => [HandsOver]_ipcVars
  BY IpcStep, Zenon
<1>3. QED BY <1>1, <1>2, PTL DEF IpcSpec, WaiterHandedOver, HandsOver


-----------------------------------------------------------------------------
(* The invariants *)

Ids == TaskSlots \X Nat
CapType == {NoCap} \cup [index : 0 .. EndpointCount + TaskCapCount, generation : Nat]
RowType == [CapSlots -> CapType]
TcbType == [live : BOOLEAN, epoch : Nat, creator : Ids, may_resolve : BOOLEAN]
TaskCapType == [live : BOOLEAN, generation : Nat, task : Ids]
Steps == {"run", "register", "release", "revoke", "mint", "install", "lookup", "move"}

\* What a task still has to do is well formed.
AtOK(a) ==
    /\ a.do \in Steps
    /\ a.do = "run" => a = Free
    /\ a.do \in {"register", "release"} => a.row \in RowType
    /\ a.do \in {"release", "revoke", "mint", "move"} => a.id \in Ids
    /\ a.do \in {"mint", "install"} => a.slot \in CapSlots
    /\ a.do \in {"install", "lookup"} => a.cap \in CapType
    /\ a.do \in {"lookup", "move"} => a.from \in CapSlots /\ a.to \in CapSlots

AtTyped == at = [s \in TaskSlots |-> at[s]] /\ \A s \in TaskSlots : AtOK(at[s])

AuthorityTypes ==
    /\ mode \in Modes
    /\ tcb \in [TaskSlots -> TcbType]
    /\ rows \in [TaskSlots -> RowType]
    /\ taskcaps \in [TaskCaps -> TaskCapType]
    /\ names \in [NameSet -> CapType]
    /\ AtTyped

\* Only an exit is carried on after the task is gone.
ActorsLive ==
    \A s \in TaskSlots :
        at[s].do \in {"register", "mint", "install", "lookup", "move"} => tcb[s].live

AuthInv == IpcInv /\ AuthorityTypes /\ ActorsLive /\ AuthorityPersonal

-----------------------------------------------------------------------------
(* Facts about the parts *)

LEMMA IpcSame == ASSUME IpcInv, UNCHANGED ipcVars PROVE IpcInv'
BY NothingKeeps, Zenon DEF ipcVars, IpcInv

LEMMA Counts ==
    /\ TaskCount \in Nat \ {0} /\ SlotCount \in Nat \ {0} /\ TaskCapCount \in Nat \ {0}
    /\ EndpointCount \in Nat \ {0}
BY AuthorityAssumption, SizeAssumption, Zenon

LEMMA CapFacts ==
    /\ NoCap \in CapType /\ Resolving \notin CapType /\ EmptyRow \in RowType
    /\ \A i \in CapSlots, cap \in CapType :
        /\ RowWith(i, cap) \in RowType /\ RowWith(i, cap)[i] = cap
        /\ \A j \in CapSlots \ {i} : RowWith(i, cap)[j] = NoCap
    /\ \A i \in TaskCaps, gen \in Nat :
        TaskCap(i, gen) \in CapType /\ TaskCap(i, gen).index \notin Ends
    /\ NoCap.index \notin Ends
<1>1. NoCap \in CapType /\ Resolving \notin CapType
  BY DEF CapType, NoCap, Resolving
<1>2. EmptyRow \in RowType
  BY <1>1, Zenon DEF EmptyRow, RowType
<1>3. ASSUME NEW i \in CapSlots, NEW cap \in CapType
      PROVE  /\ RowWith(i, cap) \in RowType /\ RowWith(i, cap)[i] = cap
             /\ \A j \in CapSlots \ {i} : RowWith(i, cap)[j] = NoCap
  BY <1>1, <1>2, Zenon DEF RowWith, RowType, EmptyRow
<1>4. ASSUME NEW i \in TaskCaps, NEW gen \in Nat
      PROVE  TaskCap(i, gen) \in CapType /\ TaskCap(i, gen).index \notin Ends
  BY Counts DEF TaskCap, CapType, TaskCaps, Ends
<1>5. NoCap.index \notin Ends
  BY Counts DEF NoCap, Ends
<1>6. QED BY <1>1, <1>2, <1>3, <1>4, <1>5, Zenon

LEMMA SendCapsTyped ==
    ASSUME IpcInv, NEW cap \in SendCaps PROVE cap \in CapType /\ cap \in Caps /\ cap # NoCap
<1>1. PICK e \in Ends : cap = [index |-> e, generation |-> endpoints[e].generation]
  BY Zenon DEF SendCaps
<1>2. endpoints[e].generation \in Gens
  BY Zenon DEF IpcInv, EndType
<1>3. e \in 0 .. EndpointCount + TaskCapCount /\ endpoints[e].generation \in Nat
  BY <1>2, Counts, SizeAssumption DEF Ends, Gens
<1>4. QED BY <1>1, <1>2, <1>3 DEF CapType, Caps, NoCap

LEMMA ContinueOK ==
    ASSUME AtTyped, NEW s \in TaskSlots, NEW rest, AtOK(rest), Continue(s, rest)
    PROVE  /\ AtTyped' /\ at'[s] = rest
           /\ \A t \in TaskSlots \ {s} : at'[t] = at[t]
<1>1. at'[s] = rest /\ \A t \in TaskSlots \ {s} : at'[t] = at[t]
  BY Zenon DEF Continue, AtTyped
<1>2. at' = [t \in TaskSlots |-> at'[t]]
  BY Zenon DEF Continue, AtTyped
<1>3. \A t \in TaskSlots : AtOK(at'[t])
  BY <1>1, Zenon DEF AtTyped
<1>4. QED BY <1>1, <1>2, <1>3, Zenon DEF AtTyped

LEMMA FreeOK == AtOK(Free)
BY Zenon DEF AtOK, Free, Steps

\* A step that changes only the mailbox table.
LEMMA TableStep ==
    ASSUME AuthInv, IpcInv', UNCHANGED slotVars PROVE AuthInv'
BY Zenon DEF AuthInv, slotVars, AuthorityTypes, AtTyped, ActorsLive, AuthorityPersonal,
   GivenToTenant, GrantIsPersonal, LiveId

\* A step that changes only what its task has still to do.
LEMMA AtStep ==
    ASSUME AuthInv, UNCHANGED <<mode, tcb, rows, given>>, IpcInv',
           taskcaps' \in [TaskCaps -> TaskCapType], names' \in [NameSet -> CapType],
           NEW s \in TaskSlots, NEW rest, AtOK(rest), Continue(s, rest),
           rest.do \in {"register", "mint", "install", "lookup", "move"} => tcb[s].live
    PROVE  AuthInv'
<1>1. /\ AtTyped' /\ at'[s] = rest
      /\ \A t \in TaskSlots \ {s} : at'[t] = at[t]
  BY ContinueOK, Zenon DEF AuthInv, AuthorityTypes
<1>2. AuthorityTypes'
  BY <1>1, Zenon DEF AuthInv, AuthorityTypes
<1>3. ActorsLive'
  <2>1. ASSUME NEW t \in TaskSlots,
               at'[t].do \in {"register", "mint", "install", "lookup", "move"}
        PROVE  tcb'[t].live
    BY <1>1, <2>1, Zenon DEF AuthInv, ActorsLive
  <2>2. QED BY <2>1, Zenon DEF ActorsLive
<1>4. AuthorityPersonal'
  BY Zenon DEF AuthInv, AuthorityPersonal, GivenToTenant, GrantIsPersonal, LiveId
<1>5. QED BY <1>2, <1>3, <1>4, Zenon DEF AuthInv

-----------------------------------------------------------------------------
(* Every step keeps authority personal *)

LEMMA AuthInit == AuthorityInit => AuthInv
<1> SUFFICES ASSUME AuthorityInit PROVE AuthInv
  BY Zenon
<1> USE DEF AuthorityInit
<1>1. IpcInv
  BY IpcInitInv, Zenon
<1>2. 0 \in TaskSlots /\ <<0, 0>> \in Ids
  BY Counts DEF TaskSlots, Ids
<1>3. tcb \in [TaskSlots -> TcbType] /\ taskcaps \in [TaskCaps -> TaskCapType]
  BY <1>2, Zenon DEF TcbType, TaskCapType
<1>4. rows \in [TaskSlots -> RowType] /\ names \in [NameSet -> CapType]
  BY CapFacts, Zenon
<1>5. AtTyped
  BY FreeOK, Zenon DEF AtTyped
<1>6. AuthorityTypes
  BY <1>3, <1>4, <1>5, Zenon DEF AuthorityTypes
<1>7. ActorsLive
  BY Zenon DEF ActorsLive, Free
<1>8. GivenToTenant
  BY Zenon DEF GivenToTenant, EmptyRow
<1>9. GrantIsPersonal
  BY Zenon DEF GrantIsPersonal, LiveId
<1>10. QED BY <1>1, <1>6, <1>7, <1>8, <1>9, Zenon DEF AuthInv, AuthorityPersonal

LEMMA SpawnAuth ==
    ASSUME AuthInv, NEW p \in TaskSlots, NEW row \in RowType, SpawnWithSlots(p, row)
    PROVE  AuthInv'
<1>1. PICK s \in TaskSlots :
        /\ FreeSlot(s)
        /\ tcb' = [tcb EXCEPT ![s] = NewTcb(s, p)]
        /\ rows' = [rows EXCEPT ![s] = row]
        /\ given' = given \cup {<<LiveId(s), i, row[i]>> : i \in Held(row)}
  BY Zenon DEF SpawnWithSlots
<1>2. /\ Idle(p) /\ Continue(p, [do |-> "register", row |-> row])
      /\ UNCHANGED <<ipcVars, mode, taskcaps, names>>
  BY Zenon DEF SpawnWithSlots
<1>3. /\ tcb \in [TaskSlots -> TcbType] /\ rows \in [TaskSlots -> RowType]
      /\ AtTyped /\ ActorsLive /\ IpcInv /\ AuthorityTypes /\ GivenToTenant /\ GrantIsPersonal
  BY Zenon DEF AuthInv, AuthorityTypes, AuthorityPersonal
<1>4. NewTcb(s, p) \in TcbType
  BY <1>3, Zenon DEF NewTcb, TcbType, LiveId, Ids
<1>5. /\ tcb'[s].live /\ tcb'[s].epoch = tcb[s].epoch /\ ~tcb'[s].may_resolve
      /\ \A t \in TaskSlots \ {s} : tcb'[t] = tcb[t]
  BY <1>1, <1>3, Zenon DEF NewTcb
<1>6. rows'[s] = row /\ \A t \in TaskSlots \ {s} : rows'[t] = rows[t]
  BY <1>1, <1>3, Zenon
<1>7. \A t \in TaskSlots : LiveId(t)' = LiveId(t)
  BY <1>5, Zenon DEF LiveId
<1>8. AtOK([do |-> "register", row |-> row])
  BY Zenon DEF AtOK, Steps
<1>9. /\ AtTyped' /\ at'[p] = [do |-> "register", row |-> row]
      /\ \A t \in TaskSlots \ {p} : at'[t] = at[t]
  BY <1>2, <1>3, <1>8, ContinueOK, Zenon
<1>10. AuthorityTypes'
  BY <1>1, <1>2, <1>3, <1>4, <1>9, Zenon DEF AuthorityTypes
<1>11. tcb'[p].live
  BY <1>2, <1>5, Zenon DEF Idle
<1>12. ActorsLive'
  <2>1. ASSUME NEW t \in TaskSlots,
               at'[t].do \in {"register", "mint", "install", "lookup", "move"}
        PROVE  tcb'[t].live
    BY <1>3, <1>5, <1>9, <1>11, <2>1, Zenon DEF ActorsLive
  <2>2. QED BY <2>1, Zenon DEF ActorsLive
<1>13. GivenToTenant'
  <2>1. ASSUME NEW t \in TaskSlots, NEW i \in CapSlots, rows'[t][i] # NoCap
        PROVE  tcb'[t].live /\ <<LiveId(t)', i, rows'[t][i]>> \in given'
    <3>1. CASE t = s
      <4>1. i \in Held(row) /\ rows'[t][i] = row[i]
        BY <1>6, <2>1, <3>1, Zenon DEF Held
      <4>2. QED BY <1>1, <1>5, <1>7, <3>1, <4>1
    <3>2. CASE t # s
      <4>1. rows'[t][i] = rows[t][i] /\ tcb'[t] = tcb[t]
        BY <1>5, <1>6, <3>2, Zenon
      <4>2. tcb[t].live /\ <<LiveId(t), i, rows[t][i]>> \in given
        BY <1>3, <2>1, <4>1, Zenon DEF GivenToTenant
      <4>3. QED BY <1>1, <1>7, <4>1, <4>2
    <3>3. QED BY <3>1, <3>2, Zenon
  <2>2. QED BY <2>1, Zenon DEF GivenToTenant
<1>14. GrantIsPersonal'
  <2>1. ASSUME NEW t \in TaskSlots, tcb'[t].live, tcb'[t].may_resolve
        PROVE  <<LiveId(t)', 0, Resolving>> \in given'
    <3>1. t # s /\ tcb'[t] = tcb[t]
      BY <1>5, <2>1, Zenon
    <3>2. <<LiveId(t), 0, Resolving>> \in given
      BY <1>3, <2>1, <3>1, Zenon DEF GrantIsPersonal
    <3>3. QED BY <1>1, <1>7, <3>2, Zenon
  <2>2. QED BY <2>1, Zenon DEF GrantIsPersonal
<1>15. QED BY <1>2, <1>3, <1>10, <1>12, <1>13, <1>14, IpcSame, Zenon DEF AuthInv,
              AuthorityPersonal

LEMMA RegisterAuth == ASSUME AuthInv, NEW s \in TaskSlots, Register(s) PROVE AuthInv'
<1>1. DOMAIN Slice(at[s].row) = 1 .. SlotCount /\ SlotCount \in Nat
  BY Counts, Zenon DEF Slice
<1>2. IpcInv'
  BY <1>1, RegisterInv, Zenon DEF Register, AuthInv
<1>3. taskcaps' \in [TaskCaps -> TaskCapType] /\ names' \in [NameSet -> CapType]
  BY Zenon DEF Register, AuthInv, AuthorityTypes
<1>4. Free.do = "run"
  BY Zenon DEF Free
<1>5. QED BY <1>2, <1>3, <1>4, AtStep, FreeOK, Zenon DEF Register

LEMMA ReleaseAuth == ASSUME AuthInv, NEW s \in TaskSlots, Release(s) PROVE AuthInv'
<1>1. DOMAIN Slice(at[s].row) = 1 .. SlotCount /\ SlotCount \in Nat
  BY Counts, Zenon DEF Slice
<1>2. IpcInv'
  BY <1>1, ReleaseInv, Zenon DEF Release, AuthInv
<1>3. taskcaps' \in [TaskCaps -> TaskCapType] /\ names' \in [NameSet -> CapType]
  BY Zenon DEF Release, AuthInv, AuthorityTypes
<1>4. AtOK(at[s]) /\ at[s].do = "release"
  BY Zenon DEF AuthInv, AuthorityTypes, AtTyped, Release, In
<1>5. PICK rest : rest = [do |-> "revoke", id |-> at[s].id]
  BY Zenon
<1>6. AtOK(rest) /\ rest.do = "revoke"
  BY <1>4, <1>5, Zenon DEF AtOK, Steps
<1>7. QED BY <1>2, <1>3, <1>5, <1>6, AtStep, Zenon DEF Release

LEMMA RevokeTaskAuth == ASSUME AuthInv, NEW s \in TaskSlots, RevokeTask(s) PROVE AuthInv'
<1>1. IpcInv'
  BY IpcSame, Zenon DEF AuthInv, RevokeTask
<1>2. taskcaps' \in [TaskCaps -> TaskCapType]
  BY Zenon DEF AuthInv, AuthorityTypes, RevokeTask, Revoked, TaskCapType
<1>3. names' \in [NameSet -> CapType]
  BY Zenon DEF RevokeTask, AuthInv, AuthorityTypes
<1>4. Free.do = "run"
  BY Zenon DEF Free
<1>5. QED BY <1>1, <1>2, <1>3, <1>4, AtStep, FreeOK, Zenon DEF RevokeTask

LEMMA PickAuth == ASSUME AuthInv, NEW slot \in CapSlots, PickTask(slot) PROVE AuthInv'
<1>1. PICK t \in TaskSlots :
        tcb[t].live /\ Continue(0, [do |-> "mint", id |-> LiveId(t), slot |-> slot])
  BY Zenon DEF PickTask
<1>2. PICK rest : rest = [do |-> "mint", id |-> LiveId(t), slot |-> slot]
  BY Zenon
<1>3. LiveId(t) \in Ids
  BY Zenon DEF AuthInv, AuthorityTypes, TcbType, LiveId, Ids
<1>4. AtOK(rest)
  BY <1>2, <1>3, Zenon DEF AtOK, Steps
<1>5. 0 \in TaskSlots /\ tcb[0].live
  BY Counts DEF TaskSlots, PickTask, Idle
<1>6. /\ taskcaps' \in [TaskCaps -> TaskCapType] /\ names' \in [NameSet -> CapType]
      /\ UNCHANGED <<mode, tcb, rows, given>> /\ IpcInv'
  BY IpcSame, Zenon DEF PickTask, AuthInv, AuthorityTypes
<1>7. QED BY <1>1, <1>2, <1>4, <1>5, <1>6, AtStep, Zenon

LEMMA MintAuth == ASSUME AuthInv, NEW s \in TaskSlots, Mint(s) PROVE AuthInv'
<1>1. AtOK(at[s]) /\ at[s].do = "mint" /\ tcb[s].live
  BY Zenon DEF AuthInv, AuthorityTypes, AtTyped, ActorsLive, Mint, In
<1>2. /\ names' \in [NameSet -> CapType] /\ taskcaps \in [TaskCaps -> TaskCapType]
      /\ UNCHANGED <<mode, tcb, rows, given>> /\ IpcInv'
  BY IpcSame, Zenon DEF Mint, AuthInv, AuthorityTypes
<1>3. CASE Continue(s, Free) /\ UNCHANGED taskcaps
  BY <1>1, <1>2, <1>3, AtStep, FreeOK, Zenon
<1>4. ASSUME NEW i \in TaskCaps,
             taskcaps' = [taskcaps EXCEPT ![i] =
                    [live |-> TRUE, generation |-> NextGen(@.generation),
                     task |-> at[s].id]],
             Continue(s, [do |-> "install", slot |-> at[s].slot,
                          cap |-> TaskCap(i, taskcaps'[i].generation)])
      PROVE  AuthInv'
  <2>1. NextGen(taskcaps[i].generation) \in Nat
    BY <1>2 DEF TaskCapType, NextGen
  <2>2. at[s].id \in Ids /\ at[s].slot \in CapSlots
    BY <1>1, Zenon DEF AtOK
  <2>3. taskcaps' \in [TaskCaps -> TaskCapType]
    BY <1>2, <1>4, <2>1, <2>2, Zenon DEF TaskCapType
  <2>4. taskcaps'[i].generation \in Nat
    BY <2>3, Zenon DEF TaskCapType
  <2>5. PICK rest : rest = [do |-> "install", slot |-> at[s].slot,
                            cap |-> TaskCap(i, taskcaps'[i].generation)]
    BY Zenon
  <2>6. AtOK(rest)
    BY <2>2, <2>4, <2>5, CapFacts, Zenon DEF AtOK, Steps
  <2>7. QED BY <1>1, <1>2, <1>4, <2>3, <2>5, <2>6, AtStep, Zenon
<1>5. QED BY <1>3, <1>4, Zenon DEF Mint

LEMMA ResolveAuth ==
    ASSUME AuthInv, NEW s \in TaskSlots, NEW slot \in CapSlots, NEW name \in NameSet,
           Resolve(s, slot, name)
    PROVE  AuthInv'
<1>1. PICK rest : rest = [do |-> "install", slot |-> slot, cap |-> names[name]]
  BY Zenon
<1>2. AtOK(rest)
  BY <1>1, Zenon DEF AuthInv, AuthorityTypes, AtOK, Steps
<1>3. /\ taskcaps' \in [TaskCaps -> TaskCapType] /\ names' \in [NameSet -> CapType]
      /\ UNCHANGED <<mode, tcb, rows, given>> /\ IpcInv' /\ tcb[s].live
  BY IpcSame, Zenon DEF Resolve, AuthInv, AuthorityTypes, Idle
<1>4. QED BY <1>1, <1>2, <1>3, AtStep, Zenon DEF Resolve

LEMMA ToCreatorAuth ==
    ASSUME AuthInv, NEW s \in TaskSlots, NEW from \in CapSlots, NEW to \in CapSlots,
           ToCreator(s, from, to)
    PROVE  AuthInv'
<1>1. PICK rest : rest = [do |-> "move", from |-> from, id |-> tcb[s].creator, to |-> to]
  BY Zenon
<1>2. tcb[s].creator \in Ids
  BY Zenon DEF AuthInv, AuthorityTypes, TcbType
<1>3. AtOK(rest)
  BY <1>1, <1>2, Zenon DEF AtOK, Steps
<1>4. /\ taskcaps' \in [TaskCaps -> TaskCapType] /\ names' \in [NameSet -> CapType]
      /\ UNCHANGED <<mode, tcb, rows, given>> /\ IpcInv' /\ tcb[s].live
  BY IpcSame, Zenon DEF ToCreator, AuthInv, AuthorityTypes, Idle
<1>5. QED BY <1>1, <1>3, <1>4, AtStep, Zenon DEF ToCreator

LEMMA ToPeerAuth ==
    ASSUME AuthInv, NEW s \in TaskSlots, NEW from \in CapSlots, NEW to \in CapSlots,
           NEW slot \in CapSlots, ToPeer(s, from, to, slot)
    PROVE  AuthInv'
<1>1. PICK rest : rest = [do |-> "lookup", from |-> from, cap |-> rows[s][slot], to |-> to]
  BY Zenon
<1>2. rows[s][slot] \in CapType
  BY Zenon DEF AuthInv, AuthorityTypes, RowType
<1>3. AtOK(rest)
  BY <1>1, <1>2, Zenon DEF AtOK, Steps
<1>4. /\ taskcaps' \in [TaskCaps -> TaskCapType] /\ names' \in [NameSet -> CapType]
      /\ UNCHANGED <<mode, tcb, rows, given>> /\ IpcInv' /\ tcb[s].live
  BY IpcSame, Zenon DEF ToPeer, AuthInv, AuthorityTypes, Idle
<1>5. QED BY <1>1, <1>3, <1>4, AtStep, Zenon DEF ToPeer

LEMMA LookupAuth == ASSUME AuthInv, NEW s \in TaskSlots, Lookup(s) PROVE AuthInv'
<1>1. AtOK(at[s]) /\ at[s].do = "lookup" /\ tcb[s].live
  BY Zenon DEF AuthInv, AuthorityTypes, AtTyped, ActorsLive, Lookup, In
<1>2. /\ taskcaps' \in [TaskCaps -> TaskCapType] /\ names' \in [NameSet -> CapType]
      /\ UNCHANGED <<mode, tcb, rows, given>> /\ IpcInv'
      /\ taskcaps \in [TaskCaps -> TaskCapType]
  BY IpcSame, Zenon DEF Lookup, AuthInv, AuthorityTypes
<1>3. PICK cap : cap = at[s].cap
  BY Zenon
<1>4. cap \in CapType /\ at[s].from \in CapSlots /\ at[s].to \in CapSlots
  BY <1>1, <1>3, Zenon DEF AtOK
<1>5. CASE NamesTask(cap) /\ taskcaps[TaskIndex(cap)].task # LiveId(s)
  <2>1. TaskIndex(cap) \in TaskCaps
    <3>1. cap \in [index : 0 .. EndpointCount + TaskCapCount, generation : Nat]
      BY <1>4, <1>5, Counts DEF NamesTask, IsEndpoint, CapType, NoCap
    <3>2. cap.index \in 0 .. EndpointCount + TaskCapCount /\ ~(cap.index <= EndpointCount)
      BY <1>5, <3>1, Zenon DEF NamesTask, IsEndpoint
    <3>3. QED BY <3>2, Counts DEF TaskIndex, TaskCaps
  <2>2. taskcaps[TaskIndex(cap)].task \in Ids
    BY <1>2, <2>1, Zenon DEF TaskCapType
  <2>3. PICK rest : rest = [do |-> "move", from |-> at[s].from, to |-> at[s].to,
                            id |-> taskcaps[TaskIndex(cap)].task]
    BY Zenon
  <2>4. AtOK(rest)
    BY <1>4, <2>2, <2>3, Zenon DEF AtOK, Steps
  <2>5. Continue(s, rest)
    BY <1>3, <1>5, <2>3, Zenon DEF Lookup
  <2>6. QED BY <1>1, <1>2, <2>4, <2>5, AtStep, Zenon
<1>6. CASE ~(NamesTask(cap) /\ taskcaps[TaskIndex(cap)].task # LiveId(s))
  <2>1. Continue(s, Free)
    BY <1>3, <1>6, Zenon DEF Lookup
  <2>2. QED BY <1>1, <1>2, <2>1, AtStep, FreeOK, Zenon
<1>7. QED BY <1>5, <1>6, Zenon

LEMMA ExitAuth == ASSUME AuthInv, NEW s \in TaskSlots, Exit(s) PROVE AuthInv'
<1>1. /\ tcb \in [TaskSlots -> TcbType] /\ rows \in [TaskSlots -> RowType]
      /\ AtTyped /\ ActorsLive /\ IpcInv /\ AuthorityTypes /\ GivenToTenant /\ GrantIsPersonal
  BY Zenon DEF AuthInv, AuthorityTypes, AuthorityPersonal
<1>2. /\ tcb' = [tcb EXCEPT ![s].live = FALSE, ![s].epoch = @ + 1]
      /\ rows' = [rows EXCEPT ![s] = EmptyRow]
      /\ given' = {g \in given : g[1] # LiveId(s)}
      /\ Continue(s, [do |-> "release", row |-> rows[s], id |-> LiveId(s)])
      /\ UNCHANGED <<ipcVars, mode, taskcaps, names>>
  BY Zenon DEF Exit, Drained
<1>3. /\ tcb' \in [TaskSlots -> TcbType] /\ ~tcb'[s].live
      /\ \A t \in TaskSlots \ {s} : tcb'[t] = tcb[t]
  BY <1>1, <1>2 DEF TcbType
<1>4. /\ rows' \in [TaskSlots -> RowType] /\ rows'[s] = EmptyRow
      /\ \A t \in TaskSlots \ {s} : rows'[t] = rows[t]
  BY <1>1, <1>2, CapFacts, Zenon
<1>5. LiveId(s) \in Ids /\ rows[s] \in RowType
  BY <1>1, Zenon DEF LiveId, Ids, TcbType
<1>6. PICK rest : rest = [do |-> "release", row |-> rows[s], id |-> LiveId(s)]
  BY Zenon
<1>7. AtOK(rest) /\ rest.do = "release"
  BY <1>5, <1>6, Zenon DEF AtOK, Steps
<1>8. /\ AtTyped' /\ at'[s] = rest /\ \A t \in TaskSlots \ {s} : at'[t] = at[t]
  BY <1>1, <1>2, <1>6, <1>7, ContinueOK, Zenon
<1>9. AuthorityTypes'
  BY <1>1, <1>2, <1>3, <1>4, <1>8, Zenon DEF AuthorityTypes
<1>10. ActorsLive'
  <2>1. ASSUME NEW t \in TaskSlots,
               at'[t].do \in {"register", "mint", "install", "lookup", "move"}
        PROVE  tcb'[t].live
    <3>1. t # s
      BY <1>7, <1>8, <2>1, Zenon
    <3>2. QED BY <1>1, <1>3, <1>8, <2>1, <3>1, Zenon DEF ActorsLive
  <2>2. QED BY <2>1, Zenon DEF ActorsLive
<1>11. \A t \in TaskSlots \ {s} : LiveId(t)' = LiveId(t) /\ LiveId(t) # LiveId(s)
  BY <1>3, Zenon DEF LiveId
<1>12. GivenToTenant'
  <2>1. ASSUME NEW t \in TaskSlots, NEW i \in CapSlots, rows'[t][i] # NoCap
        PROVE  tcb'[t].live /\ <<LiveId(t)', i, rows'[t][i]>> \in given'
    <3>1. t # s
      BY <1>4, <2>1, Zenon DEF EmptyRow
    <3>2. rows'[t][i] = rows[t][i] /\ tcb'[t] = tcb[t]
      BY <1>3, <1>4, <3>1, Zenon
    <3>3. tcb[t].live /\ <<LiveId(t), i, rows[t][i]>> \in given
      BY <1>1, <2>1, <3>2, Zenon DEF GivenToTenant
    <3>4. QED BY <1>2, <1>11, <3>1, <3>2, <3>3
  <2>2. QED BY <2>1, Zenon DEF GivenToTenant
<1>13. GrantIsPersonal'
  <2>1. ASSUME NEW t \in TaskSlots, tcb'[t].live, tcb'[t].may_resolve
        PROVE  <<LiveId(t)', 0, Resolving>> \in given'
    <3>1. t # s /\ tcb'[t] = tcb[t]
      BY <1>3, <2>1, Zenon
    <3>2. <<LiveId(t), 0, Resolving>> \in given
      BY <1>1, <2>1, <3>1, Zenon DEF GrantIsPersonal
    <3>3. QED BY <1>2, <1>11, <3>1, <3>2, Zenon
  <2>2. QED BY <2>1, Zenon DEF GrantIsPersonal
<1>14. QED BY <1>1, <1>2, <1>9, <1>10, <1>12, <1>13, IpcSame, Zenon DEF AuthInv,
              AuthorityPersonal

LEMMA InstallAuth == ASSUME AuthInv, NEW s \in TaskSlots, InstallCap(s) PROVE AuthInv'
<1>1. /\ AtTyped /\ AtOK(at[s]) /\ at[s].do = "install" /\ tcb[s].live
      /\ rows \in [TaskSlots -> RowType] /\ IpcInv /\ AuthorityTypes /\ ActorsLive
      /\ GivenToTenant /\ GrantIsPersonal
  BY Zenon DEF AuthInv, AuthorityTypes, AuthorityPersonal, AtTyped, ActorsLive, InstallCap,
     In
<1>2. PICK slot, cap : slot = at[s].slot /\ cap = at[s].cap
  BY Zenon
<1>3. slot \in CapSlots /\ cap \in CapType
  BY <1>1, <1>2, Zenon DEF AtOK
<1>4. UNCHANGED <<ipcVars, mode, tcb, taskcaps, names>> /\ IpcInv'
  BY <1>1, IpcSame, Zenon DEF InstallCap
<1>5. CASE rows[s][slot] = NoCap
  <2>1. /\ rows' = [rows EXCEPT ![s][slot] = cap]
        /\ given' = given \cup {<<LiveId(s), slot, cap>>}
        /\ Continue(s, [do |-> "register", row |-> RowWith(slot, cap)])
    BY <1>2, <1>5, Zenon DEF InstallCap
  <2>2. /\ rows' \in [TaskSlots -> RowType] /\ rows'[s][slot] = cap
        /\ \A t \in TaskSlots, i \in CapSlots :
              t # s \/ i # slot => rows'[t][i] = rows[t][i]
    BY <1>1, <1>3, <2>1, Zenon DEF RowType
  <2>3. PICK rest : rest = [do |-> "register", row |-> RowWith(slot, cap)]
    BY Zenon
  <2>4. AtOK(rest)
    BY <1>3, <2>3, CapFacts, Zenon DEF AtOK, Steps
  <2>5. /\ AtTyped' /\ at'[s] = rest /\ \A t \in TaskSlots \ {s} : at'[t] = at[t]
    BY <1>1, <2>1, <2>3, <2>4, ContinueOK, Zenon
  <2>6. AuthorityTypes'
    BY <1>1, <1>4, <2>2, <2>5, Zenon DEF AuthorityTypes
  <2>7. ActorsLive'
    BY <1>1, <1>4, <2>5, Zenon DEF ActorsLive
  <2>8. GivenToTenant'
    <3>1. ASSUME NEW t \in TaskSlots, NEW i \in CapSlots, rows'[t][i] # NoCap
          PROVE  tcb'[t].live /\ <<LiveId(t)', i, rows'[t][i]>> \in given'
      <4>1. CASE t = s /\ i = slot
        BY <1>1, <1>4, <2>1, <2>2, <4>1 DEF LiveId
      <4>2. CASE t # s \/ i # slot
        <5>1. rows'[t][i] = rows[t][i]
          BY <2>2, <4>2, Zenon
        <5>2. tcb[t].live /\ <<LiveId(t), i, rows[t][i]>> \in given
          BY <1>1, <3>1, <5>1, Zenon DEF GivenToTenant
        <5>3. QED BY <1>4, <2>1, <5>1, <5>2 DEF LiveId
      <4>3. QED BY <4>1, <4>2, Zenon
    <3>2. QED BY <3>1, Zenon DEF GivenToTenant
  <2>9. GrantIsPersonal'
    BY <1>1, <1>4, <2>1, Zenon DEF GrantIsPersonal, LiveId
  <2>10. QED BY <1>4, <2>6, <2>7, <2>8, <2>9, Zenon DEF AuthInv, AuthorityPersonal
<1>6. CASE rows[s][slot] # NoCap
  <2>1. Continue(s, Free) /\ UNCHANGED <<rows, given>>
    BY <1>2, <1>6, Zenon DEF InstallCap
  <2>2. taskcaps' \in [TaskCaps -> TaskCapType] /\ names' \in [NameSet -> CapType]
    BY <1>1, <1>4, Zenon DEF AuthorityTypes
  <2>3. QED BY <1>1, <1>4, <2>1, <2>2, AtStep, FreeOK, Zenon
<1>7. QED BY <1>5, <1>6, Zenon

\* bind and unbind change the names only.
LEMMA NamesAuth ==
    ASSUME AuthInv, NEW name \in NameSet, NEW cap \in CapType,
           names' = [names EXCEPT ![name] = cap],
           UNCHANGED <<ipcVars, mode, tcb, rows, taskcaps, at, given>>
    PROVE  AuthInv'
<1>1. names' \in [NameSet -> CapType]
  BY Zenon DEF AuthInv, AuthorityTypes
<1>2. AuthorityTypes'
  BY <1>1, Zenon DEF AuthInv, AuthorityTypes, AtTyped
<1>3. IpcInv'
  BY IpcSame, Zenon DEF AuthInv
<1>4. ActorsLive' /\ AuthorityPersonal'
  BY Zenon DEF AuthInv, ActorsLive, AuthorityPersonal, GivenToTenant, GrantIsPersonal,
     LiveId
<1>5. QED BY <1>2, <1>3, <1>4, Zenon DEF AuthInv

LEMMA GrantAuth == ASSUME AuthInv, NEW id \in Ids, GrantResolve(id) PROVE AuthInv'
<1>1. /\ tcb \in [TaskSlots -> TcbType] /\ IpcInv /\ AuthorityTypes /\ ActorsLive
      /\ GivenToTenant /\ GrantIsPersonal
  BY Zenon DEF AuthInv, AuthorityTypes, AuthorityPersonal
<1>2. PICK s \in TaskSlots : s = id[1]
  BY Zenon DEF Ids
<1>3. /\ tcb' = [tcb EXCEPT ![s].may_resolve = TRUE]
      /\ given' = given \cup {<<id, 0, Resolving>>} /\ LiveId(s) = id
      /\ UNCHANGED <<ipcVars, mode, rows, taskcaps, names, at>>
  BY <1>2, Zenon DEF GrantResolve, Exists
<1>4. /\ tcb' \in [TaskSlots -> TcbType]
      /\ \A t \in TaskSlots : tcb'[t].live = tcb[t].live /\ tcb'[t].epoch = tcb[t].epoch
      /\ \A t \in TaskSlots \ {s} : tcb'[t] = tcb[t]
  BY <1>1, <1>3, Zenon DEF TcbType
<1>5. \A t \in TaskSlots : LiveId(t)' = LiveId(t)
  BY <1>4, Zenon DEF LiveId
<1>6. AuthorityTypes'
  BY <1>1, <1>3, <1>4, Zenon DEF AuthorityTypes, AtTyped
<1>7. ActorsLive'
  BY <1>1, <1>3, <1>4, Zenon DEF ActorsLive
<1>8. GivenToTenant'
  BY <1>1, <1>3, <1>4, <1>5, Zenon DEF GivenToTenant
<1>9. GrantIsPersonal'
  <2>1. ASSUME NEW t \in TaskSlots, tcb'[t].live, tcb'[t].may_resolve
        PROVE  <<LiveId(t)', 0, Resolving>> \in given'
    <3>1. CASE t = s
      BY <1>3, <1>5, <3>1, Zenon
    <3>2. CASE t # s
      BY <1>1, <1>3, <1>4, <1>5, <2>1, <3>2, Zenon DEF GrantIsPersonal
    <3>3. QED BY <3>1, <3>2, Zenon
  <2>2. QED BY <2>1, Zenon DEF GrantIsPersonal
<1>10. QED BY <1>1, <1>3, <1>6, <1>7, <1>8, <1>9, IpcSame, Zenon DEF AuthInv,
              AuthorityPersonal

\* What a transfer that the checks allow does to the rows.
LEMMA MovedReads ==
    ASSUME rows \in [TaskSlots -> RowType], NEW s \in TaskSlots, NEW t \in TaskSlots,
           NEW from \in CapSlots, NEW to \in CapSlots, ~(t = s /\ from = to)
    PROVE  /\ Moved(s, from, t, to) \in [TaskSlots -> RowType]
           /\ Moved(s, from, t, to)[s][from] = NoCap
           /\ Moved(s, from, t, to)[t][to] = rows[s][from]
           /\ \A u \in TaskSlots, i \in CapSlots :
                ~(u = s /\ i = from) /\ ~(u = t /\ i = to)
                    => Moved(s, from, t, to)[u][i] = rows[u][i]
<1>1. NoCap \in CapType
  BY CapFacts, Zenon
<1>2. PICK mid : mid = [rows EXCEPT ![s][from] = NoCap]
  BY Zenon
<1>3. /\ mid \in [TaskSlots -> RowType] /\ mid[s][from] = NoCap
      /\ \A u \in TaskSlots, i \in CapSlots :
            ~(u = s /\ i = from) => mid[u][i] = rows[u][i]
  BY <1>1, <1>2, Zenon DEF RowType
<1>4. Moved(s, from, t, to) = [mid EXCEPT ![t][to] = rows[s][from]]
  BY <1>2, Zenon DEF Moved
<1>5. rows[s][from] \in CapType
  BY Zenon DEF RowType
<1>6. QED BY <1>3, <1>4, <1>5 DEF RowType

LEMMA TransferAuth ==
    ASSUME AuthInv, NEW s \in TaskSlots, tcb[s].live, NEW from \in CapSlots,
           NEW to \in CapSlots, NEW id \in Ids, TransferHeld(s, from, id, to),
           UNCHANGED <<ipcVars, mode, tcb, taskcaps, names>>,
           AtTyped', \A u \in TaskSlots : at'[u] = at[u] \/ at'[u] = Free
    PROVE  AuthInv'
<1>1. /\ rows \in [TaskSlots -> RowType] /\ IpcInv /\ AuthorityTypes /\ ActorsLive
      /\ GivenToTenant /\ GrantIsPersonal
  BY Zenon DEF AuthInv, AuthorityTypes, AuthorityPersonal
<1>2. ActorsLive' /\ IpcInv'
  BY <1>1, IpcSame DEF ActorsLive, Free
<1>3. \A u \in TaskSlots : LiveId(u)' = LiveId(u)
  BY Zenon DEF LiveId
<1>4. CASE UNCHANGED <<rows, given>>
  <2>1. AuthorityTypes'
    BY <1>1, <1>4, Zenon DEF AuthorityTypes
  <2>2. AuthorityPersonal'
    BY <1>1, <1>4, Zenon DEF AuthorityPersonal, GivenToTenant, GrantIsPersonal, LiveId
  <2>3. QED BY <1>2, <2>1, <2>2, Zenon DEF AuthInv
<1>5. CASE ~UNCHANGED <<rows, given>>
  <2>1. PICK t \in TaskSlots : t = id[1]
    BY Zenon DEF Ids
  <2>2. PICK cap : cap = rows[s][from]
    BY Zenon
  <2>3. /\ id = LiveId(s) \/ Exists(id)
        /\ ~(t = s /\ from = to)
        /\ rows' = Moved(s, from, t, to)
        /\ given' = (given \ {<<LiveId(s), from, cap>>}) \cup {<<id, to, cap>>}
    BY <1>5, <2>1, <2>2, Zenon DEF TransferHeld
  <2>4. tcb[t].live /\ LiveId(t) = id
    BY <2>1, <2>3 DEF Exists, LiveId
  <2>5. /\ rows' \in [TaskSlots -> RowType] /\ rows'[s][from] = NoCap /\ rows'[t][to] = cap
        /\ \A u \in TaskSlots, i \in CapSlots :
              ~(u = s /\ i = from) /\ ~(u = t /\ i = to) => rows'[u][i] = rows[u][i]
    BY <1>1, <2>2, <2>3, MovedReads
  <2>6. cap \in CapType
    BY <1>1, <2>2, Zenon DEF RowType
  <2>7. AuthorityTypes'
    BY <1>1, <2>5, Zenon DEF AuthorityTypes
  <2>8. GivenToTenant'
    <3>1. ASSUME NEW u \in TaskSlots, NEW i \in CapSlots, rows'[u][i] # NoCap
          PROVE  tcb'[u].live /\ <<LiveId(u)', i, rows'[u][i]>> \in given'
      <4>1. CASE u = t /\ i = to
        BY <1>3, <2>3, <2>4, <2>5, <4>1, Zenon
      <4>2. CASE ~(u = t /\ i = to)
        <5>1. ~(u = s /\ i = from) /\ rows'[u][i] = rows[u][i]
          BY <2>5, <3>1, <4>2, Zenon
        <5>2. tcb[u].live /\ <<LiveId(u), i, rows[u][i]>> \in given
          BY <1>1, <3>1, <5>1, Zenon DEF GivenToTenant
        <5>3. <<LiveId(u), i, rows[u][i]>> # <<LiveId(s), from, cap>>
          BY <5>1, Zenon DEF LiveId
        <5>4. QED BY <1>3, <2>3, <5>1, <5>2, <5>3, Zenon
      <4>3. QED BY <4>1, <4>2, Zenon
    <3>2. QED BY <3>1, Zenon DEF GivenToTenant
  <2>9. GrantIsPersonal'
    <3>1. ASSUME NEW u \in TaskSlots, tcb'[u].live, tcb'[u].may_resolve
          PROVE  <<LiveId(u)', 0, Resolving>> \in given'
      <4>1. <<LiveId(u), 0, Resolving>> \in given
        BY <1>1, <3>1, Zenon DEF GrantIsPersonal
      <4>2. cap # Resolving
        BY <2>6, CapFacts, Zenon
      <4>3. QED BY <1>3, <2>3, <4>1, <4>2, Zenon
    <3>2. QED BY <3>1, Zenon DEF GrantIsPersonal
  <2>10. QED BY <1>2, <2>7, <2>8, <2>9, Zenon DEF AuthInv, AuthorityPersonal
<1>6. QED BY <1>4, <1>5, Zenon

LEMMA ToSelfAuth ==
    ASSUME AuthInv, NEW s \in TaskSlots, NEW from \in CapSlots, NEW to \in CapSlots,
           ToSelf(s, from, to)
    PROVE  AuthInv'
<1>1. tcb[s].live /\ TransferHeld(s, from, LiveId(s), to)
      /\ UNCHANGED <<ipcVars, mode, tcb, taskcaps, names, at>>
  BY Zenon DEF ToSelf, Idle
<1>2. LiveId(s) \in Ids
  BY Zenon DEF AuthInv, AuthorityTypes, TcbType, LiveId, Ids
<1>3. AtTyped'
  BY <1>1, Zenon DEF AuthInv, AuthorityTypes, AtTyped
<1>4. QED BY <1>1, <1>2, <1>3, TransferAuth, Zenon

LEMMA MoveAuth == ASSUME AuthInv, NEW s \in TaskSlots, Move(s) PROVE AuthInv'
<1>1. AtTyped /\ AtOK(at[s]) /\ at[s].do = "move" /\ tcb[s].live
  BY Zenon DEF AuthInv, AuthorityTypes, AtTyped, ActorsLive, Move, In
<1>2. at[s].from \in CapSlots /\ at[s].to \in CapSlots /\ at[s].id \in Ids
  BY <1>1, Zenon DEF AtOK
<1>3. /\ TransferHeld(s, at[s].from, at[s].id, at[s].to)
      /\ UNCHANGED <<ipcVars, mode, tcb, taskcaps, names>> /\ Continue(s, Free)
  BY Zenon DEF Move
<1>4. AtTyped' /\ \A u \in TaskSlots : at'[u] = at[u] \/ at'[u] = Free
  BY <1>1, <1>3, ContinueOK, FreeOK, Zenon
<1>5. QED BY <1>1, <1>2, <1>3, <1>4, TransferAuth, Zenon

LEMMA BootAuth == ASSUME AuthInv, BootStep PROVE AuthInv'
<1>1. IpcInv
  BY Zenon DEF AuthInv
<1>2. CASE Create
  BY <1>1, <1>2, CreateInv, TableStep, Zenon DEF Create
<1>3. CASE Revoke
  BY <1>1, <1>3, SendCapsTyped, RevokeInv, TableStep, Zenon DEF Revoke
<1>4. ASSUME NEW slot \in CapSlots, PickTask(slot) PROVE AuthInv'
  BY <1>4, PickAuth, Zenon
<1>5. ASSUME NEW name \in NameSet, NEW cap \in SendCaps, Bind(name, cap) PROVE AuthInv'
  BY <1>1, <1>5, SendCapsTyped, NamesAuth, Zenon DEF Bind
<1>6. ASSUME NEW name \in NameSet, Unbind(name) PROVE AuthInv'
  BY <1>6, CapFacts, NamesAuth, Zenon DEF Unbind
<1>7. ASSUME NEW s \in TaskSlots \ {0}, NEW e \in 0 .. MaxSpawns - 1, GrantResolve(<<s, e>>)
      PROVE  AuthInv'
  <2>1. <<s, e>> \in Ids
    BY AuthorityAssumption DEF Ids
  <2>2. QED BY <1>7, <2>1, GrantAuth, Zenon
<1>8. QED BY <1>2, <1>3, <1>4, <1>5, <1>6, <1>7, Zenon DEF BootStep

LEMMA SlotAuth == ASSUME AuthInv, NEW s \in TaskSlots, SlotStep(s) PROVE AuthInv'
<1>1. IpcInv
  BY Zenon DEF AuthInv
<1>2. ASSUME NEW cap \in SendCaps \cup {NoCap}, SpawnWithSlots(s, RowWith(0, cap))
      PROVE  AuthInv'
  <2>1. RowWith(0, cap) \in RowType
    BY <1>1, SendCapsTyped, CapFacts, Counts DEF CapSlots
  <2>2. QED BY <1>2, <2>1, SpawnAuth, Zenon
<1>3. CASE Register(s) \/ Exit(s) \/ Release(s) \/ RevokeTask(s)
  BY <1>3, RegisterAuth, ExitAuth, ReleaseAuth, RevokeTaskAuth, Zenon
<1>4. CASE Mint(s) \/ InstallCap(s) \/ Lookup(s) \/ Move(s)
  BY <1>4, MintAuth, InstallAuth, LookupAuth, MoveAuth, Zenon
<1>5. ASSUME NEW slot \in CapSlots, NEW name \in NameSet, Resolve(s, slot, name)
      PROVE  AuthInv'
  BY <1>5, ResolveAuth, Zenon
<1>6. ASSUME NEW from \in CapSlots, NEW to \in CapSlots,
             ToSelf(s, from, to) \/ ToCreator(s, from, to)
      PROVE  AuthInv'
  BY <1>6, ToSelfAuth, ToCreatorAuth, Zenon
<1>7. ASSUME NEW from \in CapSlots, NEW to \in CapSlots, NEW slot \in CapSlots,
             ToPeer(s, from, to, slot)
      PROVE  AuthInv'
  BY <1>7, ToPeerAuth, Zenon
<1>8. QED BY <1>2, <1>3, <1>4, <1>5, <1>6, <1>7, Zenon DEF SlotStep

LEMMA AuthStep == AuthInv /\ [AuthorityNext]_authorityVars => AuthInv'
<1>1. ASSUME AuthInv, UNCHANGED authorityVars PROVE AuthInv'
  BY <1>1, IpcSame, TableStep, Zenon DEF authorityVars, AuthInv
<1>2. QED BY <1>1, BootAuth, SlotAuth, Zenon DEF AuthorityNext

\* The reachable states of the authority ledgers are well formed, and only
\* tasks that are there act on them.
THEOREM AuthorityInvariant == AuthoritySpec => []AuthInv
BY AuthInit, AuthStep, PTL DEF AuthoritySpec

\* A capability is in a row, and a task may resolve names, only by what that
\* very tenancy was given, whatever spawns, exits and transfers come between
\* (transfer_held, spawn_with_slots, resolve_outcome).
THEOREM AuthorityIsPersonal == AuthoritySpec => []AuthorityPersonal
<1>1. AuthInv => AuthorityPersonal
  BY Zenon DEF AuthInv
<1>2. QED BY <1>1, AuthorityInvariant, PTL

LEMMA TransferRows ==
    ASSUME AuthInv, NEW s \in TaskSlots, NEW from \in CapSlots, NEW to \in CapSlots,
           NEW id \in Ids, TransferHeld(s, from, id, to),
           NEW u \in TaskSlots, NEW i \in CapSlots, rows'[u][i] # rows[u][i]
    PROVE  rows'[u][i] = NoCap \/ IsEndpoint(rows'[u][i])
<1>1. PICK t \in TaskSlots : t = id[1]
  BY Zenon DEF Ids
<1>2. rows' = Moved(s, from, t, to) /\ ~(t = s /\ from = to) /\ Movable(rows[s][from])
  BY <1>1, Zenon DEF TransferHeld
<1>3. rows \in [TaskSlots -> RowType]
  BY Zenon DEF AuthInv, AuthorityTypes
<1>4. /\ rows'[s][from] = NoCap /\ rows'[t][to] = rows[s][from]
      /\ ~(u = s /\ i = from) /\ ~(u = t /\ i = to) => rows'[u][i] = rows[u][i]
  BY <1>2, <1>3, MovedReads
<1>5. QED BY <1>2, <1>4, Zenon DEF Movable

\* What a step may write into a row: only a spawn, for a slot without a tenant,
\* or an install writes a task capability.
RowsKeep ==
    \A s \in TaskSlots, i \in CapSlots :
        rows'[s][i] # rows[s][i] /\ rows'[s][i] # NoCap /\ ~IsEndpoint(rows'[s][i])
            => ~tcb[s].live \/ at[s].do = "install"

LEMMA RowsStep == AuthInv /\ [AuthorityNext]_authorityVars => RowsKeep
<1> SUFFICES ASSUME AuthInv, [AuthorityNext]_authorityVars, NEW u \in TaskSlots,
                    NEW i \in CapSlots, rows'[u][i] # rows[u][i], rows'[u][i] # NoCap,
                    ~IsEndpoint(rows'[u][i]), tcb[u].live
             PROVE  at[u].do = "install"
  BY Zenon DEF RowsKeep
<1>1. rows \in [TaskSlots -> RowType] /\ AtTyped
  BY Zenon DEF AuthInv, AuthorityTypes
<1>2. rows' # rows /\ ~UNCHANGED authorityVars
  BY Zenon DEF authorityVars, slotVars
<1>3. ~BootStep
  BY <1>2, Zenon DEF BootStep, Create, Revoke, PickTask, Bind, Unbind, GrantResolve,
     slotVars
<1>4. PICK s \in TaskSlots : SlotStep(s)
  BY <1>2, <1>3, Zenon DEF AuthorityNext
<1>5. ASSUME NEW row, SpawnWithSlots(s, row) PROVE FALSE
  BY <1>1, <1>5, Zenon DEF SpawnWithSlots, FreeSlot
<1>6. CASE Exit(s)
  BY <1>1, <1>6, Zenon DEF Exit, Drained, EmptyRow
<1>7. CASE InstallCap(s)
  BY <1>1, <1>7, Zenon DEF InstallCap, In
<1>8. CASE Move(s)
  <2>1. at[s].from \in CapSlots /\ at[s].to \in CapSlots /\ at[s].id \in Ids
    BY <1>1, <1>8, Zenon DEF AtTyped, AtOK, Move, In
  <2>2. QED BY <1>8, <2>1, TransferRows, Zenon DEF Move
<1>9. ASSUME NEW from \in CapSlots, NEW to \in CapSlots, ToSelf(s, from, to) PROVE FALSE
  <2>1. LiveId(s) \in Ids
    BY Zenon DEF AuthInv, AuthorityTypes, TcbType, LiveId, Ids
  <2>2. QED BY <1>9, <2>1, TransferRows, Zenon DEF ToSelf
<1>10. Exit(s) \/ InstallCap(s) \/ Move(s)
  BY <1>2, <1>4, <1>5, <1>9, Zenon DEF SlotStep, Register, Release, RevokeTask, Mint,
     Lookup, Resolve, ToCreator, ToPeer
<1>11. QED BY <1>6, <1>7, <1>8, <1>10, Zenon

\* A task capability never enters the row of a live task but by an install:
\* no transfer delegates one (capslots::Table::transfer, ADR-0055).
THEOREM TaskCapsNotDelegated == AuthoritySpec => TaskCapsStay
<1>1. AuthInv /\ [AuthorityNext]_authorityVars => [RowsKeep]_authorityVars
  BY RowsStep, Zenon
<1>2. AuthoritySpec => [][RowsKeep]_authorityVars
  BY <1>1, AuthorityInvariant, PTL DEF AuthoritySpec
<1>3. QED BY <1>2, Zenon DEF TaskCapsStay, RowsKeep
=============================================================================
