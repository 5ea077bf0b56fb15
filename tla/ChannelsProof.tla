---------------------------- MODULE ChannelsProof ----------------------------
(***************************************************************************)
(* The mailbox table implements Channels, for any sizes, as long as no     *)
(* generation repeats (MaxChannels is at most GenMax).  The invariant      *)
(* reads the history: channel number c was minted with generation c, and   *)
(* a live end or mailbox belongs to the channel of its generation.         *)
(***************************************************************************)
EXTENDS IpcChannels, AuthorityProof

\* The capability channel c was given for a right.
EndIn(m, c, right) == IF right = "SEND" THEN m[c].send ELSE m[c].recv
EndOf(c, right) == EndIn(minted, c, right)

HistInv ==
    /\ minted \in Seq([send : Caps, recv : Caps]) /\ Len(minted) <= MaxChannels
    /\ owner \in [Boxes -> Nat]
    /\ next_gen = IF Len(minted) = GenMax THEN 1 ELSE Len(minted) + 1
    /\ \A c \in 1 .. Len(minted) :
        /\ minted[c].send.generation = c /\ minted[c].recv.generation = c
        /\ minted[c].send.index # minted[c].recv.index
    /\ \A e \in Ends : endpoints[e].live =>
        LET g == endpoints[e].generation
            b == endpoints[e].mailbox
        IN /\ g \in 1 .. Len(minted) /\ endpoints[e].rights \in Rights
           /\ mailboxes[b].live /\ owner[b] = g
           /\ EndOf(g, endpoints[e].rights) = [index |-> e, generation |-> g]
    /\ \A b \in Boxes : mailboxes[b].live =>
        /\ owner[b] \in 1 .. Len(minted)
        /\ \A right \in Rights :
            /\ EndOf(owner[b], right).index \in Ends
            /\ endpoints[EndOf(owner[b], right).index] =
                 [live |-> TRUE, generation |-> owner[b], rights |-> right, mailbox |-> b]

ChannelsInv == IpcInv /\ HistInv

-----------------------------------------------------------------------------
(* The ring is the queue *)

QueueType == Seq(Msgs \cup {Empty})

LEMMA RingPlace ==
    ASSUME NEW t \in 0 .. Depth - 1, NEW i \in 1 .. Depth
    PROVE  /\ (t + i - 1) % Depth \in 0 .. Depth - 1
           /\ (t + i - 1) % Depth = IF t + i > Depth THEN t + i - 1 - Depth ELSE t + i - 1
<1>1. i - 1 \in 0 .. Depth /\ t + i - 1 = t + (i - 1)
  BY SizeAssumption
<1>2. (t + (i - 1)) % Depth = IF t + (i - 1) >= Depth THEN t + (i - 1) - Depth ELSE t + (i - 1)
  BY <1>1, RingSum, Zenon
<1>3. QED BY <1>1, <1>2, SizeAssumption

LEMMA QueueTyped ==
    ASSUME NEW box, BoxOK(box)
    PROVE  /\ QueueOf(box) \in QueueType /\ Len(QueueOf(box)) = box.len
           /\ \A i \in 1 .. box.len : QueueOf(box)[i] = box.buf[(box.tail + i - 1) % Depth]
<1>1. /\ box.len \in 0 .. Depth /\ box.len \in Nat /\ box.tail \in 0 .. Depth - 1
      /\ box.buf \in [0 .. Depth - 1 -> Msgs \cup {Empty}] /\ Depth \in Nat
  BY SizeAssumption DEF BoxOK, BoxType
<1>2. \A i \in 1 .. box.len : (box.tail + i - 1) % Depth \in 0 .. Depth - 1
  BY <1>1, RingPlace
<1>3. \A i \in 1 .. box.len : box.buf[(box.tail + i - 1) % Depth] \in Msgs \cup {Empty}
  BY <1>1, <1>2, Zenon
<1>4. QueueOf(box) \in [1 .. box.len -> Msgs \cup {Empty}]
  BY <1>1, <1>3, Zenon DEF QueueOf
<1>5. QueueOf(box) \in QueueType /\ Len(QueueOf(box)) = box.len
  BY <1>1, <1>4 DEF QueueType
<1>6. QED BY <1>5, Zenon DEF QueueOf

\* push appends, over the end of the buffer as well.
LEMMA QueuePush ==
    ASSUME NEW box, BoxOK(box), box.len < Depth, NEW msg \in Msgs
    PROVE  QueueOf(Delivered(box, msg)) = Append(QueueOf(box), msg)
<1> DEFINE new == Delivered(box, msg)
           n == box.len
<1>1. /\ n \in 0 .. Depth - 1 /\ n \in Nat /\ box.tail \in 0 .. Depth - 1 /\ Depth \in Nat
      /\ box.head \in 0 .. Depth - 1 /\ box.head = (box.tail + n) % Depth
      /\ box.buf \in [0 .. Depth - 1 -> Msgs \cup {Empty}]
  BY SizeAssumption DEF BoxOK, BoxType
<1>2. /\ new.len = n + 1 /\ new.tail = box.tail
      /\ new.buf = [box.buf EXCEPT ![box.head] = msg] /\ BoxOK(new)
  <2>1. BoxOK(new)
    BY DeliveredOK, Zenon
  <2>2. QED BY <2>1, Zenon DEF Delivered, Push, BoxOK, BoxType
<1> HIDE DEF new
<1>3. /\ QueueOf(new) \in QueueType /\ Len(QueueOf(new)) = n + 1
      /\ \A i \in 1 .. n + 1 : QueueOf(new)[i] = new.buf[(box.tail + i - 1) % Depth]
  <2>1. /\ QueueOf(new) \in QueueType /\ Len(QueueOf(new)) = new.len
        /\ \A i \in 1 .. new.len : QueueOf(new)[i] = new.buf[(new.tail + i - 1) % Depth]
    BY <1>2, QueueTyped, Zenon
  <2>2. QED BY <1>2, <2>1, Zenon
<1>4. /\ QueueOf(box) \in QueueType /\ Len(QueueOf(box)) = n
      /\ \A i \in 1 .. n : QueueOf(box)[i] = box.buf[(box.tail + i - 1) % Depth]
  BY QueueTyped, Zenon
<1> HIDE DEF n
<1>5. ASSUME NEW i \in 1 .. n PROVE QueueOf(new)[i] = QueueOf(box)[i]
  <2>0. i \in 1 .. Depth /\ i \in 1 .. n + 1 /\ n \in 0 .. Depth
    BY <1>1
  <2>1. /\ (box.tail + i - 1) % Depth \in 0 .. Depth - 1
        /\ (box.tail + i - 1) % Depth
             = IF box.tail + i > Depth THEN box.tail + i - 1 - Depth ELSE box.tail + i - 1
    BY <1>1, <2>0, RingPlace, Zenon
  <2>2. box.head = IF box.tail + n >= Depth THEN box.tail + n - Depth ELSE box.tail + n
    BY <1>1, <2>0, RingSum, Zenon
  <2>3. (box.tail + i - 1) % Depth # box.head
    BY <1>1, <2>1, <2>2
  <2>4. new.buf[(box.tail + i - 1) % Depth] = box.buf[(box.tail + i - 1) % Depth]
    BY <1>1, <1>2, <2>1, <2>3, Zenon
  <2>5. QED BY <1>3, <1>4, <2>0, <2>4, Zenon
<1>6. QueueOf(new)[n + 1] = msg
  <2>1. box.tail + (n + 1) - 1 = box.tail + n /\ n + 1 \in 1 .. n + 1
    BY <1>1
  <2>2. QueueOf(new)[n + 1] = new.buf[box.head]
    BY <1>1, <1>3, <2>1, Zenon
  <2>3. QED BY <1>1, <1>2, <2>2, Zenon
<1>7. /\ Append(QueueOf(box), msg) \in QueueType
      /\ Len(Append(QueueOf(box), msg)) = n + 1
      /\ \A i \in 1 .. n : Append(QueueOf(box), msg)[i] = QueueOf(box)[i]
      /\ Append(QueueOf(box), msg)[n + 1] = msg
  BY <1>1, <1>4 DEF QueueType
<1>8. \A i \in 1 .. n + 1 : QueueOf(new)[i] = Append(QueueOf(box), msg)[i]
  BY <1>1, <1>5, <1>6, <1>7
<1>9. QueueOf(new) = Append(QueueOf(box), msg)
  BY <1>1, <1>3, <1>7, <1>8 DEF QueueType
<1>10. QED BY <1>9, Zenon DEF new

\* pop takes the head.
LEMMA QueuePop ==
    ASSUME NEW box, BoxOK(box), box.len > 0
    PROVE  /\ QueueOf(box) # <<>> /\ Head(QueueOf(box)) = box.buf[box.tail]
           /\ QueueOf(Pop(box)) = Tail(QueueOf(box))
<1> DEFINE new == Pop(box)
           n == box.len
<1>1. /\ n \in 1 .. Depth /\ n \in Nat /\ box.tail \in 0 .. Depth - 1 /\ Depth \in Nat
  BY SizeAssumption DEF BoxOK, BoxType
<1>2. /\ new.len = n - 1 /\ new.tail = (box.tail + 1) % Depth
      /\ new.buf = box.buf /\ BoxOK(new)
  <2>1. BoxOK(new)
    BY PopOK, Zenon
  <2>2. QED BY <2>1, Zenon DEF Pop, BoxOK, BoxType
<1> HIDE DEF new
<1>3. /\ QueueOf(new) \in QueueType /\ Len(QueueOf(new)) = n - 1
      /\ \A i \in 1 .. n - 1 :
            QueueOf(new)[i] = box.buf[(((box.tail + 1) % Depth) + i - 1) % Depth]
  BY <1>2, QueueTyped
<1>4. /\ QueueOf(box) \in QueueType /\ Len(QueueOf(box)) = n
      /\ \A i \in 1 .. n : QueueOf(box)[i] = box.buf[(box.tail + i - 1) % Depth]
  BY QueueTyped, Zenon
<1>5. QueueOf(box) # <<>> /\ Head(QueueOf(box)) = QueueOf(box)[1]
  BY <1>1, <1>4 DEF QueueType
<1>6. QueueOf(box)[1] = box.buf[box.tail]
  <2>1. (box.tail + 1 - 1) % Depth = box.tail
    BY <1>1, SizeAssumption, RingPlace
  <2>2. QED BY <1>1, <1>4, <2>1
<1>7. ASSUME NEW i \in 1 .. n - 1 PROVE QueueOf(new)[i] = QueueOf(box)[i + 1]
  <2>1. (box.tail + 1) % Depth = IF box.tail + 1 = Depth THEN 0 ELSE box.tail + 1
    BY <1>1, RingStep, Zenon
  <2>2. (box.tail + 1) % Depth \in 0 .. Depth - 1 /\ i \in 1 .. Depth /\ i + 1 \in 1 .. Depth
    BY <1>1, <2>1
  <2>3. (((box.tail + 1) % Depth) + i - 1) % Depth
          = IF ((box.tail + 1) % Depth) + i > Depth THEN ((box.tail + 1) % Depth) + i - 1 - Depth
            ELSE ((box.tail + 1) % Depth) + i - 1
    BY <2>2, RingPlace, Zenon
  <2>4. (box.tail + (i + 1) - 1) % Depth
          = IF box.tail + (i + 1) > Depth THEN box.tail + (i + 1) - 1 - Depth
            ELSE box.tail + (i + 1) - 1
    BY <1>1, <2>2, RingPlace, Zenon
  <2>5. (((box.tail + 1) % Depth) + i - 1) % Depth = (box.tail + (i + 1) - 1) % Depth
    BY <1>1, <2>1, <2>3, <2>4
  <2>6. i + 1 \in 1 .. n
    BY <1>1
  <2>7. QED BY <1>3, <1>4, <2>5, <2>6, Zenon
<1>8. /\ Tail(QueueOf(box)) \in QueueType /\ Len(Tail(QueueOf(box))) = n - 1
      /\ \A i \in 1 .. n - 1 : Tail(QueueOf(box))[i] = QueueOf(box)[i + 1]
  BY <1>1, <1>4 DEF QueueType
<1>9. QueueOf(new) = Tail(QueueOf(box))
  BY <1>1, <1>3, <1>7, <1>8 DEF QueueType
<1>10. QED BY <1>5, <1>6, <1>9, Zenon DEF new

-----------------------------------------------------------------------------
(* The history *)

\* The capability a channel was given for a right is minted, typed and unique.
LEMMA EndsMinted ==
    ASSUME HistInv, NEW c \in 1 .. Len(minted), NEW right \in Rights
    PROVE  /\ EndOf(c, right) \in Caps /\ EndOf(c, right).generation = c
           /\ \A d \in 1 .. Len(minted), other \in Rights :
                EndOf(d, other) = EndOf(c, right) => d = c /\ other = right
<1>1. /\ minted[c] \in [send : Caps, recv : Caps]
      /\ \A d \in 1 .. Len(minted) :
            /\ minted[d].send.generation = d /\ minted[d].recv.generation = d
            /\ minted[d].send.index # minted[d].recv.index
  <2> DEFINE S == [send : Caps, recv : Caps]
  <2>1. minted \in Seq(S)
    BY Zenon DEF HistInv
  <2>2. minted[c] \in S
    <3> HIDE DEF S
    <3>1. QED BY <2>1
  <2>3. QED BY <2>2, Zenon DEF HistInv
<1>2. EndOf(c, right) \in Caps
  BY <1>1, Zenon DEF EndOf, EndIn
<1>3. \A d \in 1 .. Len(minted), other \in Rights :
        /\ EndOf(d, other).generation = d
        /\ EndOf(d, other) = EndOf(d, right) => other = right
  BY <1>1, Zenon DEF EndOf, EndIn, Rights
<1>4. QED BY <1>2, <1>3

\* A call that leaves the ends and the lives of the mailboxes alone.
LEMMA HistSame ==
    ASSUME HistInv, UNCHANGED <<endpoints, next_gen, minted, owner>>,
           \A b \in Boxes : mailboxes'[b].live = mailboxes[b].live, IpcInv
    PROVE  HistInv'
<1>1. \A e \in Ends : endpoints[e].mailbox \in Boxes
  BY Zenon DEF IpcInv, EndType
<1>2. \A c, right : EndOf(c, right)' = EndOf(c, right)
  BY Zenon DEF EndOf, EndIn
<1>3. QED BY <1>1, <1>2 DEF HistInv

LEMMA HistInit == ChannelsInit => HistInv
<1> SUFFICES ASSUME ChannelsInit PROVE HistInv
  BY Zenon
<1>1. /\ minted = <<>> /\ owner = [b \in Boxes |-> 0] /\ next_gen = 1
      /\ \A e \in Ends : ~endpoints[e].live
  BY Zenon DEF ChannelsInit, IpcInit, EmptyEnd
<1>2. \A b \in Boxes : ~mailboxes[b].live
  BY EmptyOK, Zenon DEF ChannelsInit, IpcInit
<1>3. Len(minted) = 0 /\ minted \in Seq([send : Caps, recv : Caps])
  BY <1>1
<1>4. 0 <= MaxChannels /\ GenMax # 0
  BY SizeAssumption, ChannelsAssumption
<1>5. QED BY <1>1, <1>2, <1>3, <1>4 DEF HistInv

\* Both ends of a revoked channel die with its mailbox.
LEMMA HistRevoke ==
    ASSUME ChannelsInv, NEW cap \in Caps, RevokeChannel(cap), UNCHANGED <<minted, owner>>
    PROVE  HistInv'
<1>1. CASE ~Names(cap)
  BY <1>1, HistSame, Zenon DEF RevokeChannel, ChannelsInv
<1>2. CASE Names(cap)
  <2> DEFINE b == BoxOf(cap)
  <2>1. /\ endpoints' = Killed(cap) /\ mailboxes' = [mailboxes EXCEPT ![b] = EmptyBox]
        /\ next_gen' = next_gen /\ b \in Boxes /\ ~EmptyBox.live
    BY <1>2, NamesLive, EmptyOK, Zenon DEF RevokeChannel, ChannelsInv
  <2> HIDE DEF b
  <2>2. \A e \in Ends :
          IF endpoints[e].live /\ endpoints[e].mailbox = b
          THEN ~endpoints'[e].live ELSE endpoints'[e] = endpoints[e]
    BY <2>1, Zenon DEF Killed, ChannelsInv, IpcInv, EndType, b
  <2>3. /\ ~mailboxes'[b].live
        /\ \A c \in Boxes \ {b} : mailboxes'[c] = mailboxes[c]
    BY <2>1, Zenon DEF ChannelsInv, IpcInv
  <2>4. \A c, right : EndOf(c, right)' = EndOf(c, right)
    BY Zenon DEF EndOf, EndIn
  <2>5. \A e \in Ends : endpoints'[e].live =>
          endpoints'[e] = endpoints[e] /\ endpoints[e].mailbox \in Boxes \ {b}
    BY <2>2, Zenon DEF ChannelsInv, IpcInv, EndType
  <2>6. ASSUME NEW e \in Ends, endpoints'[e].live
        PROVE  LET g == endpoints'[e].generation
                   box == endpoints'[e].mailbox
               IN /\ g \in 1 .. Len(minted) /\ endpoints'[e].rights \in Rights
                  /\ mailboxes'[box].live /\ owner[box] = g
                  /\ EndOf(g, endpoints'[e].rights) = [index |-> e, generation |-> g]
    BY <2>3, <2>5, <2>6 DEF ChannelsInv, HistInv
  <2>7. ASSUME NEW c \in Boxes, mailboxes'[c].live
        PROVE  /\ owner[c] \in 1 .. Len(minted)
               /\ \A right \in Rights :
                    /\ EndOf(owner[c], right).index \in Ends
                    /\ endpoints'[EndOf(owner[c], right).index] =
                         [live |-> TRUE, generation |-> owner[c], rights |-> right,
                          mailbox |-> c]
    <3>1. c # b /\ mailboxes[c].live
      BY <2>3, <2>7, Zenon
    <3>2. /\ owner[c] \in 1 .. Len(minted)
          /\ \A right \in Rights :
                /\ EndOf(owner[c], right).index \in Ends
                /\ endpoints[EndOf(owner[c], right).index] =
                     [live |-> TRUE, generation |-> owner[c], rights |-> right,
                      mailbox |-> c]
      BY <3>1, Zenon DEF ChannelsInv, HistInv
    <3>3. QED BY <2>2, <3>1, <3>2
  <2>8. QED BY <2>1, <2>4, <2>6, <2>7 DEF ChannelsInv, HistInv
<1>3. QED BY <1>1, <1>2, Zenon

\* The slots create_channel picks are determined by the tables.
LEMMA SlotsUnique ==
    ASSUME NEW b1 \in Boxes, NEW b2 \in Boxes, FirstDeadBox(b1), FirstDeadBox(b2),
           NEW s1 \in Ends, NEW s2 \in Ends, FirstDeadEnd(s1, {}), FirstDeadEnd(s2, {}),
           NEW r1 \in Ends, NEW r2 \in Ends, FirstDeadEnd(r1, {s1}), FirstDeadEnd(r2, {s2})
    PROVE  b1 = b2 /\ s1 = s2 /\ r1 = r2
<1>1. b1 = b2
  <2>1. ~(b1 < b2) /\ ~(b2 < b1) /\ b1 \in Int /\ b2 \in Int
    BY SizeAssumption DEF FirstDeadBox, Boxes
  <2>2. QED BY <2>1
<1>2. s1 = s2
  <2>1. ~(s1 < s2) /\ ~(s2 < s1) /\ s1 \in Int /\ s2 \in Int
    BY SizeAssumption DEF FirstDeadEnd, Ends
  <2>2. QED BY <2>1
<1>3. r1 = r2
  <2>1. ~(r1 < r2) /\ ~(r2 < r1) /\ r1 \in Int /\ r2 \in Int
    BY <1>2, SizeAssumption DEF FirstDeadEnd, Ends
  <2>2. QED BY <2>1
<1>4. QED BY <1>1, <1>2, <1>3, Zenon

\* What a create that succeeds does, with one name for each slot.
Created(reap, b, s, r) ==
    /\ ~mailboxes[b].live /\ ~endpoints[s].live /\ ~endpoints[r].live /\ s # r
    /\ OpenChannel(b, s, r, reap)
    /\ next_gen' = NextGen(next_gen)
    /\ Returns("Ok")
    /\ Len(minted) < MaxChannels
    /\ minted' = Append(minted, [send |-> [index |-> s, generation |-> next_gen],
                                 recv |-> [index |-> r, generation |-> next_gen]])
    /\ owner' = [owner EXCEPT ![b] = Len(minted) + 1]

LEMMA CreateCases ==
    ASSUME ChannelsInv, NEW reap \in BOOLEAN, CreateStep(reap)
    PROVE  \/ \E b \in Boxes, s, r \in Ends : Created(reap, b, s, r)
           \/ /\ Returns("NoRoom")
              /\ UNCHANGED <<endpoints, mailboxes, next_gen, minted, owner>>
<1>1. CASE ret'.res = "Ok"
  <2>0. ~Returns("NoRoom")
    BY <1>1 DEF Returns
  <2>1. PICK b \in Boxes, s \in Ends, r \in Ends :
          /\ FirstDeadBox(b) /\ FirstDeadEnd(s, {}) /\ FirstDeadEnd(r, {s})
          /\ OpenChannel(b, s, r, reap)
          /\ next_gen' = NextGen(next_gen)
          /\ Returns("Ok")
    BY <2>0, Zenon DEF CreateStep, CreateChannel
  <2>2. PICK b2 \in Boxes, s2 \in Ends, r2 \in Ends :
          /\ FirstDeadBox(b2) /\ FirstDeadEnd(s2, {}) /\ FirstDeadEnd(r2, {s2})
          /\ minted' = Append(minted, [send |-> [index |-> s2, generation |-> next_gen],
                                       recv |-> [index |-> r2, generation |-> next_gen]])
          /\ owner' = [owner EXCEPT ![b2] = Len(minted) + 1]
          /\ Len(minted) < MaxChannels
    BY <1>1, Zenon DEF CreateStep
  <2>3. b2 = b /\ s2 = s /\ r2 = r
    BY <2>1, <2>2, SlotsUnique, Zenon
  <2>4. ~mailboxes[b].live /\ ~endpoints[s].live /\ ~endpoints[r].live /\ s # r
    BY <2>1, Zenon DEF FirstDeadBox, FirstDeadEnd
  <2>5. Created(reap, b, s, r)
    BY <2>1, <2>2, <2>3, <2>4, Zenon DEF Created
  <2>6. QED BY <2>5, Zenon
<1>2. CASE ret'.res # "Ok"
  <2>1. ~Returns("Ok")
    BY <1>2 DEF Returns
  <2>2. QED BY <1>2, <2>1, Zenon DEF CreateStep, CreateChannel
<1>3. QED BY <1>1, <1>2, Zenon

\* What the tables and the history read after a create.
CreatedTables(reap, b, s, r, g) ==
    /\ g \in 1 .. MaxChannels /\ next_gen = g /\ Len(minted') = g
    /\ minted' \in Seq([send : Caps, recv : Caps])
    /\ \A c \in 1 .. Len(minted) : minted'[c] = minted[c]
    /\ minted'[g] = [send |-> [index |-> s, generation |-> g],
                        recv |-> [index |-> r, generation |-> g]]
    /\ mailboxes'[b] = [EmptyBox EXCEPT !.live = TRUE, !.auto_reap = reap]
    /\ mailboxes'[b].live
    /\ \A d \in Boxes \ {b} : mailboxes'[d] = mailboxes[d]
    /\ endpoints'[s] = [live |-> TRUE, generation |-> g, rights |-> "SEND",
                           mailbox |-> b]
    /\ endpoints'[r] = [live |-> TRUE, generation |-> g, rights |-> "RECV",
                           mailbox |-> b]
    /\ \A e \in Ends \ {s, r} : endpoints'[e] = endpoints[e]
    /\ owner'[b] = g /\ owner' \in [Boxes -> Nat]
    /\ \A d \in Boxes \ {b} : owner'[d] = owner[d]

LEMMA CreatedReads ==
    ASSUME ChannelsInv, NEW reap \in BOOLEAN, NEW b \in Boxes, NEW s \in Ends,
           NEW r \in Ends, Created(reap, b, s, r), NEW g, g = Len(minted) + 1
    PROVE  CreatedTables(reap, b, s, r, g)
<1> DEFINE n == Len(minted)
           S == [send : Caps, recv : Caps]
           new == [send |-> [index |-> s, generation |-> n + 1],
                   recv |-> [index |-> r, generation |-> n + 1]]
<1>1. /\ minted \in Seq(S) /\ n \in Nat /\ n < MaxChannels /\ n <= GenMax
      /\ MaxChannels \in 0 .. GenMax
      /\ next_gen = IF n = GenMax THEN 1 ELSE n + 1
      /\ owner \in [Boxes -> Nat]
  BY SizeAssumption, ChannelsAssumption DEF ChannelsInv, HistInv, Created
<1>2. n + 1 \in 1 .. MaxChannels /\ next_gen = n + 1 /\ n + 1 \in Gens /\ n + 1 \in Nat
  BY <1>1, SizeAssumption DEF Gens
<1>3. new \in S
  BY <1>2, Zenon DEF Caps
<1>4. minted' = Append(minted, new)
  BY <1>2, Zenon DEF Created
<1>5. /\ Len(minted') = n + 1 /\ minted' \in Seq(S) /\ minted'[n + 1] = new
      /\ \A c \in 1 .. n : minted'[c] = minted[c]
  <2> HIDE DEF S, new
  <2>1. QED BY <1>1, <1>3, <1>4
<1>6. /\ mailboxes'[b] = [EmptyBox EXCEPT !.live = TRUE, !.auto_reap = reap]
      /\ \A d \in Boxes \ {b} : mailboxes'[d] = mailboxes[d]
  BY Zenon DEF Created, OpenChannel, ChannelsInv, IpcInv
<1>7. s # r /\ endpoints \in [Ends -> EndType]
  BY Zenon DEF Created, ChannelsInv, IpcInv
<1>8. /\ endpoints'[s] = [live |-> TRUE, generation |-> n + 1, rights |-> "SEND",
                          mailbox |-> b]
      /\ endpoints'[r] = [live |-> TRUE, generation |-> n + 1, rights |-> "RECV",
                          mailbox |-> b]
      /\ \A e \in Ends \ {s, r} : endpoints'[e] = endpoints[e]
  BY <1>2, <1>7, Zenon DEF Created, OpenChannel
<1>9. /\ owner'[b] = n + 1 /\ owner' \in [Boxes -> Nat]
      /\ \A d \in Boxes \ {b} : owner'[d] = owner[d]
  BY <1>1, <1>2, Zenon DEF Created
<1>10. mailboxes'[b].live
  BY <1>6, EmptyOK, Zenon
<1>11. QED
  <2> HIDE DEF n
  <2>1. g = n + 1
    BY Zenon DEF n
  <2>2. QED BY <2>1, <1>2, <1>5, <1>6, <1>8, <1>9, <1>10, Zenon DEF CreatedTables, n

LEMMA HistCreate ==
    ASSUME ChannelsInv, NEW reap \in BOOLEAN, NEW b \in Boxes, NEW s \in Ends,
           NEW r \in Ends, Created(reap, b, s, r)
    PROVE  HistInv'
<1>0. PICK n, g : n = Len(minted) /\ g = Len(minted) + 1
  BY Zenon
<1>1. /\ g \in 1 .. MaxChannels /\ next_gen = g /\ Len(minted') = g /\ n \in Nat
      /\ minted' \in Seq([send : Caps, recv : Caps])
      /\ \A c \in 1 .. n : minted'[c] = minted[c]
      /\ minted'[g] = [send |-> [index |-> s, generation |-> g],
                       recv |-> [index |-> r, generation |-> g]]
      /\ mailboxes'[b].live
      /\ \A d \in Boxes \ {b} : mailboxes'[d] = mailboxes[d]
  <2>1. minted \in Seq([send : Caps, recv : Caps])
    BY Zenon DEF ChannelsInv, HistInv
  <2>2. n \in Nat
    BY <1>0, <2>1
  <2>3. CreatedTables(reap, b, s, r, g)
    BY <1>0, CreatedReads, Zenon
  <2>4. QED BY <1>0, <2>2, <2>3, Zenon DEF CreatedTables
<1>2. /\ endpoints'[s] = [live |-> TRUE, generation |-> g, rights |-> "SEND", mailbox |-> b]
      /\ endpoints'[r] = [live |-> TRUE, generation |-> g, rights |-> "RECV", mailbox |-> b]
      /\ \A e \in Ends \ {s, r} : endpoints'[e] = endpoints[e]
      /\ owner'[b] = g /\ owner' \in [Boxes -> Nat]
      /\ \A d \in Boxes \ {b} : owner'[d] = owner[d]
  <2>1. CreatedTables(reap, b, s, r, g)
    BY <1>0, CreatedReads, Zenon
  <2>2. QED BY <2>1, Zenon DEF CreatedTables
<1>3. /\ s # r /\ ~mailboxes[b].live /\ ~endpoints[s].live /\ ~endpoints[r].live
      /\ next_gen' = IF g = GenMax THEN 1 ELSE g + 1
  BY <1>1, Zenon DEF Created, NextGen
<1>4. /\ \A c \in 1 .. n : \A right : EndIn(minted', c, right) = EndOf(c, right)
      /\ EndIn(minted', g, "SEND") = [index |-> s, generation |-> g]
      /\ EndIn(minted', g, "RECV") = [index |-> r, generation |-> g]
  BY <1>1 DEF EndOf, EndIn
<1>5. /\ 1 .. g = (1 .. n) \cup {g} /\ g \in 1 .. g
  BY <1>0, <1>1
<1>6. \A c \in 1 .. g :
        /\ minted'[c].send.generation = c /\ minted'[c].recv.generation = c
        /\ minted'[c].send.index # minted'[c].recv.index
  BY <1>0, <1>1, <1>3, <1>5 DEF ChannelsInv, HistInv
<1>7. ASSUME NEW e \in Ends, endpoints'[e].live
      PROVE  LET h == endpoints'[e].generation
                 d == endpoints'[e].mailbox
             IN /\ h \in 1 .. g /\ endpoints'[e].rights \in Rights
                /\ mailboxes'[d].live /\ owner'[d] = h
                /\ EndIn(minted', h, endpoints'[e].rights) = [index |-> e, generation |-> h]
  <2>1. CASE e = s
    BY <1>1, <1>2, <1>4, <1>5, <2>1 DEF Rights
  <2>2. CASE e = r
    BY <1>1, <1>2, <1>4, <1>5, <2>2 DEF Rights
  <2>3. CASE e \in Ends \ {s, r}
    <3>1. endpoints'[e] = endpoints[e] /\ endpoints[e].live
      BY <1>2, <1>7, <2>3, Zenon
    <3> DEFINE h == endpoints[e].generation
               d == endpoints[e].mailbox
    <3>2. /\ h \in 1 .. n /\ endpoints[e].rights \in Rights
          /\ mailboxes[d].live /\ owner[d] = h
          /\ EndOf(h, endpoints[e].rights) = [index |-> e, generation |-> h]
      BY <1>0, <3>1, Zenon DEF ChannelsInv, HistInv
    <3>3. d \in Boxes
      BY Zenon DEF ChannelsInv, IpcInv, EndType
    <3> HIDE DEF h, d
    <3>4. d # b
      BY <1>3, <3>2, Zenon
    <3>5. mailboxes'[d].live /\ owner'[d] = h
      BY <1>1, <1>2, <3>2, <3>3, <3>4, Zenon
    <3>6. h \in 1 .. g /\ EndIn(minted', h, endpoints[e].rights) = EndOf(h, endpoints[e].rights)
      BY <1>4, <1>5, <3>2, Zenon
    <3>7. QED BY <3>1, <3>2, <3>5, <3>6, Zenon DEF h, d
  <2>4. QED BY <2>1, <2>2, <2>3, Zenon
<1>8. ASSUME NEW d \in Boxes, mailboxes'[d].live
      PROVE  /\ owner'[d] \in 1 .. g
             /\ \A right \in Rights :
                  /\ EndIn(minted', owner'[d], right).index \in Ends
                  /\ endpoints'[EndIn(minted', owner'[d], right).index] =
                       [live |-> TRUE, generation |-> owner'[d], rights |-> right,
                        mailbox |-> d]
  <2>1. CASE d = b
    BY <1>2, <1>4, <1>5, <2>1 DEF Rights
  <2>2. CASE d # b
    <3>1. owner'[d] = owner[d] /\ mailboxes[d].live
      BY <1>1, <1>2, <1>8, <2>2, Zenon
    <3>2. /\ owner[d] \in 1 .. n
          /\ \A right \in Rights :
                /\ EndOf(owner[d], right).index \in Ends
                /\ endpoints[EndOf(owner[d], right).index] =
                     [live |-> TRUE, generation |-> owner[d], rights |-> right, mailbox |-> d]
      BY <1>0, <3>1, Zenon DEF ChannelsInv, HistInv
    <3>3. \A right : EndIn(minted', owner'[d], right) = EndOf(owner[d], right)
      BY <1>1, <3>1, <3>2, Zenon DEF EndOf, EndIn
    <3>4. ASSUME NEW right \in Rights
          PROVE  /\ EndOf(owner[d], right).index \in Ends \ {s, r}
                 /\ endpoints'[EndOf(owner[d], right).index] =
                      [live |-> TRUE, generation |-> owner[d], rights |-> right,
                       mailbox |-> d]
      BY <1>2, <1>3, <3>2
    <3>5. QED BY <1>5, <3>1, <3>2, <3>3, <3>4, Zenon
  <2>3. QED BY <2>1, <2>2, Zenon
<1>9. g <= MaxChannels /\ g \in Nat
  BY <1>1, ChannelsAssumption
<1>10. QED BY <1>1, <1>2, <1>3, <1>6, <1>7, <1>8, <1>9 DEF HistInv, EndOf

\* The ends of a live mailbox, and the mailbox of a live end.
LEMMA BoxEnds ==
    ASSUME HistInv, NEW b \in Boxes, mailboxes[b].live, NEW right \in Rights
    PROVE  /\ owner[b] \in 1 .. Len(minted) /\ EndOf(owner[b], right).index \in Ends
           /\ endpoints[EndOf(owner[b], right).index] =
                [live |-> TRUE, generation |-> owner[b], rights |-> right, mailbox |-> b]
BY Zenon DEF HistInv

LEMMA EndBox ==
    ASSUME HistInv, NEW e \in Ends, endpoints[e].live
    PROVE  /\ endpoints[e].generation \in 1 .. Len(minted) /\ endpoints[e].rights \in Rights
           /\ mailboxes[endpoints[e].mailbox].live
           /\ owner[endpoints[e].mailbox] = endpoints[e].generation
           /\ EndOf(endpoints[e].generation, endpoints[e].rights) =
                [index |-> e, generation |-> endpoints[e].generation]
BY Zenon DEF HistInv

-----------------------------------------------------------------------------
(* The channels read out of the table *)

ChanType == [open : BOOLEAN, queue : QueueType, waiter : Waiters \cup {None},
             holders : Nat, reap : BOOLEAN]

ChanFacts ==
    /\ ChansOfTable \in Seq(ChanType) /\ DOMAIN ChansOfTable = 1 .. Len(minted)
    /\ \A b \in Boxes : mailboxes[b].live =>
        /\ owner[b] \in 1 .. Len(minted) /\ ChansOfTable[owner[b]] = ChannelIn(b)
        /\ \A d \in Boxes : mailboxes[d].live /\ owner[d] = owner[b] => d = b
    /\ \A c \in 1 .. Len(minted) :
        (\A b \in Boxes : mailboxes[b].live => owner[b] # c)
            => ChansOfTable[c] = ClosedChannel

LEMMA ChannelTyped ==
    ASSUME IpcInv
    PROVE  (\A b \in Boxes : ChannelIn(b) \in ChanType) /\ ClosedChannel \in ChanType
<1>1. ASSUME NEW b \in Boxes PROVE ChannelIn(b) \in ChanType
  <2>1. BoxOK(mailboxes[b]) /\ mailboxes[b] \in BoxType
    BY Zenon DEF IpcInv
  <2>2. QueueOf(mailboxes[b]) \in QueueType
    BY <2>1, QueueTyped, Zenon
  <2>3. QED BY <2>1, <2>2, SizeAssumption DEF ChannelIn, ChanType, BoxType
<1>2. <<>> \in QueueType
  BY DEF QueueType
<1>3. QED BY <1>1, <1>2, Zenon DEF ClosedChannel, ChanType

LEMMA ChannelsRead == ChannelsInv => ChanFacts
<1> SUFFICES ASSUME ChannelsInv PROVE ChanFacts
  BY Zenon
<1> DEFINE n == Len(minted)
<1>1. n \in Nat /\ DOMAIN minted = 1 .. n
  <2> DEFINE S == [send : Caps, recv : Caps]
  <2>1. minted \in Seq(S)
    BY Zenon DEF ChannelsInv, HistInv
  <2> HIDE DEF S
  <2>2. QED BY <2>1
<1> HIDE DEF n
<1>2. /\ DOMAIN ChansOfTable = 1 .. n /\ ChansOfTable = [c \in 1 .. n |-> ChansOfTable[c]]
      /\ \A c \in 1 .. n : ChansOfTable[c] =
            IF \E b \in Boxes : mailboxes[b].live /\ owner[b] = c
            THEN ChannelIn(CHOOSE b \in Boxes : mailboxes[b].live /\ owner[b] = c)
            ELSE ClosedChannel
  BY <1>1, Zenon DEF ChansOfTable
<1>3. ASSUME NEW b \in Boxes, mailboxes[b].live, NEW d \in Boxes, mailboxes[d].live,
             owner[d] = owner[b]
      PROVE  d = b
  <2>1. "SEND" \in Rights
    BY Zenon DEF Rights
  <2>2. /\ endpoints[EndOf(owner[b], "SEND").index].mailbox = b
        /\ endpoints[EndOf(owner[d], "SEND").index].mailbox = d
    <3>1. HistInv
      BY Zenon DEF ChannelsInv
    <3>2. endpoints[EndOf(owner[b], "SEND").index] =
            [live |-> TRUE, generation |-> owner[b], rights |-> "SEND", mailbox |-> b]
      BY <1>3, <2>1, <3>1, BoxEnds, Zenon
    <3>3. endpoints[EndOf(owner[d], "SEND").index] =
            [live |-> TRUE, generation |-> owner[d], rights |-> "SEND", mailbox |-> d]
      BY <1>3, <2>1, <3>1, BoxEnds, Zenon
    <3>4. QED BY <3>2, <3>3
  <2>3. QED BY <1>3, <2>2, Zenon
<1>4. ASSUME NEW b \in Boxes, mailboxes[b].live
      PROVE  owner[b] \in 1 .. n /\ ChansOfTable[owner[b]] = ChannelIn(b)
  <2>1. owner[b] \in 1 .. n
    BY <1>4, Zenon DEF ChannelsInv, HistInv, n
  <2>2. \A d \in Boxes : mailboxes[d].live /\ owner[d] = owner[b] => d = b
    BY <1>3, <1>4, Zenon
  <2> DEFINE d == CHOOSE x \in Boxes : mailboxes[x].live /\ owner[x] = owner[b]
  <2>3. d \in Boxes /\ mailboxes[d].live /\ owner[d] = owner[b]
    BY <1>4, Zenon
  <2>4. ChansOfTable[owner[b]] = ChannelIn(d)
    BY <1>2, <1>4, <2>1, Zenon
  <2> HIDE DEF d
  <2>5. QED BY <2>1, <2>2, <2>3, <2>4, Zenon
<1>5. \A c \in 1 .. n : (\A b \in Boxes : mailboxes[b].live => owner[b] # c)
        => ChansOfTable[c] = ClosedChannel
  BY <1>2, Zenon
<1>6. ASSUME NEW c \in 1 .. n PROVE ChansOfTable[c] \in ChanType
  <2>1. CASE \E b \in Boxes : mailboxes[b].live /\ owner[b] = c
    BY <1>4, <2>1, ChannelTyped, Zenon DEF ChannelsInv
  <2>2. CASE \A b \in Boxes : mailboxes[b].live => owner[b] # c
    BY <1>5, <2>2, ChannelTyped, Zenon DEF ChannelsInv
  <2>3. QED BY <2>1, <2>2, Zenon
<1>7. ChansOfTable \in Seq(ChanType)
  <2>1. ChansOfTable \in [1 .. n -> ChanType]
    BY <1>2, <1>6, Zenon
  <2> HIDE DEF ChanType
  <2>2. QED BY <1>1, <2>1
<1>8. QED BY <1>2, <1>3, <1>4, <1>5, <1>7, Zenon DEF ChanFacts, n

\* Two functions of the channels are equal when they agree on the channels in
\* the table and on the closed ones.
LEMMA ChansEqual ==
    ASSUME ChanFacts', UNCHANGED <<minted, owner>>, NEW F,
           F = [c \in 1 .. Len(minted) |-> F[c]],
           \A b \in Boxes : mailboxes'[b].live => F[owner[b]] = ChannelIn(b)',
           \A c \in 1 .. Len(minted) :
              (\A b \in Boxes : mailboxes'[b].live => owner[b] # c) => F[c] = ClosedChannel
    PROVE  ChansOfTable' = F
<1>1. /\ DOMAIN ChansOfTable' = 1 .. Len(minted) /\ ChansOfTable' \in Seq(ChanType)
      /\ \A b \in Boxes : mailboxes'[b].live => ChansOfTable'[owner[b]] = ChannelIn(b)'
      /\ \A c \in 1 .. Len(minted) :
            (\A b \in Boxes : mailboxes'[b].live => owner[b] # c)
                => ChansOfTable'[c] = ClosedChannel
  BY Zenon DEF ChanFacts, ClosedChannel
<1>2. \A c \in 1 .. Len(minted) : ChansOfTable'[c] = F[c]
  BY <1>1
<1>3. ChansOfTable' = [c \in 1 .. Len(minted) |-> ChansOfTable'[c]]
  <2> HIDE DEF ChanType
  <2>1. QED BY <1>1, Zenon DEF ChansOfTable
<1>4. QED BY <1>2, <1>3, Zenon

LEMMA HandleReads ==
    ASSUME HistInv, NEW cap
    PROVE  \/ /\ Handle(cap) = Forged
              /\ \A c \in 1 .. Len(minted), right \in Rights : cap # EndOf(c, right)
           \/ \E c \in 1 .. Len(minted), right \in Rights :
                cap = EndOf(c, right) /\ Handle(cap) = <<c, right>>
<1> DEFINE for == {c \in DOMAIN minted : cap \in {minted[c].send, minted[c].recv}}
<1>1. DOMAIN minted = 1 .. Len(minted)
  <2> DEFINE S == [send : Caps, recv : Caps]
  <2>1. minted \in Seq(S)
    BY Zenon DEF HistInv
  <2> HIDE DEF S
  <2>2. QED BY <2>1
<1>2. \A c \in 1 .. Len(minted) : c \in for <=> \E right \in Rights : cap = EndOf(c, right)
  BY <1>1, Zenon DEF EndOf, EndIn, Rights
<1>3. CASE for = {}
  BY <1>2, <1>3, Zenon DEF Handle
<1>4. CASE for # {}
  <2>1. PICK c \in 1 .. Len(minted), right \in Rights : c \in for /\ cap = EndOf(c, right)
    BY <1>1, <1>2, <1>4, Zenon
  <2>2. for = {c}
    BY <1>1, <1>2, <2>1, EndsMinted
  <2>3. Handle(cap) = <<c, IF cap = minted[c].send THEN "SEND" ELSE "RECV">>
    BY <2>2, Zenon DEF Handle
  <2>4. (IF cap = minted[c].send THEN "SEND" ELSE "RECV") = right
    <3>1. cap = minted[c].send <=> cap = EndOf(c, "SEND")
      BY Zenon DEF EndOf, EndIn
    <3>2. QED BY <2>1, <3>1, EndsMinted, Zenon DEF Rights
  <2>5. QED BY <2>1, <2>3, <2>4, Zenon
<1>5. QED BY <1>3, <1>4, Zenon

\* A capability that names an end is read as a handle of the channel in the
\* end's mailbox; any other is forged or of a closed channel.
Reading(cap) ==
    LET h == Handle(cap)
        b == BoxOf(cap)
    IN /\ h \in {Forged} \cup ((1 .. Len(minted)) \X Rights)
       /\ IF Names(cap)
          THEN /\ h # Forged /\ h[1] = owner[b] /\ h[2] = endpoints[cap.index].rights
               /\ h[1] \in 1 .. Len(minted)
               /\ b \in Boxes /\ mailboxes[b].live /\ ChansOfTable[h[1]] = ChannelIn(b)
          ELSE h # Forged => ChansOfTable[h[1]] = ClosedChannel

LEMMA Resolution ==
    ASSUME ChannelsInv, NEW cap \in Caps
    PROVE  Reading(cap)
<1>1. ChanFacts
  BY ChannelsRead, Zenon
<1>2. HistInv /\ IpcInv
  BY Zenon DEF ChannelsInv
<1>3. \A c \in 1 .. Len(minted), right \in Rights : <<c, right>> # Forged
  BY ChannelsAssumption
<1>4. Handle(cap) \in {Forged} \cup ((1 .. Len(minted)) \X Rights)
  BY <1>2, HandleReads
<1>5. CASE Names(cap)
  <2> DEFINE e == cap.index
             g == cap.generation
  <2>1. /\ e \in Ends /\ endpoints[e].live /\ endpoints[e].generation = g
        /\ BoxOf(cap) = endpoints[e].mailbox
    BY <1>5, Zenon DEF Names, BoxOf
  <2>2. cap = [index |-> e, generation |-> g]
    BY Zenon DEF Caps
  <2>3. /\ g \in 1 .. Len(minted) /\ endpoints[e].rights \in Rights
        /\ mailboxes[BoxOf(cap)].live /\ owner[BoxOf(cap)] = g
        /\ EndOf(g, endpoints[e].rights) = cap
    BY <1>2, <2>1, <2>2, EndBox, Zenon
  <2>4. BoxOf(cap) \in Boxes
    BY <1>2, <1>5, NamesLive, Zenon
  <2>5. Handle(cap) = <<g, endpoints[e].rights>>
    BY <1>2, <2>3, HandleReads, EndsMinted
  <2>6. ChansOfTable[g] = ChannelIn(BoxOf(cap))
    BY <1>1, <2>3, <2>4, Zenon DEF ChanFacts
  <2> HIDE DEF e, g
  <2>7. Handle(cap)[1] = g /\ Handle(cap)[2] = endpoints[e].rights /\ Handle(cap) # Forged
    BY <1>3, <2>3, <2>5
  <2>8. QED BY <1>4, <1>5, <2>3, <2>4, <2>6, <2>7, Zenon DEF Reading, e
<1>6. CASE ~Names(cap)
  <2>1. CASE Handle(cap) = Forged
    BY <1>4, <1>6, <2>1, Zenon DEF Reading
  <2>2. CASE Handle(cap) # Forged
    <3>1. PICK c \in 1 .. Len(minted), right \in Rights :
            cap = EndOf(c, right) /\ Handle(cap) = <<c, right>>
      BY <1>2, <2>2, HandleReads, Zenon
    <3>2. ASSUME NEW b \in Boxes, mailboxes[b].live, owner[b] = c PROVE FALSE
      <4>1. /\ cap.index \in Ends
            /\ endpoints[cap.index] =
                 [live |-> TRUE, generation |-> c, rights |-> right, mailbox |-> b]
        BY <1>2, <3>1, <3>2, BoxEnds, Zenon
      <4>2. cap.generation = c
        BY <1>2, <3>1, EndsMinted, Zenon
      <4>3. QED BY <1>6, <4>1, <4>2 DEF Names
    <3>3. ChansOfTable[c] = ClosedChannel
      BY <1>1, <3>2, Zenon DEF ChanFacts
    <3>4. QED BY <1>4, <1>6, <3>1, <3>3 DEF Reading
  <2>3. QED BY <2>1, <2>2, Zenon
<1>7. QED BY <1>5, <1>6, Zenon

\* The table and the channels agree on which capabilities are good.
LEMMA GoodReads ==
    ASSUME ChannelsInv, NEW cap \in Caps
    PROVE  /\ \A need \in Rights : Abstract!Good(Handle(cap), {need}) <=> Resolves(cap, need)
           /\ Abstract!Good(Handle(cap), Rights) <=> Names(cap)
<1>1. Reading(cap)
  BY Resolution, Zenon
<1>2. ClosedChannel.open = FALSE /\ \A b : ChannelIn(b).open = TRUE
  BY Zenon DEF ClosedChannel, ChannelIn
<1>3. CASE Names(cap)
  <2>1. /\ Handle(cap) # Forged /\ ChansOfTable[Handle(cap)[1]].open
        /\ Handle(cap)[2] = endpoints[cap.index].rights
    BY <1>1, <1>2, <1>3, Zenon DEF Reading
  <2>2. Handle(cap)[2] \in Rights
    BY <1>1, <2>1, Zenon DEF Reading
  <2>3. QED BY <1>3, <2>1, <2>2, Zenon DEF Abstract!Good, Resolves
<1>4. CASE ~Names(cap)
  BY <1>1, <1>2, <1>4, Zenon DEF Reading, Abstract!Good, Resolves
<1>5. QED BY <1>3, <1>4, Zenon

-----------------------------------------------------------------------------
(* The invariant is kept *)

LivesSame ==
    /\ UNCHANGED <<endpoints, next_gen>>
    /\ \A b \in Boxes : mailboxes'[b].live = mailboxes[b].live

LEMMA RefusedLives ==
    ASSUME NEW cap, NEW need, Refused(cap, need) PROVE LivesSame
BY Zenon DEF Refused, LivesSame

LEMMA HoldsLives ==
    ASSUME IpcInv, NEW caps, RegisterHolds(caps) \/ ReleaseHolds(caps) PROVE LivesSame
<1>1. mailboxes \in [Boxes -> BoxType]
  BY Zenon DEF IpcInv
<1>2. CASE RegisterHolds(caps)
  <2>1. ASSUME NEW b \in Boxes PROVE mailboxes'[b].live = mailboxes[b].live
    BY <1>1, <1>2, Zenon DEF RegisterHolds, BoxType
  <2>2. QED BY <1>2, <2>1, Zenon DEF RegisterHolds, LivesSame
<1>3. CASE ReleaseHolds(caps)
  <2>1. ASSUME NEW b \in Boxes PROVE mailboxes'[b].live = mailboxes[b].live
    BY <1>1, <1>3, Zenon DEF ReleaseHolds, BoxType
  <2>2. QED BY <1>3, <2>1, Zenon DEF ReleaseHolds, LivesSame
<1>4. QED BY <1>2, <1>3, Zenon

LEMMA TakeLives ==
    ASSUME IpcInv, NEW b \in Boxes, Take(b), UNCHANGED <<endpoints, next_gen>>
    PROVE  LivesSame
<1>1. BoxOK(mailboxes[b]) /\ mailboxes[b].len > 0
  BY Zenon DEF IpcInv, Take
<1>2. Pop(mailboxes[b]).live = mailboxes[b].live
  BY <1>1, PopOK, Zenon
<1>3. QED BY <1>2, Zenon DEF Take, LivesSame, IpcInv

LEMMA SendLives ==
    ASSUME IpcInv, NEW cap \in Caps, NEW msg \in Msgs, Send(cap, msg) PROVE LivesSame
<1>1. CASE Refused(cap, "SEND")
  BY <1>1, RefusedLives, Zenon
<1>2. CASE Reaches(cap, "SEND") /\ ~Refused(cap, "SEND")
  <2> DEFINE b == BoxOf(cap)
  <2>1. b \in Boxes /\ UNCHANGED <<endpoints, next_gen>>
    BY <1>2, NamesLive, Zenon DEF Reaches, Resolves, Send
  <2>2. CASE mailboxes[b].len = Depth
    BY <1>2, <2>1, <2>2, Zenon DEF Send, LivesSame
  <2>3. CASE mailboxes[b].len # Depth
    <3>1. mailboxes' = [mailboxes EXCEPT ![b] = Delivered(@, msg)]
      BY <1>2, <2>3, Zenon DEF Send
    <3>2. BoxOK(mailboxes[b]) /\ mailboxes[b].len < Depth
      BY <2>1, <2>3, SizeAssumption DEF IpcInv, BoxOK, BoxType
    <3>3. Delivered(mailboxes[b], msg).live = mailboxes[b].live
      BY <3>2, DeliveredOK, Zenon
    <3>4. QED BY <2>1, <3>1, <3>3, Zenon DEF LivesSame, IpcInv
  <2>4. QED BY <2>2, <2>3, Zenon
<1>3. QED BY <1>1, <1>2, Zenon DEF Send

LEMMA RecvLives ==
    ASSUME IpcInv, NEW cap \in Caps,
           TryRecv(cap) \/ \E me \in Waiters : Park(cap, me)
    PROVE  LivesSame
<1>1. CASE Refused(cap, "RECV")
  BY <1>1, RefusedLives, Zenon
<1>2. CASE Reaches(cap, "RECV") /\ ~Refused(cap, "RECV")
  <2> DEFINE b == BoxOf(cap)
  <2>1. b \in Boxes /\ UNCHANGED <<endpoints, next_gen>>
    BY <1>2, NamesLive, Zenon DEF Reaches, Resolves, TryRecv, Park
  <2>2. CASE Take(b)
    BY <2>1, <2>2, TakeLives, Zenon
  <2>3. CASE mailboxes' = mailboxes
    BY <2>1, <2>3, Zenon DEF LivesSame
  <2>4. CASE \E me \in Waiters : mailboxes' = [mailboxes EXCEPT ![b].waiter = me]
    <3>1. mailboxes \in [Boxes -> BoxType]
      BY Zenon DEF IpcInv
    <3>2. ASSUME NEW d \in Boxes PROVE mailboxes'[d].live = mailboxes[d].live
      BY <2>1, <2>4, <3>1 DEF BoxType
    <3>3. QED BY <2>1, <3>2, Zenon DEF LivesSame
  <2>5. QED
    <3> HIDE DEF b
    <3>1. Take(b) \/ UNCHANGED mailboxes
            \/ \E me \in Waiters : mailboxes' = [mailboxes EXCEPT ![b].waiter = me]
      BY <1>2, Zenon DEF TryRecv, Park, Claim, b
    <3>2. QED BY <2>2, <2>3, <2>4, <3>1, Zenon
<1>3. QED BY <1>1, <1>2, Zenon DEF TryRecv, Park

LEMMA ClearLives ==
    ASSUME IpcInv, NEW id, ClearWaiter(id) PROVE LivesSame
<1>1. mailboxes \in [Boxes -> BoxType]
  BY Zenon DEF IpcInv
<1>2. ASSUME NEW b \in Boxes PROVE mailboxes'[b].live = mailboxes[b].live
  BY <1>1, Zenon DEF ClearWaiter, BoxType
<1>3. QED BY <1>2, Zenon DEF ClearWaiter, LivesSame

LEMMA ChannelsStepInv == ChannelsInv /\ [ChannelsNext]_channelVars => ChannelsInv'
<1> SUFFICES ASSUME ChannelsInv, [ChannelsNext]_channelVars PROVE ChannelsInv'
  BY Zenon
<1>1. IpcInv /\ HistInv
  BY Zenon DEF ChannelsInv
<1>2. [IpcNext]_ipcVars
  BY Zenon DEF ChannelsNext, IpcNext, channelVars, CreateStep
<1>3. IpcInv'
  BY <1>1, <1>2, IpcStep, Zenon
<1>4. ASSUME LivesSame, UNCHANGED <<minted, owner>> PROVE HistInv'
  BY <1>1, <1>4, HistSame, Zenon DEF LivesSame
<1>5. ASSUME \E reap \in BOOLEAN : CreateStep(reap) PROVE HistInv'
  <2>1. PICK reap \in BOOLEAN : CreateStep(reap)
    BY <1>5, Zenon
  <2>2. CASE \E b \in Boxes, s, r \in Ends : Created(reap, b, s, r)
    BY <2>2, HistCreate, Zenon
  <2>3. CASE UNCHANGED <<endpoints, mailboxes, next_gen, minted, owner>>
    BY <2>3, <1>4, Zenon DEF LivesSame
  <2>4. QED BY <2>1, <2>2, <2>3, CreateCases, Zenon
<1>6. ASSUME NEW caps \in CapLists, Naming(caps), RegisterHolds(caps) \/ ReleaseHolds(caps)
      PROVE  HistInv'
  BY <1>1, <1>4, <1>6, HoldsLives, Zenon DEF Naming
<1>7. ASSUME NEW cap \in Caps, Naming(<<cap>>),
             \/ RevokeChannel(cap)
             \/ \E msg \in Msgs : Send(cap, msg)
             \/ TryRecv(cap)
             \/ \E me \in Waiters : Park(cap, me)
      PROVE  HistInv'
  BY <1>1, <1>4, <1>7, HistRevoke, SendLives, RecvLives, Zenon DEF Naming
<1>8. ASSUME NEW id \in Waiters, ClearWaiter(id), Naming(<<>>) PROVE HistInv'
  BY <1>1, <1>4, <1>8, ClearLives, Zenon DEF Naming
<1>9. ASSUME UNCHANGED channelVars PROVE HistInv'
  BY <1>4, <1>9, Zenon DEF channelVars, ipcVars, historyVars, LivesSame
<1>10. HistInv'
  BY <1>5, <1>6, <1>7, <1>8, <1>9, Zenon DEF ChannelsNext
<1>11. QED BY <1>3, <1>10, Zenon DEF ChannelsInv

\* In every reachable state the history tells the channels apart.
THEOREM HistoryKept == ChannelsSpec => []ChannelsInv
<1>1. ChannelsInit => ChannelsInv
  BY IpcInitInv, HistInit, Zenon DEF ChannelsInit, ChannelsInv
<1>2. QED BY <1>1, ChannelsStepInv, PTL DEF ChannelsSpec

-----------------------------------------------------------------------------
(* Every call is the abstract call *)

LEMMA OneHandle ==
    ASSUME NEW cap, Naming(<<cap>>)
    PROVE  Abstract!Through(Handle(cap)) /\ UNCHANGED <<minted, owner>>
BY DEF Naming, Abstract!Through

LEMMA NothingMaps ==
    ASSUME UNCHANGED <<mailboxes, minted, owner>>
    PROVE  ChansOfTable' = ChansOfTable
BY Zenon DEF ChansOfTable, ChannelIn

LEMMA RefuseMaps ==
    ASSUME UNCHANGED <<mailboxes, minted, owner>>, NEW res, Returns(res)
    PROVE  Abstract!Refuse(res)
BY NothingMaps, Zenon DEF Returns, Abstract!Refuse, Abstract!Returned

\* The channel a mailbox holds.
ChannelOf(box) ==
    [open |-> TRUE, queue |-> QueueOf(box), waiter |-> box.waiter,
     holders |-> box.send_holders, reap |-> box.auto_reap]

\* A call that touches one mailbox touches one channel.
LEMMA OneBoxMaps ==
    ASSUME ChannelsInv, ChanFacts', UNCHANGED <<minted, owner>>, NEW b \in Boxes,
           mailboxes[b].live, NEW box, box.live,
           mailboxes' = [mailboxes EXCEPT ![b] = box]
    PROVE  ChansOfTable' = [ChansOfTable EXCEPT ![owner[b]] = ChannelOf(box)]
<1> DEFINE F == [ChansOfTable EXCEPT ![owner[b]] = ChannelOf(box)]
<1>1. ChanFacts
  BY ChannelsRead, Zenon
<1>2. /\ mailboxes'[b] = box
      /\ \A d \in Boxes \ {b} : mailboxes'[d] = mailboxes[d]
  BY Zenon DEF ChannelsInv, IpcInv
<1>3. ChannelIn(b)' = ChannelOf(box) /\ \A d \in Boxes \ {b} : ChannelIn(d)' = ChannelIn(d)
  BY <1>2, Zenon DEF ChannelIn, ChannelOf
<1>4. /\ ChansOfTable = [c \in 1 .. Len(minted) |-> ChansOfTable[c]]
      /\ owner[b] \in 1 .. Len(minted)
  <2>1. DOMAIN ChansOfTable = 1 .. Len(minted) /\ owner[b] \in 1 .. Len(minted)
    BY <1>1, Zenon DEF ChanFacts
  <2>2. QED BY <2>1, Zenon DEF ChansOfTable
<1>5. /\ F = [c \in 1 .. Len(minted) |-> F[c]] /\ F[owner[b]] = ChannelOf(box)
      /\ \A c \in (1 .. Len(minted)) \ {owner[b]} : F[c] = ChansOfTable[c]
  BY <1>4, Zenon
<1> HIDE DEF F
<1>6. ASSUME NEW d \in Boxes, mailboxes'[d].live PROVE F[owner[d]] = ChannelIn(d)'
  <2>1. CASE d = b
    BY <1>3, <1>5, <2>1, Zenon
  <2>2. CASE d # b
    <3>1. mailboxes[d].live /\ ChannelIn(d)' = ChannelIn(d)
      BY <1>2, <1>3, <1>6, <2>2, Zenon
    <3>2. owner[d] \in 1 .. Len(minted) /\ ChansOfTable[owner[d]] = ChannelIn(d)
          /\ owner[d] # owner[b]
      BY <1>1, <2>2, <3>1, Zenon DEF ChanFacts
    <3>3. QED BY <1>5, <3>1, <3>2, Zenon
  <2>3. QED BY <2>1, <2>2, Zenon
<1>7. ASSUME NEW c \in 1 .. Len(minted),
             \A d \in Boxes : mailboxes'[d].live => owner[d] # c
      PROVE  F[c] = ClosedChannel
  <2>1. c # owner[b]
    BY <1>2, <1>7, Zenon
  <2>2. \A d \in Boxes : mailboxes[d].live => owner[d] # c
    BY <1>2, <1>7, <2>1, Zenon
  <2>3. QED BY <1>1, <1>5, <2>1, <2>2, Zenon DEF ChanFacts
<1>8. ChansOfTable' = F
  BY <1>5, <1>6, <1>7, ChansEqual, Zenon
<1>9. QED BY <1>8, Zenon DEF F

\* create_channel appends an empty channel, or refuses.
LEMMA CreateMaps ==
    ASSUME ChannelsInv, ChanFacts', NEW reap \in BOOLEAN, CreateStep(reap)
    PROVE  Abstract!Create(reap)
<1>1. call' = <<>>
  BY Zenon DEF CreateStep
<1>2. CASE Returns("NoRoom") /\ UNCHANGED <<endpoints, mailboxes, next_gen, minted, owner>>
  BY <1>1, <1>2, RefuseMaps, Zenon DEF Abstract!Create
<1>3. CASE \E b \in Boxes, s, r \in Ends : Created(reap, b, s, r)
  <2>1. PICK b \in Boxes, s \in Ends, r \in Ends : Created(reap, b, s, r)
    BY <1>3, Zenon
  <2>2. PICK n, g : n = Len(minted) /\ g = Len(minted) + 1
    BY Zenon
  <2>3. CreatedTables(reap, b, s, r, g)
    BY <2>1, <2>2, CreatedReads, Zenon
  <2>4. ChanFacts
    BY ChannelsRead, Zenon
  <2> DEFINE new == [Abstract!Closed EXCEPT !.open = TRUE, !.reap = reap]
  <2>5. ChannelIn(b)' = new
    <3> DEFINE box == [EmptyBox EXCEPT !.live = TRUE, !.auto_reap = reap]
    <3>1. /\ box.len = 0 /\ box.waiter = None /\ box.send_holders = 0
          /\ box.auto_reap = reap
      BY Zenon DEF EmptyBox
    <3>2. mailboxes'[b] = box
      BY <2>3, Zenon DEF CreatedTables
    <3> HIDE DEF box
    <3>3. QueueOf(box) = <<>>
      BY <3>1 DEF QueueOf
    <3>4. new = [open |-> TRUE, queue |-> <<>>, waiter |-> None, holders |-> 0,
                 reap |-> reap]
      <4>1. ClosedChannel \in ChanType /\ Abstract!Closed = ClosedChannel
        BY ChannelTyped, Zenon DEF ChannelsInv, Abstract!Closed, ClosedChannel
      <4>2. [ClosedChannel EXCEPT !.open = TRUE, !.reap = reap]
              = [open |-> TRUE, queue |-> ClosedChannel.queue,
                 waiter |-> ClosedChannel.waiter, holders |-> ClosedChannel.holders,
                 reap |-> reap]
        <5>1. PICK x, u, v : x = ClosedChannel /\ u = TRUE /\ v = reap
          BY Zenon
        <5> DEFINE y == [x EXCEPT !.open = u]
        <5>2. x \in ChanType
          BY <4>1, <5>1, Zenon
        <5>3. y = [open |-> u, queue |-> x.queue, waiter |-> x.waiter,
                   holders |-> x.holders, reap |-> x.reap]
          BY <5>2 DEF ChanType
        <5>4. [x EXCEPT !.open = u, !.reap = v] = [y EXCEPT !.reap = v]
          BY <5>2, Zenon DEF ChanType
        <5> HIDE DEF y
        <5>5. [y EXCEPT !.reap = v] = [open |-> u, queue |-> x.queue,
                   waiter |-> x.waiter, holders |-> x.holders, reap |-> v]
          BY <5>3
        <5>6. QED BY <5>1, <5>4, <5>5, Zenon
      <4>3. /\ ClosedChannel.queue = <<>> /\ ClosedChannel.waiter = None
            /\ ClosedChannel.holders = 0
        BY Zenon DEF ClosedChannel
      <4>4. QED BY <4>1, <4>2, <4>3, Zenon
    <3>5. QED BY <3>1, <3>2, <3>3, <3>4, Zenon DEF ChannelIn
  <2> HIDE DEF new
  <2>6. /\ ChansOfTable \in Seq(ChanType) /\ Len(ChansOfTable) = n /\ n \in Nat
        /\ DOMAIN ChansOfTable = 1 .. n
    BY <2>2, <2>4 DEF ChanFacts
  <2>7. /\ ChansOfTable' \in Seq(ChanType) /\ DOMAIN ChansOfTable' = 1 .. g
        /\ Len(ChansOfTable') = g
    BY <2>2, <2>3, <2>6 DEF ChanFacts, CreatedTables
  <2>8. ChansOfTable'[g] = new
    BY <2>3, <2>5 DEF ChanFacts, CreatedTables
  <2>9. ASSUME NEW c \in 1 .. n PROVE ChansOfTable'[c] = ChansOfTable[c]
    <3>1. /\ ~mailboxes[b].live /\ mailboxes'[b].live /\ owner'[b] = g
          /\ \A d \in Boxes \ {b} : mailboxes'[d] = mailboxes[d] /\ owner'[d] = owner[d]
      BY <2>1, <2>3, Zenon DEF Created, CreatedTables
    <3>2. \A d \in Boxes \ {b} : ChannelIn(d)' = ChannelIn(d)
      BY <3>1, Zenon DEF ChannelIn
    <3>3. c # g /\ c \in 1 .. g /\ Len(minted') = g
      BY <2>2, <2>3, <2>6 DEF CreatedTables
    <3>4. CASE \E d \in Boxes : mailboxes[d].live /\ owner[d] = c
      <4>1. PICK d \in Boxes : mailboxes[d].live /\ owner[d] = c
        BY <3>4, Zenon
      <4>2. d # b /\ mailboxes'[d].live /\ owner'[d] = c
        BY <3>1, <4>1, Zenon
      <4>3. ChansOfTable[c] = ChannelIn(d) /\ ChansOfTable'[c] = ChannelIn(d)'
        BY <2>4, <4>1, <4>2, Zenon DEF ChanFacts
      <4>4. QED BY <3>2, <4>2, <4>3, Zenon
    <3>5. CASE \A d \in Boxes : mailboxes[d].live => owner[d] # c
      <4>1. \A d \in Boxes : mailboxes'[d].live => owner'[d] # c
        BY <3>1, <3>3, <3>5, Zenon
      <4>2. ChansOfTable[c] = ClosedChannel
        BY <2>2, <2>4, <3>5, Zenon DEF ChanFacts
      <4>3. ChansOfTable'[c] = ClosedChannel
        BY <3>3, <4>1, Zenon DEF ChanFacts, ClosedChannel
      <4>4. QED BY <4>2, <4>3, Zenon
    <3>6. QED BY <3>4, <3>5, Zenon
  <2>10. ChansOfTable' = Append(ChansOfTable, new)
    <3>1. new \in ChanType
      BY <2>2, <2>6, <2>7, <2>8
    <3>2. /\ Append(ChansOfTable, new) \in Seq(ChanType)
          /\ Len(Append(ChansOfTable, new)) = g
          /\ \A c \in 1 .. n : Append(ChansOfTable, new)[c] = ChansOfTable[c]
          /\ Append(ChansOfTable, new)[g] = new
      BY <2>2, <2>6, <3>1
    <3>3. \A c \in 1 .. g : ChansOfTable'[c] = Append(ChansOfTable, new)[c]
      BY <2>2, <2>6, <2>8, <2>9, <3>2
    <3>4. QED BY <2>7, <3>2, <3>3
  <2>11. Abstract!Done({})
    BY <2>1, Zenon DEF Created, Returns, Abstract!Done, Abstract!Returned
  <2>12. QED BY <1>1, <2>10, <2>11, Zenon DEF Abstract!Create, new
<1>4. QED BY <1>2, <1>3, CreateCases, Zenon

\* revoke_channel closes the channel its capability names.
LEMMA RevokeMaps ==
    ASSUME ChannelsInv, ChanFacts', NEW cap \in Caps, RevokeChannel(cap),
           UNCHANGED <<minted, owner>>
    PROVE  Abstract!Revoke(Handle(cap))
<1>1. Abstract!Good(Handle(cap), {"SEND", "RECV"}) <=> Names(cap)
  BY GoodReads, Zenon DEF Rights
<1>2. CASE ~Names(cap)
  BY <1>1, <1>2, RefuseMaps, Zenon DEF RevokeChannel, Abstract!Revoke
<1>3. CASE Names(cap)
  <2>1. PICK b, c : b = BoxOf(cap) /\ c = Handle(cap)[1]
    BY Zenon
  <2>2. /\ b \in Boxes /\ mailboxes[b].live /\ c = owner[b] /\ c \in 1 .. Len(minted)
        /\ ChansOfTable[c] = ChannelIn(b)
    BY <1>3, <2>1, Resolution, Zenon DEF Reading
  <2>3. /\ mailboxes' = [mailboxes EXCEPT ![b] = EmptyBox]
        /\ ReturnsTasks({mailboxes[b].waiter} \ {None})
    BY <1>3, <2>1, Zenon DEF RevokeChannel
  <2>4. /\ ~mailboxes'[b].live
        /\ \A d \in Boxes \ {b} : mailboxes'[d] = mailboxes[d]
    BY <2>2, <2>3, EmptyOK, Zenon DEF ChannelsInv, IpcInv
  <2>5. ChanFacts
    BY ChannelsRead, Zenon
  <2> DEFINE F == [ChansOfTable EXCEPT ![c] = ClosedChannel]
  <2>6. ChansOfTable = [k \in 1 .. Len(minted) |-> ChansOfTable[k]]
    <3>1. DOMAIN ChansOfTable = 1 .. Len(minted)
      BY <2>5, Zenon DEF ChanFacts
    <3>2. QED BY <3>1, Zenon DEF ChansOfTable
  <2>7. /\ F = [k \in 1 .. Len(minted) |-> F[k]] /\ F[c] = ClosedChannel
        /\ \A k \in (1 .. Len(minted)) \ {c} : F[k] = ChansOfTable[k]
    BY <2>2, <2>6, Zenon
  <2> HIDE DEF F
  <2>8. ASSUME NEW d \in Boxes, mailboxes'[d].live PROVE F[owner[d]] = ChannelIn(d)'
    <3>1. d # b /\ mailboxes'[d] = mailboxes[d] /\ mailboxes[d].live
      BY <2>4, <2>8, Zenon
    <3>2. /\ owner[d] \in 1 .. Len(minted) /\ ChansOfTable[owner[d]] = ChannelIn(d)
          /\ owner[d] # c
      BY <2>2, <2>5, <3>1, Zenon DEF ChanFacts
    <3>3. ChannelIn(d)' = ChannelIn(d)
      BY <3>1, Zenon DEF ChannelIn
    <3>4. QED BY <2>7, <3>2, <3>3, Zenon
  <2>9. ASSUME NEW k \in 1 .. Len(minted),
               \A d \in Boxes : mailboxes'[d].live => owner[d] # k
        PROVE  F[k] = ClosedChannel
    <3>1. CASE k = c
      BY <2>7, <3>1, Zenon
    <3>2. CASE k # c
      <4>1. \A d \in Boxes : mailboxes[d].live => owner[d] # k
        BY <2>2, <2>4, <2>9, <3>2, Zenon
      <4>2. QED BY <2>5, <2>7, <3>2, <4>1, Zenon DEF ChanFacts
    <3>3. QED BY <3>1, <3>2, Zenon
  <2>10. ChansOfTable' = F
    BY <2>7, <2>8, <2>9, ChansEqual, Zenon
  <2>11. Abstract!Done({ChansOfTable[c].waiter} \ {None})
    BY <2>2, <2>3 DEF ReturnsTasks, Abstract!Done, Abstract!Returned, ChannelIn
  <2>12. ClosedChannel = Abstract!Closed
    BY Zenon DEF ClosedChannel, Abstract!Closed
  <2>13. QED BY <1>1, <1>3, <2>1, <2>10, <2>11, <2>12, Zenon DEF Abstract!Revoke, F
<1>4. QED BY <1>2, <1>3, Zenon

\* A refusal of send, try_recv or park is one of the channel.
LEMMA RefusedMaps ==
    ASSUME ChannelsInv, NEW cap \in Caps, NEW need \in Rights, Refused(cap, need),
           UNCHANGED <<minted, owner>>
    PROVE  ~Abstract!Good(Handle(cap), {need}) /\ Abstract!Refuse("BadCap")
<1>1. ~Resolves(cap, need)
  BY NamesLive, Zenon DEF Refused, Resolves, ChannelsInv
<1>2. ~Abstract!Good(Handle(cap), {need})
  BY <1>1, GoodReads, Zenon
<1>3. QED BY <1>2, RefuseMaps, Zenon DEF Refused

\* The channel of a capability that reaches its mailbox.
LEMMA ReachesReads ==
    ASSUME ChannelsInv, NEW cap \in Caps, NEW need \in Rights, Reaches(cap, need),
           NEW b, b = BoxOf(cap), NEW c, c = Handle(cap)[1]
    PROVE  /\ Abstract!Good(Handle(cap), {need})
           /\ b \in Boxes /\ mailboxes[b].live /\ BoxOK(mailboxes[b])
           /\ c = owner[b] /\ c \in DOMAIN ChansOfTable
           /\ ChansOfTable[c] = ChannelIn(b)
           /\ Len(ChansOfTable[c].queue) = mailboxes[b].len
<1>1. /\ b \in Boxes /\ mailboxes[b].live /\ c = owner[b] /\ c \in 1 .. Len(minted)
      /\ ChansOfTable[c] = ChannelIn(b)
  BY Resolution, Zenon DEF Reading, Reaches, Resolves
<1>2. BoxOK(mailboxes[b])
  BY <1>1, Zenon DEF ChannelsInv, IpcInv
<1>3. Len(QueueOf(mailboxes[b])) = mailboxes[b].len
  BY <1>2, QueueTyped, Zenon
<1>4. Abstract!Good(Handle(cap), {need})
  BY GoodReads, Zenon DEF Reaches
<1>5. DOMAIN ChansOfTable = 1 .. Len(minted)
  BY ChannelsRead, Zenon DEF ChanFacts
<1>6. QED BY <1>1, <1>2, <1>3, <1>4, <1>5 DEF ChannelIn

\* send appends to the channel's queue, or refuses a full one.
LEMMA SendMaps ==
    ASSUME ChannelsInv, ChanFacts', NEW cap \in Caps, NEW msg \in Msgs, Send(cap, msg),
           UNCHANGED <<minted, owner>>
    PROVE  Abstract!Send(Handle(cap), msg)
<1>0. "SEND" \in Rights
  BY Zenon DEF Rights
<1>1. CASE Refused(cap, "SEND")
  BY <1>0, <1>1, RefusedMaps, Zenon DEF Abstract!Send
<1>2. CASE Reaches(cap, "SEND") /\ ~Refused(cap, "SEND")
  <2>1. PICK b, c : b = BoxOf(cap) /\ c = Handle(cap)[1]
    BY Zenon
  <2>2. /\ Abstract!Good(Handle(cap), {"SEND"})
        /\ b \in Boxes /\ mailboxes[b].live /\ BoxOK(mailboxes[b])
        /\ c = owner[b] /\ c \in DOMAIN ChansOfTable
        /\ ChansOfTable[c] = ChannelIn(b)
        /\ Len(ChansOfTable[c].queue) = mailboxes[b].len
    BY <1>0, <1>2, <2>1, ReachesReads
  <2>3. CASE mailboxes[b].len = Depth
    <3>1. Abstract!Refuse("Full")
      BY <1>2, <2>1, <2>3, RefuseMaps, Zenon DEF Send
    <3>2. QED BY <2>1, <2>2, <2>3, <3>1, Zenon DEF Abstract!Send
  <2>4. CASE mailboxes[b].len # Depth
    <3>1. /\ mailboxes' = [mailboxes EXCEPT ![b] = Delivered(@, msg)]
          /\ ReturnsTasks({mailboxes[b].waiter} \ {None})
      BY <1>2, <2>1, <2>4, Zenon DEF Send
    <3>2. mailboxes[b].len < Depth
      BY <2>2, <2>4, SizeAssumption DEF BoxOK, BoxType
    <3>3. PICK box : box = Delivered(mailboxes[b], msg)
      BY Zenon
    <3>4. /\ box.live /\ box.waiter = None
          /\ QueueOf(box) = Append(QueueOf(mailboxes[b]), msg)
      BY <2>2, <3>2, <3>3, DeliveredOK, QueuePush, Zenon
    <3>5. /\ box.send_holders = mailboxes[b].send_holders
          /\ box.auto_reap = mailboxes[b].auto_reap
      BY <2>2, <3>3, Zenon DEF Delivered, Push, BoxOK, BoxType
    <3>6. mailboxes' = [mailboxes EXCEPT ![b] = box]
      BY <3>1, <3>3, Zenon
    <3>7. ChansOfTable' = [ChansOfTable EXCEPT ![c] = ChannelOf(box)]
      BY <2>2, <3>4, <3>6, OneBoxMaps, Zenon
    <3>8. ChannelOf(box) = [ChansOfTable[c] EXCEPT !.queue = Append(@, msg), !.waiter = None]
      <4>1. ChansOfTable[c] \in ChanType
        BY <2>2, ChannelTyped, Zenon DEF ChannelsInv
      <4>2. [ChansOfTable[c] EXCEPT !.queue = Append(@, msg), !.waiter = None]
              = [ChansOfTable[c] EXCEPT !.queue = Append(ChansOfTable[c].queue, msg),
                                        !.waiter = None]
        BY Zenon
      <4>3. [ChansOfTable[c] EXCEPT !.queue = Append(ChansOfTable[c].queue, msg),
                                    !.waiter = None]
              = [open |-> ChansOfTable[c].open,
                 queue |-> Append(ChansOfTable[c].queue, msg), waiter |-> None,
                 holders |-> ChansOfTable[c].holders, reap |-> ChansOfTable[c].reap]
        <5> DEFINE x == ChansOfTable[c]
                   q == Append(x.queue, msg)
                   y == [x EXCEPT !.queue = q]
        <5> HIDE DEF x, q
        <5>1. x \in ChanType
          BY <4>1, Zenon DEF x
        <5>2. y = [open |-> x.open, queue |-> q, waiter |-> x.waiter,
                   holders |-> x.holders, reap |-> x.reap]
          BY <5>1 DEF ChanType
        <5>3. [x EXCEPT !.queue = q, !.waiter = None] = [y EXCEPT !.waiter = None]
          BY <5>1, Zenon DEF ChanType
        <5> HIDE DEF y
        <5>4. [y EXCEPT !.waiter = None] = [open |-> x.open, queue |-> q,
                   waiter |-> None, holders |-> x.holders, reap |-> x.reap]
          BY <5>2
        <5>5. QED BY <5>3, <5>4, Zenon DEF x, q
      <4>4. /\ ChansOfTable[c].open = TRUE
            /\ ChansOfTable[c].queue = QueueOf(mailboxes[b])
            /\ ChansOfTable[c].holders = mailboxes[b].send_holders
            /\ ChansOfTable[c].reap = mailboxes[b].auto_reap
        BY <2>2 DEF ChannelIn
      <4>5. QED BY <3>4, <3>5, <4>2, <4>3, <4>4, Zenon DEF ChannelOf
    <3>9. ChansOfTable' = [ChansOfTable EXCEPT ![c].queue = Append(@, msg),
                                               ![c].waiter = None]
      BY <2>2, <3>7, <3>8, Zenon
    <3>10. Abstract!Done({ChansOfTable[c].waiter} \ {None})
      BY <2>2, <3>1 DEF ReturnsTasks, Abstract!Done, Abstract!Returned, ChannelIn
    <3>11. QED BY <2>1, <2>2, <3>2, <3>9, <3>10, Zenon DEF Abstract!Send
  <2>5. QED BY <2>3, <2>4, Zenon
<1>3. QED BY <1>1, <1>2, Zenon DEF Send

\* Taking the oldest message of the mailbox takes the head of the queue.
LEMMA TakeMaps ==
    ASSUME ChannelsInv, ChanFacts', UNCHANGED <<minted, owner>>,
           NEW b \in Boxes, mailboxes[b].live, Take(b),
           NEW c \in DOMAIN ChansOfTable, c = owner[b], ChansOfTable[c] = ChannelIn(b)
    PROVE  Abstract!Take(c)
<1>1. BoxOK(mailboxes[b]) /\ mailboxes[b].len > 0
  BY Zenon DEF Take, ChannelsInv, IpcInv
<1>2. PICK box : box = Pop(mailboxes[b])
  BY Zenon
<1>3. box.live /\ box.waiter = mailboxes[b].waiter
  BY <1>1, <1>2, PopOK, Zenon
<1>4. /\ QueueOf(mailboxes[b]) # <<>>
      /\ Head(QueueOf(mailboxes[b])) = mailboxes[b].buf[mailboxes[b].tail]
      /\ QueueOf(box) = Tail(QueueOf(mailboxes[b]))
  BY <1>1, <1>2, QueuePop, Zenon
<1>5. /\ box.send_holders = mailboxes[b].send_holders
      /\ box.auto_reap = mailboxes[b].auto_reap
  BY <1>1, <1>2, Zenon DEF Pop, BoxOK, BoxType
<1>6. mailboxes' = [mailboxes EXCEPT ![b] = box]
  BY <1>2, Zenon DEF Take
<1>7. ChansOfTable' = [ChansOfTable EXCEPT ![c] = ChannelOf(box)]
  BY <1>3, <1>6, OneBoxMaps, Zenon
<1>8. /\ ChansOfTable[c].open = TRUE /\ ChansOfTable[c].queue = QueueOf(mailboxes[b])
      /\ ChansOfTable[c].waiter = mailboxes[b].waiter
      /\ ChansOfTable[c].holders = mailboxes[b].send_holders
      /\ ChansOfTable[c].reap = mailboxes[b].auto_reap
  BY DEF ChannelIn
<1>9. ChannelOf(box) = [ChansOfTable[c] EXCEPT !.queue = Tail(ChansOfTable[c].queue)]
  <2>1. PICK x, q : x = ChansOfTable[c] /\ q = Tail(x.queue)
    BY Zenon
  <2>2. x \in ChanType
    BY <2>1, ChannelTyped, Zenon DEF ChannelsInv
  <2>3. [x EXCEPT !.queue = q] = [open |-> x.open, queue |-> q, waiter |-> x.waiter,
                                  holders |-> x.holders, reap |-> x.reap]
    BY <2>2 DEF ChanType
  <2>4. QED BY <1>3, <1>4, <1>5, <1>8, <2>1, <2>3 DEF ChannelOf
<1>10. ChansOfTable' = [ChansOfTable EXCEPT ![c].queue = Tail(@)]
  BY <1>7, <1>9, Zenon
<1>11. Abstract!Returned("Ok", Head(ChansOfTable[c].queue), {})
  BY <1>4, <1>8, Zenon DEF Take, ReturnsMsg, Abstract!Returned
<1>12. QED BY <1>4, <1>8, <1>10, <1>11, Zenon DEF Abstract!Take

\* try_recv takes the head, or says the queue is empty.
LEMMA TryRecvMaps ==
    ASSUME ChannelsInv, ChanFacts', NEW cap \in Caps, TryRecv(cap),
           UNCHANGED <<minted, owner>>
    PROVE  Abstract!TryRecv(Handle(cap))
<1>0. "RECV" \in Rights
  BY Zenon DEF Rights
<1>1. CASE Refused(cap, "RECV")
  BY <1>0, <1>1, RefusedMaps, Zenon DEF Abstract!TryRecv
<1>2. CASE Reaches(cap, "RECV") /\ ~Refused(cap, "RECV")
  <2>1. PICK b, c : b = BoxOf(cap) /\ c = Handle(cap)[1]
    BY Zenon
  <2>2. /\ Abstract!Good(Handle(cap), {"RECV"})
        /\ b \in Boxes /\ mailboxes[b].live /\ BoxOK(mailboxes[b])
        /\ c = owner[b] /\ c \in DOMAIN ChansOfTable
        /\ ChansOfTable[c] = ChannelIn(b)
        /\ Len(ChansOfTable[c].queue) = mailboxes[b].len
    BY <1>0, <1>2, <2>1, ReachesReads
  <2>3. CASE Take(b)
    BY <2>1, <2>2, <2>3, TakeMaps, Zenon DEF Abstract!TryRecv
  <2>4. CASE mailboxes[b].len = 0 /\ Returns("Empty") /\ UNCHANGED mailboxes
    <3>1. ChansOfTable[c].queue = <<>>
      BY <2>2, <2>4, ChannelTyped DEF ChannelsInv, ChanType, QueueType
    <3>2. QED BY <2>1, <2>2, <2>4, <3>1, RefuseMaps, Zenon DEF Abstract!TryRecv
  <2>5. QED BY <1>2, <2>1, <2>3, <2>4, Zenon DEF TryRecv
<1>3. QED BY <1>1, <1>2, Zenon DEF TryRecv

\* park takes the head, refuses, or claims the waiter of the channel.
LEMMA ParkMaps ==
    ASSUME ChannelsInv, ChanFacts', NEW cap \in Caps, NEW me \in Waiters, Park(cap, me),
           UNCHANGED <<minted, owner>>
    PROVE  Abstract!Park(Handle(cap), me)
<1>0. "RECV" \in Rights
  BY Zenon DEF Rights
<1>1. CASE Refused(cap, "RECV")
  BY <1>0, <1>1, RefusedMaps, Zenon DEF Abstract!Park
<1>2. CASE Reaches(cap, "RECV") /\ ~Refused(cap, "RECV")
  <2>1. PICK b, c : b = BoxOf(cap) /\ c = Handle(cap)[1]
    BY Zenon
  <2>2. /\ Abstract!Good(Handle(cap), {"RECV"})
        /\ b \in Boxes /\ mailboxes[b].live /\ BoxOK(mailboxes[b])
        /\ c = owner[b] /\ c \in DOMAIN ChansOfTable
        /\ ChansOfTable[c] = ChannelIn(b)
        /\ Len(ChansOfTable[c].queue) = mailboxes[b].len
    BY <1>0, <1>2, <2>1, ReachesReads
  <2>3. CASE HasMail(b) /\ Take(b)
    BY <2>1, <2>2, <2>3, TakeMaps, Zenon DEF Abstract!Park
  <2>4. CASE ~HasMail(b) /\ Claim(b, me)
    <3>1. ChansOfTable[c].queue = <<>>
      BY <2>2, <2>4, ChannelTyped DEF ChannelsInv, ChanType, QueueType, HasMail, BoxOK, BoxType
    <3>2. /\ Senderless(b) <=> ChansOfTable[c].reap /\ ChansOfTable[c].holders = 0
          /\ Claimable(b, me) <=> ChansOfTable[c].waiter \in {None, me}
      BY <2>2 DEF ChannelIn, Senderless, Claimable
    <3>3. CASE Senderless(b) /\ Returns("Cancelled") /\ UNCHANGED mailboxes
      BY <2>1, <2>2, <3>1, <3>2, <3>3, RefuseMaps, Zenon DEF Abstract!Park
    <3>4. CASE ~Senderless(b) /\ ~Claimable(b, me) /\ Returns("Busy") /\ UNCHANGED mailboxes
      BY <2>1, <2>2, <3>1, <3>2, <3>4, RefuseMaps, Zenon DEF Abstract!Park
    <3>5. CASE /\ ~Senderless(b) /\ Claimable(b, me)
               /\ mailboxes' = [mailboxes EXCEPT ![b].waiter = me]
               /\ Returns("Parked")
      <4>1. PICK box : box = [mailboxes[b] EXCEPT !.waiter = me]
        BY Zenon
      <4>2. /\ box.live /\ box.waiter = me /\ box.len = mailboxes[b].len
            /\ box.tail = mailboxes[b].tail /\ box.buf = mailboxes[b].buf
            /\ box.send_holders = mailboxes[b].send_holders
            /\ box.auto_reap = mailboxes[b].auto_reap
        BY <2>2, <4>1, Zenon DEF BoxOK, BoxType
      <4>3. mailboxes' = [mailboxes EXCEPT ![b] = box]
        BY <3>5, <4>1, Zenon
      <4>4. ChansOfTable' = [ChansOfTable EXCEPT ![c] = ChannelOf(box)]
        BY <2>2, <4>2, <4>3, OneBoxMaps, Zenon
      <4>5. QueueOf(box) = QueueOf(mailboxes[b])
        BY <4>2, Zenon DEF QueueOf
      <4>6. /\ ChansOfTable[c].open = TRUE /\ ChansOfTable[c].queue = QueueOf(mailboxes[b])
            /\ ChansOfTable[c].holders = mailboxes[b].send_holders
            /\ ChansOfTable[c].reap = mailboxes[b].auto_reap
        BY <2>2 DEF ChannelIn
      <4>7. ChannelOf(box) = [ChansOfTable[c] EXCEPT !.waiter = me]
        <5>1. PICK x : x = ChansOfTable[c]
          BY Zenon
        <5>2. x \in ChanType
          BY <2>2, <5>1, ChannelTyped, Zenon DEF ChannelsInv
        <5>3. [x EXCEPT !.waiter = me] = [open |-> x.open, queue |-> x.queue,
                waiter |-> me, holders |-> x.holders, reap |-> x.reap]
          BY <5>2 DEF ChanType
        <5>4. QED BY <4>2, <4>5, <4>6, <5>1, <5>3, Zenon DEF ChannelOf
      <4>8. ChansOfTable' = [ChansOfTable EXCEPT ![c].waiter = me]
        BY <4>4, <4>7, Zenon
      <4>9. Abstract!Returned("Parked", Empty, {})
        BY <3>5, Zenon DEF Returns, Abstract!Returned
      <4>10. QED BY <2>1, <2>2, <3>1, <3>2, <3>5, <4>8, <4>9, Zenon DEF Abstract!Park
    <3>6. QED BY <2>4, <3>3, <3>4, <3>5, Zenon DEF Claim
  <2>5. QED BY <1>2, <2>1, <2>3, <2>4, Zenon DEF Park
<1>3. QED BY <1>1, <1>2, Zenon DEF Park

\* The instance has a Cardinality of its own.
LEMMA SameCardinality == \A S : Abstract!Cardinality(S) = Cardinality(S)
BY Zenon DEF Cardinality, Abstract!Cardinality

\* The slice names as many SEND ends of a mailbox as its handles name SEND
\* handles of the channel in it.
LEMMA SendsRead ==
    ASSUME ChannelsInv, NEW caps \in Seq(Caps), NEW hs,
           hs = [i \in DOMAIN caps |-> Handle(caps[i])]
    PROVE  /\ \A b \in Boxes : mailboxes[b].live =>
                Abstract!SendsTo(owner[b], hs) = SendEnds(caps, b)
           /\ \A b \in Boxes : ~mailboxes[b].live => SendEnds(caps, b) = 0
           /\ \A c \in 1 .. Len(minted) :
                (\A b \in Boxes : mailboxes[b].live => owner[b] # c)
                    => Abstract!SendsTo(c, hs) = 0
<1>1. DOMAIN hs = DOMAIN caps /\ \A i \in DOMAIN caps : caps[i] \in Caps
  BY DEF Caps
<1>2. ASSUME NEW i \in DOMAIN caps
      PROVE  /\ hs[i] = Handle(caps[i])
             /\ Abstract!Good(hs[i], {"SEND"}) <=> Resolves(caps[i], "SEND")
             /\ Resolves(caps[i], "SEND") =>
                  /\ BoxOf(caps[i]) \in Boxes /\ mailboxes[BoxOf(caps[i])].live
                  /\ hs[i][1] = owner[BoxOf(caps[i])]
  <2>1. caps[i] \in Caps /\ hs[i] = Handle(caps[i])
    BY <1>1, Zenon
  <2>2. Reading(caps[i])
    BY <2>1, Resolution, Zenon
  <2>3. QED BY <2>1, <2>2, GoodReads, Zenon DEF Reading, Resolves, Rights
<1>3. ChanFacts
  BY ChannelsRead, Zenon
<1>4. ASSUME NEW b \in Boxes, mailboxes[b].live
      PROVE  Abstract!SendsTo(owner[b], hs) = SendEnds(caps, b)
  <2>1. \A i \in DOMAIN caps : Resolves(caps[i], "SEND") =>
          (hs[i][1] = owner[b] <=> BoxOf(caps[i]) = b)
    BY <1>2, <1>3, <1>4, Zenon DEF ChanFacts
  <2>2. {i \in DOMAIN hs : Abstract!Good(hs[i], {"SEND"}) /\ hs[i][1] = owner[b]}
          = {i \in DOMAIN caps : Resolves(caps[i], "SEND") /\ BoxOf(caps[i]) = b}
    BY <1>1, <1>2, <2>1, Zenon
  <2>3. QED BY <2>2, SameCardinality, Zenon DEF Abstract!SendsTo, SendEnds
<1>5. ASSUME NEW b \in Boxes, ~mailboxes[b].live PROVE SendEnds(caps, b) = 0
  <2>1. {i \in DOMAIN caps : Resolves(caps[i], "SEND") /\ BoxOf(caps[i]) = b} = {}
    BY <1>2, <1>5, Zenon
  <2>2. QED BY <2>1, FS_EmptySet, Zenon DEF SendEnds
<1>6. ASSUME NEW c \in 1 .. Len(minted),
             \A b \in Boxes : mailboxes[b].live => owner[b] # c
      PROVE  Abstract!SendsTo(c, hs) = 0
  <2>1. {i \in DOMAIN hs : Abstract!Good(hs[i], {"SEND"}) /\ hs[i][1] = c} = {}
    BY <1>1, <1>2, <1>6
  <2>2. QED BY <2>1, FS_EmptySet, SameCardinality, Zenon DEF Abstract!SendsTo
<1>7. QED BY <1>4, <1>5, <1>6, Zenon

\* register_holds adds to the holders of each channel, saturating.
LEMMA RegisterMaps ==
    ASSUME ChannelsInv, ChanFacts', NEW caps \in CapLists, RegisterHolds(caps), Naming(caps)
    PROVE  Abstract!Hold
<1>1. caps \in Seq(Caps) /\ call' = [i \in DOMAIN caps |-> Handle(caps[i])]
      /\ UNCHANGED <<minted, owner>>
  BY CapListsAssumption, Zenon DEF Naming
<1>2. PICK hs : hs = call'
  BY Zenon
<1>3. ChanFacts
  BY ChannelsRead, Zenon
<1> DEFINE Sum(c) == ChansOfTable[c].holders + Abstract!SendsTo(c, hs)
           Capped(c) == IF Sum(c) > HoldersMax THEN HoldersMax ELSE Sum(c)
           F == [c \in 1 .. Len(minted) |-> [ChansOfTable[c] EXCEPT !.holders = Capped(c)]]
<1>4. ASSUME NEW b \in Boxes, mailboxes'[b].live PROVE F[owner[b]] = ChannelIn(b)'
  <2>1. mailboxes[b].live /\ BoxOK(mailboxes[b]) /\ mailboxes[b] \in BoxType
    BY <1>4, HoldsLives, Zenon DEF ChannelsInv, IpcInv, LivesSame
  <2>2. PICK c, n : c = owner[b] /\ n = SendEnds(caps, b)
    BY Zenon
  <2>3. c \in 1 .. Len(minted) /\ ChansOfTable[c] = ChannelIn(b)
        /\ Abstract!SendsTo(c, hs) = n
    BY <1>1, <1>2, <1>3, <2>1, <2>2, SendsRead DEF ChanFacts
  <2>4. PICK held : held = IF mailboxes[b].send_holders + n > HoldersMax THEN HoldersMax
                           ELSE mailboxes[b].send_holders + n
    BY Zenon
  <2>5. mailboxes'[b] = [mailboxes[b] EXCEPT !.send_holders = held]
    BY <2>2, <2>4, Zenon DEF RegisterHolds
  <2>6. PICK box : box = mailboxes'[b]
    BY Zenon
  <2>7. /\ box.waiter = mailboxes[b].waiter /\ box.len = mailboxes[b].len
        /\ box.tail = mailboxes[b].tail /\ box.buf = mailboxes[b].buf
        /\ box.send_holders = held /\ box.auto_reap = mailboxes[b].auto_reap
    BY <2>1, <2>5, <2>6 DEF BoxType
  <2>8. QueueOf(box) = QueueOf(mailboxes[b])
    BY <2>7, Zenon DEF QueueOf
  <2>9. PICK x : x = ChansOfTable[c]
    BY Zenon
  <2>10. x \in ChanType
    BY <2>3, <2>9, ChannelTyped, Zenon DEF ChannelsInv
  <2>11. /\ x.open = TRUE /\ x.queue = QueueOf(mailboxes[b])
         /\ x.waiter = mailboxes[b].waiter /\ x.holders = mailboxes[b].send_holders
         /\ x.reap = mailboxes[b].auto_reap
    BY <2>3, <2>9 DEF ChannelIn
  <2>12. F[c] = [x EXCEPT !.holders = held]
    BY <2>3, <2>4, <2>9, <2>11, Zenon
  <2>13. [x EXCEPT !.holders = held] = [open |-> x.open, queue |-> x.queue,
            waiter |-> x.waiter, holders |-> held, reap |-> x.reap]
    BY <2>10 DEF ChanType
  <2>14. ChannelIn(b)' = ChannelOf(box)
    BY <2>6, Zenon DEF ChannelIn, ChannelOf
  <2>15. ChannelOf(box) = [open |-> x.open, queue |-> x.queue,
            waiter |-> x.waiter, holders |-> held, reap |-> x.reap]
    BY <2>7, <2>8, <2>11, Zenon DEF ChannelOf
  <2>16. QED BY <2>2, <2>12, <2>13, <2>14, <2>15, Zenon
<1>5. ASSUME NEW c \in 1 .. Len(minted),
             \A b \in Boxes : mailboxes'[b].live => owner[b] # c
      PROVE  F[c] = ClosedChannel
  <2>1. \A b \in Boxes : mailboxes[b].live => owner[b] # c
    BY <1>5, HoldsLives, Zenon DEF ChannelsInv, LivesSame
  <2>2. ChansOfTable[c] = ClosedChannel /\ Abstract!SendsTo(c, hs) = 0
    BY <1>1, <1>2, <1>3, <2>1, SendsRead, Zenon DEF ChanFacts
  <2>3. ClosedChannel.holders = 0 /\ Capped(c) = 0
    BY <2>2, SizeAssumption DEF ClosedChannel
  <2>4. F[c] = [ClosedChannel EXCEPT !.holders = 0]
    BY <2>2, <2>3, Zenon
  <2>5. QED BY <2>4, Zenon DEF ClosedChannel
<1>6. ChansOfTable' = F
  <2>1. F = [c \in 1 .. Len(minted) |-> F[c]]
    BY Zenon
  <2> HIDE DEF F
  <2>2. QED BY <1>1, <1>4, <1>5, <2>1, ChansEqual, Zenon
<1>7. DOMAIN ChansOfTable = 1 .. Len(minted)
  BY <1>3, Zenon DEF ChanFacts
<1>8. Abstract!Done({})
  BY Zenon DEF RegisterHolds, Returns, Abstract!Done, Abstract!Returned
<1>9. QED BY <1>2, <1>6, <1>7, <1>8, Zenon DEF Abstract!Hold

\* release_holds takes off the holders of each channel; the waiter of an
\* ephemeral one goes with its last sender and is returned.
LEMMA ReleaseMaps ==
    ASSUME ChannelsInv, ChanFacts', NEW caps \in CapLists, ReleaseHolds(caps), Naming(caps)
    PROVE  Abstract!Drop
<1>1. caps \in Seq(Caps) /\ call' = [i \in DOMAIN caps |-> Handle(caps[i])]
      /\ UNCHANGED <<minted, owner>>
  BY CapListsAssumption, Zenon DEF Naming
<1>2. PICK hs : hs = call'
  BY Zenon
<1>3. ChanFacts
  BY ChannelsRead, Zenon
<1> DEFINE Less(c) == ChansOfTable[c].holders - Abstract!SendsTo(c, hs)
           Left(c) == IF Less(c) < 0 THEN 0 ELSE Less(c)
           Leaves(c) == /\ Abstract!SendsTo(c, hs) > 0 /\ ChansOfTable[c].reap
                        /\ ChansOfTable[c].holders <= Abstract!SendsTo(c, hs)
           F == [c \in 1 .. Len(minted) |->
                    [ChansOfTable[c] EXCEPT !.holders = Left(c),
                        !.waiter = IF Leaves(c) THEN None ELSE @]]
<1>4. ASSUME NEW b \in Boxes, mailboxes[b].live
      PROVE  /\ owner[b] \in 1 .. Len(minted) /\ ChansOfTable[owner[b]] = ChannelIn(b)
             /\ Abstract!SendsTo(owner[b], hs) = SendEnds(caps, b)
             /\ Leaves(owner[b]) <=> Reaps(caps, b)
  <2>1. /\ owner[b] \in 1 .. Len(minted) /\ ChansOfTable[owner[b]] = ChannelIn(b)
        /\ Abstract!SendsTo(owner[b], hs) = SendEnds(caps, b)
    BY <1>1, <1>2, <1>3, <1>4, SendsRead DEF ChanFacts
  <2>2. QED BY <2>1 DEF Reaps, ChannelIn
<1>5. ASSUME NEW c \in 1 .. Len(minted),
             \A b \in Boxes : mailboxes[b].live => owner[b] # c
      PROVE  ChansOfTable[c] = ClosedChannel /\ Abstract!SendsTo(c, hs) = 0 /\ ~Leaves(c)
  <2>1. ChansOfTable[c] = ClosedChannel /\ Abstract!SendsTo(c, hs) = 0
    BY <1>1, <1>2, <1>3, <1>5, SendsRead, Zenon DEF ChanFacts
  <2>2. QED BY <2>1
<1>6. ASSUME NEW b \in Boxes, mailboxes'[b].live PROVE F[owner[b]] = ChannelIn(b)'
  <2>1. mailboxes[b].live /\ BoxOK(mailboxes[b]) /\ mailboxes[b] \in BoxType
    BY <1>6, HoldsLives, Zenon DEF ChannelsInv, IpcInv, LivesSame
  <2>2. PICK c, n : c = owner[b] /\ n = SendEnds(caps, b)
    BY Zenon
  <2>3. c \in 1 .. Len(minted) /\ ChansOfTable[c] = ChannelIn(b)
        /\ Abstract!SendsTo(c, hs) = n /\ (Leaves(c) <=> Reaps(caps, b))
    BY <1>4, <2>1, <2>2, Zenon
  <2>4. PICK left : left = IF mailboxes[b].send_holders - n < 0 THEN 0
                           ELSE mailboxes[b].send_holders - n
    BY Zenon
  <2>5. PICK w : w = IF Reaps(caps, b) THEN None ELSE mailboxes[b].waiter
    BY Zenon
  <2>6. mailboxes'[b] = [mailboxes[b] EXCEPT !.send_holders = left, !.waiter = w]
    BY <2>2, <2>4, <2>5, Zenon DEF ReleaseHolds
  <2>7. PICK box : box = mailboxes'[b]
    BY Zenon
  <2>8. /\ box.waiter = w /\ box.len = mailboxes[b].len
        /\ box.tail = mailboxes[b].tail /\ box.buf = mailboxes[b].buf
        /\ box.send_holders = left /\ box.auto_reap = mailboxes[b].auto_reap
    BY <2>1, <2>6, <2>7 DEF BoxType
  <2>9. QueueOf(box) = QueueOf(mailboxes[b])
    BY <2>8, Zenon DEF QueueOf
  <2>10. PICK x : x = ChansOfTable[c]
    BY Zenon
  <2>11. x \in ChanType
    BY <2>3, <2>10, ChannelTyped, Zenon DEF ChannelsInv
  <2>12. /\ x.open = TRUE /\ x.queue = QueueOf(mailboxes[b])
         /\ x.waiter = mailboxes[b].waiter /\ x.holders = mailboxes[b].send_holders
         /\ x.reap = mailboxes[b].auto_reap
    BY <2>3, <2>10 DEF ChannelIn
  <2>13. Left(c) = left /\ w = IF Leaves(c) THEN None ELSE x.waiter
    BY <2>3, <2>4, <2>5, <2>10, <2>12, Zenon
  <2>14. F[c] = [x EXCEPT !.holders = left, !.waiter = w]
    <3> HIDE DEF Left, Leaves
    <3>1. QED BY <2>3, <2>10, <2>13, Zenon
  <2> DEFINE y == [x EXCEPT !.holders = left]
  <2>15. y = [open |-> x.open, queue |-> x.queue, waiter |-> x.waiter,
              holders |-> left, reap |-> x.reap]
    BY <2>11 DEF ChanType
  <2>16. [x EXCEPT !.holders = left, !.waiter = w] = [y EXCEPT !.waiter = w]
    BY <2>11, Zenon DEF ChanType
  <2> HIDE DEF y
  <2>17. [y EXCEPT !.waiter = w] = [open |-> x.open, queue |-> x.queue, waiter |-> w,
              holders |-> left, reap |-> x.reap]
    BY <2>15
  <2>18. ChannelIn(b)' = ChannelOf(box)
    BY <2>7, Zenon DEF ChannelIn, ChannelOf
  <2>19. ChannelOf(box) = [open |-> x.open, queue |-> x.queue, waiter |-> w,
              holders |-> left, reap |-> x.reap]
    BY <2>8, <2>9, <2>12, Zenon DEF ChannelOf
  <2>20. QED
    <3> HIDE DEF F
    <3>1. QED BY <2>2, <2>14, <2>16, <2>17, <2>18, <2>19, Zenon
<1>7. ASSUME NEW c \in 1 .. Len(minted),
             \A b \in Boxes : mailboxes'[b].live => owner[b] # c
      PROVE  F[c] = ClosedChannel
  <2>1. \A b \in Boxes : mailboxes[b].live => owner[b] # c
    BY <1>7, HoldsLives, Zenon DEF ChannelsInv, LivesSame
  <2>2. ChansOfTable[c] = ClosedChannel /\ Abstract!SendsTo(c, hs) = 0 /\ ~Leaves(c)
    BY <1>5, <2>1, Zenon
  <2>3. PICK x : x = ClosedChannel
    BY Zenon
  <2>4. x.holders = 0 /\ x.waiter = None /\ x \in ChanType
    BY <2>3, ChannelTyped, Zenon DEF ClosedChannel, ChannelsInv
  <2>5. Left(c) = 0
    BY <2>2, <2>3, <2>4
  <2>6. F[c] = [x EXCEPT !.holders = x.holders, !.waiter = x.waiter]
    <3> HIDE DEF Left, Leaves
    <3>1. QED BY <2>2, <2>3, <2>4, <2>5, Zenon
  <2>7. [x EXCEPT !.holders = x.holders, !.waiter = x.waiter] = x
    BY <2>4, Zenon DEF ChanType
  <2>8. QED BY <2>3, <2>6, <2>7, Zenon
<1>8. ChansOfTable' = F
  <2>1. F = [c \in 1 .. Len(minted) |-> F[c]]
    BY Zenon
  <2> HIDE DEF F
  <2>2. QED BY <1>1, <1>6, <1>7, <2>1, ChansEqual, Zenon
<1>9. DOMAIN ChansOfTable = 1 .. Len(minted)
  BY <1>3, Zenon DEF ChanFacts
<1>10. {mailboxes[b].waiter : b \in {d \in Boxes : Reaps(caps, d)}}
         = {ChansOfTable[c].waiter : c \in {k \in 1 .. Len(minted) : Leaves(k)}}
  <2> DEFINE A == {mailboxes[b].waiter : b \in {d \in Boxes : Reaps(caps, d)}}
             B == {ChansOfTable[c].waiter : c \in {k \in 1 .. Len(minted) : Leaves(k)}}
  <2>1. ASSUME NEW b \in Boxes, Reaps(caps, b)
        PROVE  /\ owner[b] \in 1 .. Len(minted) /\ Leaves(owner[b])
               /\ ChansOfTable[owner[b]].waiter = mailboxes[b].waiter
    <3>1. mailboxes[b].live
      BY <1>1, <1>2, <2>1, SendsRead DEF Reaps
    <3>2. ChannelIn(b).waiter = mailboxes[b].waiter
      BY Zenon DEF ChannelIn
    <3>3. QED
      <4> HIDE DEF Leaves
      <4>1. QED BY <1>4, <2>1, <3>1, <3>2, Zenon
  <2>2. ASSUME NEW c \in 1 .. Len(minted), Leaves(c)
        PROVE  \E b \in Boxes : Reaps(caps, b) /\ ChansOfTable[c].waiter = mailboxes[b].waiter
    <3>1. PICK b \in Boxes : mailboxes[b].live /\ owner[b] = c
      BY <1>5, <2>2, Zenon
    <3>2. ChannelIn(b).waiter = mailboxes[b].waiter
      BY Zenon DEF ChannelIn
    <3>3. QED
      <4> HIDE DEF Leaves
      <4>1. QED BY <1>4, <2>2, <3>1, <3>2, Zenon
  <2> HIDE DEF Leaves
  <2>3. QED BY <2>1, <2>2
<1>11. ReturnsTasks({mailboxes[b].waiter : b \in {d \in Boxes : Reaps(caps, d)}} \ {None})
  BY Zenon DEF ReleaseHolds
<1>12. Abstract!Done({ChansOfTable[c].waiter :
                        c \in {k \in DOMAIN ChansOfTable : Leaves(k)}} \ {None})
  <2> HIDE DEF Leaves
  <2>1. QED BY <1>9, <1>10, <1>11, Zenon DEF ReturnsTasks, Abstract!Done, Abstract!Returned
<1>13. QED BY <1>2, <1>8, <1>9, <1>12, Zenon DEF Abstract!Drop, Abstract!LastLeaves

\* cancel takes the task out of the waiter of every channel.
LEMMA ClearMaps ==
    ASSUME ChannelsInv, ChanFacts', NEW id \in Waiters, ClearWaiter(id), Naming(<<>>)
    PROVE  Abstract!ClearWaiter(id)
<1>1. call' = <<>> /\ UNCHANGED <<minted, owner>>
  BY DEF Naming
<1>2. ChanFacts /\ mailboxes \in [Boxes -> BoxType]
  BY ChannelsRead, Zenon DEF ChannelsInv, IpcInv
<1> DEFINE F == [c \in 1 .. Len(minted) |->
                    IF ChansOfTable[c].waiter = id
                    THEN [ChansOfTable[c] EXCEPT !.waiter = None] ELSE ChansOfTable[c]]
<1>3. ASSUME NEW b \in Boxes, mailboxes'[b].live PROVE F[owner[b]] = ChannelIn(b)'
  <2>1. mailboxes[b].live
    BY <1>3, ClearLives, Zenon DEF ChannelsInv, LivesSame
  <2>2. PICK c, x, box : c = owner[b] /\ x = ChansOfTable[c] /\ box = mailboxes'[b]
    BY Zenon
  <2>3. c \in 1 .. Len(minted) /\ x = ChannelIn(b)
    BY <1>2, <2>1, <2>2, Zenon DEF ChanFacts
  <2>4. x \in ChanType
    BY <2>3, ChannelTyped, Zenon DEF ChannelsInv
  <2>5. /\ x.open = TRUE /\ x.queue = QueueOf(mailboxes[b])
        /\ x.waiter = mailboxes[b].waiter /\ x.holders = mailboxes[b].send_holders
        /\ x.reap = mailboxes[b].auto_reap
    BY <2>3, Zenon DEF ChannelIn
  <2>6. CASE mailboxes[b].waiter = id
    <3>1. box = [mailboxes[b] EXCEPT !.waiter = None]
      BY <2>2, <2>6, Zenon DEF ClearWaiter
    <3>2. /\ box.waiter = None /\ box.len = mailboxes[b].len
          /\ box.tail = mailboxes[b].tail /\ box.buf = mailboxes[b].buf
          /\ box.send_holders = mailboxes[b].send_holders
          /\ box.auto_reap = mailboxes[b].auto_reap
      BY <1>2, <3>1, Zenon DEF BoxType
    <3>3. QueueOf(box) = QueueOf(mailboxes[b])
      BY <3>2, Zenon DEF QueueOf
    <3>4. F[c] = [x EXCEPT !.waiter = None]
      BY <2>2, <2>3, <2>5, <2>6, Zenon
    <3>5. [x EXCEPT !.waiter = None] = [open |-> x.open, queue |-> x.queue,
            waiter |-> None, holders |-> x.holders, reap |-> x.reap]
      BY <2>4 DEF ChanType
    <3>6. ChannelIn(b)' = ChannelOf(box)
      BY <2>2, Zenon DEF ChannelIn, ChannelOf
    <3>7. ChannelOf(box) = [open |-> x.open, queue |-> x.queue,
            waiter |-> None, holders |-> x.holders, reap |-> x.reap]
      BY <2>5, <3>2, <3>3, Zenon DEF ChannelOf
    <3>8. QED BY <2>2, <3>4, <3>5, <3>6, <3>7, Zenon
  <2>7. CASE mailboxes[b].waiter # id
    <3>1. mailboxes'[b] = mailboxes[b]
      BY <2>7, Zenon DEF ClearWaiter
    <3>2. ChannelIn(b)' = ChannelIn(b)
      BY <3>1, Zenon DEF ChannelIn
    <3>3. F[c] = x
      BY <2>2, <2>3, <2>5, <2>7, Zenon
    <3>4. QED BY <2>2, <2>3, <3>2, <3>3, Zenon
  <2>8. QED BY <2>6, <2>7, Zenon
<1>4. ASSUME NEW c \in 1 .. Len(minted),
             \A b \in Boxes : mailboxes'[b].live => owner[b] # c
      PROVE  F[c] = ClosedChannel
  <2>1. \A b \in Boxes : mailboxes[b].live => owner[b] # c
    BY <1>4, ClearLives, Zenon DEF ChannelsInv, LivesSame
  <2>2. ChansOfTable[c] = ClosedChannel
    BY <1>2, <2>1, Zenon DEF ChanFacts
  <2>3. ClosedChannel.waiter # id
    BY NoneAssumption, Zenon DEF ClosedChannel
  <2>4. QED BY <2>2, <2>3, Zenon
<1>5. ChansOfTable' = F
  <2>1. F = [c \in 1 .. Len(minted) |-> F[c]]
    BY Zenon
  <2> HIDE DEF F
  <2>2. QED BY <1>1, <1>3, <1>4, <2>1, ChansEqual, Zenon
<1>6. DOMAIN ChansOfTable = 1 .. Len(minted)
  BY <1>2, Zenon DEF ChanFacts
<1>7. Abstract!Done({})
  BY Zenon DEF ClearWaiter, Returns, Abstract!Done, Abstract!Returned
<1>8. QED BY <1>1, <1>5, <1>6, <1>7, Zenon DEF Abstract!ClearWaiter

LEMMA StepMaps ==
    ChannelsInv /\ ChanFacts' /\ [ChannelsNext]_channelVars => [Abstract!Next]_Abstract!vars
<1> SUFFICES ASSUME ChannelsInv, ChanFacts', [ChannelsNext]_channelVars
             PROVE  [Abstract!Next]_Abstract!vars
  BY Zenon
<1>1. ASSUME NEW reap \in BOOLEAN, CreateStep(reap) PROVE Abstract!Next
  BY <1>1, CreateMaps, Zenon DEF Abstract!Next
<1>2. ASSUME NEW caps \in CapLists, Naming(caps), RegisterHolds(caps) \/ ReleaseHolds(caps)
      PROVE  Abstract!Next
  BY <1>2, RegisterMaps, ReleaseMaps, Zenon DEF Abstract!Next
<1>3. ASSUME NEW cap \in Caps, Naming(<<cap>>)
      PROVE  /\ UNCHANGED <<minted, owner>> /\ Abstract!Through(Handle(cap))
             /\ Handle(cap) \in Abstract!Handles
  <2>1. Handle(cap) \in {Forged} \cup ((1 .. Len(minted)) \X Rights)
    BY Resolution, Zenon DEF Reading
  <2>2. DOMAIN ChansOfTable = 1 .. Len(minted)
    BY ChannelsRead, Zenon DEF ChanFacts
  <2>3. QED BY <1>3, <2>1, <2>2, OneHandle, Zenon DEF Abstract!Handles, Rights
<1>4. ASSUME NEW cap \in Caps, Naming(<<cap>>), RevokeChannel(cap) PROVE Abstract!Next
  <2>1. Abstract!Revoke(Handle(cap))
    BY <1>3, <1>4, RevokeMaps, Zenon
  <2>2. QED BY <1>3, <1>4, <2>1, Zenon DEF Abstract!Next
<1>5. ASSUME NEW cap \in Caps, Naming(<<cap>>), NEW msg \in Msgs, Send(cap, msg)
      PROVE  Abstract!Next
  <2>1. Abstract!Send(Handle(cap), msg)
    BY <1>3, <1>5, SendMaps, Zenon
  <2>2. QED BY <1>3, <1>5, <2>1, Zenon DEF Abstract!Next
<1>6. ASSUME NEW cap \in Caps, Naming(<<cap>>), TryRecv(cap) PROVE Abstract!Next
  <2>1. Abstract!TryRecv(Handle(cap))
    BY <1>3, <1>6, TryRecvMaps, Zenon
  <2>2. QED BY <1>3, <1>6, <2>1, Zenon DEF Abstract!Next
<1>7. ASSUME NEW cap \in Caps, Naming(<<cap>>), NEW me \in Waiters, Park(cap, me)
      PROVE  Abstract!Next
  <2>1. Abstract!Park(Handle(cap), me)
    BY <1>3, <1>7, ParkMaps, Zenon
  <2>2. QED BY <1>3, <1>7, <2>1, Zenon DEF Abstract!Next
<1>8. ASSUME NEW id \in Waiters, ClearWaiter(id), Naming(<<>>) PROVE Abstract!Next
  BY <1>8, ClearMaps, Zenon DEF Abstract!Next
<1>9. CASE UNCHANGED channelVars
  BY <1>9, NothingMaps, Zenon DEF channelVars, ipcVars, historyVars, Abstract!vars
<1>10. QED BY <1>1, <1>2, <1>4, <1>5, <1>6, <1>7, <1>8, <1>9, Zenon DEF ChannelsNext

\* The mailbox table with its slots, generations and rings implements the
\* numbered FIFO channels, for any table sizes and any number of channels that
\* does not use a generation twice.
THEOREM TableImplementsChannels == ChannelsSpec => ImplementsChannels
<1>1. ChannelsInit => Abstract!Init
  <2> SUFFICES ASSUME ChannelsInit PROVE Abstract!Init
    BY Zenon
  <2>1. minted = <<>> /\ call = <<>> /\ ret = [res |-> "Ok", msg |-> Empty, wake |-> {}]
    BY Zenon DEF ChannelsInit, IpcInit
  <2>2. ChansOfTable = <<>>
    BY <2>1 DEF ChansOfTable
  <2>3. QED BY <2>1, <2>2, Zenon DEF Abstract!Init
<1>2. QED BY <1>1, HistoryKept, ChannelsRead, StepMaps, PTL
          DEF ChannelsSpec, ImplementsChannels, Abstract!Spec

\* The table stays exact and hands every waiter over while the history is kept.
THEOREM ChannelsExact == ChannelsSpec => []MailboxesExact /\ WaiterHandedOver
<1>1. ChannelsInv => MailboxesExact
  BY InvIsExact, Zenon DEF ChannelsInv
<1>2. [ChannelsNext]_channelVars => [IpcNext]_ipcVars
  BY Zenon DEF ChannelsNext, IpcNext, channelVars, CreateStep
<1>3. ChannelsInv /\ [ChannelsNext]_channelVars => HandsOver
  BY <1>2, IpcStep, Zenon DEF ChannelsInv
<1>4. QED BY <1>1, <1>3, HistoryKept, PTL DEF ChannelsSpec, WaiterHandedOver, HandsOver
=============================================================================
