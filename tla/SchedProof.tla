----------------------------- MODULE SchedProof -----------------------------
(***************************************************************************)
(* Proofs about the task table, for any number of slots and any epoch      *)
(* width, and with them about switch_with: the path's steps are steps of   *)
(* the table, so SwitchProof's lemmas apply to every one of them.          *)
(***************************************************************************)
EXTENDS SwitchProof, FiniteSetTheorems, SequenceTheorems

-----------------------------------------------------------------------------
(* One queue edit at a time *)

\* A live id has the slot it was made from.
LEMMA SlotOfPair == \A s, e : Slot(<<s, e>>) = s /\ Epoch(<<s, e>>) = e
  BY Zenon DEF Slot, Epoch

\* Appending the live id of a slot that was not Ready keeps a queue table
\* consistent with that slot Ready and homed there (enqueue in admit_on, wake
\* and after_yield).
LEMMA AppendKeeps ==
  ASSUME NEW qs, NEW hm, NEW st, NEW ep, Typed(hm, st, ep),
         QueueInv(qs, hm, st, ep),
         NEW s \in Slots, st[s] # "Ready",
         NEW c \in Cpus, Len(qs[c]) < N
  PROVE  QueueInv([qs EXCEPT ![c] = Append(@, <<s, ep[s]>>)],
                  [hm EXCEPT ![s] = c], [st EXCEPT ![s] = "Ready"], ep)
<1> DEFINE id == <<s, ep[s]>>
           qq == [qs EXCEPT ![c] = Append(@, id)]
           hh == [hm EXCEPT ![s] = c]
           ss == [st EXCEPT ![s] = "Ready"]
<1>1. /\ id \in TaskIds /\ Slot(id) = s
      /\ N \in Nat
  BY NAssumption, SlotOfPair, Zenon DEF TaskIds, Typed
<1>2. /\ qs[c] \in Seq(TaskIds) /\ Append(qs[c], id) \in Seq(TaskIds)
      /\ Len(Append(qs[c], id)) = Len(qs[c]) + 1
      /\ \A i \in 1 .. Len(qs[c]) : Append(qs[c], id)[i] = qs[c][i]
      /\ Append(qs[c], id)[Len(qs[c]) + 1] = id
  BY <1>1 DEF QueueInv
<1>3. \A d \in Cpus : \A i \in 1 .. Len(qs[d]) :
        Slot(qs[d][i]) \in Slots /\ Slot(qs[d][i]) # s
  <2> SUFFICES ASSUME NEW d \in Cpus, NEW i \in 1 .. Len(qs[d])
               PROVE  Slot(qs[d][i]) \in Slots /\ Slot(qs[d][i]) # s
    BY Zenon
  <2>1. qs[d][i] \in TaskIds /\ st[Slot(qs[d][i])] = "Ready"
    BY ElementOfSeq DEF QueueInv
  <2> QED BY <2>1, Zenon DEF TaskIds, Slot
<1>4. qq \in [Cpus -> Seq(TaskIds)]
  BY <1>2, Zenon DEF QueueInv
<1>5. \A d \in Cpus : Len(qq[d]) <= N
  BY <1>1, <1>2 DEF QueueInv
<1>6. \A d \in Cpus : \A i \in 1 .. Len(qq[d]) :
        \/ d = c /\ i = Len(qs[c]) + 1 /\ qq[d][i] = id
        \/ i \in 1 .. Len(qs[d]) /\ qq[d][i] = qs[d][i]
  BY <1>2 DEF QueueInv
<1>7. \A d \in Cpus : \A i \in 1 .. Len(qq[d]) :
        /\ qq[d][i] = <<Slot(qq[d][i]), ep[Slot(qq[d][i])]>>
        /\ ss[Slot(qq[d][i])] = "Ready"
        /\ hh[Slot(qq[d][i])] = d
  <2> SUFFICES ASSUME NEW d \in Cpus, NEW i \in 1 .. Len(qq[d])
               PROVE  /\ qq[d][i] = <<Slot(qq[d][i]), ep[Slot(qq[d][i])]>>
                      /\ ss[Slot(qq[d][i])] = "Ready"
                      /\ hh[Slot(qq[d][i])] = d
    BY Zenon
  <2>1. CASE d = c /\ qq[d][i] = id
    BY <2>1, <1>1, Zenon DEF Typed
  <2>2. CASE i \in 1 .. Len(qs[d]) /\ qq[d][i] = qs[d][i]
    <3> DEFINE t == Slot(qs[d][i])
    <3>1. t \in Slots /\ t # s
      BY <2>2, <1>3, Zenon
    <3>2. st[t] = "Ready" /\ hm[t] = d /\ qs[d][i] = <<t, ep[t]>>
      BY <2>2 DEF QueueInv
    <3>3. ss[t] = "Ready" /\ hh[t] = d
      BY <3>1, <3>2, Zenon DEF Typed
    <3> QED BY <2>2, <3>2, <3>3, Zenon
  <2> QED BY <2>1, <2>2, <1>6, Zenon
<1>8. \A d \in Cpus : \A i, j \in 1 .. Len(qq[d]) :
        qq[d][i] = qq[d][j] => i = j
  BY <1>1, <1>3, <1>6 DEF QueueInv
<1>9. \A t \in Slots : ss[t] = "Ready" =>
        \E i \in 1 .. Len(qq[hh[t]]) : qq[hh[t]][i] = <<t, ep[t]>>
  <2> SUFFICES ASSUME NEW t \in Slots, ss[t] = "Ready"
               PROVE  \E i \in 1 .. Len(qq[hh[t]]) : qq[hh[t]][i] = <<t, ep[t]>>
    BY Zenon
  <2>1. CASE t = s
    <3>1. hh[t] = c /\ Len(qs[c]) + 1 \in 1 .. Len(qq[c])
      BY <2>1, <1>2 DEF QueueInv, Typed
    <3> QED BY <3>1, <2>1, <1>2 DEF QueueInv
  <2>2. CASE t # s
    <3>1. st[t] = "Ready" /\ hh[t] = hm[t] /\ hm[t] \in Cpus
      BY <2>2, Zenon DEF Typed
    <3>2. PICK i \in 1 .. Len(qs[hm[t]]) : qs[hm[t]][i] = <<t, ep[t]>>
      BY <3>1, Zenon DEF QueueInv
    <3>3. i \in 1 .. Len(qq[hm[t]]) /\ qq[hm[t]][i] = qs[hm[t]][i]
      BY <3>1, <1>2 DEF QueueInv
    <3> QED BY <3>1, <3>2, <3>3, Zenon
  <2> QED BY <2>1, <2>2, Zenon
<1> QED BY Zenon, <1>4, <1>5, <1>7, <1>8, <1>9 DEF QueueInv

\* The head of queue c is the live id of Ready slot n, and the table without it
\* is consistent with n Running.
PopEffect(qs, hm, st, ep, c, n) ==
    /\ n \in Slots /\ Head(qs[c]) = <<n, ep[n]>>
    /\ st[n] = "Ready" /\ hm[n] = c
    /\ QueueInv([qs EXCEPT ![c] = Tail(@)], hm, [st EXCEPT ![n] = "Running"], ep)

\* The head of a queue is the live id of a Ready slot at home there, and with
\* the head removed the table is consistent with that slot Running (dequeue in
\* after_yield).
LEMMA PopKeeps ==
  ASSUME NEW qs, NEW hm, NEW st, NEW ep, Typed(hm, st, ep),
         QueueInv(qs, hm, st, ep),
         NEW c \in Cpus, qs[c] # <<>>, NEW n, n = Slot(Head(qs[c]))
  PROVE  PopEffect(qs, hm, st, ep, c, n)
<1> DEFINE qq == [qs EXCEPT ![c] = Tail(@)]
           ss == [st EXCEPT ![n] = "Running"]
<1>1. /\ qs[c] \in Seq(TaskIds) /\ Len(qs[c]) \in Nat \ {0}
      /\ Head(qs[c]) = qs[c][1]
      /\ Tail(qs[c]) \in Seq(TaskIds)
      /\ Len(Tail(qs[c])) = Len(qs[c]) - 1
      /\ \A i \in 1 .. Len(qs[c]) - 1 : Tail(qs[c])[i] = qs[c][i + 1]
  BY HeadTailProperties, EmptySeq DEF QueueInv
<1>2. n \in Slots /\ Head(qs[c]) = <<n, ep[n]>> /\ st[n] = "Ready" /\ hm[n] = c
  <2>1. qs[c][1] \in TaskIds
    BY <1>1
  <2> QED BY <1>1, <2>1 DEF QueueInv, TaskIds, Slot
<1>3. \A d \in Cpus : \A i \in 1 .. Len(qq[d]) :
        \E j \in 1 .. Len(qs[d]) : qq[d][i] = qs[d][j] /\ (d = c => j = i + 1)
                                   /\ (d # c => j = i)
  BY <1>1 DEF QueueInv
<1>4. qq \in [Cpus -> Seq(TaskIds)] /\ \A d \in Cpus : Len(qq[d]) <= N
  BY <1>1, NAssumption DEF QueueInv
<1>5. \A d \in Cpus : \A i \in 1 .. Len(qq[d]) :
        /\ qq[d][i] = <<Slot(qq[d][i]), ep[Slot(qq[d][i])]>>
        /\ ss[Slot(qq[d][i])] = "Ready"
        /\ hm[Slot(qq[d][i])] = d
  <2> SUFFICES ASSUME NEW d \in Cpus, NEW i \in 1 .. Len(qq[d])
               PROVE  /\ qq[d][i] = <<Slot(qq[d][i]), ep[Slot(qq[d][i])]>>
                      /\ ss[Slot(qq[d][i])] = "Ready"
                      /\ hm[Slot(qq[d][i])] = d
    BY Zenon
  <2>1. PICK j \in 1 .. Len(qs[d]) : /\ qq[d][i] = qs[d][j]
                                     /\ (d = c => j = i + 1)
    BY <1>3
  <2> DEFINE t == Slot(qs[d][j])
  <2>2. qs[d][j] = <<t, ep[t]>> /\ st[t] = "Ready" /\ hm[t] = d
    BY DEF QueueInv
  <2>3. t \in Slots
    BY <2>2, ElementOfSeq DEF QueueInv, TaskIds, Slot
  <2>4. t # n
    <3> SUFFICES ASSUME t = n PROVE FALSE
      BY Zenon
    <3>1. d = c
      BY <2>2, <1>2, Zenon
    <3>2. qs[c][j] = qs[c][1] /\ j # 1 /\ 1 \in 1 .. Len(qs[c])
      BY <3>1, <2>1, <2>2, <1>1, <1>2
    <3> QED BY <3>1, <3>2, Zenon DEF QueueInv
  <2>5. ss[t] = "Ready"
    BY <2>2, <2>3, <2>4, Zenon DEF Typed
  <2> QED BY <2>1, <2>2, <2>5, Zenon
<1>6. \A d \in Cpus : \A i, j \in 1 .. Len(qq[d]) :
        qq[d][i] = qq[d][j] => i = j
  BY <1>1, <1>3 DEF QueueInv
<1>7. \A t \in Slots : ss[t] = "Ready" =>
        \E i \in 1 .. Len(qq[hm[t]]) : qq[hm[t]][i] = <<t, ep[t]>>
  <2> SUFFICES ASSUME NEW t \in Slots, ss[t] = "Ready"
               PROVE  \E i \in 1 .. Len(qq[hm[t]]) : qq[hm[t]][i] = <<t, ep[t]>>
    BY Zenon
  <2>1. t # n /\ st[t] = "Ready" /\ hm[t] \in Cpus
    BY Zenon DEF Typed
  <2>2. PICK i \in 1 .. Len(qs[hm[t]]) : qs[hm[t]][i] = <<t, ep[t]>>
    BY <2>1, Zenon DEF QueueInv
  <2>3. CASE hm[t] # c
    BY <2>1, <2>2, <2>3 DEF QueueInv
  <2>4. CASE hm[t] = c
    <3>1. i # 1
      BY <2>1, <2>2, <2>4, <1>1, <1>2, SlotOfPair
    <3>2. i - 1 \in 1 .. Len(qq[c]) /\ qq[c][i - 1] = qs[c][i]
      BY <3>1, <2>2, <2>4, <1>1 DEF QueueInv
    <3> QED BY Zenon, <3>2, <2>2, <2>4
  <2> QED BY <2>3, <2>4, Zenon
<1>8. QueueInv(qq, hm, ss, ep)
  BY Zenon, <1>4, <1>5, <1>6, <1>7 DEF QueueInv
<1> QED BY <1>2, <1>8, Zenon DEF PopEffect

\* States, homes and epochs of a slot that is not Ready do not matter to the
\* queues (the Block and Exit arms of switch_on).
LEMMA RelabelKeeps ==
  ASSUME NEW qs, NEW hm, NEW st, NEW ep, Typed(hm, st, ep),
         QueueInv(qs, hm, st, ep),
         NEW s \in Slots, st[s] # "Ready",
         NEW v \in States, v # "Ready",
         NEW e \in Epochs, NEW h \in Cpus
  PROVE  QueueInv(qs, [hm EXCEPT ![s] = h], [st EXCEPT ![s] = v],
                  [ep EXCEPT ![s] = e])
<1> DEFINE hh == [hm EXCEPT ![s] = h]
           ss == [st EXCEPT ![s] = v]
           ee == [ep EXCEPT ![s] = e]
<1>1. \A c \in Cpus : \A i \in 1 .. Len(qs[c]) :
        Slot(qs[c][i]) \in Slots /\ Slot(qs[c][i]) # s
  <2> SUFFICES ASSUME NEW c \in Cpus, NEW i \in 1 .. Len(qs[c])
               PROVE  Slot(qs[c][i]) \in Slots /\ Slot(qs[c][i]) # s
    BY Zenon
  <2>1. qs[c][i] \in TaskIds /\ st[Slot(qs[c][i])] = "Ready"
    BY ElementOfSeq DEF QueueInv
  <2> QED BY <2>1, Zenon DEF TaskIds, Slot
<1>2. \A t \in Slots : t # s => ss[t] = st[t] /\ hh[t] = hm[t] /\ ee[t] = ep[t]
  BY Zenon DEF Typed
<1>3. ss[s] # "Ready"
  BY Zenon DEF Typed
<1>4. \A c \in Cpus : \A i \in 1 .. Len(qs[c]) :
        /\ qs[c][i] = <<Slot(qs[c][i]), ee[Slot(qs[c][i])]>>
        /\ ss[Slot(qs[c][i])] = "Ready"
        /\ hh[Slot(qs[c][i])] = c
  BY <1>1, <1>2 DEF QueueInv
<1>5. \A t \in Slots : ss[t] = "Ready" =>
        \E i \in 1 .. Len(qs[hh[t]]) : qs[hh[t]][i] = <<t, ee[t]>>
  <2> SUFFICES ASSUME NEW t \in Slots, ss[t] = "Ready"
               PROVE  \E i \in 1 .. Len(qs[hh[t]]) : qs[hh[t]][i] = <<t, ee[t]>>
    BY Zenon
  <2>1. st[t] = "Ready" /\ hh[t] = hm[t] /\ ee[t] = ep[t]
    BY <1>2, <1>3, Zenon
  <2>2. \E i \in 1 .. Len(qs[hm[t]]) : qs[hm[t]][i] = <<t, ep[t]>>
    BY Zenon, <2>1 DEF QueueInv
  <2> HIDE DEF hh, ss, ee
  <2> QED BY <2>1, <2>2, Zenon
<1>6. QueueInv(qs, hh, ss, ee)
  <2> HIDE DEF hh, ss, ee
  <2> QED BY Zenon, <1>4, <1>5 DEF QueueInv
<1> QED BY <1>6, Zenon

-----------------------------------------------------------------------------
(* The steal walk *)

\* A rotated queue holds the same entries, each at a known new place.
LEMMA RotatedIndex ==
  ASSUME NEW S, NEW q \in Seq(S), NEW k \in 0 .. Len(q)
  PROVE  /\ RotatedBy(q, k) \in Seq(S)
         /\ Len(RotatedBy(q, k)) = Len(q)
         /\ \A i \in 1 .. Len(q) : RotatedBy(q, k)[i] =
                IF i <= Len(q) - k THEN q[i + k] ELSE q[i - (Len(q) - k)]
<1> DEFINE a == SubSeq(q, k + 1, Len(q))
           b == SubSeq(q, 1, k)
<1>1. Len(q) \in Nat /\ k \in Nat
  OBVIOUS
<1>2. /\ a \in Seq(S) /\ Len(a) = Len(q) - k
      /\ \A i \in 1 .. Len(q) - k : a[i] = q[i + k]
  <2>1. \A i \in k + 1 .. Len(q) : q[i] \in S
    BY <1>1, ElementOfSeq
  <2>2. /\ a \in Seq(S)
        /\ Len(a) = IF k + 1 <= Len(q) THEN Len(q) - (k + 1) + 1 ELSE 0
        /\ \A i \in 1 .. Len(q) - (k + 1) + 1 : a[i] = q[(k + 1) + i - 1]
    BY <1>1, <2>1, SubSeqProperties
  <2> HIDE DEF a
  <2> QED BY <2>2, <1>1
<1>3. /\ b \in Seq(S) /\ Len(b) = k
      /\ \A i \in 1 .. k : b[i] = q[i]
  <2>1. \A i \in 1 .. k : q[i] \in S
    BY <1>1, ElementOfSeq
  <2>2. /\ b \in Seq(S)
        /\ Len(b) = IF 1 <= k THEN k - 1 + 1 ELSE 0
        /\ \A i \in 1 .. k - 1 + 1 : b[i] = q[1 + i - 1]
    BY <1>1, <2>1, SubSeqProperties
  <2> HIDE DEF b
  <2>3. Len(b) = k
    BY <2>2, <1>1
  <2>4. ASSUME NEW i \in 1 .. k PROVE b[i] = q[i]
    <3>1. i \in 1 .. k - 1 + 1 /\ 1 + i - 1 = i
      BY <1>1
    <3> QED BY <3>1, <2>2, Zenon
  <2> QED BY <2>2, <2>3, <2>4, Zenon
<1>4. /\ a \o b \in Seq(S) /\ Len(a \o b) = Len(a) + Len(b)
      /\ \A i \in 1 .. Len(a) + Len(b) : (a \o b)[i] =
            IF i <= Len(a) THEN a[i] ELSE b[i - Len(a)]
  BY Zenon, <1>2, <1>3, ConcatProperties
<1>5. RotatedBy(q, k) = a \o b
  BY Zenon DEF RotatedBy
<1> HIDE DEF a, b
<1>6. Len(a \o b) = Len(q)
  BY <1>1, <1>2, <1>3, <1>4
<1>7. ASSUME NEW i \in 1 .. Len(q)
      PROVE  (a \o b)[i] =
                IF i <= Len(q) - k THEN q[i + k] ELSE q[i - (Len(q) - k)]
  <2>1. (a \o b)[i] = IF i <= Len(q) - k THEN a[i] ELSE b[i - (Len(q) - k)]
    BY <1>1, <1>2, <1>3, <1>4
  <2>2. CASE i <= Len(q) - k
    BY <2>1, <2>2, <1>1, <1>2
  <2>3. CASE ~(i <= Len(q) - k)
    <3>1. i - (Len(q) - k) \in 1 .. k
      BY <2>3, <1>1
    <3> QED BY <3>1, <2>1, <2>3, <1>3, Zenon
  <2> QED BY Zenon, <2>2, <2>3
<1> QED BY Zenon, <1>4, <1>5, <1>6, <1>7

\* Every entry of a rotated queue is an entry of the queue and conversely, and
\* two places of it hold the same entry only if they are the same place.
LEMMA RotatedSame ==
  ASSUME NEW S, NEW q \in Seq(S), NEW k \in 0 .. Len(q),
         \A i, j \in 1 .. Len(q) : q[i] = q[j] => i = j
  PROVE  LET r == RotatedBy(q, k)
         IN /\ \A i \in 1 .. Len(q) : \E j \in 1 .. Len(q) : r[i] = q[j]
            /\ \A j \in 1 .. Len(q) : \E i \in 1 .. Len(q) : r[i] = q[j]
            /\ \A i, j \in 1 .. Len(q) : r[i] = r[j] => i = j
            /\ k < Len(q) => r[1] = q[k + 1]
<1> DEFINE r == RotatedBy(q, k)
<1>1. Len(q) \in Nat /\ k \in Nat /\ k <= Len(q)
  OBVIOUS
<1>2. \A i \in 1 .. Len(q) :
        r[i] = IF i <= Len(q) - k THEN q[i + k] ELSE q[i - (Len(q) - k)]
  BY RotatedIndex, Zenon
<1> HIDE DEF r
<1>3. \A i \in 1 .. Len(q) : \E j \in 1 .. Len(q) : r[i] = q[j]
  BY <1>1, <1>2
<1>4. \A j \in 1 .. Len(q) : \E i \in 1 .. Len(q) : r[i] = q[j]
  <2> SUFFICES ASSUME NEW j \in 1 .. Len(q)
               PROVE  \E i \in 1 .. Len(q) : r[i] = q[j]
    BY Zenon
  <2>1. CASE j > k
    <3>1. j - k \in 1 .. Len(q) /\ r[j - k] = q[j]
      BY <2>1, <1>1, <1>2
    <3> QED BY <3>1, Zenon
  <2>2. CASE j <= k
    <3> DEFINE m == j + (Len(q) - k)
    <3>1. m \in 1 .. Len(q) /\ ~(m <= Len(q) - k) /\ m - (Len(q) - k) = j
      BY <2>2, <1>1
    <3> HIDE DEF m
    <3> QED BY <3>1, <1>2, Zenon
  <2> QED BY <2>1, <2>2, <1>1
<1>5. \A i, j \in 1 .. Len(q) : r[i] = r[j] => i = j
  <2> SUFFICES ASSUME NEW i \in 1 .. Len(q), NEW j \in 1 .. Len(q), r[i] = r[j]
               PROVE  i = j
    BY Zenon
  <2> DEFINE p(x) == IF x <= Len(q) - k THEN x + k ELSE x - (Len(q) - k)
  <2>1. ASSUME NEW x \in 1 .. Len(q)
        PROVE  p(x) \in 1 .. Len(q) /\ r[x] = q[p(x)]
    BY <1>1, <1>2
  <2>2. p(i) = p(j)
    <3> HIDE DEF p
    <3> QED BY <2>1, Zenon
  <2> QED BY <2>2, <1>1
<1>6. k < Len(q) => r[1] = q[k + 1]
  BY <1>1, <1>2
<1> QED BY <1>3, <1>4, <1>5, <1>6, Zenon DEF r

\* Rotating one queue keeps the table consistent (the walk of try_steal_into).
LEMMA RotateKeeps ==
  ASSUME NEW qs, NEW hm, NEW st, NEW ep, Typed(hm, st, ep),
         QueueInv(qs, hm, st, ep),
         NEW c \in Cpus, NEW k \in 0 .. Len(qs[c])
  PROVE  QueueInv([qs EXCEPT ![c] = RotatedBy(@, k)], hm, st, ep)
<1> DEFINE q == qs[c]
           r == RotatedBy(q, k)
           qq == [qs EXCEPT ![c] = r]
<1>1. q \in Seq(TaskIds) /\ r \in Seq(TaskIds) /\ Len(r) = Len(q)
  BY RotatedIndex DEF QueueInv
<1>2. /\ \A i \in 1 .. Len(q) : \E j \in 1 .. Len(q) : r[i] = q[j]
      /\ \A j \in 1 .. Len(q) : \E i \in 1 .. Len(q) : r[i] = q[j]
      /\ \A i, j \in 1 .. Len(q) : r[i] = r[j] => i = j
  <2>1. \A i, j \in 1 .. Len(q) : q[i] = q[j] => i = j
    BY Zenon DEF QueueInv
  <2>2. k \in 0 .. Len(q)
    BY Zenon
  <2> HIDE DEF q
  <2> QED BY Zenon, <1>1, <2>1, <2>2, RotatedSame
<1> HIDE DEF r
<1>3. qq \in [Cpus -> Seq(TaskIds)] /\ \A d \in Cpus : Len(qq[d]) = Len(qs[d])
  BY <1>1 DEF QueueInv
<1>4. \A d \in Cpus : qq[d] = IF d = c THEN r ELSE qs[d]
  BY Zenon DEF QueueInv
<1> HIDE DEF qq
<1>5. \A d \in Cpus : \A i \in 1 .. Len(qs[d]) :
        \E j \in 1 .. Len(qs[d]) : qq[d][i] = qs[d][j]
  <2> SUFFICES ASSUME NEW d \in Cpus, NEW i \in 1 .. Len(qs[d])
               PROVE  \E j \in 1 .. Len(qs[d]) : qq[d][i] = qs[d][j]
    BY Zenon
  <2>1. CASE d = c
    <3>1. qq[d] = r /\ qs[d] = q
      BY <2>1, <1>4, Zenon
    <3> HIDE DEF q
    <3> QED BY <3>1, <1>2
  <2>2. CASE d # c
    BY <2>2, <1>4, Zenon
  <2> QED BY <2>1, <2>2, Zenon
<1>6. \A d \in Cpus : \A j \in 1 .. Len(qs[d]) :
        \E i \in 1 .. Len(qs[d]) : qq[d][i] = qs[d][j]
  <2> SUFFICES ASSUME NEW d \in Cpus, NEW j \in 1 .. Len(qs[d])
               PROVE  \E i \in 1 .. Len(qs[d]) : qq[d][i] = qs[d][j]
    BY Zenon
  <2>1. CASE d = c
    <3>1. qq[d] = r /\ qs[d] = q
      BY <2>1, <1>4, Zenon
    <3> HIDE DEF q
    <3> QED BY <3>1, <1>2, Zenon
  <2>2. CASE d # c
    BY <2>2, <1>4, Zenon
  <2> QED BY <2>1, <2>2, Zenon
<1>7. \A d \in Cpus : \A i, j \in 1 .. Len(qs[d]) : qq[d][i] = qq[d][j] => i = j
  <2> SUFFICES ASSUME NEW d \in Cpus
               PROVE  \A i, j \in 1 .. Len(qs[d]) : qq[d][i] = qq[d][j] => i = j
    BY Zenon
  <2>1. CASE d = c
    <3>1. qq[d] = r /\ qs[d] = q
      BY <2>1, <1>4, Zenon
    <3> HIDE DEF q
    <3> QED BY <3>1, <1>2, Zenon
  <2>2. CASE d # c
    BY <2>2, <1>4 DEF QueueInv
  <2> QED BY <2>1, <2>2, Zenon
<1>8. \A t \in Slots : st[t] = "Ready" =>
        \E i \in 1 .. Len(qq[hm[t]]) : qq[hm[t]][i] = <<t, ep[t]>>
  <2> SUFFICES ASSUME NEW t \in Slots, st[t] = "Ready"
               PROVE  \E i \in 1 .. Len(qq[hm[t]]) : qq[hm[t]][i] = <<t, ep[t]>>
    BY Zenon
  <2>1. hm[t] \in Cpus
    BY Zenon DEF Typed
  <2>2. PICK j \in 1 .. Len(qs[hm[t]]) : qs[hm[t]][j] = <<t, ep[t]>>
    BY Zenon DEF QueueInv
  <2>3. PICK i \in 1 .. Len(qs[hm[t]]) : qq[hm[t]][i] = qs[hm[t]][j]
    BY <2>1, <1>6, Zenon
  <2> QED BY <2>1, <2>2, <2>3, <1>3, Zenon
<1>9. \A d \in Cpus : \A i \in 1 .. Len(qq[d]) :
        /\ qq[d][i] = <<Slot(qq[d][i]), ep[Slot(qq[d][i])]>>
        /\ st[Slot(qq[d][i])] = "Ready"
        /\ hm[Slot(qq[d][i])] = d
  <2> SUFFICES ASSUME NEW d \in Cpus, NEW i \in 1 .. Len(qs[d])
               PROVE  /\ qq[d][i] = <<Slot(qq[d][i]), ep[Slot(qq[d][i])]>>
                      /\ st[Slot(qq[d][i])] = "Ready"
                      /\ hm[Slot(qq[d][i])] = d
    BY <1>3, Zenon
  <2>1. PICK j \in 1 .. Len(qs[d]) : qq[d][i] = qs[d][j]
    BY <1>5, Zenon
  <2> QED BY <2>1 DEF QueueInv
<1>10. QueueInv(qq, hm, st, ep)
  BY Zenon, <1>3, <1>7, <1>8, <1>9 DEF QueueInv
<1> QED BY <1>10, Zenon DEF qq, r

\* A queue with room: N - 1 other slots, each at most once, never fill it
\* (why wake's enqueue cannot refuse).
LEMMA QueueHasRoom ==
  ASSUME NEW qs, NEW hm, NEW st, NEW ep, Typed(hm, st, ep),
         QueueInv(qs, hm, st, ep),
         NEW s \in Slots, st[s] # "Ready", NEW c \in Cpus
  PROVE  Len(qs[c]) < N
<1> SUFFICES ASSUME Len(qs[c]) = N PROVE FALSE
  <2>1. Len(qs[c]) \in Nat /\ Len(qs[c]) <= N /\ N \in Nat
    BY NAssumption DEF QueueInv
  <2> QED BY <2>1
<1> DEFINE others == Slots \ {s}
           f == [i \in 1 .. N |-> Slot(qs[c][i])]
<1>1. f \in [1 .. N -> others]
  <2> SUFFICES ASSUME NEW i \in 1 .. N PROVE Slot(qs[c][i]) \in others
    BY Zenon
  <2>1. qs[c][i] \in TaskIds /\ st[Slot(qs[c][i])] = "Ready"
    BY ElementOfSeq DEF QueueInv
  <2> QED BY <2>1, Zenon DEF TaskIds, Slot
<1>2. IsFiniteSet(1 .. N) /\ Cardinality(1 .. N) = N
  BY FS_Interval, NAssumption
<1>3. IsFiniteSet(Slots) /\ Cardinality(Slots) = N
  <2>1. IsFiniteSet(0 .. N - 1)
        /\ Cardinality(0 .. N - 1) = IF 0 > N - 1 THEN 0 ELSE (N - 1) - 0 + 1
    BY FS_Interval, NAssumption
  <2> QED BY <2>1, NAssumption DEF Slots
<1>4. IsFiniteSet(others) /\ Cardinality(others) = N - 1
  BY <1>3, FS_RemoveElement, Zenon
<1>5. PICK i, j \in 1 .. N : i # j /\ f[i] = f[j]
  <2> HIDE DEF f, others
  <2>1. Cardinality(others) < Cardinality(1 .. N)
    BY <1>2, <1>4, NAssumption
  <2> QED BY <1>1, <1>2, <1>4, <2>1, FS_PigeonHole
<1>6. qs[c][i] = qs[c][j]
  BY <1>5 DEF QueueInv
<1> QED BY <1>5, <1>6, Zenon DEF QueueInv

\* What an idle CPU pulls leaves the queues and homes consistent with the
\* unchanged states and epochs, moves no slot that is not Ready, and never
\* moves an idle identity (try_steal_into).
LEMMA PullKeeps ==
  ASSUME Typed(home, states, epochs), QueueInv(queues, home, states, epochs),
         NEW cpu \in Cpus, NEW pull \in Pulled(cpu)
  PROVE  /\ QueueInv(pull.queues, pull.home, states, epochs)
         /\ Typed(pull.home, states, epochs)
         /\ \A s \in Slots : states[s] # "Ready" => pull.home[s] = home[s]
         /\ \A c \in Cpus : idle[c] = LiveId(Slot(idle[c])) =>
                pull.home[Slot(idle[c])] = home[Slot(idle[c])]
<1> DEFINE peer == 1 - cpu
           q == queues[peer]
<1>1. CASE pull = NothingPulled
  BY <1>1, Zenon DEF NothingPulled
<1>2. ASSUME NEW k \in 1 .. Len(q), StopsAt(q, k), queues[cpu] = <<>>,
             pull = StolenAt(cpu, k)
      PROVE  /\ QueueInv(pull.queues, pull.home, states, epochs)
             /\ Typed(pull.home, states, epochs)
             /\ \A s \in Slots : states[s] # "Ready" => pull.home[s] = home[s]
             /\ \A c \in Cpus : idle[c] = LiveId(Slot(idle[c])) =>
                    pull.home[Slot(idle[c])] = home[Slot(idle[c])]
  <2> DEFINE rot == [queues EXCEPT ![peer] = RotatedBy(@, k - 1)]
             n == Slot(q[k])
  <2>1. /\ peer \in Cpus /\ peer # cpu /\ q \in Seq(TaskIds) /\ Len(q) \in Nat
        /\ k - 1 \in 0 .. Len(q) /\ k - 1 < Len(q) /\ (k - 1) + 1 = k
    BY <1>2 DEF Cpus, QueueInv
  <2>2. QueueInv(rot, home, states, epochs)
    BY <2>1, RotateKeeps, Zenon
  <2>3. /\ rot[peer] = RotatedBy(q, k - 1) /\ rot[cpu] = <<>>
        /\ rot \in [Cpus -> Seq(TaskIds)]
    BY <2>1, <2>2, <1>2 DEF QueueInv
  <2>4. /\ Len(RotatedBy(q, k - 1)) = Len(q) /\ RotatedBy(q, k - 1)[1] = q[k]
    <3>1. \A i, j \in 1 .. Len(q) : q[i] = q[j] => i = j
      BY <2>1, Zenon DEF QueueInv
    <3> DEFINE m == k - 1
    <3>2. m \in 0 .. Len(q) /\ m < Len(q) /\ m + 1 = k /\ q \in Seq(TaskIds)
      BY <2>1, Zenon
    <3> HIDE DEF q, m
    <3>3. Len(RotatedBy(q, m)) = Len(q)
      BY <3>2, RotatedIndex, Zenon
    <3>4. RotatedBy(q, m)[1] = q[m + 1]
      BY Zenon, <3>1, <3>2, RotatedSame
    <3> QED BY <3>2, <3>3, <3>4, Zenon DEF m
  <2>5. rot[peer] # <<>> /\ Head(rot[peer]) = q[k]
    BY <2>1, <2>3, <2>4
  <2>6. CASE states[n] = "Ready"
    <3> DEFINE qs1 == [rot EXCEPT ![peer] = Tail(@)]
               st1 == [states EXCEPT ![n] = "Running"]
               qs2 == [qs1 EXCEPT ![cpu] = Append(@, <<n, epochs[n]>>)]
               hm2 == [home EXCEPT ![n] = cpu]
    <3>1. /\ n \in Slots /\ q[k] = <<n, epochs[n]>>
          /\ QueueInv(qs1, home, st1, epochs)
      <4> HIDE DEF rot
      <4>1. peer \in Cpus /\ rot[peer] # <<>> /\ n = Slot(Head(rot[peer]))
        BY <2>1, <2>5, Zenon
      <4> HIDE DEF peer, q, n
      <4>2. PopEffect(rot, home, states, epochs, peer, n)
        BY <4>1, <2>2, PopKeeps, Zenon
      <4> QED BY <4>2, <2>5, Zenon DEF PopEffect
    <3>2. Typed(home, st1, epochs) /\ st1[n] # "Ready"
      BY <3>1, Zenon DEF Typed, States
    <3>3. qs1[cpu] = <<>> /\ Len(qs1[cpu]) < N
      BY <2>1, <2>3, NAssumption
    <3>4. QueueInv(qs2, hm2, [st1 EXCEPT ![n] = "Ready"], epochs)
      <4> HIDE DEF qs1, st1
      <4> QED BY Zenon, <3>1, <3>2, <3>3, AppendKeeps
    <3>5. [st1 EXCEPT ![n] = "Ready"] = states
      BY Zenon, <2>6, <3>1 DEF Typed
    <3>6. pull.home = hm2
      BY <1>2, <2>6, Zenon DEF StolenAt
    <3>7. pull.queues = qs2
      <4>1. pull.queues = [queues EXCEPT ![peer] = Tail(RotatedBy(q, k - 1)),
                                         ![cpu] = <<q[k]>>]
        BY <1>2, <2>6, Zenon DEF StolenAt
      <4>2. qs1 = [queues EXCEPT ![peer] = Tail(RotatedBy(q, k - 1))]
        BY Zenon, <2>1, <2>3 DEF QueueInv
      <4>3. pull.queues = [qs1 EXCEPT ![cpu] = <<q[k]>>]
        BY Zenon, <4>1, <4>2, <2>1
      <4> HIDE DEF qs1
      <4>4. Append(qs1[cpu], q[k]) = <<q[k]>>
        BY <3>3
      <4> QED BY Zenon, <4>3, <4>4, <3>1
    <3>8. Typed(hm2, states, epochs)
      BY <3>1, Zenon DEF Typed
    <3>9. \A s \in Slots : states[s] # "Ready" => hm2[s] = home[s]
      BY <2>6, <3>1, Zenon DEF Typed
    <3>10. \A c \in Cpus : idle[c] = LiveId(Slot(idle[c])) => Slot(idle[c]) # n
      <4> SUFFICES ASSUME NEW c \in Cpus, idle[c] = LiveId(n)
                   PROVE  FALSE
        BY Zenon
      <4>1. idle[c] = q[k]
        BY <3>1, Zenon DEF LiveId
      <4>2. IsIdle(q[k])
        BY <4>1, Zenon DEF IsIdle, Cpus
      <4> QED BY <4>2, <2>6, <1>2, Zenon DEF StopsAt, PassedOver, IsStealeable
    <3>11. \A c \in Cpus : idle[c] = LiveId(Slot(idle[c])) =>
                hm2[Slot(idle[c])] = home[Slot(idle[c])]
      BY <3>1, <3>10 DEF Typed
    <3> HIDE DEF hm2, qs2
    <3> QED BY <3>4, <3>5, <3>6, <3>7, <3>8, <3>9, <3>11, Zenon
  <2>7. CASE states[n] # "Ready"
    <3>1. pull.queues = rot /\ pull.home = home
      BY <1>2, <2>7, Zenon DEF StolenAt
    <3> QED BY <3>1, <2>2, Zenon
  <2> QED BY <2>6, <2>7, Zenon
<1> QED BY <1>1, <1>2, Zenon DEF Pulled

-----------------------------------------------------------------------------
(* Every action keeps IInv *)

\* QueueInv says of the table's own variables what the three queue invariants
\* say, together with the queues' type.
LEMMA QueueInvIsParts ==
  TasksTypeOK => /\ Typed(home, states, epochs)
                 /\ QueueInv(queues, home, states, epochs) <=> Parts
  BY Zenon DEF TasksTypeOK, Typed, QueueInv, Parts, QueuedIsReady, QueuedOnce,
         ReadyIsQueued, LiveId

\* The same after a step.
LEMMA PartsAfter ==
  ASSUME queues' \in [Cpus -> Seq(TaskIds)],
         QueueInv(queues', home', states', epochs')
  PROVE  Parts'
  BY Zenon DEF QueueInv, Parts, QueuedIsReady, QueuedOnce, ReadyIsQueued, LiveId

\* The number of occupied slots is a natural number.
LEMMA LiveCount == \A st : Cardinality(LiveSlots(st)) \in Nat
<1> TAKE st
<1>1. IsFiniteSet(Slots)
  BY FS_Interval, NAssumption DEF Slots
<1>2. LiveSlots(st) \in SUBSET Slots
  BY Zenon DEF LiveSlots
<1> HIDE DEF Slots
<1> QED BY <1>1, <1>2, FS_Subset, FS_CardinalityType, Zenon

\* Tasks::new and start establish the invariant.
LEMMA InitInv == TasksInit => IInv
<1> SUFFICES ASSUME TasksInit PROVE IInv
  BY Zenon
<1>1. 0 \in Slots /\ 0 \in Epochs /\ N \in Nat /\ IDLE \in TaskIds /\ Slot(IDLE) = 0
  BY NAssumption, EpochAssumption DEF Slots, Epochs, IDLE, TaskIds, Slot
<1>2. \A c \in Cpus : queues[c] = <<>> /\ Len(queues[c]) = 0
  BY Zenon DEF TasksInit
<1>3. queues \in [Cpus -> Seq(TaskIds)]
  BY EmptySeq, Zenon DEF TasksInit
<1>4. TasksTypeOK
  BY <1>1, <1>2, <1>3 DEF TasksInit, TasksTypeOK, States, Cpus
<1>5. Parts
  BY <1>2 DEF TasksInit, Parts, QueuedIsReady, QueuedOnce, ReadyIsQueued
<1>6. OnlineCpus = {0}
  BY Zenon DEF TasksInit, OnlineCpus, Cpu1Started, Cpus
<1>7. RunningIsCurrent /\ IdleCurrentOrQueued /\ ParkedSlotUnused
  BY <1>1, <1>6, Zenon DEF TasksInit, RunningIsCurrent, IdleCurrentOrQueued,
     ParkedSlotUnused, LiveId, IDLE, Slot, Cpus
<1> QED BY <1>4, <1>5, <1>7, Zenon DEF IInv

\* start_cpu1 keeps it: the slot it takes was Empty, so not slot 0.
LEMMA StartInv == IInv /\ StartCpu1 => IInv'
<1> SUFFICES ASSUME IInv, StartCpu1 PROVE IInv'
  BY Zenon
<1>1. PICK s \in Slots :
        /\ FirstFree(s)
        /\ states' = [states EXCEPT ![s] = "Running"]
        /\ home' = [home EXCEPT ![s] = 1]
        /\ current' = [current EXCEPT ![1] = LiveId(s)]
        /\ idle' = [idle EXCEPT ![1] = LiveId(s)]
        /\ NoteOccupancy(states')
  BY Zenon DEF StartCpu1
<1>2. /\ UNCHANGED <<epochs, stealeable, queues, parked, overwrites>>
      /\ idle[1] = IDLE
  BY Zenon DEF StartCpu1, Cpu1Started
<1>3. states[s] = "Empty" /\ Slot(parked) # s /\ s # 0
  BY <1>1, IdFacts, Zenon DEF FirstFree, Free
<1>4. LiveId(s) \in TaskIds /\ Slot(LiveId(s)) = s /\ LiveId(s) # IDLE
  BY <1>3, Zenon DEF IInv, TasksTypeOK, LiveId, TaskIds, Slot, IDLE
<1>5. TasksTypeOK'
  BY <1>1, <1>2, <1>4, LiveCount DEF IInv, TasksTypeOK, States, NoteOccupancy, Cpus
<1>6. Parts'
  <2>1. QueueInv(queues, [home EXCEPT ![s] = 1], [states EXCEPT ![s] = "Running"],
                 [epochs EXCEPT ![s] = epochs[s]])
    BY Zenon, <1>3, RelabelKeeps, QueueInvIsParts DEF IInv, TasksTypeOK, States, Cpus
  <2>2. [epochs EXCEPT ![s] = epochs[s]] = epochs
    BY Zenon DEF IInv, TasksTypeOK
  <2>3. QueueInv(queues', home', states', epochs')
    BY <2>1, <2>2, <1>1, <1>2, Zenon
  <2> QED BY <2>3, <1>5, PartsAfter, Zenon DEF TasksTypeOK
<1>7. OnlineCpus = {0} /\ OnlineCpus' = {0, 1}
  BY <1>1, <1>2, <1>4, Zenon DEF OnlineCpus, Cpu1Started, IInv, TasksTypeOK, Cpus
<1>8. Slot(current[0]) \in Slots /\ Slot(current[0]) # s /\ Slot(idle[0]) = 0
  BY <1>3, <1>7, IdFacts DEF IInv, RunningIsCurrent, TasksTypeOK, IDLE, Slot
<1>9. current'[0] = current[0] /\ idle'[0] = idle[0]
      /\ current'[1] = LiveId(s) /\ idle'[1] = LiveId(s)
  BY <1>1 DEF IInv, TasksTypeOK, Cpus
<1>10. \A t \in Slots : LiveId(t)' = LiveId(t)
  BY <1>2, Zenon DEF LiveId
<1>11. \A t \in Slots : t # s => states'[t] = states[t] /\ home'[t] = home[t]
  BY <1>1, Zenon DEF IInv, TasksTypeOK
<1>12. states'[s] = "Running" /\ home'[s] = 1
  BY <1>1, Zenon DEF IInv, TasksTypeOK
<1>13. RunningIsCurrent'
  BY <1>4, <1>7, <1>8, <1>9, <1>10, <1>11, <1>12 DEF IInv, RunningIsCurrent
<1>14. IdleCurrentOrQueued'
  BY <1>3, <1>4, <1>7, <1>8, <1>9, <1>10, <1>11, <1>12, IdFacts
     DEF IInv, IdleCurrentOrQueued
<1>15. ParkedSlotUnused'
  BY <1>1, <1>2, <1>3, Zenon DEF IInv, ParkedSlotUnused, TasksTypeOK, TaskIds, Slot
<1> QED BY <1>5, <1>6, <1>13, <1>14, <1>15, Zenon DEF IInv

\* admit_on keeps it: an Empty slot becomes Ready at the tail of its queue.
LEMMA AdmitInv == \A cpu \in OnlineCpus : IInv /\ AdmitOn(cpu) => IInv'
<1> SUFFICES ASSUME NEW cpu \in OnlineCpus, IInv, AdmitOn(cpu) PROVE IInv'
  BY Zenon
<1>1. PICK s \in Slots : AdmitSlot(cpu, s)
  BY Zenon DEF AdmitOn
<1>2. cpu \in Cpus /\ states[s] = "Empty" /\ Slot(parked) # s
  BY <1>1, IdFacts, Zenon DEF AdmitSlot, FirstFree, Free
<1>3. Len(queues[cpu]) < N
  BY <1>1, <1>2, NAssumption DEF AdmitSlot, QueueFull, IInv, TasksTypeOK
<1>4. QueueInv(queues', home', states', epochs')
  <2>1. QueueInv([queues EXCEPT ![cpu] = Append(@, <<s, epochs[s]>>)],
                 [home EXCEPT ![s] = cpu], [states EXCEPT ![s] = "Ready"], epochs)
    BY Zenon, <1>2, <1>3, AppendKeeps, QueueInvIsParts DEF IInv
  <2> QED BY <2>1, <1>1, Zenon DEF AdmitSlot, LiveId, Enqueue
<1>5. TasksTypeOK'
  <2>1. queues' \in [Cpus -> Seq(TaskIds)] /\ \A c \in Cpus : Len(queues'[c]) <= N
    BY <1>4, Zenon DEF QueueInv
  <2> QED BY <2>1, <1>1, <1>2, LiveCount, Zenon DEF IInv, TasksTypeOK, AdmitSlot,
             NoteOccupancy, States
<1>6. Parts'
  BY <1>4, <1>5, PartsAfter, Zenon DEF TasksTypeOK
<1>7. OnlineCpus' = OnlineCpus /\ current' = current /\ idle' = idle
      /\ \A t \in Slots : LiveId(t)' = LiveId(t)
  BY <1>1, Zenon DEF AdmitSlot, OnlineCpus, Cpu1Started, LiveId
<1>8. \A t \in Slots : t # s => states'[t] = states[t] /\ home'[t] = home[t]
  BY <1>1, Zenon DEF IInv, TasksTypeOK, AdmitSlot
<1>9. states'[s] = "Ready"
  BY <1>1, Zenon DEF IInv, TasksTypeOK, AdmitSlot
<1>10. \A c \in OnlineCpus : Slot(current[c]) # s /\ Slot(idle[c]) # s
  BY <1>2 DEF IInv, RunningIsCurrent, IdleCurrentOrQueued
<1>11. RunningIsCurrent'
  BY <1>7, <1>8, <1>9, <1>10, IdFacts DEF IInv, RunningIsCurrent
<1>12. IdleCurrentOrQueued'
  BY <1>7, <1>8, <1>10, IdFacts DEF IInv, IdleCurrentOrQueued
<1>13. ParkedSlotUnused'
  BY <1>1, <1>2, <1>8, Zenon DEF AdmitSlot, IInv, ParkedSlotUnused, TasksTypeOK, TaskIds,
     Slot
<1> QED BY <1>5, <1>6, <1>11, <1>12, <1>13, Zenon DEF IInv

\* wake keeps it: a Blocked task is neither current nor idle, and there is
\* always room for it in its home queue.
LEMMA WakeInv == \A id \in TaskIds : IInv /\ Wake(id) => IInv'
<1> SUFFICES ASSUME NEW id \in TaskIds, IInv, Wake(id) PROVE IInv'
  BY Zenon
<1> DEFINE s == Slot(id)
           h == home[s]
<1>1. s \in Slots /\ h \in Cpus /\ id = <<s, epochs[s]>> /\ states[s] = "Blocked"
  BY DEF Wake, CanWake, Stale, TaskIds, Slot, Epoch, IInv, TasksTypeOK
<1>2. Len(queues[h]) < N
  BY <1>1, QueueHasRoom, QueueInvIsParts, Zenon DEF IInv
<1>3. QueueInv(queues', home', states', epochs')
  <2>1. QueueInv([queues EXCEPT ![h] = Append(@, <<s, epochs[s]>>)],
                 [home EXCEPT ![s] = h], [states EXCEPT ![s] = "Ready"], epochs)
    BY Zenon, <1>1, <1>2, AppendKeeps, QueueInvIsParts DEF IInv
  <2>2. [home EXCEPT ![s] = h] = home
    BY Zenon DEF IInv, TasksTypeOK
  <2>3. queues' = [queues EXCEPT ![h] = Append(@, <<s, epochs[s]>>)]
    <3>1. ~QueueFull(queues[h])
      BY <1>1, <1>2, NAssumption DEF QueueFull, IInv, TasksTypeOK
    <3> QED BY Zenon, <3>1, <1>1 DEF Wake, Enqueue
  <2> QED BY Zenon, <2>1, <2>2, <2>3 DEF Wake
<1>4. TasksTypeOK'
  <2>1. queues' \in [Cpus -> Seq(TaskIds)] /\ \A c \in Cpus : Len(queues'[c]) <= N
    BY <1>3, Zenon DEF QueueInv
  <2> QED BY <2>1, <1>1, Zenon DEF IInv, TasksTypeOK, Wake, States
<1>5. Parts'
  BY <1>3, <1>4, PartsAfter, Zenon DEF TasksTypeOK
<1>6. /\ OnlineCpus' = OnlineCpus /\ current' = current /\ idle' = idle
      /\ home' = home /\ parked' = parked
      /\ \A t \in Slots : LiveId(t)' = LiveId(t)
  BY Zenon DEF Wake, OnlineCpus, Cpu1Started, LiveId
<1>7. /\ \A t \in Slots : t # s => states'[t] = states[t]
      /\ states'[s] = "Ready"
  BY <1>1, Zenon DEF IInv, TasksTypeOK, Wake
<1> HIDE DEF s, h
<1>8. \A c \in OnlineCpus : Slot(current[c]) # s
  BY <1>1, Zenon DEF IInv, RunningIsCurrent
<1>9. RunningIsCurrent'
  BY <1>6, <1>7, <1>8, IdFacts DEF IInv, RunningIsCurrent
<1>10. IdleCurrentOrQueued'
  BY <1>6, <1>7, IdFacts DEF IInv, IdleCurrentOrQueued
<1>11. ParkedSlotUnused'
  BY Zenon, <1>1, <1>6, <1>7 DEF IInv, ParkedSlotUnused, TasksTypeOK, TaskIds, Slot
<1> QED BY <1>4, <1>5, <1>9, <1>10, <1>11, Zenon DEF IInv

\* An operation that leaves states, epochs, homes, queues, current and idle
\* tasks alone keeps every part that reads only those.
LEMMA SameTables ==
  ASSUME IInv, UNCHANGED <<states, epochs, home, queues, current, idle>>
  PROVE  Parts' /\ RunningIsCurrent' /\ IdleCurrentOrQueued'
<1>1. Parts'
  <2>1. QueueInv(queues', home', states', epochs')
    BY QueueInvIsParts, Zenon DEF IInv
  <2> QED BY <2>1, PartsAfter, Zenon DEF IInv, TasksTypeOK
<1>2. OnlineCpus' = OnlineCpus /\ \A s : LiveId(s)' = LiveId(s)
  BY Zenon DEF OnlineCpus, Cpu1Started, LiveId
<1>3. RunningIsCurrent' /\ IdleCurrentOrQueued'
  BY <1>2 DEF IInv, RunningIsCurrent, IdleCurrentOrQueued
<1> QED BY <1>1, <1>3, Zenon

\* set_stealeable keeps it.
LEMMA MarkInv == \A id \in TaskIds, yes \in BOOLEAN :
                    IInv /\ SetStealeable(id, yes) => IInv'
<1> SUFFICES ASSUME NEW id \in TaskIds, NEW yes \in BOOLEAN,
                    IInv, SetStealeable(id, yes)
             PROVE  IInv'
  BY Zenon
<1>1. TasksTypeOK'
  BY Zenon DEF SetStealeable, IInv, TasksTypeOK
<1>2. ParkedSlotUnused'
  BY Zenon DEF SetStealeable, IInv, ParkedSlotUnused
<1> QED BY <1>1, <1>2, SameTables, Zenon DEF SetStealeable, IInv

\* Taking the parked task for collection keeps it.
LEMMA CollectInv == IInv /\ Collect => IInv'
<1> SUFFICES ASSUME IInv, Collect PROVE IInv'
  BY Zenon
<1>1. TasksTypeOK'
  BY Zenon DEF Collect, IInv, TasksTypeOK
<1>2. ParkedSlotUnused'
  BY Zenon DEF Collect, ParkedSlotUnused
<1> QED BY <1>1, <1>2, SameTables, Zenon DEF Collect, IInv

\* A switch that stays has at most pulled: the running tasks are where they
\* were, for a pull moves only Ready tasks.
LEMMA StayInv ==
  ASSUME IInv, NEW cpu \in OnlineCpus, NEW pull \in Pulled(cpu), Stay(pull)
  PROVE  IInv'
<1>1. /\ QueueInv(pull.queues, pull.home, states, epochs)
      /\ Typed(pull.home, states, epochs)
      /\ \A s \in Slots : states[s] # "Ready" => pull.home[s] = home[s]
      /\ \A c \in Cpus : idle[c] = LiveId(Slot(idle[c])) =>
                pull.home[Slot(idle[c])] = home[Slot(idle[c])]
  BY IdFacts, PullKeeps, QueueInvIsParts, Zenon DEF IInv
<1>2. /\ queues' = pull.queues /\ home' = pull.home
      /\ UNCHANGED <<states, epochs, stealeable, current, idle, parked,
                     overwrites, peak>>
  BY Zenon DEF Stay
<1>3. TasksTypeOK'
  BY <1>1, <1>2, Zenon DEF IInv, TasksTypeOK, QueueInv, Typed
<1>4. Parts'
  BY <1>1, <1>2, <1>3, PartsAfter, Zenon DEF TasksTypeOK
<1>5. OnlineCpus' = OnlineCpus /\ \A s : LiveId(s)' = LiveId(s)
  BY <1>2, Zenon DEF OnlineCpus, Cpu1Started, LiveId
<1>6. RunningIsCurrent'
  BY <1>1, <1>2, <1>5, IdFacts, Zenon DEF IInv, RunningIsCurrent
<1>7. IdleCurrentOrQueued'
  BY <1>1, <1>2, <1>5, IdFacts, Zenon DEF IInv, IdleCurrentOrQueued
<1>8. ParkedSlotUnused'
  BY <1>2, Zenon DEF IInv, ParkedSlotUnused
<1> QED BY <1>3, <1>4, <1>6, <1>7, <1>8, Zenon DEF IInv

\* The leaving task's half of a rotation: with its new state, its new epoch if
\* it exits and its requeue, the queues are consistent, and the CPU's own queue
\* is not empty.  A blocking or exiting task is not idle, so idle is queued.
LEMMA LeaveKeeps ==
  ASSUME IInv, NEW cpu \in OnlineCpus, NEW pull \in Pulled(cpu),
         NEW kind \in Kinds, ~Refuses(cpu, kind, pull.queues[cpu])
  PROVE  LET me == Slot(current[cpu])
             ready == IF Requeues(kind) THEN Enqueue(pull.queues[cpu], current[cpu])
                                        ELSE pull.queues[cpu]
             st1 == [states EXCEPT ![me] = LeftIn(kind, @)]
             ep1 == IF kind = "Exit"
                    THEN [epochs EXCEPT ![me] = NextEpoch(@)] ELSE epochs
         IN /\ QueueInv([pull.queues EXCEPT ![cpu] = ready], pull.home, st1, ep1)
            /\ Typed(pull.home, st1, ep1)
            /\ ready # <<>>
            /\ ready \in Seq(TaskIds)
            /\ states[me] = "Running" /\ current[cpu] = LiveId(me)
            /\ pull.home[me] = cpu
<1> DEFINE me == Slot(current[cpu])
           ready == IF Requeues(kind) THEN Enqueue(pull.queues[cpu], current[cpu])
                                      ELSE pull.queues[cpu]
           st1 == [states EXCEPT ![me] = LeftIn(kind, @)]
           ep1 == IF kind = "Exit"
                  THEN [epochs EXCEPT ![me] = NextEpoch(@)] ELSE epochs
           qs1 == [pull.queues EXCEPT ![cpu] = ready]
<1> SUFFICES /\ QueueInv(qs1, pull.home, st1, ep1) /\ Typed(pull.home, st1, ep1)
             /\ ready # <<>> /\ ready \in Seq(TaskIds)
             /\ states[me] = "Running" /\ current[cpu] = LiveId(me)
             /\ pull.home[me] = cpu
  BY Zenon
<1>1. /\ cpu \in Cpus /\ me \in Slots /\ states[me] = "Running"
      /\ current[cpu] = <<me, epochs[me]>> /\ home[me] = cpu
      /\ current[cpu] \in TaskIds
  BY IdFacts, Zenon DEF IInv, RunningIsCurrent, LiveId, TasksTypeOK
<1>2. /\ QueueInv(pull.queues, pull.home, states, epochs)
      /\ Typed(pull.home, states, epochs)
      /\ pull.home[me] = cpu
      /\ pull.queues \in [Cpus -> Seq(TaskIds)]
      /\ idle[cpu] = LiveId(Slot(idle[cpu])) =>
                pull.home[Slot(idle[cpu])] = home[Slot(idle[cpu])]
  <2>1. /\ QueueInv(pull.queues, pull.home, states, epochs)
        /\ Typed(pull.home, states, epochs)
        /\ \A s \in Slots : states[s] # "Ready" => pull.home[s] = home[s]
        /\ \A c \in Cpus : idle[c] = LiveId(Slot(idle[c])) =>
                pull.home[Slot(idle[c])] = home[Slot(idle[c])]
    BY <1>1, PullKeeps, QueueInvIsParts, Zenon DEF IInv
  <2> QED BY Zenon, <2>1, <1>1 DEF QueueInv
<1>3. [pull.home EXCEPT ![me] = cpu] = pull.home
  BY <1>1, <1>2, Zenon DEF Typed
<1>4. CASE Requeues(kind)
  <2>1. Len(pull.queues[cpu]) < N
    BY <1>4, <1>1, <1>2, NAssumption DEF Refuses, QueueFull, QueueInv
  <2>2. QueueInv([pull.queues EXCEPT ![cpu] = Append(@, <<me, epochs[me]>>)],
                 [pull.home EXCEPT ![me] = cpu],
                 [states EXCEPT ![me] = "Ready"], epochs)
    BY Zenon, <2>1, <1>1, <1>2, AppendKeeps
  <2>3. st1 = [states EXCEPT ![me] = "Ready"] /\ ep1 = epochs
    BY Zenon, <1>4, <1>1 DEF LeftIn, Requeues
  <2>4. qs1 = [pull.queues EXCEPT ![cpu] = Append(@, <<me, epochs[me]>>)]
    BY <1>4, <1>1, Zenon DEF Enqueue
  <2>5. ready # <<>> /\ ready \in Seq(TaskIds)
    <3>1. ready = Append(pull.queues[cpu], current[cpu])
      BY <1>4, Zenon DEF Enqueue
    <3>2. pull.queues[cpu] \in Seq(TaskIds) /\ current[cpu] \in TaskIds
      BY <1>1, <1>2, Zenon
    <3>3. ready \in Seq(TaskIds) /\ Len(ready) = Len(pull.queues[cpu]) + 1
      BY <3>1, <3>2, AppendProperties
    <3> HIDE DEF ready
    <3>4. Len(pull.queues[cpu]) \in Nat
      BY <3>2
    <3> QED BY <3>3, <3>4, EmptySeq
  <2>6. Typed(pull.home, st1, ep1)
    BY <2>3, <1>1, <1>2, Zenon DEF Typed, States
  <2>7. QueueInv(qs1, pull.home, st1, ep1)
    BY <2>2, <2>3, <2>4, <1>3, Zenon
  <2>8. current[cpu] = LiveId(me)
    BY Zenon, <1>1 DEF LiveId
  <2> HIDE DEF me, ready, st1, ep1, qs1
  <2> QED BY Zenon, <2>5, <2>6, <2>7, <2>8, <1>1, <1>2
<1>5. CASE ~Requeues(kind)
  <2>1. kind \in {"Block", "Exit"} /\ current[cpu] # idle[cpu]
    BY <1>5, Zenon DEF Requeues, Kinds, Refuses
  <2> DEFINE v == LeftIn(kind, states[me])
             e == IF kind = "Exit" THEN NextEpoch(epochs[me]) ELSE epochs[me]
  <2>2. v \in {"Blocked", "Empty"} /\ v \in States
    BY <2>1, Zenon DEF LeftIn, States
  <2>3. e \in Epochs
    <3>1. epochs[me] \in Epochs /\ EpochMod \in Nat \ {0}
      BY <1>1, EpochAssumption, Zenon DEF IInv, TasksTypeOK
    <3> QED BY <3>1 DEF Epochs, NextEpoch
  <2>4. st1 = [states EXCEPT ![me] = v]
    BY Zenon
  <2>5. ep1 = [epochs EXCEPT ![me] = e]
    BY Zenon, <1>1 DEF IInv, TasksTypeOK
  <2>6. qs1 = pull.queues /\ ready = pull.queues[cpu]
    BY <1>5, <1>1, <1>2, Zenon
  <2> HIDE DEF v, e
  <2>7. QueueInv(pull.queues, [pull.home EXCEPT ![me] = cpu],
                 [states EXCEPT ![me] = v], [epochs EXCEPT ![me] = e])
    BY Zenon, <2>2, <2>3, <1>1, <1>2, RelabelKeeps
  <2>8. Typed(pull.home, st1, ep1)
    BY <2>2, <2>3, <2>4, <2>5, <1>1, <1>2, Zenon DEF Typed
  <2>9. pull.queues[cpu] # <<>>
    <3>1. /\ states[Slot(idle[cpu])] = "Ready" /\ Slot(idle[cpu]) \in Slots
          /\ pull.home[Slot(idle[cpu])] = cpu
      BY <2>1, <1>1, <1>2, IdFacts, Zenon DEF IInv, IdleCurrentOrQueued
    <3>2. \E i \in 1 .. Len(pull.queues[pull.home[Slot(idle[cpu])]]) : TRUE
      BY Zenon, <3>1, <1>2 DEF QueueInv
    <3> QED BY <3>1, <3>2
  <2>10. QueueInv(qs1, pull.home, st1, ep1)
    BY <2>4, <2>5, <2>6, <2>7, <1>3, Zenon
  <2>11. current[cpu] = LiveId(me)
    BY Zenon, <1>1 DEF LiveId
  <2>12. ready # <<>> /\ ready \in Seq(TaskIds)
    <3> HIDE DEF ready
    <3> QED BY Zenon, <2>6, <2>9, <1>1, <1>2
  <2> HIDE DEF me, ready, st1, ep1, qs1
  <2> QED BY Zenon, <2>8, <2>10, <2>11, <2>12, <1>1, <1>2
<1> QED BY Zenon, <1>4, <1>5

\* Every rotation has that effect, for the slot at the head of the queue.
LEMMA RotateFacts ==
  ASSUME IInv, NEW cpu \in OnlineCpus, NEW pull \in Pulled(cpu),
         NEW kind \in Kinds, ~Refuses(cpu, kind, pull.queues[cpu]),
         Rotate(cpu, kind, pull)
  PROVE  \E n \in Slots : RotateEffect(cpu, kind, Slot(current[cpu]), n)
<1> DEFINE me == Slot(current[cpu])
           ready == IF Requeues(kind) THEN Enqueue(pull.queues[cpu], current[cpu])
                                      ELSE pull.queues[cpu]
           st1 == [states EXCEPT ![me] = LeftIn(kind, @)]
           ep1 == IF kind = "Exit"
                  THEN [epochs EXCEPT ![me] = NextEpoch(@)] ELSE epochs
           qs1 == [pull.queues EXCEPT ![cpu] = ready]
           n == Slot(Head(ready))
<1>1. /\ QueueInv(qs1, pull.home, st1, ep1)
      /\ Typed(pull.home, st1, ep1)
      /\ ready # <<>>
      /\ states[me] = "Running" /\ current[cpu] = LiveId(me)
      /\ pull.home[me] = cpu
  BY LeaveKeeps, Zenon
<1>2. cpu \in Cpus /\ me \in Slots /\ me = Slot(current[cpu])
  BY IdFacts, Zenon
<1>3. /\ \A s \in Slots : states[s] # "Ready" => pull.home[s] = home[s]
      /\ \A c \in Cpus : idle[c] = LiveId(Slot(idle[c])) =>
                pull.home[Slot(idle[c])] = home[Slot(idle[c])]
      /\ pull.queues \in [Cpus -> Seq(TaskIds)]
  <2>1. /\ QueueInv(pull.queues, pull.home, states, epochs)
        /\ \A s \in Slots : states[s] # "Ready" => pull.home[s] = home[s]
        /\ \A c \in Cpus : idle[c] = LiveId(Slot(idle[c])) =>
                pull.home[Slot(idle[c])] = home[Slot(idle[c])]
    BY <1>2, PullKeeps, QueueInvIsParts, Zenon DEF IInv
  <2> QED BY <2>1, Zenon DEF QueueInv
<1>4. qs1[cpu] = ready
  BY <1>2, <1>3, Zenon
<1>5. /\ n \in Slots /\ Head(ready) = <<n, ep1[n]>>
      /\ st1[n] = "Ready" /\ pull.home[n] = cpu
      /\ QueueInv([qs1 EXCEPT ![cpu] = Tail(@)], pull.home,
                  [st1 EXCEPT ![n] = "Running"], ep1)
  <2> HIDE DEF ready, qs1, st1, ep1
  <2>1. qs1[cpu] # <<>> /\ n = Slot(Head(qs1[cpu]))
    BY <1>1, <1>4, Zenon
  <2> HIDE DEF n
  <2>2. PopEffect(qs1, pull.home, st1, ep1, cpu, n)
    BY <1>1, <1>2, <2>1, PopKeeps, Zenon
  <2> QED BY <2>2, <1>4, Zenon DEF PopEffect
<1>6. /\ queues' = [pull.queues EXCEPT ![cpu] = Tail(ready)]
      /\ home' = pull.home
      /\ states' = [states EXCEPT ![me] = LeftIn(kind, @), ![n] = "Running"]
      /\ epochs' = ep1
      /\ current' = [current EXCEPT ![cpu] = Head(ready)]
      /\ parked' = (IF kind = "Exit" THEN current[cpu] ELSE parked)
      /\ overwrites' \in {overwrites, overwrites + 1}
      /\ UNCHANGED <<stealeable, idle, peak>>
  <2> HIDE DEF ep1
  <2> QED BY <1>1, Zenon DEF Rotate, ep1
<1>7. queues' = [qs1 EXCEPT ![cpu] = Tail(@)] /\ states' = [st1 EXCEPT ![n] = "Running"]
  <2>1. queues' = [qs1 EXCEPT ![cpu] = Tail(@)]
    <3> HIDE DEF ready
    <3> QED BY Zenon, <1>2, <1>3, <1>6
  <2>2. states' = [st1 EXCEPT ![n] = "Running"]
    <3> HIDE DEF n
    <3> QED BY <1>6, Zenon
  <2> QED BY Zenon, <2>1, <2>2
<1> HIDE DEF qs1, ready
<1>8. QueueInv(queues', home', states', epochs')
  BY Zenon, <1>5, <1>6, <1>7
<1>9. n # me => states[n] = "Ready"
  BY <1>2, <1>5, Zenon DEF IInv, TasksTypeOK
<1>10. LeftIn(kind, states[me]) \in {"Ready", "Blocked", "Empty"}
       /\ (kind # "Exit" => ep1 = epochs)
       /\ (kind = "Yield" => LeftIn(kind, states[me]) = "Ready")
       /\ (kind = "Exit" => LeftIn(kind, states[me]) = "Empty")
       /\ (me = n => kind # "Exit")
  <2>1. /\ LeftIn(kind, states[me]) \in {"Ready", "Blocked", "Empty"}
        /\ (kind # "Exit" => ep1 = epochs)
        /\ (kind = "Yield" => LeftIn(kind, states[me]) = "Ready")
        /\ (kind = "Exit" => LeftIn(kind, states[me]) = "Empty")
    BY <1>1, Zenon DEF LeftIn, Kinds
  <2>2. st1[me] = LeftIn(kind, states[me])
    BY <1>2, Zenon DEF IInv, TasksTypeOK
  <2> QED BY <2>1, <2>2, <1>5, Zenon
<1>11. \A s \in Slots : /\ s # me => ep1[s] = epochs[s]
                        /\ s = n => states'[s] = "Running"
                        /\ s = me /\ s # n => states'[s] = LeftIn(kind, states[me])
                        /\ s # me /\ s # n => states'[s] = states[s]
  BY <1>2, <1>5, <1>6, Zenon DEF IInv, TasksTypeOK
<1>12. current' = [current EXCEPT ![cpu] = <<n, epochs'[n]>>]
  <2> HIDE DEF ep1, n
  <2> QED BY Zenon, <1>5, <1>6
<1>13. Typed(home', states', epochs')
  <2>1. states' \in [Slots -> States]
    BY <1>1, <1>5, <1>7, Zenon DEF Typed, States
  <2> QED BY <2>1, <1>1, <1>6, Zenon DEF Typed
<1> HIDE DEF n, ep1, st1, me
<1>14. RotateEffect(cpu, kind, me, n)
  BY Zenon, <1>1, <1>3, <1>5, <1>6, <1>8, <1>9, <1>10, <1>11, <1>12, <1>13
     DEF RotateEffect
<1> QED BY <1>5, <1>14, Zenon DEF me

\* A rotation keeps the invariant: one task leaves the CPU, the head of its
\* queue takes its place, and the other CPU's tasks have another home.
LEMMA RotateInv ==
  ASSUME IInv, NEW cpu \in OnlineCpus, NEW pull \in Pulled(cpu),
         NEW kind \in Kinds, ~Refuses(cpu, kind, pull.queues[cpu]),
         Rotate(cpu, kind, pull)
  PROVE  IInv'
<1> DEFINE me == Slot(current[cpu])
<1>1. PICK n \in Slots : RotateEffect(cpu, kind, me, n)
  BY RotateFacts, Zenon
<1> USE DEF RotateEffect
<1>2. cpu \in Cpus /\ me \in Slots /\ me = Slot(current[cpu])
  BY IdFacts, Zenon
<1>12. current'[cpu] = <<n, epochs'[n]>>
       /\ \A c \in Cpus : c # cpu => current'[c] = current[c]
  BY <1>1, <1>2, Zenon DEF IInv, TasksTypeOK
<1>13. OnlineCpus' = OnlineCpus /\ idle' = idle /\ OnlineCpus \subseteq Cpus
  BY <1>1, IdFacts, Zenon DEF OnlineCpus, Cpu1Started
<1>14. TasksTypeOK'
  <2>1. /\ queues' \in [Cpus -> Seq(TaskIds)] /\ \A c \in Cpus : Len(queues'[c]) <= N
        /\ home' \in [Slots -> Cpus] /\ epochs' \in [Slots -> Epochs]
        /\ states' \in [Slots -> States]
    BY <1>1, Zenon DEF QueueInv, Typed
  <2>2. <<n, epochs'[n]>> \in TaskIds
    BY <2>1, Zenon DEF TaskIds
  <2>3. current' \in [Cpus -> TaskIds]
    BY Zenon, <2>2, <1>1 DEF IInv, TasksTypeOK
  <2>4. parked' \in TaskIds \cup {NoTask} /\ overwrites' \in Nat
    BY <1>1, <1>2 DEF IInv, TasksTypeOK
  <2> QED BY <2>1, <2>3, <2>4, <1>1, Zenon DEF IInv, TasksTypeOK
<1>15. Parts'
  BY <1>1, <1>14, PartsAfter, Zenon DEF TasksTypeOK
<1>16. \A c \in OnlineCpus \ {cpu} : /\ Slot(current[c]) \notin {me, n}
                                     /\ Slot(idle[c]) \notin {me, n}
  BY <1>1, <1>2, <1>13, IdFacts
     DEF IInv, RunningIsCurrent, IdleCurrentOrQueued
<1> HIDE DEF me
<1>17. RunningIsCurrent'
  <2>1. ASSUME NEW c \in OnlineCpus
        PROVE  /\ current'[c] = <<Slot(current'[c]), epochs'[Slot(current'[c])]>>
               /\ states'[Slot(current'[c])] = "Running"
               /\ home'[Slot(current'[c])] = c
    <3>1. CASE c = cpu
      <4>1. Slot(current'[c]) = n
        BY <3>1, <1>12, SlotOfPair, Zenon
      <4> QED BY Zenon, <4>1, <3>1, <1>1, <1>12
    <3>2. CASE c # cpu
      <4>1. /\ current'[c] = current[c] /\ Slot(current[c]) \in Slots
            /\ Slot(current[c]) \notin {me, n}
            /\ current[c] = <<Slot(current[c]), epochs[Slot(current[c])]>>
            /\ states[Slot(current[c])] = "Running"
            /\ home[Slot(current[c])] = c
        BY Zenon, <3>2, <1>12, <1>13, <1>16, IdFacts DEF IInv, RunningIsCurrent, LiveId
      <4> QED BY <4>1, <1>1, Zenon
    <3> QED BY <3>1, <3>2, Zenon
  <2>2. ASSUME NEW s \in Slots, states'[s] = "Running"
        PROVE  \E c \in OnlineCpus : Slot(current'[c]) = s
    <3>1. CASE s = n
      BY <3>1, <1>12, SlotOfPair, Zenon
    <3>2. CASE s # n
      <4>1. s # me /\ states[s] = "Running"
        BY <2>2, <3>2, <1>1, Zenon
      <4>2. PICK c \in OnlineCpus : Slot(current[c]) = s
        BY <4>1, Zenon DEF IInv, RunningIsCurrent
      <4>3. c # cpu
        BY <4>1, <4>2, <1>2, Zenon
      <4> QED BY <4>2, <4>3, <1>12, <1>13, Zenon
    <3> QED BY <3>1, <3>2, Zenon
  <2> QED BY <2>1, <2>2, <1>13, Zenon DEF RunningIsCurrent, LiveId
<1>18. IdleCurrentOrQueued'
  <2> SUFFICES ASSUME NEW c \in OnlineCpus
               PROVE  /\ idle[c] = <<Slot(idle[c]), epochs'[Slot(idle[c])]>>
                      /\ home'[Slot(idle[c])] = c
                      /\ \/ current'[c] = idle[c]
                         \/ states'[Slot(idle[c])] = "Ready"
    BY <1>13, Zenon DEF IdleCurrentOrQueued, LiveId
  <2> DEFINE i == Slot(idle[c])
  <2>1. /\ i \in Slots /\ idle[c] = <<i, epochs[i]>> /\ home[i] = c /\ home'[i] = c
        /\ (current[c] = idle[c] \/ states[i] = "Ready")
    BY Zenon, <1>1, <1>13, IdFacts DEF IInv, IdleCurrentOrQueued, LiveId
  <2>2. CASE c # cpu
    <3>1. i \notin {me, n} /\ current'[c] = current[c]
      BY <2>2, <1>12, <1>13, <1>16, Zenon
    <3> QED BY Zenon, <3>1, <2>1, <1>1
  <2>3. CASE c = cpu
    <3>1. CASE current[cpu] = idle[cpu]
      <4>1. kind = "Yield" /\ i = me
        BY <3>1, <2>3, <1>2, Zenon DEF Refuses
      <4>2. epochs' = epochs
        BY <4>1, <1>1, Zenon
      <4>3. CASE n = me
        BY <4>1, <4>2, <4>3, <2>1, <2>3, <1>1, <1>12, Zenon
      <4>4. CASE n # me
        BY <4>1, <4>2, <4>4, <2>1, <1>1, Zenon
      <4> QED BY <4>3, <4>4, Zenon
    <3>2. CASE current[cpu] # idle[cpu]
      <4>1. i # me /\ states[i] = "Ready"
        BY Zenon, <3>2, <2>1, <2>3, <1>1, <1>2
      <4>2. CASE n = i
        BY Zenon, <4>1, <4>2, <2>1, <2>3, <1>1, <1>12
      <4>3. CASE n # i
        BY <4>1, <4>3, <2>1, <1>1, Zenon
      <4> QED BY <4>2, <4>3, Zenon
    <3> QED BY <3>1, <3>2, Zenon
  <2> QED BY <2>2, <2>3, Zenon
<1>19. ParkedSlotUnused'
  <2>1. CASE kind = "Exit"
    BY Zenon, <2>1, <1>2, <1>1 DEF ParkedSlotUnused
  <2>2. CASE kind # "Exit"
    <3> SUFFICES ASSUME parked # NoTask PROVE states'[Slot(parked)] = "Empty"
      BY Zenon, <2>2, <1>1 DEF ParkedSlotUnused
    <3>1. Slot(parked) \in Slots /\ states[Slot(parked)] = "Empty"
      BY Zenon DEF IInv, TasksTypeOK, ParkedSlotUnused, TaskIds, Slot
    <3>2. Slot(parked) # me /\ Slot(parked) # n
      BY <3>1, <1>1, Zenon
    <3> QED BY Zenon, <3>1, <3>2, <1>1
  <2> QED BY <2>1, <2>2, Zenon
<1> QED BY <1>14, <1>15, <1>17, <1>18, <1>19, Zenon DEF IInv

-----------------------------------------------------------------------------
(* Theorems *)

\* switch_on keeps the invariant, whatever it decides.
LEMMA SwitchInv ==
  ASSUME IInv, NEW cpu \in OnlineCpus, NEW kind \in Kinds, SwitchOn(cpu, kind)
  PROVE  IInv'
<1>1. PICK pull \in Pulled(cpu) : IF Refuses(cpu, kind, pull.queues[cpu])
                                  THEN Stay(pull) ELSE Rotate(cpu, kind, pull)
  BY Zenon DEF SwitchOn
<1> QED BY <1>1, StayInv, RotateInv, Zenon

\* Every step of the table keeps the invariant.
LEMMA StepInv == IInv /\ [TasksNext]_taskVars => IInv'
<1> SUFFICES ASSUME IInv, [TasksNext]_taskVars PROVE IInv'
  BY Zenon
<1>1. CASE StartCpu1
  BY <1>1, StartInv, Zenon
<1>2. ASSUME NEW cpu \in OnlineCpus, AdmitOn(cpu) PROVE IInv'
  BY <1>2, AdmitInv, Zenon
<1>3. ASSUME NEW cpu \in OnlineCpus, NEW yes \in BOOLEAN,
             SetStealeable(current[cpu], yes)
      PROVE  IInv'
  <2>1. current[cpu] \in TaskIds
    BY IdFacts, Zenon DEF IInv, TasksTypeOK
  <2> QED BY <1>3, <2>1, MarkInv, Zenon
<1>4. ASSUME NEW id \in TaskIds, Wake(id) PROVE IInv'
  BY <1>4, WakeInv, Zenon
<1>5. CASE Collect
  BY <1>5, CollectInv, Zenon
<1>6. ASSUME NEW cpu \in OnlineCpus, NEW kind \in Kinds, SwitchOn(cpu, kind)
      PROVE  IInv'
  BY <1>6, SwitchInv, Zenon
<1>7. CASE UNCHANGED taskVars
  <2>1. TasksTypeOK' /\ ParkedSlotUnused'
    BY <1>7, Zenon DEF taskVars, IInv, TasksTypeOK, ParkedSlotUnused
  <2> QED BY <2>1, <1>7, SameTables, Zenon DEF taskVars, IInv
<1> QED BY <1>1, <1>2, <1>3, <1>4, <1>5, <1>6, <1>7, Zenon DEF TasksNext

\* The inductive invariant holds of every reachable table.
THEOREM TasksInvariant == TasksSpec => []IInv
  BY InitInv, StepInv, PTL DEF TasksSpec

\* Type correctness: ids, states, homes and queue lengths stay in range for any
\* table size and any epoch width (tasks.rs, runqueue.rs).
THEOREM TypeCorrect == TasksSpec => []TasksTypeOK
<1>1. IInv => TasksTypeOK
  BY Zenon DEF IInv
<1> QED BY <1>1, TasksInvariant, PTL

\* What switch_on dequeues is always a live, Ready task at home on the CPU that
\* runs it.
THEOREM QueueSafety == TasksSpec => []QueuedIsReady
<1>1. IInv => QueuedIsReady
  BY Zenon DEF IInv, Parts
<1> QED BY <1>1, TasksInvariant, PTL

\* No task is queued twice.
THEOREM QueueOnceSafety == TasksSpec => []QueuedOnce
<1>1. IInv => QueuedOnce
  BY Zenon DEF IInv, Parts
<1> QED BY <1>1, TasksInvariant, PTL

\* No Ready task is outside its home queue: neither wake's enqueue, which the
\* code does not check, nor a steal can lose one.
THEOREM NoReadyTaskLost == TasksSpec => []ReadyIsQueued
<1>1. IInv => ReadyIsQueued
  BY Zenon DEF IInv, Parts
<1> QED BY <1>1, TasksInvariant, PTL

\* A task runs on at most one CPU, and a Running slot is some CPU's current task.
THEOREM RunningSafety == TasksSpec => []RunningIsCurrent
<1>1. IInv => RunningIsCurrent
  BY Zenon DEF IInv
<1> QED BY <1>1, TasksInvariant, PTL

\* Each started CPU always has its idle task to fall back on.
THEOREM IdleSafety == TasksSpec => []IdleCurrentOrQueued
<1>1. IInv => IdleCurrentOrQueued
  BY Zenon DEF IInv
<1> QED BY <1>1, TasksInvariant, PTL

\* The slot of an uncollected stack is not handed out.
THEOREM ParkedSafety == TasksSpec => []ParkedSlotUnused
<1>1. IInv => ParkedSlotUnused
  BY Zenon DEF IInv
<1> QED BY <1>1, TasksInvariant, PTL

\* The ready queues are exact for every number of slots and every epoch width
\* (the run's QueuesExact).
THEOREM QueuesHold == TasksSpec => []QueuesExact
<1>1. IInv => QueuesExact
  BY Zenon DEF IInv, Parts, QueuesExact
<1> QED BY <1>1, TasksInvariant, PTL

\* Each started CPU runs one live task of its own, has its idle identity to
\* fall back on, and a parked slot stays empty (the run's CpusExact).
THEOREM CpusHold == TasksSpec => []CpusExact
<1>1. IInv => CpusExact
  BY Zenon DEF IInv, CpusExact
<1> QED BY <1>1, TasksInvariant, PTL

-----------------------------------------------------------------------------
(* What one step may do to a slot *)

\* A switch changes a slot's state only from Running or Ready, and a slot's
\* epoch only by the exit of the CPU's own current task.
LEMMA SwitchTouches ==
  ASSUME IInv, NEW cpu \in OnlineCpus, NEW kind \in Kinds, SwitchOn(cpu, kind),
         NEW s \in Slots
  PROVE  /\ states[s] \notin {"Running", "Ready"} => states'[s] = states[s]
         /\ epochs'[s] # epochs[s] => /\ Slot(current[cpu]) = s
                                      /\ states'[s] = "Empty"
                                      /\ parked' = LiveId(s)
<1>1. PICK pull \in Pulled(cpu) : IF Refuses(cpu, kind, pull.queues[cpu])
                                  THEN Stay(pull) ELSE Rotate(cpu, kind, pull)
  BY Zenon DEF SwitchOn
<1>2. CASE Stay(pull)
  BY <1>2, Zenon DEF Stay
<1>3. CASE ~Refuses(cpu, kind, pull.queues[cpu]) /\ Rotate(cpu, kind, pull)
  <2> DEFINE me == Slot(current[cpu])
  <2>1. PICK n \in Slots : RotateEffect(cpu, kind, me, n)
    BY <1>3, RotateFacts, Zenon
  <2>2. me \in Slots
    BY IdFacts, Zenon
  <2> HIDE DEF me
  <2>3. states[s] \notin {"Running", "Ready"} => states'[s] = states[s]
    BY <2>1, <2>2, Zenon DEF RotateEffect
  <2>4. epochs'[s] # epochs[s] => s = me /\ kind = "Exit"
    BY <2>1, <2>2, Zenon DEF RotateEffect
  <2>5. s = me /\ kind = "Exit" => states'[s] = "Empty" /\ parked' = LiveId(s)
    BY <2>1, <2>2, Zenon DEF RotateEffect
  <2> QED BY <2>3, <2>4, <2>5, Zenon DEF me
<1> QED BY <1>1, <1>2, <1>3, Zenon

\* A task leaves Blocked only by a wake (the action property of the run).
THEOREM BlockedSafety == TasksSpec => BlockedUntilWoken
<1> DEFINE A == \A s \in Slots : states[s] = "Blocked" /\ states'[s] # "Blocked"
                    => /\ states'[s] = "Ready"
                       /\ epochs'[s] = epochs[s]
                       /\ current' = current
<1>1. IInv /\ [TasksNext]_taskVars => [A]_taskVars
  <2> SUFFICES ASSUME IInv, TasksNext, NEW s \in Slots,
                      states[s] = "Blocked", states'[s] # "Blocked"
               PROVE  /\ states'[s] = "Ready" /\ epochs'[s] = epochs[s]
                      /\ current' = current
    BY Zenon
  <2>0. states \in [Slots -> States]
    BY Zenon DEF IInv, TasksTypeOK
  <2>1. CASE StartCpu1
    BY <2>0, <2>1, Zenon DEF StartCpu1, FirstFree, Free
  <2>2. ASSUME NEW cpu \in OnlineCpus, AdmitOn(cpu)
        PROVE  states'[s] = "Ready" /\ epochs'[s] = epochs[s] /\ current' = current
    BY <2>0, <2>2, Zenon DEF AdmitOn, AdmitSlot
  <2>3. ASSUME NEW id \in TaskIds, Wake(id)
        PROVE  states'[s] = "Ready" /\ epochs'[s] = epochs[s] /\ current' = current
    BY <2>0, <2>3, Zenon DEF Wake
  <2>4. ASSUME NEW cpu \in OnlineCpus, NEW kind \in Kinds, SwitchOn(cpu, kind)
        PROVE  FALSE
    BY <2>4, SwitchTouches, Zenon
  <2> QED BY Zenon, <2>1, <2>2, <2>3, <2>4 DEF TasksNext, SetStealeable, Collect
<1> QED BY <1>1, TasksInvariant, PTL DEF TasksSpec, BlockedUntilWoken

\* A tenancy ends only by the current task's own exit, which parks its stack.
THEOREM EpochSafety == TasksSpec => EpochMovesOnExit
<1> DEFINE A == \A s \in Slots : epochs'[s] # epochs[s]
                    => /\ \E c \in OnlineCpus : Slot(current[c]) = s
                       /\ states'[s] = "Empty"
                       /\ parked' = LiveId(s)
<1>1. IInv /\ [TasksNext]_taskVars => [A]_taskVars
  <2> SUFFICES ASSUME IInv, TasksNext, NEW s \in Slots, epochs'[s] # epochs[s]
               PROVE  /\ \E c \in OnlineCpus : Slot(current[c]) = s
                      /\ states'[s] = "Empty"
                      /\ parked' = LiveId(s)
    BY Zenon
  <2>1. PICK cpu \in OnlineCpus, kind \in Kinds : SwitchOn(cpu, kind)
    BY Zenon DEF TasksNext, StartCpu1, AdmitOn, AdmitSlot, Wake, SetStealeable, Collect
  <2> QED BY <2>1, SwitchTouches, Zenon
<1> QED BY <1>1, TasksInvariant, PTL DEF TasksSpec, EpochMovesOnExit

\* Only a wake ends a wait and only its own exit ends a tenancy (the run's
\* TenancyKept).
THEOREM TenancyHolds == TasksSpec => TenancyKept
  BY BlockedSafety, EpochSafety, Zenon DEF TenancyKept

-----------------------------------------------------------------------------
(* The switch path *)

\* Every step of either CPU keeps the invariant.
LEMMA PathStep ==
  ASSUME StacksApart, CpusApart, PathInv, [SwitchNext]_vars
  PROVE  PathInv'
<1>1. IInv'
  BY PathIsTable, StepInv, Zenon DEF PathInv
<1>r. RotationsExact
  BY RotateFacts, Zenon DEF PathInv, RotationsExact
<1>2. CASE BringUpCpu1
  BY <1>1, <1>2, BringUpKeeps, Zenon
<1>3. ASSUME NEW cpu \in OnlineCpus, NEW target \in OnlineCpus, Spawn(cpu, target)
      PROVE  PathInv'
  BY <1>1, <1>3, SpawnKeeps, Zenon
<1>4. ASSUME NEW cpu \in OnlineCpus, NEW yes \in BOOLEAN, Mark(cpu, yes)
      PROVE  PathInv'
  <2>1. SameTasks /\ UNCHANGED pathVars
    BY <1>4, Zenon DEF Mark, SetStealeable, SameTasks, CpusApart
  <2> QED BY <2>1, <1>1, SameKeeps, Zenon
<1>5. ASSUME NEW cpu \in OnlineCpus, NEW id \in TaskIds, WakeTask(cpu, id)
      PROVE  PathInv'
  BY <1>1, <1>5, WakeKeeps, Zenon
<1>6. ASSUME NEW cpu \in OnlineCpus, NEW kind \in Kinds, Decide(cpu, kind)
      PROVE  PathInv'
  BY <1>1, <1>r, <1>6, DecideKeeps, Zenon
<1>7. ASSUME NEW cpu \in OnlineCpus, SwitchStep(cpu) PROVE PathInv'
  BY <1>1, <1>7, RelockKeeps, SaveKeeps, LoadKeeps, CollectKeeps, ReleaseKeeps, Zenon DEF
     SwitchStep
<1>8. CASE UNCHANGED vars
  <2>1. SameTasks /\ UNCHANGED pathVars
    BY <1>8, Zenon DEF vars, taskVars, SameTasks
  <2> QED BY <2>1, <1>1, SameKeeps, Zenon
<1> QED BY <1>2, <1>3, <1>4, <1>5, <1>6, <1>7, <1>8, Zenon DEF SwitchNext

\* The inductive invariant of switch_with, for every number of slots, stacks and
\* epochs, on one CPU or on two without exits and steals.
THEOREM PathInvariant == StacksApart /\ CpusApart /\ SwitchSpec => [](StacksApart /\ PathInv)
<1> DEFINE Inv == StacksApart /\ CpusApart /\ PathInv
<1>1. StacksApart /\ CpusApart /\ SwitchInit => Inv
  BY PathInit, InitInv, Zenon DEF SwitchInit
<1>2. Inv /\ [SwitchNext]_vars => Inv'
  BY PathStep, Zenon DEF StacksApart, CpusApart
<1>3. Inv => StacksApart /\ PathInv
  BY Zenon
<1> HIDE DEF Inv
<1> QED BY <1>1, <1>2, <1>3, PTL DEF SwitchSpec

\* Around every switch_with a CPU runs on its current task's own stack with that
\* task's session published, a task off every CPU can be resumed, no two CPUs
\* share a stack, and no stack is freed in use or lost: the lock that is dropped
\* between the decision, the bookkeeping and the stack swap is not needed.
THEOREM StacksAreKept == StacksApart /\ CpusApart /\ SwitchSpec => []StacksKept
  BY PathInvariant, PathIsEnough, PTL

=============================================================================
