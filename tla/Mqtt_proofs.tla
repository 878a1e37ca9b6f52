----------------------------- MODULE Mqtt_proofs -----------------------------
(***************************************************************************)
(* Theorems about Mqtt, for every size of the queue, of the session and of *)
(* the identifiers, and for connections that hold any number of frames.    *)
(***************************************************************************)
EXTENDS Mqtt, WellFoundedInduction, TLAPS

(***************************************************************************)
(* Frames and items of an identifier, and their order.                     *)
(***************************************************************************)
In(s, type, id) == \E i \in DOMAIN s : s[i].type = type /\ s[i].id = id
Before(s, a, b, id) ==
  \E i, j \in DOMAIN s :
    i < j /\ s[i].type = a /\ s[i].id = id /\ s[j].type = b /\ s[j].id = id

LEMMA InAppend ==
  ASSUME NEW S, NEW s \in Seq(S), NEW x \in S
  PROVE  /\ \A type, id : In(Append(s, x), type, id)
              <=> In(s, type, id) \/ (x.type = type /\ x.id = id)
         /\ \A a, b, id : Before(Append(s, x), a, b, id)
              <=> Before(s, a, b, id) \/ (In(s, a, id) /\ x.type = b /\ x.id = id)
<1>1. /\ Len(s) \in Nat /\ DOMAIN s = 1 .. Len(s)
      /\ DOMAIN Append(s, x) = 1 .. Len(s) + 1
      /\ \A i \in 1 .. Len(s) : Append(s, x)[i] = s[i]
      /\ Append(s, x)[Len(s) + 1] = x
  OBVIOUS
<1>2. \A i \in 1 .. Len(s) + 1 : i \in 1 .. Len(s) \/ i = Len(s) + 1
  BY <1>1
<1>3. \A type, id : In(Append(s, x), type, id)
              <=> In(s, type, id) \/ (x.type = type /\ x.id = id)
  BY <1>1, <1>2 DEF In
<1>4. \A a, b, id : Before(Append(s, x), a, b, id)
              <=> Before(s, a, b, id) \/ (In(s, a, id) /\ x.type = b /\ x.id = id)
  <2> SUFFICES ASSUME NEW a, NEW b, NEW id
               PROVE  Before(Append(s, x), a, b, id)
              <=> Before(s, a, b, id) \/ (In(s, a, id) /\ x.type = b /\ x.id = id)
    OBVIOUS
  <2>1. Before(Append(s, x), a, b, id) =>
          Before(s, a, b, id) \/ (In(s, a, id) /\ x.type = b /\ x.id = id)
    BY <1>1, <1>2 DEF In, Before
  <2>2. Before(s, a, b, id) => Before(Append(s, x), a, b, id)
    BY <1>1 DEF Before
  <2>3. In(s, a, id) /\ x.type = b /\ x.id = id => Before(Append(s, x), a, b, id)
    BY <1>1 DEF In, Before
  <2> QED
    BY <2>1, <2>2, <2>3
<1> QED
  BY <1>3, <1>4

LEMMA InTail ==
  ASSUME NEW S, NEW s \in Seq(S), s # <<>>
  PROVE  /\ \A type, id : In(s, type, id)
              <=> In(Tail(s), type, id) \/ (Head(s).type = type /\ Head(s).id = id)
         /\ \A a, b, id : Before(s, a, b, id)
              <=> \/ Before(Tail(s), a, b, id)
                  \/ In(Tail(s), b, id) /\ Head(s).type = a /\ Head(s).id = id
<1>1. /\ Len(s) \in Nat /\ DOMAIN s = 1 .. Len(s) /\ 1 \in 1 .. Len(s)
      /\ DOMAIN Tail(s) = 1 .. Len(s) - 1
      /\ \A i \in 1 .. Len(s) - 1 : Tail(s)[i] = s[i + 1] /\ i + 1 \in 1 .. Len(s)
      /\ Head(s) = s[1]
  OBVIOUS
<1>2. \A i \in 1 .. Len(s) : i = 1 \/ (i - 1 \in 1 .. Len(s) - 1 /\ s[i] = Tail(s)[i - 1])
  BY <1>1
<1>3. \A type, id : In(s, type, id)
              <=> In(Tail(s), type, id) \/ (Head(s).type = type /\ Head(s).id = id)
  <2> SUFFICES ASSUME NEW type, NEW id
               PROVE  In(s, type, id)
              <=> In(Tail(s), type, id) \/ (Head(s).type = type /\ Head(s).id = id)
    OBVIOUS
  <2>1. ASSUME NEW i \in DOMAIN s, s[i].type = type, s[i].id = id
        PROVE  In(Tail(s), type, id) \/ (Head(s).type = type /\ Head(s).id = id)
    <3>1. CASE i = 1
      BY <1>1, <2>1, <3>1
    <3>2. CASE i - 1 \in 1 .. Len(s) - 1 /\ s[i] = Tail(s)[i - 1]
      BY <1>1, <2>1, <3>2 DEF In
    <3> QED
      BY <1>1, <1>2, <2>1, <3>1, <3>2
  <2>2. In(Tail(s), type, id) => In(s, type, id)
    BY <1>1 DEF In
  <2>3. Head(s).type = type /\ Head(s).id = id => In(s, type, id)
    BY <1>1 DEF In
  <2>4. In(s, type, id) =>
          In(Tail(s), type, id) \/ (Head(s).type = type /\ Head(s).id = id)
    BY <2>1 DEF In
  <2> QED
    BY <2>2, <2>3, <2>4
<1>4. \A a, b, id : Before(s, a, b, id)
              <=> \/ Before(Tail(s), a, b, id)
                  \/ In(Tail(s), b, id) /\ Head(s).type = a /\ Head(s).id = id
  <2> SUFFICES ASSUME NEW a, NEW b, NEW id
               PROVE  Before(s, a, b, id)
              <=> \/ Before(Tail(s), a, b, id)
                  \/ In(Tail(s), b, id) /\ Head(s).type = a /\ Head(s).id = id
    OBVIOUS
  <2>1. Before(Tail(s), a, b, id) => Before(s, a, b, id)
    BY <1>1 DEF Before
  <2>2. In(Tail(s), b, id) /\ Head(s).type = a /\ Head(s).id = id => Before(s, a, b, id)
    BY <1>1 DEF In, Before
  <2>3. ASSUME NEW i \in 1 .. Len(s), NEW j \in 1 .. Len(s), i < j,
               s[i].type = a, s[i].id = id, s[j].type = b, s[j].id = id
        PROVE  \/ Before(Tail(s), a, b, id)
               \/ In(Tail(s), b, id) /\ Head(s).type = a /\ Head(s).id = id
    <3>1. j - 1 \in 1 .. Len(s) - 1 /\ s[j] = Tail(s)[j - 1]
      BY <1>1, <1>2, <2>3
    <3>2. CASE i = 1
      BY <1>1, <2>3, <3>1, <3>2 DEF In
    <3>3. CASE i # 1
      <4>1. i - 1 \in 1 .. Len(s) - 1 /\ s[i] = Tail(s)[i - 1] /\ i - 1 < j - 1
        BY <1>1, <1>2, <2>3, <3>3
      <4> QED
        BY <1>1, <2>3, <3>1, <4>1 DEF Before
    <3> QED
      BY <3>2, <3>3
  <2>4. Before(s, a, b, id) =>
          \/ Before(Tail(s), a, b, id)
          \/ In(Tail(s), b, id) /\ Head(s).type = a /\ Head(s).id = id
    BY <1>1, <2>3 DEF Before
  <2> QED
    BY <2>1, <2>2, <2>4
<1> QED
  BY <1>3, <1>4

\* What is added at the end comes after what was there.
LEMMA InConcat ==
  ASSUME NEW S, NEW s \in Seq(S), NEW t \in Seq(S)
  PROVE  /\ s \o t \in Seq(S)
         /\ \A type, id : In(s \o t, type, id) => In(s, type, id) \/ In(t, type, id)
         /\ \A a, b, id : Before(s \o t, a, b, id) =>
              \/ Before(s, a, b, id)
              \/ In(s, a, id) /\ In(t, b, id)
              \/ In(t, a, id) /\ In(t, b, id)
<1>1. /\ Len(s) \in Nat /\ DOMAIN s = 1 .. Len(s)
      /\ Len(t) \in Nat /\ DOMAIN t = 1 .. Len(t)
      /\ DOMAIN (s \o t) = 1 .. Len(s) + Len(t)
      /\ \A i \in 1 .. Len(s) + Len(t) :
           (s \o t)[i] = IF i <= Len(s) THEN s[i] ELSE t[i - Len(s)]
      /\ s \o t \in Seq(S)
  OBVIOUS
<1>2. \A i \in 1 .. Len(s) + Len(t) :
        \/ i \in 1 .. Len(s) /\ (s \o t)[i] = s[i]
        \/ i > Len(s) /\ i - Len(s) \in 1 .. Len(t) /\ (s \o t)[i] = t[i - Len(s)]
  BY <1>1
<1>3. \A type, id : In(s \o t, type, id) => In(s, type, id) \/ In(t, type, id)
  BY <1>1, <1>2 DEF In
<1>4. ASSUME NEW a, NEW b, NEW id,
             NEW i \in 1 .. Len(s) + Len(t), NEW j \in 1 .. Len(s) + Len(t), i < j,
             (s \o t)[i].type = a, (s \o t)[i].id = id,
             (s \o t)[j].type = b, (s \o t)[j].id = id
      PROVE  \/ Before(s, a, b, id)
             \/ In(s, a, id) /\ In(t, b, id)
             \/ In(t, a, id) /\ In(t, b, id)
  <2>1. CASE j \in 1 .. Len(s) /\ (s \o t)[j] = s[j]
    <3>1. i \in 1 .. Len(s) /\ (s \o t)[i] = s[i]
      BY <1>1, <1>2, <1>4, <2>1
    <3> QED
      BY <1>1, <1>4, <2>1, <3>1 DEF Before
  <2>2. CASE j - Len(s) \in 1 .. Len(t) /\ (s \o t)[j] = t[j - Len(s)]
    <3>1. In(t, b, id)
      BY <1>1, <1>4, <2>2 DEF In
    <3>2. In(s, a, id) \/ In(t, a, id)
      BY <1>1, <1>2, <1>4 DEF In
    <3> QED
      BY <3>1, <3>2
  <2> QED
    BY <1>2, <1>4, <2>1, <2>2
<1>5. \A a, b, id : Before(s \o t, a, b, id) =>
              \/ Before(s, a, b, id)
              \/ In(s, a, id) /\ In(t, b, id)
              \/ In(t, a, id) /\ In(t, b, id)
  BY <1>1, <1>4 DEF Before
<1> QED
  BY <1>1, <1>3, <1>5

LEMMA InPart ==
  ASSUME NEW S, NEW s \in Seq(S), NEW n \in 1 .. Len(s)
  PROVE  /\ SubSeq(s, 1, n) \in Seq(S)
         /\ \A type, id : In(SubSeq(s, 1, n), type, id) => In(s, type, id)
<1>1. /\ Len(s) \in Nat /\ DOMAIN s = 1 .. Len(s)
      /\ SubSeq(s, 1, n) \in Seq(S) /\ DOMAIN SubSeq(s, 1, n) = 1 .. n
      /\ \A i \in 1 .. n : SubSeq(s, 1, n)[i] = s[i] /\ i \in 1 .. Len(s)
  OBVIOUS
<1> QED
  BY <1>1 DEF In

LEMMA NoneIn ==
  /\ \A type, id : ~In(<<>>, type, id)
  /\ \A a, b, id : ~Before(<<>>, a, b, id)
  BY DEF In, Before

\* What is before something else is there.
LEMMA BothIn == \A s, a, b, id : Before(s, a, b, id) => In(s, a, id) /\ In(s, b, id)
  BY DEF In, Before

-----------------------------------------------------------------------------
(***************************************************************************)
(* The session: a received message's item is the first of its identifier.  *)
(***************************************************************************)
RecFirst(s) ==
  \A i, j \in DOMAIN s : i < j /\ s[i].id = s[j].id => s[j].type # "pubrec"

LEMMA Least ==
  ASSUME NEW T, T \subseteq Nat, T # {}
  PROVE  \E k \in T : \A j \in T : k <= j
<1> DEFINE R == OpToRel(<, Nat)
<1>1. \E x \in T : \A y \in T : ~(<<y, x>> \in R)
  BY WFMin, NatLessThanWellFounded, Zenon
<1>2. \A x, y \in Nat : ~(<<y, x>> \in R) => x <= y
  BY DEF OpToRel
<1> QED
  BY <1>1, <1>2

LEMMA FirstIsLeast ==
  ASSUME NEW T, T \subseteq Nat, T # {}
  PROVE  First(T) \in T /\ \A j \in T : First(T) <= j
  BY Least DEF First

\* RemoveItem leaves out one item, the first of the identifier.
LEMMA Removed ==
  ASSUME NEW S, NEW s \in Seq(S), NEW id, \E i \in DOMAIN s : s[i].id = id
  PROVE  \E k \in DOMAIN s :
           /\ s[k].id = id
           /\ \A j \in DOMAIN s : s[j].id = id => k <= j
           /\ RemoveItem(s, id) \in Seq(S)
           /\ DOMAIN RemoveItem(s, id) = 1 .. Len(s) - 1
           /\ \A i \in 1 .. Len(s) - 1 :
                RemoveItem(s, id)[i] = IF i < k THEN s[i] ELSE s[i + 1]
<1> DEFINE found == {i \in DOMAIN s : s[i].id = id}
           r == [i \in 1 .. Len(s) - 1 |-> IF i < First(found) THEN s[i] ELSE s[i + 1]]
<1>1. Len(s) \in Nat /\ DOMAIN s = 1 .. Len(s) /\ \A i \in 1 .. Len(s) : s[i] \in S
  OBVIOUS
<1>2. First(found) \in found /\ \A j \in found : First(found) <= j
  <2>1. found \subseteq Nat /\ found # {}
    BY <1>1
  <2> QED
    BY <2>1, FirstIsLeast
<1>3. RemoveItem(s, id) = r
  BY <1>2 DEF RemoveItem
<1>4. r \in [1 .. Len(s) - 1 -> S]
  BY <1>1
<1>5. Len(s) - 1 \in Nat
  BY <1>1, <1>2
<1>6. r \in Seq(S)
  BY <1>4, <1>5
<1>7. \A i \in 1 .. Len(s) - 1 : r[i] = IF i < First(found) THEN s[i] ELSE s[i + 1]
  OBVIOUS
<1>8. DOMAIN r = 1 .. Len(s) - 1
  OBVIOUS
<1> HIDE DEF r
<1> QED
  BY <1>2, <1>3, <1>6, <1>7, <1>8

LEMMA NotRemoved ==
  ASSUME NEW S, NEW s \in Seq(S), NEW id, ~(\E i \in DOMAIN s : s[i].id = id)
  PROVE  RemoveItem(s, id) = s
  BY DEF RemoveItem

LEMMA RemovedType ==
  ASSUME NEW S, NEW s \in Seq(S), NEW id
  PROVE  RemoveItem(s, id) \in Seq(S) /\ Len(RemoveItem(s, id)) <= Len(s)
<1>1. CASE \E i \in DOMAIN s : s[i].id = id
  <2>1. PICK k \in DOMAIN s :
          RemoveItem(s, id) \in Seq(S) /\ DOMAIN RemoveItem(s, id) = 1 .. Len(s) - 1
    BY <1>1, Removed
  <2>2. Len(RemoveItem(s, id)) = Len(s) - 1
    BY <2>1
  <2> QED
    BY <2>1, <2>2
<1>2. CASE ~(\E i \in DOMAIN s : s[i].id = id)
  BY <1>2, NotRemoved
<1> QED
  BY <1>1, <1>2

LEMMA RemovedRec ==
  ASSUME NEW S, NEW s \in Seq(S), NEW id, RecFirst(s)
  PROVE  /\ RecFirst(RemoveItem(s, id))
         /\ ~In(RemoveItem(s, id), "pubrec", id)
         /\ \A k : k # id => (In(RemoveItem(s, id), "pubrec", k) <=> In(s, "pubrec", k))
<1>1. CASE \E i \in DOMAIN s : s[i].id = id
  <2> DEFINE r == RemoveItem(s, id)
  <2>1. PICK f \in DOMAIN s :
           /\ s[f].id = id
           /\ \A j \in DOMAIN s : s[j].id = id => f <= j
           /\ r \in Seq(S)
           /\ DOMAIN r = 1 .. Len(s) - 1
           /\ \A i \in 1 .. Len(s) - 1 : r[i] = IF i < f THEN s[i] ELSE s[i + 1]
    BY <1>1, Removed
  <2> HIDE DEF r
  <2>2. Len(s) \in Nat /\ DOMAIN s = 1 .. Len(s) /\ f \in 1 .. Len(s)
    OBVIOUS
  <2> DEFINE From(i) == IF i < f THEN i ELSE i + 1
  <2>3. \A i \in DOMAIN r : /\ From(i) \in DOMAIN s /\ r[i] = s[From(i)]
                             /\ From(i) # f
    BY <2>1, <2>2
  <2>4. \A i, j \in DOMAIN r : i < j => From(i) < From(j)
    BY <2>1, <2>2
  <2>5. \A i \in DOMAIN s : i # f => \E j \in DOMAIN r : r[j] = s[i]
    <3> SUFFICES ASSUME NEW i \in DOMAIN s, i # f PROVE \E j \in DOMAIN r : r[j] = s[i]
      OBVIOUS
    <3>1. CASE i < f
      <4>1. i \in DOMAIN r /\ r[i] = s[i]
        BY <2>1, <2>2, <3>1
      <4> QED
        BY <4>1
    <3>2. CASE i > f
      <4>1. i - 1 \in DOMAIN r /\ r[i - 1] = s[i]
        BY <2>1, <2>2, <3>2
      <4> QED
        BY <4>1
    <3> QED
      BY <2>2, <3>1, <3>2
  <2> HIDE DEF From
  <2>6. RecFirst(r)
    BY <2>3, <2>4 DEF RecFirst
  <2>7. ~In(r, "pubrec", id)
    <3> SUFFICES ASSUME NEW i \in DOMAIN r, r[i].type = "pubrec", r[i].id = id
                 PROVE  FALSE
      BY DEF In
    <3>1. f < From(i)
      BY <2>1, <2>2, <2>3
    <3> QED
      BY <2>1, <2>3, <3>1 DEF RecFirst
  <2>8. \A k : k # id => (In(r, "pubrec", k) <=> In(s, "pubrec", k))
    <3> SUFFICES ASSUME NEW k, k # id PROVE In(r, "pubrec", k) <=> In(s, "pubrec", k)
      OBVIOUS
    <3>1. In(r, "pubrec", k) => In(s, "pubrec", k)
      BY <2>3 DEF In
    <3>2. In(s, "pubrec", k) => In(r, "pubrec", k)
      BY <2>1, <2>5 DEF In
    <3> QED
      BY <3>1, <3>2
  <2> QED
    BY <2>6, <2>7, <2>8 DEF r
<1>2. CASE ~(\E i \in DOMAIN s : s[i].id = id)
  BY <1>2, NotRemoved DEF In
<1> QED
  BY <1>1, <1>2

-----------------------------------------------------------------------------
(***************************************************************************)
(* Type correctness.                                                       *)
(***************************************************************************)
Events == [type : Requests \cup {"receive", "gone"}, id : Ids]
Kept == [type : {"subscribe", "unsubscribe", "publish", "pubrec"}, id : Ids]

LEMMA ZeroIsId == 0 \in Ids /\ BrokerId \subseteq Ids
  BY IdAssumption DEF Ids

LEMMA NextId == packetId \in Ids => (packetId + 1) % IdMod \in Ids
  BY IdAssumption DEF Ids

LEMMA Typed ==
  ASSUME TypeOK
  PROVE  /\ queue \in Seq(Events) /\ session \in Seq(Kept)
         /\ inbox \in Seq(Replies) /\ toBroker \in Seq(Frames)
  BY DEF TypeOK, Events, Kept

LEMMA FirstTyped ==
  ASSUME NEW S, NEW s \in Seq(S), s # <<>>
  PROVE  Head(s) \in S /\ Tail(s) \in Seq(S) /\ Len(Tail(s)) < Len(s)
  OBVIOUS

LEMMA Forms ==
  /\ \A m \in Events \cup Kept \cup Replies \cup Frames : m.id \in Ids
  /\ \A id \in Ids, type \in Requests \cup {"receive", "gone"} : Message(type, id) \in Events
  /\ \A id \in Ids, type \in {"subscribe", "unsubscribe", "publish", "pubrec"} :
       Message(type, id) \in Kept /\ Message(type, id) \in Frames
  /\ \A id \in Ids : /\ Message("connect", id) \in Frames
                     /\ Message("pingreq", id) \in Frames
                     /\ Message("pubcomp", id) \in Frames
  /\ \A id \in Ids, type \in {"connack", "suback", "unsuback", "publish", "pubrel", "pingresp"} :
       Message(type, id) \in Replies
<1>1. \A m \in Events \cup Kept \cup Replies \cup Frames : m.id \in Ids
  BY DEF Events, Kept, Replies, Frames
<1>2. \A id \in Ids, type \in Requests \cup {"receive", "gone"} : Message(type, id) \in Events
  BY DEF Events, Message
<1>3. \A id \in Ids, type \in {"subscribe", "unsubscribe", "publish", "pubrec"} :
       Message(type, id) \in Kept /\ Message(type, id) \in Frames
  BY DEF Kept, Frames, Message
<1>4. \A id \in Ids : /\ Message("connect", id) \in Frames
                     /\ Message("pingreq", id) \in Frames
                     /\ Message("pubcomp", id) \in Frames
  BY DEF Frames, Message
<1>5. \A id \in Ids, type \in {"connack", "suback", "unsuback", "publish", "pubrel", "pingresp"} :
       Message(type, id) \in Replies
  BY DEF Replies, Message
<1> QED
  BY <1>1, <1>2, <1>3, <1>4, <1>5

LEMMA PushTyped ==
  ASSUME TypeOK, NEW m \in Events, Push(m)
  PROVE  queue' \in Seq(Events) /\ Len(queue') <= QueueLen
<1>1. queue \in Seq(Events) /\ Len(queue) <= QueueLen
  BY Typed DEF TypeOK
<1>2. CASE Len(queue) < QueueLen
  <2>1. queue' = Append(queue, m)
    BY <1>2 DEF Push
  <2> QED
    BY <1>1, <1>2, <2>1, SizesAssumption
<1>3. CASE ~(Len(queue) < QueueLen)
  BY <1>1, <1>3 DEF Push
<1> QED
  BY <1>2, <1>3

LEMMA SendTyped ==
  ASSUME TypeOK, NEW m \in Frames, Send(m)
  PROVE  toBroker' \in Seq(Frames) /\ faults' \in 0 .. MaxFaults
<1>1. toBroker \in Seq(Frames) /\ faults \in 0 .. MaxFaults /\ MaxFaults \in Nat
  BY Typed, SizesAssumption DEF TypeOK
<1>2. CASE Put(<<m>>)
  <2>1. toBroker' = toBroker \o <<m>> /\ faults' = faults /\ <<m>> \in Seq(Frames)
    BY <1>2 DEF Put
  <2> QED
    BY <1>1, <2>1
<1>3. CASE NotPut
  BY <1>1, <1>3 DEF NotPut
<1> QED
  BY <1>2, <1>3 DEF Send

LEMMA NotPutTyped ==
  ASSUME TypeOK, NotPut
  PROVE  toBroker' \in Seq(Frames) /\ faults' \in 0 .. MaxFaults
<1>1. toBroker \in Seq(Frames) /\ faults \in 0 .. MaxFaults /\ MaxFaults \in Nat
  BY Typed, SizesAssumption DEF TypeOK
<1> QED
  BY <1>1 DEF NotPut

LEMMA AddTyped ==
  ASSUME TypeOK, NEW type \in {"subscribe", "unsubscribe", "publish", "pubrec"},
         NEW id \in Ids
  PROVE  AddItem(type, id) \in Seq(Kept) /\ Len(AddItem(type, id)) <= SessionLen
<1>1. session \in Seq(Kept) /\ Len(session) <= SessionLen /\ Message(type, id) \in Kept
  BY Typed, Forms DEF TypeOK
<1>2. CASE Len(session) < SessionLen
  BY <1>1, <1>2, SizesAssumption DEF AddItem
<1>3. CASE ~(Len(session) < SessionLen)
  BY <1>1, <1>3 DEF AddItem
<1> QED
  BY <1>2, <1>3

LEMMA RemoveTyped ==
  ASSUME NEW s \in Seq(Kept), Len(s) <= SessionLen, NEW id
  PROVE  RemoveItem(s, id) \in Seq(Kept) /\ Len(RemoveItem(s, id)) <= SessionLen
  BY RemovedType, SizesAssumption

LEMMA DisconnectTyped ==
  ASSUME Disconnect
  PROVE         /\ open' \in BOOLEAN /\ toBroker' \in Seq(Frames)
                /\ subscribed' \in BOOLEAN
                /\ exchange' \in [BrokerId -> {"none", "sent", "released"}]
                /\ delivered' \in [BrokerId -> 0 .. 2]
<1>1. open' \in BOOLEAN /\ subscribed' \in BOOLEAN
  BY DEF Disconnect
<1>2. toBroker' \in Seq(Frames)
  BY DEF Disconnect
<1>3. exchange' \in [BrokerId -> {"none", "sent", "released"}]
  BY DEF Disconnect
<1>4. delivered' \in [BrokerId -> 0 .. 2]
  BY DEF Disconnect
<1> QED
  BY <1>1, <1>2, <1>3, <1>4

\* TypeOK, in the terms of the lemmas
Types ==
  /\ /\ at.main \in Requests \cup {"idle", "clear"}
     /\ at.worker \in {"idle", "clear"}
     /\ object \in BOOLEAN /\ isconnected \in BOOLEAN
  /\ beat \in BOOLEAN /\ open \in BOOLEAN
  /\ queue \in Seq(Events) /\ Len(queue) <= QueueLen
  /\ session \in Seq(Kept) /\ Len(session) <= SessionLen
  /\ packetId \in Ids
  /\ count \in Nat /\ expected \in Requests \cup {"none"}
  /\ inbox \in Seq(Replies)
  /\ toBroker \in Seq(Frames)
  /\ subscribed \in BOOLEAN
  /\ exchange \in [BrokerId -> {"none", "sent", "released"}]
  /\ delivered \in [BrokerId -> 0 .. 2]
  /\ faults \in 0 .. MaxFaults
  /\ answered \in BOOLEAN /\ resent \in BOOLEAN
  /\ overflowed \in BOOLEAN /\ mistaken \in BOOLEAN

LEMMA TypesForm == (TypeOK <=> Types) /\ (TypeOK' <=> Types')
  BY DEF TypeOK, Types, Events, Kept

\* at is a record of the two threads' places.
AtType == at \in [main : Requests \cup {"idle", "clear"}, worker : {"idle", "clear"}]

LEMMA GotoMain ==
  ASSUME AtType, NEW place \in Requests \cup {"idle", "clear"}, Goto("main", place)
  PROVE  AtType'
  BY DEF AtType, Goto

LEMMA GotoWorker ==
  ASSUME AtType, NEW place \in {"idle", "clear"}, Goto("worker", place)
  PROVE  AtType'
  BY DEF AtType, Goto

LEMMA AtTyped == AtType' =>
  at'.main \in Requests \cup {"idle", "clear"} /\ at'.worker \in {"idle", "clear"}
  BY DEF AtType

LEMMA EndTyped ==
  ASSUME Types, AtType, Succeed \/ Fail
  PROVE  AtType' /\ isconnected' \in BOOLEAN
<1>1. "idle" \in Requests \cup {"idle", "clear"} /\ "clear" \in Requests \cup {"idle", "clear"}
  OBVIOUS
<1> QED
  BY <1>1, GotoMain DEF Types, Succeed, Fail

LEMMA PopTyped ==
  ASSUME Types, NEW type, Pop(type)
  PROVE  /\ Head(queue) \in Events /\ Head(queue).id \in Ids /\ Head(queue).type = type
         /\ queue' \in Seq(Events) /\ Len(queue') <= QueueLen
         /\ UNCHANGED <<at, object, isconnected, packetId>>
<1>1. queue # <<>> /\ queue' = Tail(queue) /\ queue \in Seq(Events) /\ Len(queue) <= QueueLen
  BY DEF Pop, Types
<1>2. Head(queue) \in Events /\ Tail(queue) \in Seq(Events) /\ Len(Tail(queue)) < Len(queue)
  BY <1>1, FirstTyped
<1>3. Len(queue') <= QueueLen
  BY <1>1, <1>2, SizesAssumption
<1> QED
  BY <1>1, <1>2, <1>3, Forms DEF Pop, commandVars

LEMMA ReceiveTyped ==
  ASSUME Types, NEW type, Receive(type)
  PROVE  /\ Head(inbox).id \in Ids /\ Head(inbox).type = type
         /\ inbox' \in Seq(Replies)
         /\ queue' \in Seq(Events) /\ Len(queue') <= QueueLen
         /\ UNCHANGED <<at, object, isconnected, packetId, beat, open, subscribed, exchange>>
<1>1. inbox # <<>> /\ inbox' = Tail(inbox) /\ inbox \in Seq(Replies)
  BY DEF Receive, Types
<1>2. Head(inbox) \in Replies /\ Tail(inbox) \in Seq(Replies)
  BY <1>1, FirstTyped
<1> QED
  BY <1>1, <1>2, Forms, PopTyped DEF Receive

LEMMA CallbackTyped ==
  ASSUME Types, NEW event \in Requests, Callback(event)
  PROVE  expected' \in Requests \cup {"none"} /\ count' \in Nat
  BY DEF Callback, Types

LEMMA InitTyped == Init => TypeOK /\ AtType
<1> SUFFICES ASSUME Init PROVE Types /\ AtType
  BY TypesForm
<1>1. AtType
  BY DEF Init, AtType
<1>2. at.main \in Requests \cup {"idle", "clear"} /\ at.worker \in {"idle", "clear"}
  BY <1>1 DEF AtType
<1>3. queue \in Seq(Events) /\ Len(queue) <= QueueLen
  BY SizesAssumption DEF Init
<1>4. session \in Seq(Kept) /\ Len(session) <= SessionLen
  BY SizesAssumption DEF Init
<1>5. inbox \in Seq(Replies) /\ toBroker \in Seq(Frames)
  BY DEF Init
<1>6. /\ exchange \in [BrokerId -> {"none", "sent", "released"}]
      /\ delivered \in [BrokerId -> 0 .. 2]
  BY DEF Init
<1>7. packetId \in Ids /\ faults \in 0 .. MaxFaults
  BY ZeroIsId, SizesAssumption DEF Init
<1> QED
  BY <1>1, <1>2, <1>3, <1>4, <1>5, <1>6, <1>7 DEF Init, Types

LEMMA StartTyped ==
  ASSUME Types, AtType, Start
  PROVE  Types' /\ AtType'
<1>1. AtType'
  BY GotoMain DEF Start, Requests
<1>2. queue' \in Seq(Events) /\ Len(queue') <= QueueLen
  <2>1. CASE queue' = <<Message("connect", 0)>>
    <3>1. Message("connect", 0) \in Events
      BY ZeroIsId, Forms DEF Requests
    <3> QED
      BY <2>1, <3>1, SizesAssumption
  <2>2. CASE queue' = queue
    BY <2>2 DEF Types
  <2> QED
    BY <2>1, <2>2 DEF Start
<1>3. session' \in Seq(Kept) /\ Len(session') <= SessionLen
  <2>1. CASE session' = <<>>
    BY <2>1, SizesAssumption
  <2>2. CASE session' = session
    BY <2>2 DEF Types
  <2> QED
    BY <2>1, <2>2 DEF Start
<1>4. /\ open' \in BOOLEAN /\ resent' \in BOOLEAN /\ overflowed' \in BOOLEAN
      /\ mistaken' \in BOOLEAN
  BY DEF Start, Types
<1> QED
  BY <1>1, <1>2, <1>3, <1>4, AtTyped DEF Types, Start, eventVars, brokerVars

LEMMA AskTyped ==
  ASSUME Types, AtType, NEW request \in {"subscribe", "unsubscribe", "publish"},
         Ask(request)
  PROVE  Types' /\ AtType'
<1>1. AtType'
  BY GotoMain DEF Ask, Requests
<1>2. packetId' \in Ids
  BY NextId DEF Ask, Types
<1>3. Message(request, packetId') \in Events
  BY <1>2, Forms DEF Requests
<1>4. queue' \in Seq(Events) /\ Len(queue') <= QueueLen
  BY <1>3, PushTyped, TypesForm DEF Ask
<1> QED
  BY <1>1, <1>2, <1>4, AtTyped DEF Types, Ask, eventVars, brokerVars, historyVars

LEMMA StopTyped ==
  ASSUME Types, AtType, Stop
  PROVE  Types' /\ AtType'
<1>1. AtType'
  BY GotoMain DEF Stop, Requests, AtType
<1>2. Message("disconnect", 0) \in Events
  BY ZeroIsId, Forms DEF Requests
<1>3. queue' \in Seq(Events) /\ Len(queue') <= QueueLen
  BY <1>2, PushTyped, TypesForm DEF Stop
<1>4. isconnected' \in BOOLEAN
  BY DEF Stop, Types
<1> QED
  BY <1>1, <1>3, <1>4, AtTyped DEF Types, Stop, eventVars, brokerVars, historyVars

LEMMA WokenTyped ==
  ASSUME Types, AtType, Woken \/ TimesOut
  PROVE  Types' /\ AtType'
<1>1. AtType' /\ isconnected' \in BOOLEAN
  BY EndTyped DEF Woken, TimesOut
<1>2. count' \in Nat
  BY DEF Woken, TimesOut, Types, eventVars
<1> QED
  BY <1>1, <1>2, AtTyped DEF Types, Woken, TimesOut, eventVars, brokerVars

LEMMA ClearTyped ==
  ASSUME Types, AtType, NEW thread \in {"main", "worker"}, Clear(thread)
  PROVE  Types' /\ AtType'
<1>1. AtType'
  BY GotoMain, GotoWorker DEF Clear
<1>2. queue' \in Seq(Events) /\ Len(queue') <= QueueLen /\ inbox' \in Seq(Replies)
  BY SizesAssumption DEF Clear
<1> QED
  BY <1>1, <1>2, AtTyped, DisconnectTyped DEF Types, Clear, eventVars, historyVars

LEMMA LinkDownTyped ==
  ASSUME Types, AtType, LinkDown
  PROVE  Types' /\ AtType'
<1>1. AtType'
  BY GotoWorker DEF LinkDown
<1> QED
  BY <1>1, AtTyped DEF Types, LinkDown, eventVars, brokerVars, historyVars

\* Steps that do not move the threads
LEMMA Stays == AtType /\ UNCHANGED at => AtType'
  BY DEF AtType

LEMMA TickTyped ==
  ASSUME Types, AtType, TickPing \/ TickTimeout
  PROVE  Types' /\ AtType'
<1>1. AtType'
  BY Stays DEF TickPing, TickTimeout, commandVars
<1>2. CASE TickPing
  <2>1. Message("pingreq", 0) \in Frames
    BY ZeroIsId, Forms
  <2>2. toBroker' \in Seq(Frames) /\ faults' \in 0 .. MaxFaults
    BY <1>2, <2>1, SendTyped, TypesForm DEF TickPing
  <2> QED
    BY <1>1, <1>2, <2>2, AtTyped DEF Types, TickPing, commandVars, eventVars, brokerVars,
                                   historyVars
<1>3. CASE TickTimeout
  <2>1. expected' \in Requests \cup {"none"} /\ count' \in Nat
    BY <1>3, CallbackTyped DEF TickTimeout, Requests
  <2> QED
    BY <1>1, <1>3, <2>1, AtTyped, DisconnectTyped DEF Types, TickTimeout, commandVars, historyVars
<1> QED
  BY <1>2, <1>3

LEMMA SendConnectTyped ==
  ASSUME Types, AtType, SendConnect
  PROVE  Types' /\ AtType'
<1>1. AtType'
  BY Stays, PopTyped DEF SendConnect
<1>2. Message("connect", 0) \in Frames
  BY ZeroIsId, Forms
<1>3. toBroker' \in Seq(Frames) /\ faults' \in 0 .. MaxFaults
  BY <1>2, SendTyped, TypesForm DEF SendConnect
<1>4. queue' \in Seq(Events) /\ Len(queue') <= QueueLen
      /\ UNCHANGED <<at, object, isconnected, packetId>>
  BY PopTyped DEF SendConnect
<1> QED
  BY <1>1, <1>3, <1>4, AtTyped DEF Types, SendConnect, eventVars, brokerVars, historyVars

\* The frame of a request is the request.
LEMMA RequestIsFrame ==
  ASSUME NEW m \in Events, m.type \in {"subscribe", "unsubscribe", "publish"}
  PROVE  m \in Frames
  BY DEF Events, Frames

LEMMA SendSubscribeTyped ==
  ASSUME Types, AtType, SendSubscribe
  PROVE  Types' /\ AtType'
<1>1. PICK type \in {"subscribe", "unsubscribe"} :
        /\ Pop(type) /\ Send(Head(queue))
        /\ session' = AddItem(type, Head(queue).id)
  BY DEF SendSubscribe
<1>2. /\ Head(queue) \in Events /\ Head(queue).id \in Ids /\ Head(queue).type = type
      /\ queue' \in Seq(Events) /\ Len(queue') <= QueueLen
      /\ UNCHANGED <<at, object, isconnected, packetId>>
  BY <1>1, PopTyped
<1>3. Head(queue) \in Frames
  BY <1>2, RequestIsFrame
<1>4. toBroker' \in Seq(Frames) /\ faults' \in 0 .. MaxFaults
  BY <1>1, <1>3, SendTyped, TypesForm
<1>5. session' \in Seq(Kept) /\ Len(session') <= SessionLen
  BY <1>1, <1>2, AddTyped, TypesForm
<1>6. overflowed' \in BOOLEAN
  BY DEF SendSubscribe, Types
<1>7. AtType'
  BY <1>2, Stays
<1> QED
  BY <1>2, <1>4, <1>5, <1>6, <1>7, AtTyped DEF Types, SendSubscribe, eventVars, brokerVars

LEMMA SendPublishTyped ==
  ASSUME Types, AtType, SendPublish
  PROVE  Types' /\ AtType'
<1> DEFINE id == Head(queue).id
<1>1. /\ Head(queue) \in Events /\ Head(queue).id \in Ids /\ Head(queue).type = "publish"
      /\ queue' \in Seq(Events) /\ Len(queue') <= QueueLen
      /\ UNCHANGED <<at, object, isconnected, packetId>>
  BY PopTyped DEF SendPublish
<1>2. session' \in Seq(Kept) /\ Len(session') <= SessionLen
  <2>1. AddItem("publish", id) \in Seq(Kept) /\ Len(AddItem("publish", id)) <= SessionLen
    BY <1>1, AddTyped, TypesForm
  <2> QED
    BY <2>1, RemoveTyped DEF SendPublish
<1>3. toBroker' \in Seq(Frames) /\ faults' \in 0 .. MaxFaults
  <2>1. Head(queue) \in Frames
    BY <1>1, RequestIsFrame
  <2>2. Send(Head(queue))
    BY DEF SendPublish, Send
  <2> QED
    BY <2>1, <2>2, SendTyped, TypesForm
<1>4. expected' \in Requests \cup {"none"} /\ count' \in Nat /\ answered' \in BOOLEAN
  BY CallbackTyped DEF SendPublish, Requests, Types, eventVars
<1>5. overflowed' \in BOOLEAN /\ mistaken' \in BOOLEAN
  BY DEF SendPublish, Mistake, Types
<1>6. AtType'
  BY <1>1, Stays
<1> QED
  BY <1>1, <1>2, <1>3, <1>4, <1>5, <1>6, AtTyped DEF Types, SendPublish, brokerVars

LEMMA CloseTyped ==
  ASSUME Types, Close
  PROVE  /\ expected' \in Requests \cup {"none"} /\ count' \in Nat
         /\ inbox' \in Seq(Replies)
  BY CallbackTyped DEF Close, Requests

LEMMA SendDisconnectTyped ==
  ASSUME Types, AtType, SendDisconnect
  PROVE  Types' /\ AtType'
<1>1. /\ queue' \in Seq(Events) /\ Len(queue') <= QueueLen
      /\ UNCHANGED <<at, object, isconnected, packetId>>
  BY PopTyped DEF SendDisconnect
<1>2. AtType'
  BY <1>1, Stays
<1>3. CASE Close /\ UNCHANGED faults
  BY <1>1, <1>2, <1>3, AtTyped, CloseTyped, DisconnectTyped
  DEF Types, SendDisconnect, Close, historyVars
<1>4. CASE NotPut /\ UNCHANGED <<open, eventVars, inbox, brokerVars>>
  BY <1>1, <1>2, <1>4, AtTyped, NotPutTyped, TypesForm
  DEF Types, SendDisconnect, historyVars, eventVars, brokerVars
<1> QED
  BY <1>3, <1>4 DEF SendDisconnect

LEMMA BrokerGoneTyped ==
  ASSUME Types, AtType, BrokerGone
  PROVE  Types' /\ AtType'
<1>1. /\ queue' \in Seq(Events) /\ Len(queue') <= QueueLen
      /\ UNCHANGED <<at, object, isconnected, packetId>>
  BY PopTyped DEF BrokerGone
<1>2. AtType'
  BY <1>1, Stays
<1> QED
  BY <1>1, <1>2, AtTyped, CloseTyped, DisconnectTyped DEF Types, BrokerGone, Close, historyVars

LEMMA NothingReceivedTyped ==
  ASSUME Types, AtType, NothingReceived
  PROVE  Types' /\ AtType'
<1>1. /\ queue' \in Seq(Events) /\ Len(queue') <= QueueLen
      /\ UNCHANGED <<at, object, isconnected, packetId>>
  BY PopTyped DEF NothingReceived
<1>2. AtType'
  BY <1>1, Stays
<1> QED
  BY <1>1, <1>2, AtTyped DEF Types, NothingReceived, eventVars, brokerVars, historyVars

LEMMA ReceiveConnackTyped ==
  ASSUME Types, AtType, ReceiveConnack
  PROVE  Types' /\ AtType'
<1>1. /\ inbox' \in Seq(Replies)
      /\ queue' \in Seq(Events) /\ Len(queue') <= QueueLen
      /\ UNCHANGED <<at, object, isconnected, packetId, beat, open, subscribed, exchange>>
  BY ReceiveTyped DEF ReceiveConnack
<1>2. AtType'
  BY <1>1, Stays
<1>3. expected' \in Requests \cup {"none"} /\ count' \in Nat
  BY CallbackTyped DEF ReceiveConnack, Requests
<1> QED
  BY <1>1, <1>2, <1>3, AtTyped DEF Types, ReceiveConnack, historyVars

LEMMA ReceiveSubackTyped ==
  ASSUME Types, AtType, ReceiveSuback
  PROVE  Types' /\ AtType'
<1>1. PICK request \in {"subscribe", "unsubscribe"} :
        /\ Receive(IF request = "subscribe" THEN "suback" ELSE "unsuback")
        /\ Callback(request)
        /\ Mistake(request, Head(inbox).id)
  BY DEF ReceiveSuback
<1>2. /\ Head(inbox).id \in Ids /\ inbox' \in Seq(Replies)
      /\ queue' \in Seq(Events) /\ Len(queue') <= QueueLen
      /\ UNCHANGED <<at, object, isconnected, packetId, beat, open, subscribed, exchange>>
  BY <1>1, ReceiveTyped
<1>3. AtType'
  BY <1>2, Stays
<1>4. expected' \in Requests \cup {"none"} /\ count' \in Nat
  BY <1>1, CallbackTyped DEF Requests
<1>5. session' \in Seq(Kept) /\ Len(session') <= SessionLen
  BY RemoveTyped DEF ReceiveSuback, Types
<1>6. mistaken' \in BOOLEAN
  BY <1>1 DEF Mistake, Types
<1> QED
  BY <1>2, <1>3, <1>4, <1>5, <1>6, AtTyped DEF Types, ReceiveSuback

LEMMA ReceivePublishTyped ==
  ASSUME Types, AtType, ReceivePublish
  PROVE  Types' /\ AtType'
<1> DEFINE id == Head(inbox).id
<1>1. /\ id \in Ids /\ inbox' \in Seq(Replies)
      /\ queue' \in Seq(Events) /\ Len(queue') <= QueueLen
      /\ UNCHANGED <<at, object, isconnected, packetId, beat, open, subscribed, exchange>>
  BY ReceiveTyped DEF ReceivePublish
<1>2. AtType'
  BY <1>1, Stays
<1>3. toBroker' \in Seq(Frames) /\ faults' \in 0 .. MaxFaults
  <2>1. Message("pubrec", id) \in Frames
    BY <1>1, Forms
  <2> QED
    BY <2>1, SendTyped, TypesForm DEF ReceivePublish
<1>4. session' \in Seq(Kept) /\ Len(session') <= SessionLen
  <2>1. AddItem("pubrec", id) \in Seq(Kept) /\ Len(AddItem("pubrec", id)) <= SessionLen
    BY <1>1, AddTyped, TypesForm
  <2> QED
    BY <2>1 DEF ReceivePublish, Types
<1>5. delivered' \in [BrokerId -> 0 .. 2]
  BY DEF ReceivePublish, Types
<1>6. overflowed' \in BOOLEAN /\ mistaken' \in BOOLEAN
  BY DEF ReceivePublish, Mistake, Types
<1> QED
  BY <1>1, <1>2, <1>3, <1>4, <1>5, <1>6, AtTyped DEF Types, ReceivePublish, eventVars

LEMMA ReceivePubrelTyped ==
  ASSUME Types, AtType, ReceivePubrel
  PROVE  Types' /\ AtType'
<1> DEFINE id == Head(inbox).id
<1>1. /\ id \in Ids /\ inbox' \in Seq(Replies)
      /\ queue' \in Seq(Events) /\ Len(queue') <= QueueLen
      /\ UNCHANGED <<at, object, isconnected, packetId, beat, open, subscribed, exchange>>
  BY ReceiveTyped DEF ReceivePubrel
<1>2. AtType'
  BY <1>1, Stays
<1>3. toBroker' \in Seq(Frames) /\ faults' \in 0 .. MaxFaults
  <2>1. Message("pubcomp", id) \in Frames
    BY <1>1, Forms
  <2> QED
    BY <2>1, SendTyped, TypesForm DEF ReceivePubrel
<1>4. session' \in Seq(Kept) /\ Len(session') <= SessionLen
  BY RemoveTyped DEF ReceivePubrel, Types
<1>5. mistaken' \in BOOLEAN
  BY DEF ReceivePubrel, Mistake, Types
<1> QED
  BY <1>1, <1>2, <1>3, <1>4, <1>5, AtTyped DEF Types, ReceivePubrel, eventVars

\* The items of the session are frames.
LEMMA KeptAreFrames == Seq(Kept) \subseteq Seq(Frames)
<1>1. Kept \subseteq Frames
  BY DEF Kept, Frames
<1> QED
  BY <1>1

LEMMA ReceivePingrespTyped ==
  ASSUME Types, AtType, ReceivePingresp
  PROVE  Types' /\ AtType'
<1>1. /\ inbox' \in Seq(Replies)
      /\ queue' \in Seq(Events) /\ Len(queue') <= QueueLen
      /\ UNCHANGED <<at, object, isconnected, packetId, beat, open, subscribed, exchange>>
  BY ReceiveTyped DEF ReceivePingresp
<1>2. AtType'
  BY <1>1, Stays
<1>3. session \in Seq(Frames) /\ toBroker \in Seq(Frames)
      /\ faults \in 0 .. MaxFaults /\ MaxFaults \in Nat
  BY KeptAreFrames, SizesAssumption DEF Types
<1>4. toBroker' \in Seq(Frames) /\ faults' \in 0 .. MaxFaults
  <2>1. CASE Put(session)
    <3>1. toBroker' = toBroker \o session /\ faults' = faults
      BY <2>1 DEF Put
    <3> QED
      BY <1>3, <3>1, InConcat
  <2>2. CASE NotPut \/ UNCHANGED <<toBroker, faults>>
    BY <1>3, <2>2, NotPutTyped, TypesForm
  <2>3. ASSUME NEW n \in 1 .. Len(session) - 1,
               faults > 0, faults' = faults - 1,
               toBroker' = toBroker \o SubSeq(session, 1, n)
        PROVE  toBroker' \in Seq(Frames) /\ faults' \in 0 .. MaxFaults
    <3>1. n \in 1 .. Len(session)
      BY <1>3, <2>3
    <3>2. SubSeq(session, 1, n) \in Seq(Frames)
      BY <1>3, <3>1, InPart
    <3>3. toBroker' \in Seq(Frames)
      BY <1>3, <2>3, <3>2, InConcat
    <3> QED
      BY <1>3, <2>3, <3>3
  <2> QED
    BY <2>1, <2>2, <2>3 DEF ReceivePingresp
<1>5. resent' \in BOOLEAN
  BY DEF ReceivePingresp, Types
<1> QED
  BY <1>1, <1>2, <1>4, <1>5, AtTyped DEF Types, ReceivePingresp, eventVars

LEMMA ArrivesTyped ==
  ASSUME Types, NEW frame \in Replies, Arrives(frame)
  PROVE  /\ inbox' \in Seq(Replies) /\ inbox' = Append(inbox, frame)
         /\ queue' \in Seq(Events) /\ Len(queue') <= QueueLen
<1>1. Message("receive", 0) \in Events
  BY ZeroIsId, Forms
<1>2. queue' \in Seq(Events) /\ Len(queue') <= QueueLen
  BY <1>1, PushTyped, TypesForm DEF Arrives
<1>3. inbox' \in Seq(Replies)
  BY DEF Arrives, Types
<1> QED
  BY <1>2, <1>3 DEF Arrives

LEMMA BrokerTakesTyped ==
  ASSUME Types, AtType, BrokerTakes
  PROVE  Types' /\ AtType'
<1> DEFINE frame == Head(toBroker)
<1>1. /\ frame \in Frames /\ frame.id \in Ids /\ toBroker' = Tail(toBroker)
      /\ toBroker' \in Seq(Frames)
  <2>1. toBroker \in Seq(Frames) /\ toBroker # <<>> /\ toBroker' = Tail(toBroker)
    BY DEF BrokerTakes, Types
  <2> QED
    BY <2>1, FirstTyped, Forms
<1>2. AtType'
  BY Stays DEF BrokerTakes, BrokerStep, commandVars
<1> USE DEF BrokerTakes, BrokerStep, commandVars, eventVars
<1>3. CASE BrokerReplies(frame)
  <2>1. frame.type \in {"connect", "subscribe", "unsubscribe", "pingreq"}
    BY <1>3 DEF BrokerReplies, Reply
  <2>2. Reply[frame.type] \in {"connack", "suback", "unsuback", "pingresp"}
    BY <2>1 DEF Reply
  <2>3. Message(Reply[frame.type], frame.id) \in Replies
    BY <1>1, <2>2, Forms
  <2>4. inbox' \in Seq(Replies) /\ queue' \in Seq(Events) /\ Len(queue') <= QueueLen
    BY <1>3, <2>3, ArrivesTyped DEF BrokerReplies
  <2>5. subscribed' \in BOOLEAN /\ answered' \in BOOLEAN
    BY <1>3 DEF BrokerReplies, Types
  <2> QED
    BY <1>1, <1>2, <1>3, <2>4, <2>5, AtTyped DEF Types, BrokerReplies
<1>4. CASE BrokerReleases(frame)
  <2>1. Message("pubrel", frame.id) \in Replies
    BY <1>1, Forms
  <2>2. inbox' \in Seq(Replies) /\ queue' \in Seq(Events) /\ Len(queue') <= QueueLen
    BY <1>4, <2>1, ArrivesTyped DEF BrokerReleases
  <2>3. exchange' \in [BrokerId -> {"none", "sent", "released"}]
    BY <1>4 DEF BrokerReleases, Types
  <2> QED
    BY <1>1, <1>2, <1>4, <2>2, <2>3, AtTyped DEF Types, BrokerReleases
<1>5. CASE BrokerCompletes(frame)
  <2>1. exchange' \in [BrokerId -> {"none", "sent", "released"}]
    BY <1>5 DEF BrokerCompletes, Types
  <2> QED
    BY <1>1, <1>2, <1>5, <2>1, AtTyped DEF Types, BrokerCompletes
<1>6. CASE BrokerIgnores(frame)
  BY <1>1, <1>2, <1>6, AtTyped DEF Types, BrokerIgnores
<1> QED
  BY <1>3, <1>4, <1>5, <1>6

LEMMA BrokerPublishesTyped ==
  ASSUME Types, AtType, NEW id \in BrokerId, BrokerPublishes(id)
  PROVE  Types' /\ AtType'
<1>1. AtType'
  BY Stays DEF BrokerPublishes, commandVars
<1>2. Message("publish", id) \in Replies
  BY ZeroIsId, Forms
<1>3. inbox' \in Seq(Replies) /\ queue' \in Seq(Events) /\ Len(queue') <= QueueLen
  BY <1>2, ArrivesTyped DEF BrokerPublishes
<1>4. exchange' \in [BrokerId -> {"none", "sent", "released"}]
  BY DEF BrokerPublishes, Types
<1>5. delivered' \in [BrokerId -> 0 .. 2]
  BY DEF BrokerPublishes, Types
<1> QED
  BY <1>1, <1>3, <1>4, <1>5, AtTyped
  DEF Types, BrokerPublishes, commandVars, eventVars, historyVars

LEMMA BrokerRepeatsTyped ==
  ASSUME Types, AtType, NEW id \in BrokerId, BrokerRepeats(id)
  PROVE  Types' /\ AtType'
<1>1. AtType'
  BY Stays DEF BrokerRepeats, BrokerStep, commandVars
<1>2. Message(IF exchange[id] = "sent" THEN "publish" ELSE "pubrel", id) \in Replies
  BY ZeroIsId, Forms
<1>3. inbox' \in Seq(Replies) /\ queue' \in Seq(Events) /\ Len(queue') <= QueueLen
  BY <1>2, ArrivesTyped DEF BrokerRepeats
<1> QED
  BY <1>1, <1>3, AtTyped DEF Types, BrokerRepeats, BrokerStep, commandVars, eventVars

LEMMA BrokerClosesTyped ==
  ASSUME Types, AtType, BrokerCloses
  PROVE  Types' /\ AtType'
<1>1. AtType'
  BY Stays DEF BrokerCloses, BrokerStep, commandVars
<1>2. Message("gone", 0) \in Events
  BY ZeroIsId, Forms
<1>3. queue' \in Seq(Events) /\ Len(queue') <= QueueLen
  BY <1>2, PushTyped, TypesForm DEF BrokerCloses
<1> QED
  BY <1>1, <1>3, AtTyped, DisconnectTyped
  DEF Types, BrokerCloses, BrokerStep, commandVars, eventVars

LEMMA StepTyped == Types /\ AtType /\ [Next]_vars => Types' /\ AtType'
<1> SUFFICES ASSUME Types, AtType, [Next]_vars PROVE Types' /\ AtType'
  OBVIOUS
<1>1. CASE Command
  BY <1>1, StartTyped, AskTyped, StopTyped DEF Command
<1>2. CASE MainRuns
  BY <1>2, WokenTyped, ClearTyped DEF MainRuns
<1>3. CASE MqttMain
  BY <1>3, SendConnectTyped, SendSubscribeTyped, SendPublishTyped, SendDisconnectTyped,
     BrokerGoneTyped, NothingReceivedTyped, ReceiveConnackTyped, ReceiveSubackTyped,
     ReceivePublishTyped, ReceivePubrelTyped, ReceivePingrespTyped DEF MqttMain
<1>4. CASE Worker
  BY <1>4, LinkDownTyped, ClearTyped, TickTyped DEF Worker
<1>5. CASE Broker
  BY <1>5, BrokerTakesTyped, BrokerPublishesTyped, BrokerRepeatsTyped, BrokerClosesTyped
  DEF Broker
<1>6. CASE UNCHANGED vars
  BY <1>6, Stays, AtTyped DEF vars, commandVars, eventVars, brokerVars, historyVars, Types
<1> QED
  BY <1>1, <1>2, <1>3, <1>4, <1>5, <1>6 DEF Next

(***************************************************************************)
(* The queue and the session stay within their sizes, identifiers within   *)
(* their range, and what is in the queues is what Mqttmain and the broker  *)
(* expect there (mqtt_manager.c's switch statements).                      *)
(***************************************************************************)
THEOREM MqttTypeCorrect == Spec => []TypeOK
<1>1. Init => Types /\ AtType
  BY InitTyped, TypesForm
<1>2. Types /\ AtType /\ [Next]_vars => Types' /\ AtType'
  BY StepTyped
<1>3. Types => TypeOK
  BY TypesForm
<1> QED
  BY <1>1, <1>2, <1>3, PTL DEF Spec

-----------------------------------------------------------------------------
(***************************************************************************)
(* The exchange for a message: PUBLISH, PUBREC, PUBREL, PUBCOMP.           *)
(*                                                                         *)
(* That a message is delivered once depends on what is still under way.    *)
(* In the connection, frames of one exchange may be repeated, and those of *)
(* the exchange before it, with the same identifier, may remain: a PUBREL  *)
(* before a PUBLISH belongs to the exchange before.  The invariant says,   *)
(* for each state that the broker may be in, which frames may be left and  *)
(* whether the session holds the identifier.                               *)
(***************************************************************************)
HasItem(id) == In(session, "pubrec", id)

Repeated(id) ==
  /\ ~overflowed /\ delivered[id] >= 1 /\ In(inbox, "publish", id) => HasItem(id)
  /\ Before(inbox, "pubrel", "publish", id) =>
       delivered[id] = 0 /\ ~Before(inbox, "publish", "pubrel", id)

WhenNone(id) ==
  exchange[id] = "none" =>
    /\ ~In(toBroker, "pubrec", id)
    /\ open => ~In(inbox, "publish", id) /\ ~HasItem(id)

WhenSent(id) ==
  exchange[id] = "sent" =>
    /\ In(inbox, "pubrel", id) =>
         /\ delivered[id] = 0 /\ ~HasItem(id)
         /\ ~Before(inbox, "publish", "pubrel", id)
         /\ ~In(toBroker, "pubrec", id)
    /\ ~Before(toBroker, "pubrec", "pubcomp", id)
    /\ HasItem(id) \/ In(toBroker, "pubrec", id) => delivered[id] >= 1
    /\ ~overflowed /\ delivered[id] >= 1 => HasItem(id)

WhenReleased(id) ==
  exchange[id] = "released" =>
    /\ ~Before(inbox, "pubrel", "publish", id)
    /\ In(toBroker, "pubcomp", id) => ~In(inbox, "publish", id) /\ ~HasItem(id)
    /\ ~Before(toBroker, "pubcomp", "pubrec", id)
    /\ delivered[id] >= 1

Good(id) == Repeated(id) /\ WhenNone(id) /\ WhenSent(id) /\ WhenReleased(id)

Connection ==
  /\ ~object => ~open /\ inbox = <<>>
  /\ ~open => toBroker = <<>> /\ \A id \in BrokerId : exchange[id] = "none"

Invariant ==
  /\ Types /\ AtType
  /\ Connection
  /\ ~mistaken => RecFirst(session) /\ \A id \in BrokerId : Good(id)

LEMMA OneMore == ASSUME NEW S, NEW s \in Seq(S), NEW x \in S
                 PROVE  s \o <<x>> = Append(s, x)
  OBVIOUS

\* What an added item changes
LEMMA AddedRec ==
  ASSUME NEW s \in Seq(Kept), NEW x \in Kept, RecFirst(s),
         x.type = "pubrec" => \A i \in DOMAIN s : s[i].id # x.id
  PROVE  RecFirst(Append(s, x))
<1>1. /\ Len(s) \in Nat /\ DOMAIN s = 1 .. Len(s)
      /\ DOMAIN Append(s, x) = 1 .. Len(s) + 1
      /\ \A i \in 1 .. Len(s) : Append(s, x)[i] = s[i]
      /\ Append(s, x)[Len(s) + 1] = x
  OBVIOUS
<1> SUFFICES ASSUME NEW i \in 1 .. Len(s) + 1, NEW j \in 1 .. Len(s) + 1, i < j,
                    Append(s, x)[i].id = Append(s, x)[j].id,
                    Append(s, x)[j].type = "pubrec"
             PROVE  FALSE
  BY <1>1 DEF RecFirst
<1>2. i \in 1 .. Len(s) /\ Append(s, x)[i] = s[i]
  BY <1>1
<1>3. CASE j \in 1 .. Len(s)
  BY <1>1, <1>2, <1>3 DEF RecFirst
<1>4. CASE j = Len(s) + 1
  BY <1>1, <1>2, <1>4
<1> QED
  BY <1>1, <1>3, <1>4

LEMMA AddOther ==
  ASSUME Types, RecFirst(session), NEW type \in {"subscribe", "unsubscribe", "publish"},
         NEW id \in Ids
  PROVE  /\ RecFirst(AddItem(type, id))
         /\ \A k : In(AddItem(type, id), "pubrec", k) <=> In(session, "pubrec", k)
<1>1. session \in Seq(Kept) /\ Message(type, id) \in Kept
  BY Forms DEF Types
<1>2. Message(type, id).type # "pubrec"
  BY DEF Message
<1>3. CASE Len(session) < SessionLen
  BY <1>1, <1>2, <1>3, AddedRec, InAppend DEF AddItem
<1>4. CASE ~(Len(session) < SessionLen)
  BY <1>4 DEF AddItem
<1> QED
  BY <1>3, <1>4

LEMMA AddRec ==
  ASSUME Types, RecFirst(session), NEW id \in Ids, Items(id) = {}
  PROVE  /\ RecFirst(AddItem("pubrec", id))
         /\ \A k : k # id => (In(AddItem("pubrec", id), "pubrec", k) <=> In(session, "pubrec", k))
         /\ Len(session) # SessionLen => In(AddItem("pubrec", id), "pubrec", id)
<1>1. session \in Seq(Kept) /\ Message("pubrec", id) \in Kept /\ Len(session) <= SessionLen
      /\ Len(session) \in Nat
  BY Forms DEF Types
<1>2. Message("pubrec", id).type = "pubrec" /\ Message("pubrec", id).id = id
  BY DEF Message
<1>3. \A i \in DOMAIN session : session[i].id # id
  BY DEF Items
<1>4. CASE Len(session) < SessionLen
  <2>1. AddItem("pubrec", id) = Append(session, Message("pubrec", id))
    BY <1>4 DEF AddItem
  <2>2. RecFirst(Append(session, Message("pubrec", id)))
    BY <1>1, <1>2, <1>3, AddedRec
  <2>3. \A k : In(Append(session, Message("pubrec", id)), "pubrec", k)
                 <=> In(session, "pubrec", k) \/ id = k
    BY <1>1, <1>2, InAppend
  <2> QED
    BY <2>1, <2>2, <2>3
<1>5. CASE ~(Len(session) < SessionLen)
  <2>1. Len(session) = SessionLen
    BY <1>1, <1>5, SizesAssumption
  <2> QED
    BY <1>5, <2>1 DEF AddItem
<1> QED
  BY <1>4, <1>5

\* The first item of an identifier tells whether a message is held.
LEMMA FirstItem ==
  ASSUME Types, RecFirst(session), NEW id, Items(id) # {}
  PROVE  In(session, "pubrec", id) <=> session[First(Items(id))].type = "pubrec"
<1> DEFINE f == First(Items(id))
<1>1. session \in Seq(Kept) /\ Len(session) \in Nat /\ DOMAIN session = 1 .. Len(session)
  BY DEF Types
<1>2. Items(id) \subseteq Nat
  BY <1>1 DEF Items
<1>3. f \in Items(id) /\ \A j \in Items(id) : f <= j
  BY <1>2, FirstIsLeast
<1>4. f \in DOMAIN session /\ session[f].id = id
  BY <1>3 DEF Items
<1> HIDE DEF f
<1>5. session[f].type = "pubrec" => In(session, "pubrec", id)
  BY <1>4 DEF In
<1>6. ASSUME NEW i \in DOMAIN session, session[i].type = "pubrec", session[i].id = id
      PROVE  session[f].type = "pubrec"
  <2>1. f <= i
    BY <1>3, <1>6 DEF Items
  <2>2. CASE f = i
    BY <1>6, <2>2
  <2>3. CASE f # i
    <3>1. f < i
      BY <1>1, <1>4, <2>1, <2>3
    <3> QED
      BY <1>4, <1>6, <3>1 DEF RecFirst
  <2> QED
    BY <2>2, <2>3
<1>7. In(session, "pubrec", id) => session[f].type = "pubrec"
  BY <1>6 DEF In
<1> QED
  BY <1>5, <1>7 DEF f

LEMMA NoItem ==
  ASSUME NEW id, Items(id) = {}
  PROVE  ~In(session, "pubrec", id)
  BY DEF Items, In

LEMMA Unmistaken ==
  ASSUME Types, RecFirst(session), NEW type, NEW id, Mistake(type, id), ~mistaken'
  PROVE  /\ type # "pubrec" => ~In(session, "pubrec", id)
         /\ type = "pubrec" => Items(id) = {} \/ In(session, "pubrec", id)
         /\ ~mistaken
  BY FirstItem, NoItem DEF Mistake

\* A step that adds no frame of an exchange
LEMMA Quiet ==
  ASSUME NEW id, Good(id),
         UNCHANGED <<exchange, delivered, open>>, overflowed => overflowed',
         \A type \in {"publish", "pubrel"} : In(inbox', type, id) => In(inbox, type, id),
         Before(inbox', "pubrel", "publish", id) => Before(inbox, "pubrel", "publish", id),
         Before(inbox', "publish", "pubrel", id) => Before(inbox, "publish", "pubrel", id),
         \A type \in {"pubrec", "pubcomp"} : In(toBroker', type, id) => In(toBroker, type, id),
         Before(toBroker', "pubrec", "pubcomp", id) => Before(toBroker, "pubrec", "pubcomp", id),
         Before(toBroker', "pubcomp", "pubrec", id) => Before(toBroker, "pubcomp", "pubrec", id),
         In(session', "pubrec", id) <=> In(session, "pubrec", id)
  PROVE  Good(id)'
<1>1. HasItem(id)' <=> HasItem(id)
  BY DEF HasItem
<1>2. Repeated(id)'
  BY <1>1 DEF Good, Repeated
<1>3. WhenNone(id)'
  BY <1>1 DEF Good, WhenNone
<1>4. WhenSent(id)'
  BY <1>1 DEF Good, WhenSent
<1>5. WhenReleased(id)'
  BY <1>1 DEF Good, WhenReleased
<1> QED
  BY <1>2, <1>3, <1>4, <1>5 DEF Good

\* A connection that ends
LEMMA Ended ==
  ASSUME NEW id \in BrokerId, Good(id), Disconnect, inbox' = inbox \/ inbox' = <<>>
  PROVE  Good(id)'
<1>1. delivered'[id] = 0 /\ exchange'[id] = "none" /\ ~open' /\ toBroker' = <<>>
  BY DEF Disconnect
<1>2. Repeated(id)'
  BY <1>1, NoneIn, BothIn DEF Good, Repeated
<1>3. WhenNone(id)'
  BY <1>1, NoneIn DEF WhenNone
<1> QED
  BY <1>1, <1>2, <1>3 DEF Good, WhenSent, WhenReleased

LEMMA EndedConnection ==
  ASSUME Connection, Disconnect, inbox' = inbox \/ inbox' = <<>>, object => object' \/ inbox' = <<>>
  PROVE  Connection'
  BY DEF Connection, Disconnect

\* A sent frame is the last one.
LEMMA SentFrame ==
  ASSUME Types, NEW m \in Frames, Send(m)
  PROVE  /\ \A type, id : In(toBroker, type, id) => In(toBroker', type, id)
         /\ \A type, id : In(toBroker', type, id) =>
              In(toBroker, type, id) \/ (open /\ m.type = type /\ m.id = id)
         /\ \A a, b, id : Before(toBroker', a, b, id) =>
              Before(toBroker, a, b, id) \/ (In(toBroker, a, id) /\ m.type = b /\ m.id = id)
         /\ ~open => UNCHANGED toBroker
<1>1. CASE Put(<<m>>)
  <2>1. toBroker' = Append(toBroker, m) /\ open
    BY <1>1, OneMore DEF Put, Types
  <2> QED
    BY <2>1, InAppend DEF Types
<1>2. CASE NotPut
  BY <1>2 DEF NotPut
<1> QED
  BY <1>1, <1>2 DEF Send

LEMMA SentOther ==
  ASSUME Types, NEW m \in Frames, Send(m), m.type # "pubrec", m.type # "pubcomp"
  PROVE  /\ \A id : \A type \in {"pubrec", "pubcomp"} :
              In(toBroker', type, id) => In(toBroker, type, id)
         /\ \A id : \A a, b \in {"pubrec", "pubcomp"} :
              Before(toBroker', a, b, id) => Before(toBroker, a, b, id)
         /\ ~open => UNCHANGED toBroker
  BY SentFrame

LEMMA Received ==
  ASSUME Types, NEW type, Receive(type)
  PROVE  /\ \A t, id : In(inbox, t, id) <=> In(inbox', t, id) \/ (type = t /\ Head(inbox).id = id)
         /\ \A a, b, id : Before(inbox, a, b, id) <=>
              Before(inbox', a, b, id) \/ (In(inbox', b, id) /\ type = a /\ Head(inbox).id = id)
         /\ inbox # <<>>
<1>1. inbox \in Seq(Replies) /\ inbox # <<>> /\ inbox' = Tail(inbox) /\ Head(inbox).type = type
  BY DEF Receive, Types
<1> QED
  BY <1>1, InTail

LEMMA Arrived ==
  ASSUME Types, NEW m \in Replies, Arrives(m)
  PROVE  /\ \A t, id : In(inbox', t, id) <=> In(inbox, t, id) \/ (m.type = t /\ m.id = id)
         /\ \A a, b, id : Before(inbox', a, b, id) <=>
              Before(inbox, a, b, id) \/ (In(inbox, a, id) /\ m.type = b /\ m.id = id)
<1>1. inbox \in Seq(Replies) /\ inbox' = Append(inbox, m)
  BY DEF Arrives, Types
<1> QED
  BY <1>1, InAppend

-----------------------------------------------------------------------------
\* What a step has to show
LEMMA Shows ==
  ASSUME Types', AtType', Connection',
         ~mistaken' => RecFirst(session') /\ \A id \in BrokerId : Good(id)'
  PROVE  Invariant'
  BY DEF Invariant, RecFirst

LEMMA StartPreserves ==
  ASSUME Invariant, Start
  PROVE  Invariant'
<1>1. Types' /\ AtType'
  BY StartTyped DEF Invariant
<1>2. ~object /\ object' /\ ~open /\ inbox = <<>> /\ toBroker = <<>>
      /\ \A id \in BrokerId : exchange[id] = "none"
  BY DEF Invariant, Connection, Start
<1>3. UNCHANGED <<inbox, toBroker, exchange, delivered>>
  BY DEF Start, brokerVars
<1>4. Connection'
  BY <1>2, <1>3 DEF Connection
<1>5. CASE session' = <<>>
  <2>1. RecFirst(session')
    BY <1>5 DEF RecFirst
  <2>2. ASSUME NEW id \in BrokerId PROVE Good(id)'
    <3>1. inbox' = <<>> /\ toBroker' = <<>> /\ session' = <<>> /\ exchange'[id] = "none"
      BY <1>2, <1>3, <1>5
    <3> QED
      BY <3>1, NoneIn DEF Good, Repeated, WhenNone, WhenSent, WhenReleased, HasItem
  <2> QED
    BY <1>1, <1>4, <2>1, <2>2, Shows
<1>6. CASE UNCHANGED <<open, session, queue, resent, overflowed, mistaken>>
  <2>1. ASSUME ~mistaken', NEW id \in BrokerId PROVE Good(id)'
    <3>1. Good(id)
      BY <1>6, <2>1 DEF Invariant
    <3> QED
      BY <1>3, <1>6, <3>1, Quiet
  <2>2. ~mistaken' => RecFirst(session')
    BY <1>6 DEF Invariant
  <2> QED
    BY <1>1, <1>4, <2>1, <2>2, Shows
<1> QED
  BY <1>5, <1>6 DEF Start

\* Steps that leave the connection alone
LEMMA Elsewhere ==
  ASSUME Invariant, Types', AtType',
         UNCHANGED <<object, open, session, inbox, toBroker, exchange, delivered,
                     overflowed, mistaken>>
  PROVE  Invariant'
<1>1. Connection'
  BY DEF Invariant, Connection
<1>2. ASSUME ~mistaken', NEW id \in BrokerId PROVE Good(id)'
  BY <1>2, Quiet DEF Invariant
<1> QED
  BY <1>1, <1>2, Shows DEF Invariant

LEMMA CommandPreserves ==
  ASSUME Invariant, Stop \/ LinkDown \/ NothingReceived \/ Woken \/ TimesOut
                    \/ \E request \in {"subscribe", "unsubscribe", "publish"} : Ask(request)
  PROVE  Invariant'
<1>1. Types' /\ AtType'
  BY StopTyped, LinkDownTyped, NothingReceivedTyped, WokenTyped, AskTyped DEF Invariant
<1>2. UNCHANGED <<object, open, session, inbox, toBroker, exchange, delivered,
                  overflowed, mistaken>>
  BY DEF Stop, LinkDown, NothingReceived, Woken, TimesOut, Ask, Pop, commandVars, brokerVars,
         historyVars
<1> QED
  BY <1>1, <1>2, Elsewhere

\* Steps that end the connection
LEMMA DisconnectPreserves ==
  ASSUME Invariant, Types', AtType', Disconnect, inbox' = inbox \/ inbox' = <<>>,
         object => object' \/ inbox' = <<>>, UNCHANGED <<session, overflowed, mistaken>>
  PROVE  Invariant'
<1>1. Connection'
  BY EndedConnection DEF Invariant
<1>2. ASSUME ~mistaken', NEW id \in BrokerId PROVE Good(id)'
  BY <1>2, Ended DEF Invariant
<1> QED
  BY <1>1, <1>2, Shows DEF Invariant

LEMMA ClosingPreserves ==
  ASSUME Invariant, Clear("main") \/ Clear("worker") \/ BrokerGone \/ TickTimeout \/ BrokerCloses
  PROVE  Invariant'
<1>1. Types' /\ AtType'
  BY ClearTyped, BrokerGoneTyped, TickTyped, BrokerClosesTyped DEF Invariant
<1>2. /\ Disconnect /\ (inbox' = inbox \/ inbox' = <<>>)
      /\ object => object' \/ inbox' = <<>>
      /\ UNCHANGED <<session, overflowed, mistaken>>
  BY DEF Clear, BrokerGone, TickTimeout, BrokerCloses, BrokerStep, Close, Pop, commandVars,
         historyVars
<1> QED
  BY <1>1, <1>2, DisconnectPreserves

LEMMA SendDisconnectPreserves ==
  ASSUME Invariant, SendDisconnect
  PROVE  Invariant'
<1>1. Types' /\ AtType' /\ UNCHANGED <<session, overflowed, mistaken, object>>
  BY SendDisconnectTyped, PopTyped DEF Invariant, SendDisconnect, historyVars
<1>2. CASE Close
  <2>1. Disconnect /\ inbox' = <<>>
    BY <1>2 DEF Close
  <2> QED
    BY <1>1, <2>1, DisconnectPreserves
<1>3. CASE NotPut /\ UNCHANGED <<open, eventVars, inbox, brokerVars>>
  <2>1. UNCHANGED <<object, open, session, inbox, toBroker, exchange, delivered,
                    overflowed, mistaken>>
    BY <1>1, <1>3 DEF NotPut, brokerVars
  <2> QED
    BY <1>1, <2>1, Elsewhere
<1> QED
  BY <1>2, <1>3 DEF SendDisconnect

\* Steps that send other frames, and leave what is received
LEMMA SendingPreserves ==
  ASSUME Invariant, Types', AtType', NEW m \in Frames, Send(m),
         m.type # "pubrec", m.type # "pubcomp",
         UNCHANGED <<object, open, inbox, exchange, delivered>>,
         overflowed => overflowed', mistaken => mistaken',
         ~mistaken' => /\ RecFirst(session')
                       /\ \A k : In(session', "pubrec", k) <=> In(session, "pubrec", k)
  PROVE  Invariant'
<1>1. Connection'
  BY SentOther DEF Invariant, Connection
<1>2. ASSUME ~mistaken', NEW id \in BrokerId PROVE Good(id)'
  <2>1. Good(id) /\ Types /\ (In(session', "pubrec", id) <=> In(session, "pubrec", id))
    BY <1>2 DEF Invariant
  <2>2. \A type \in {"pubrec", "pubcomp"} : In(toBroker', type, id) => In(toBroker, type, id)
    BY <2>1, SentOther
  <2>3. /\ Before(toBroker', "pubrec", "pubcomp", id) => Before(toBroker, "pubrec", "pubcomp", id)
        /\ Before(toBroker', "pubcomp", "pubrec", id) => Before(toBroker, "pubcomp", "pubrec", id)
    BY <2>1, SentOther
  <2> QED
    BY <2>1, <2>2, <2>3, Quiet
<1> QED
  BY <1>1, <1>2, Shows

LEMMA SendConnectPreserves ==
  ASSUME Invariant, SendConnect \/ TickPing
  PROVE  Invariant'
<1>1. Types' /\ AtType'
  BY SendConnectTyped, TickTyped DEF Invariant
<1>2. UNCHANGED <<object, open, session, inbox, exchange, delivered, overflowed, mistaken>>
  BY DEF SendConnect, TickPing, Pop, commandVars, brokerVars, historyVars
<1>3. \E type \in {"connect", "pingreq"} : Send(Message(type, 0))
  BY DEF SendConnect, TickPing
<1>4. PICK type \in {"connect", "pingreq"} : Send(Message(type, 0))
  BY <1>3
<1>5. Message(type, 0) \in Frames
  BY ZeroIsId, Forms
<1>6. Message(type, 0).type # "pubrec" /\ Message(type, 0).type # "pubcomp"
  BY DEF Message
<1>7. ~mistaken' => /\ RecFirst(session')
                    /\ \A k : In(session', "pubrec", k) <=> In(session, "pubrec", k)
  BY <1>2 DEF Invariant
<1> QED
  BY <1>1, <1>2, <1>4, <1>5, <1>6, <1>7, SendingPreserves

LEMMA SendSubscribePreserves ==
  ASSUME Invariant, SendSubscribe
  PROVE  Invariant'
<1>1. Types' /\ AtType' /\ Types
  BY SendSubscribeTyped DEF Invariant
<1>2. PICK type \in {"subscribe", "unsubscribe"} :
        /\ Pop(type) /\ Send(Head(queue))
        /\ session' = AddItem(type, Head(queue).id)
  BY DEF SendSubscribe
<1>3. Head(queue) \in Events /\ Head(queue).id \in Ids /\ Head(queue).type = type
      /\ UNCHANGED object
  BY <1>1, <1>2, PopTyped
<1>4. Head(queue) \in Frames
  BY <1>3, RequestIsFrame
<1>5. UNCHANGED <<open, inbox, exchange, delivered, mistaken>> /\ (overflowed => overflowed')
  BY DEF SendSubscribe, brokerVars
<1>6. ~mistaken' => /\ RecFirst(session')
                    /\ \A k : In(session', "pubrec", k) <=> In(session, "pubrec", k)
  BY <1>1, <1>2, <1>3, <1>5, AddOther DEF Invariant
<1> QED
  BY <1>1, <1>2, <1>3, <1>4, <1>5, <1>6, SendingPreserves

LEMMA SendPublishPreserves ==
  ASSUME Invariant, SendPublish
  PROVE  Invariant'
<1> DEFINE id == Head(queue).id
           added == AddItem("publish", id)
<1>1. Types' /\ AtType' /\ Types
  BY SendPublishTyped DEF Invariant
<1>2. Head(queue) \in Events /\ id \in Ids /\ Head(queue).type = "publish"
      /\ UNCHANGED object
  BY <1>1, PopTyped DEF SendPublish
<1>3. Head(queue) \in Frames /\ Send(Head(queue))
  BY <1>2, RequestIsFrame DEF SendPublish, Send
<1>4. UNCHANGED <<open, inbox, exchange, delivered>> /\ (overflowed => overflowed')
      /\ Mistake("publish", id) /\ (mistaken => mistaken')
  BY DEF SendPublish, Mistake, brokerVars
<1>5. ASSUME ~mistaken'
      PROVE  /\ RecFirst(session')
             /\ \A k : In(session', "pubrec", k) <=> In(session, "pubrec", k)
  <2>1. RecFirst(session)
    BY <1>4, <1>5 DEF Invariant
  <2>2. /\ RecFirst(added) /\ added \in Seq(Kept)
        /\ \A k : In(added, "pubrec", k) <=> In(session, "pubrec", k)
    BY <1>1, <1>2, <2>1, AddOther, AddTyped, TypesForm
  <2>3. ~In(session, "pubrec", id)
    BY <1>1, <1>4, <1>5, <2>1, Unmistaken
  <2>4. session' = RemoveItem(added, id)
    BY DEF SendPublish
  <2> HIDE DEF added
  <2>5. /\ RecFirst(session') /\ ~In(session', "pubrec", id)
        /\ \A k : k # id => (In(session', "pubrec", k) <=> In(added, "pubrec", k))
    BY <2>2, <2>4, RemovedRec
  <2> QED
    BY <2>2, <2>3, <2>5
<1> QED
  BY <1>1, <1>2, <1>3, <1>4, <1>5, SendingPreserves

\* Steps that receive other frames
LEMMA ReceivingPreserves ==
  ASSUME Invariant, Types', AtType', NEW type, Receive(type),
         type # "publish", type # "pubrel",
         UNCHANGED <<toBroker, delivered, overflowed>>,
         mistaken => mistaken',
         ~mistaken' => /\ RecFirst(session')
                       /\ \A k : In(session', "pubrec", k) <=> In(session, "pubrec", k)
  PROVE  Invariant'
<1>1. Types /\ UNCHANGED <<object, open, exchange>>
  BY ReceiveTyped DEF Invariant
<1>2. /\ inbox # <<>>
      /\ \A t, id : In(inbox', t, id) => In(inbox, t, id)
      /\ \A a, b, id : Before(inbox', a, b, id) => Before(inbox, a, b, id)
  <2>1. /\ \A t, id : In(inbox, t, id) <=> In(inbox', t, id) \/ (type = t /\ Head(inbox).id = id)
        /\ \A a, b, id : Before(inbox, a, b, id) <=>
              Before(inbox', a, b, id) \/ (In(inbox', b, id) /\ type = a /\ Head(inbox).id = id)
        /\ inbox # <<>>
    BY <1>1, Received
  <2> QED
    BY <2>1
<1>3. Connection'
  BY <1>1, <1>2 DEF Invariant, Connection
<1>4. ASSUME ~mistaken', NEW id \in BrokerId PROVE Good(id)'
  <2>1. Good(id) /\ (In(session', "pubrec", id) <=> In(session, "pubrec", id))
    BY <1>4 DEF Invariant
  <2> QED
    BY <1>1, <1>2, <2>1, Quiet
<1> QED
  BY <1>3, <1>4, Shows

LEMMA ReceiveConnackPreserves ==
  ASSUME Invariant, ReceiveConnack
  PROVE  Invariant'
<1>1. Types' /\ AtType'
  BY ReceiveConnackTyped DEF Invariant
<1>2. Receive("connack") /\ UNCHANGED <<session, toBroker, delivered, overflowed, mistaken>>
  BY DEF ReceiveConnack, historyVars
<1>3. ~mistaken' => RecFirst(session')
  BY <1>2 DEF Invariant
<1> QED
  BY <1>1, <1>2, <1>3, ReceivingPreserves

LEMMA ReceiveSubackPreserves ==
  ASSUME Invariant, ReceiveSuback
  PROVE  Invariant'
<1> DEFINE id == Head(inbox).id
<1>1. Types' /\ AtType' /\ Types
  BY ReceiveSubackTyped DEF Invariant
<1>2. PICK request \in {"subscribe", "unsubscribe"} :
        /\ Receive(IF request = "subscribe" THEN "suback" ELSE "unsuback")
        /\ Mistake(request, id)
  BY DEF ReceiveSuback
<1>3. PICK type \in {"suback", "unsuback"} : Receive(type)
  BY <1>2
<1>4. UNCHANGED <<toBroker, delivered, overflowed>> /\ session' = RemoveItem(session, id)
  BY DEF ReceiveSuback
<1>5. mistaken => mistaken'
  BY <1>2 DEF Mistake
<1>6. ASSUME ~mistaken'
      PROVE  /\ RecFirst(session')
             /\ \A k : In(session', "pubrec", k) <=> In(session, "pubrec", k)
  <2>1. RecFirst(session) /\ session \in Seq(Kept)
    BY <1>5, <1>6 DEF Invariant, Types
  <2>2. ~In(session, "pubrec", id)
    BY <1>1, <1>2, <1>6, <2>1, Unmistaken
  <2>3. /\ RecFirst(session') /\ ~In(session', "pubrec", id)
        /\ \A k : k # id => (In(session', "pubrec", k) <=> In(session, "pubrec", k))
    BY <1>4, <2>1, RemovedRec
  <2> QED
    BY <2>2, <2>3
<1> QED
  BY <1>1, <1>3, <1>4, <1>5, <1>6, ReceivingPreserves

LEMMA ReceivePublishPreserves ==
  ASSUME Invariant, ReceivePublish
  PROVE  Invariant'
<1> DEFINE h == Head(inbox).id
<1>1. Types /\ Types' /\ AtType'
  BY ReceivePublishTyped DEF Invariant
<1>2. /\ Receive("publish") /\ Send(Message("pubrec", h)) /\ Mistake("pubrec", h)
      /\ mistaken => mistaken'
  BY DEF ReceivePublish, Mistake
<1>3. h \in Ids /\ UNCHANGED <<object, open, exchange>>
  BY <1>1, <1>2, ReceiveTyped
<1>4. /\ \A t, id : In(inbox, t, id) <=> In(inbox', t, id) \/ ("publish" = t /\ h = id)
      /\ \A a, b, id : Before(inbox, a, b, id) <=>
           Before(inbox', a, b, id) \/ (In(inbox', b, id) /\ "publish" = a /\ h = id)
      /\ inbox # <<>>
  BY <1>1, <1>2, Received
<1>5. /\ \A t, id : In(toBroker', t, id) => In(toBroker, t, id) \/ (open /\ "pubrec" = t /\ h = id)
      /\ \A a, b, id : Before(toBroker', a, b, id) =>
           Before(toBroker, a, b, id) \/ (In(toBroker, a, id) /\ "pubrec" = b /\ h = id)
      /\ ~open => UNCHANGED toBroker
  <2>1. Message("pubrec", h) \in Frames
    BY <1>3, Forms
  <2>2. Message("pubrec", h).type = "pubrec" /\ Message("pubrec", h).id = h
    BY DEF Message
  <2> QED
    BY <1>1, <1>2, <2>1, <2>2, SentFrame
<1> DEFINE more == IF delivered[h] < 2 THEN delivered[h] + 1 ELSE delivered[h]
<1>6. \/ /\ Items(h) = {}
         /\ session' = AddItem("pubrec", h)
         /\ overflowed' = (overflowed \/ Len(session) = SessionLen)
         /\ delivered' = [delivered EXCEPT ![h] = more]
      \/ /\ Items(h) # {}
         /\ UNCHANGED <<session, overflowed, delivered>>
  BY DEF ReceivePublish
<1>7. Connection'
  BY <1>3, <1>4, <1>5 DEF Invariant, Connection
<1>10. /\ overflowed => overflowed'
       /\ Items(h) = {} /\ ~overflowed' => Len(session) # SessionLen
  <2> DEFINE full == Len(session) = SessionLen
  <2>1. \/ Items(h) = {} /\ overflowed' = (overflowed \/ full)
        \/ Items(h) # {} /\ overflowed' = overflowed
    BY <1>6
  <2> HIDE DEF full
  <2>2. CASE Items(h) = {} /\ overflowed' = (overflowed \/ full)
    <3>1. (overflowed => overflowed') /\ (~overflowed' => ~full)
      BY <2>2, Zenon
    <3> QED
      BY <3>1 DEF full
  <2>3. CASE Items(h) # {} /\ overflowed' = overflowed
    BY <2>3
  <2> QED
    BY <2>1, <2>2, <2>3
<1>8. ASSUME ~mistaken', NEW id \in BrokerId, RecFirst(session), Good(id)
      PROVE  Good(id)'
  <2>1. delivered \in [BrokerId -> 0 .. 2]
    BY <1>1 DEF Types
  <2>2. CASE id # h
    <3>1. delivered'[id] = delivered[id]
      BY <1>6, <2>1, <2>2
    <3>2. In(session', "pubrec", id) <=> In(session, "pubrec", id)
      BY <1>1, <1>3, <1>6, <1>8, <2>2, AddRec
    <3>3. \A t : In(inbox', t, id) => In(inbox, t, id)
      BY <1>4
    <3>4. \A a, b : Before(inbox', a, b, id) => Before(inbox, a, b, id)
      BY <1>4
    <3>5. \A t : In(toBroker', t, id) => In(toBroker, t, id)
      BY <1>5, <2>2
    <3>6. \A a, b : Before(toBroker', a, b, id) => Before(toBroker, a, b, id)
      BY <1>5, <2>2
    <3>7. HasItem(id)' <=> HasItem(id)
      BY <3>2 DEF HasItem
    <3>8. Repeated(id)'
      BY <1>8, <1>10, <3>1, <3>3, <3>4, <3>7 DEF Good, Repeated
    <3>9. WhenNone(id)'
      BY <1>3, <1>8, <3>3, <3>5, <3>7 DEF Good, WhenNone
    <3>10. WhenSent(id)'
      BY <1>3, <1>8, <1>10, <3>1, <3>3, <3>4, <3>5, <3>6, <3>7 DEF Good, WhenSent
    <3>11. WhenReleased(id)'
      BY <1>3, <1>8, <3>1, <3>3, <3>4, <3>5, <3>6, <3>7 DEF Good, WhenReleased
    <3> QED
      BY <3>8, <3>9, <3>10, <3>11 DEF Good
  <2>3. CASE id = h
    <3>1. /\ In(inbox, "publish", id)
          /\ In(inbox', "pubrel", id) => Before(inbox, "publish", "pubrel", id)
          /\ Before(inbox', "pubrel", "publish", id) => Before(inbox, "pubrel", "publish", id)
          /\ Before(inbox', "pubrel", "publish", id) => In(inbox', "pubrel", id)
      BY <1>4, <2>3, BothIn
    <3>2. ~Before(inbox', "pubrel", "publish", id)
      BY <1>8, <3>1 DEF Good, Repeated
    <3>3. /\ delivered[id] \in 0 .. 2 /\ delivered'[id] \in 0 .. 2
          /\ delivered'[id] >= delivered[id]
          /\ delivered'[id] >= 1 \/ HasItem(id)
          /\ HasItem(id) => HasItem(id)'
          /\ overflowed => overflowed'
          /\ ~overflowed' => HasItem(id)'
      <4>1. CASE Items(h) = {}
        <5>1. session' = AddItem("pubrec", h) /\ delivered' = [delivered EXCEPT ![h] = more]
          BY <1>6, <4>1
        <5>2. delivered'[id] = more /\ delivered[id] \in 0 .. 2
          BY <2>1, <2>3, <5>1
        <5>3. ~HasItem(id)
          BY <2>3, <4>1, NoItem DEF HasItem
        <5>4. Len(session) # SessionLen => HasItem(id)'
          BY <1>1, <1>3, <1>8, <2>3, <4>1, <5>1, AddRec DEF HasItem
        <5>5. delivered'[id] \in 0 .. 2 /\ delivered'[id] >= delivered[id] /\ delivered'[id] >= 1
          BY <2>3, <5>2
        <5>6. (overflowed => overflowed') /\ (~overflowed' => HasItem(id)')
          BY <1>10, <4>1, <5>4
        <5> HIDE DEF more
        <5> QED
          BY <5>2, <5>3, <5>5, <5>6
      <4>2. CASE Items(h) # {}
        <5>1. HasItem(id)
          BY <1>1, <1>2, <1>8, <2>3, <4>2, Unmistaken DEF HasItem
        <5>2. UNCHANGED <<session, overflowed, delivered>>
          BY <1>6, <4>2
        <5> QED
          BY <2>1, <5>1, <5>2 DEF HasItem
      <4> QED
        BY <4>1, <4>2
    <3>4. Repeated(id)'
      BY <3>2, <3>3 DEF Repeated
    <3>5. WhenNone(id)'
      BY <1>3, <1>5, <1>8, <3>1 DEF Good, WhenNone
    <3>6. WhenSent(id)'
      <4> SUFFICES ASSUME exchange[id] = "sent" PROVE WhenSent(id)'
        BY <1>3 DEF WhenSent
      <4>1. ~In(inbox', "pubrel", id)
        BY <1>4, <1>8, <2>3, <3>1 DEF Good, WhenSent
      <4>2. ~Before(toBroker', "pubrec", "pubcomp", id)
        BY <1>5, <1>8 DEF Good, WhenSent
      <4>3. delivered'[id] >= 1
        BY <1>8, <3>3 DEF Good, WhenSent
      <4> QED
        BY <3>3, <4>1, <4>2, <4>3 DEF WhenSent
    <3>7. WhenReleased(id)'
      <4> SUFFICES ASSUME exchange[id] = "released" PROVE WhenReleased(id)'
        BY <1>3 DEF WhenReleased
      <4>1. ~In(toBroker, "pubcomp", id) /\ delivered[id] >= 1
        BY <1>8, <3>1 DEF Good, WhenReleased
      <4>2. ~In(toBroker', "pubcomp", id) /\ ~Before(toBroker', "pubcomp", "pubrec", id)
        BY <1>5, <4>1, BothIn
      <4> QED
        BY <3>2, <3>3, <4>1, <4>2 DEF WhenReleased
    <3> QED
      BY <3>4, <3>5, <3>6, <3>7 DEF Good
  <2> QED
    BY <2>2, <2>3
<1>9. ASSUME ~mistaken' PROVE RecFirst(session')
  <2>1. RecFirst(session)
    BY <1>2, <1>9 DEF Invariant
  <2> QED
    BY <1>1, <1>3, <1>6, <2>1, AddRec
<1> QED
  BY <1>1, <1>2, <1>7, <1>8, <1>9, Shows DEF Invariant

LEMMA ReceivePubrelPreserves ==
  ASSUME Invariant, ReceivePubrel
  PROVE  Invariant'
<1> DEFINE h == Head(inbox).id
<1>1. Types /\ Types' /\ AtType'
  BY ReceivePubrelTyped DEF Invariant
<1>2. /\ Receive("pubrel") /\ Send(Message("pubcomp", h)) /\ Mistake("pubrec", h)
      /\ mistaken => mistaken'
      /\ session' = RemoveItem(session, h) /\ UNCHANGED <<delivered, overflowed>>
  BY DEF ReceivePubrel, Mistake
<1>3. h \in Ids /\ UNCHANGED <<object, open, exchange>>
  BY <1>1, <1>2, ReceiveTyped
<1>4. /\ \A t, id : In(inbox, t, id) <=> In(inbox', t, id) \/ ("pubrel" = t /\ h = id)
      /\ \A a, b, id : Before(inbox, a, b, id) <=>
           Before(inbox', a, b, id) \/ (In(inbox', b, id) /\ "pubrel" = a /\ h = id)
      /\ inbox # <<>>
  BY <1>1, <1>2, Received
<1>5. /\ \A t, id : In(toBroker', t, id) => In(toBroker, t, id) \/ (open /\ "pubcomp" = t /\ h = id)
      /\ \A a, b, id : Before(toBroker', a, b, id) =>
           Before(toBroker, a, b, id) \/ (In(toBroker, a, id) /\ "pubcomp" = b /\ h = id)
      /\ ~open => UNCHANGED toBroker
  <2>1. Message("pubcomp", h) \in Frames
    BY <1>3, Forms
  <2>2. Message("pubcomp", h).type = "pubcomp" /\ Message("pubcomp", h).id = h
    BY DEF Message
  <2> QED
    BY <1>1, <1>2, <2>1, <2>2, SentFrame
<1>6. Connection'
  BY <1>3, <1>4, <1>5 DEF Invariant, Connection
<1>7. ASSUME ~mistaken'
      PROVE  /\ RecFirst(session') /\ ~In(session', "pubrec", h)
             /\ \A k : k # h => (In(session', "pubrec", k) <=> In(session, "pubrec", k))
  <2>1. RecFirst(session) /\ session \in Seq(Kept)
    BY <1>1, <1>2, <1>7 DEF Invariant, Types
  <2> QED
    BY <1>2, <2>1, RemovedRec
<1>8. ASSUME ~mistaken', NEW id \in BrokerId, Good(id)
      PROVE  Good(id)'
  <2>1. CASE id # h
    <3>1. In(session', "pubrec", id) <=> In(session, "pubrec", id)
      BY <1>7, <1>8, <2>1
    <3>2. /\ \A t : In(inbox', t, id) => In(inbox, t, id)
          /\ \A a, b : Before(inbox', a, b, id) => Before(inbox, a, b, id)
      BY <1>4
    <3>3. /\ \A t : In(toBroker', t, id) => In(toBroker, t, id)
          /\ \A a, b : Before(toBroker', a, b, id) => Before(toBroker, a, b, id)
      BY <1>5, <2>1
    <3> QED
      BY <1>2, <1>3, <1>8, <3>1, <3>2, <3>3, Quiet
  <2>2. CASE id = h
    <3>1. ~HasItem(id)'
      BY <1>7, <1>8, <2>2 DEF HasItem
    <3>2. /\ In(inbox, "pubrel", id)
          /\ In(inbox', "publish", id) => Before(inbox, "pubrel", "publish", id)
          /\ Before(inbox', "pubrel", "publish", id) => Before(inbox, "pubrel", "publish", id)
          /\ Before(inbox', "publish", "pubrel", id) => Before(inbox, "publish", "pubrel", id)
          /\ \A t : In(inbox', t, id) => In(inbox, t, id)
      BY <1>4, <2>2
    <3>3. Repeated(id)'
      BY <1>1, <1>2, <1>8, <3>1, <3>2 DEF Good, Repeated, Types
    <3>4. WhenNone(id)'
      BY <1>3, <1>5, <1>8, <3>1, <3>2 DEF Good, WhenNone
    <3>5. WhenSent(id)'
      <4> SUFFICES ASSUME exchange[id] = "sent" PROVE WhenSent(id)'
        BY <1>3 DEF WhenSent
      <4>1. /\ delivered[id] = 0 /\ ~HasItem(id) /\ ~Before(inbox, "publish", "pubrel", id)
            /\ ~In(toBroker, "pubrec", id)
        BY <1>8, <3>2 DEF Good, WhenSent
      <4>2. ~In(toBroker', "pubrec", id) /\ ~Before(toBroker', "pubrec", "pubcomp", id)
        BY <1>5, <4>1, BothIn
      <4> QED
        BY <1>2, <3>1, <3>2, <4>1, <4>2 DEF WhenSent
    <3>6. WhenReleased(id)'
      <4> SUFFICES ASSUME exchange[id] = "released" PROVE WhenReleased(id)'
        BY <1>3 DEF WhenReleased
      <4>1. ~In(inbox', "publish", id) /\ ~Before(inbox', "pubrel", "publish", id)
            /\ delivered[id] >= 1
        BY <1>8, <3>2 DEF Good, WhenReleased
      <4>2. ~Before(toBroker', "pubcomp", "pubrec", id)
        BY <1>5, <1>8 DEF Good, WhenReleased
      <4> QED
        BY <1>2, <3>1, <4>1, <4>2 DEF WhenReleased
    <3> QED
      BY <3>3, <3>4, <3>5, <3>6 DEF Good
  <2> QED
    BY <2>1, <2>2
<1> QED
  BY <1>1, <1>2, <1>6, <1>7, <1>8, Shows DEF Invariant

LEMMA ReceivePingrespPreserves ==
  ASSUME Invariant, ReceivePingresp
  PROVE  Invariant'
<1>1. Types /\ Types' /\ AtType'
  BY ReceivePingrespTyped DEF Invariant
<1>2. /\ Receive("pingresp") /\ UNCHANGED <<session, delivered, overflowed, mistaken>>
  BY DEF ReceivePingresp
<1>3. UNCHANGED <<object, open, exchange>>
  BY <1>1, <1>2, ReceiveTyped
<1>4. /\ \A t, id : In(inbox', t, id) => In(inbox, t, id)
      /\ \A a, b, id : Before(inbox', a, b, id) => Before(inbox, a, b, id)
      /\ inbox # <<>>
  <2>1. /\ \A t, id : In(inbox, t, id) <=> In(inbox', t, id) \/ ("pingresp" = t /\ Head(inbox).id = id)
        /\ \A a, b, id : Before(inbox, a, b, id) <=>
              Before(inbox', a, b, id) \/ (In(inbox', b, id) /\ "pingresp" = a /\ Head(inbox).id = id)
        /\ inbox # <<>>
    BY <1>1, <1>2, Received
  <2> QED
    BY <2>1
<1>5. session \in Seq(Kept) /\ session \in Seq(Frames) /\ toBroker \in Seq(Frames)
  BY <1>1, KeptAreFrames DEF Types
<1>6. \A t, id : In(session, t, id) => t # "pubcomp"
  <2>1. \A item \in Kept : item.type # "pubcomp"
    BY DEF Kept
  <2>2. DOMAIN session = 1 .. Len(session) /\ \A i \in 1 .. Len(session) : session[i] \in Kept
    BY <1>5
  <2> QED
    BY <2>1, <2>2 DEF In
<1>7. \/ UNCHANGED toBroker
      \/ /\ open
         /\ \E part \in Seq(Frames) :
              /\ toBroker' = toBroker \o part
              /\ \A t, id : In(part, t, id) => In(session, t, id)
  <2>1. CASE Put(session)
    BY <1>5, <2>1 DEF Put
  <2>2. CASE NotPut \/ UNCHANGED toBroker
    BY <2>2 DEF NotPut
  <2>3. ASSUME NEW n \in 1 .. Len(session) - 1, open,
               toBroker' = toBroker \o SubSeq(session, 1, n)
        PROVE  \E part \in Seq(Frames) :
                 /\ toBroker' = toBroker \o part
                 /\ \A t, id : In(part, t, id) => In(session, t, id)
    <3>1. n \in 1 .. Len(session)
      BY <1>5
    <3>2. /\ SubSeq(session, 1, n) \in Seq(Frames)
          /\ \A t, id : In(SubSeq(session, 1, n), t, id) => In(session, t, id)
      BY <1>5, <3>1, InPart
    <3> QED
      BY <2>3, <3>2
  <2>4. \/ Put(session) \/ NotPut \/ UNCHANGED toBroker
        \/ \E n \in 1 .. Len(session) - 1 :
             open /\ toBroker' = toBroker \o SubSeq(session, 1, n)
    BY DEF ReceivePingresp
  <2> QED
    BY <2>1, <2>2, <2>3, <2>4
<1>8. /\ ~open => UNCHANGED toBroker
      /\ \A t, id : In(toBroker', t, id) => In(toBroker, t, id) \/ (open /\ In(session, t, id))
      /\ \A a, id : Before(toBroker', a, "pubcomp", id) => Before(toBroker, a, "pubcomp", id)
      /\ \A id : Before(toBroker', "pubcomp", "pubrec", id) =>
           \/ Before(toBroker, "pubcomp", "pubrec", id)
           \/ In(toBroker, "pubcomp", id) /\ In(session, "pubrec", id)
  <2>1. CASE UNCHANGED toBroker
    BY <2>1
  <2>2. ASSUME open, NEW part \in Seq(Frames), toBroker' = toBroker \o part,
               \A t, id : In(part, t, id) => In(session, t, id)
        PROVE  /\ \A t, id : In(toBroker', t, id) =>
                    In(toBroker, t, id) \/ (open /\ In(session, t, id))
               /\ \A a, id : Before(toBroker', a, "pubcomp", id) =>
                    Before(toBroker, a, "pubcomp", id)
               /\ \A id : Before(toBroker', "pubcomp", "pubrec", id) =>
                    \/ Before(toBroker, "pubcomp", "pubrec", id)
                    \/ In(toBroker, "pubcomp", id) /\ In(session, "pubrec", id)
    <3>1. /\ \A t, id : In(toBroker', t, id) => In(toBroker, t, id) \/ In(part, t, id)
          /\ \A a, b, id : Before(toBroker', a, b, id) =>
              \/ Before(toBroker, a, b, id)
              \/ In(toBroker, a, id) /\ In(part, b, id)
              \/ In(part, a, id) /\ In(part, b, id)
      BY <1>5, <2>2, InConcat
    <3>2. \A id : ~In(part, "pubcomp", id)
      BY <1>6, <2>2
    <3> QED
      BY <2>2, <3>1, <3>2
  <2> QED
    BY <1>7, <2>1, <2>2
<1>9. Connection'
  BY <1>3, <1>4, <1>8 DEF Invariant, Connection
<1>10. ASSUME ~mistaken', NEW id \in BrokerId PROVE Good(id)'
  <2>1. Good(id) /\ UNCHANGED mistaken
    BY <1>2, <1>10 DEF Invariant
  <2>2. HasItem(id)' <=> HasItem(id)
    BY <1>2 DEF HasItem
  <2>3. In(session, "pubrec", id) <=> HasItem(id)
    BY DEF HasItem
  <2>4. Repeated(id)'
    BY <1>2, <1>4, <2>1, <2>2 DEF Good, Repeated
  <2>5. WhenNone(id)'
    BY <1>3, <1>4, <1>8, <2>1, <2>2, <2>3 DEF Good, WhenNone
  <2>6. WhenSent(id)'
    BY <1>2, <1>3, <1>4, <1>8, <2>1, <2>2, <2>3 DEF Good, WhenSent
  <2>7. WhenReleased(id)'
    <3>1. In(toBroker', "pubcomp", id) => In(toBroker, "pubcomp", id)
      BY <1>6, <1>8
    <3> QED
      BY <1>2, <1>3, <1>4, <1>8, <2>1, <2>2, <2>3, <3>1 DEF Good, WhenReleased
  <2> QED
    BY <2>4, <2>5, <2>6, <2>7 DEF Good
<1> QED
  BY <1>1, <1>2, <1>9, <1>10, Shows DEF Invariant

-----------------------------------------------------------------------------
\* The broker takes a frame.
LEMMA Taken ==
  ASSUME Types, BrokerTakes
  PROVE  /\ \A t, id : In(toBroker, t, id) <=>
              In(toBroker', t, id) \/ (Head(toBroker).type = t /\ Head(toBroker).id = id)
         /\ \A a, b, id : Before(toBroker, a, b, id) <=>
              \/ Before(toBroker', a, b, id)
              \/ In(toBroker', b, id) /\ Head(toBroker).type = a /\ Head(toBroker).id = id
         /\ Head(toBroker) \in Frames /\ Head(toBroker).id \in Ids
<1>1. toBroker \in Seq(Frames) /\ toBroker # <<>> /\ toBroker' = Tail(toBroker)
  BY DEF BrokerTakes, Types
<1> QED
  BY <1>1, InTail, FirstTyped, Forms

LEMMA BrokerOpen ==
  ASSUME Invariant,
         \/ BrokerTakes
         \/ \E id \in BrokerId : BrokerPublishes(id) \/ BrokerRepeats(id)
  PROVE  /\ Connection' /\ open
         /\ UNCHANGED <<open, object, session, overflowed, mistaken>>
  BY DEF Invariant, Connection, BrokerTakes, BrokerStep, BrokerPublishes, BrokerRepeats,
         commandVars, historyVars

LEMMA BrokerPublishesPreserves ==
  ASSUME Invariant, NEW h \in BrokerId, BrokerPublishes(h)
  PROVE  Invariant'
<1>1. Types /\ Types' /\ AtType'
  BY BrokerPublishesTyped DEF Invariant
<1>2. Connection' /\ open /\ UNCHANGED <<open, object, session, overflowed, mistaken>>
  BY BrokerOpen
<1>3. /\ exchange[h] = "none" /\ exchange' = [exchange EXCEPT ![h] = "sent"]
      /\ delivered' = [delivered EXCEPT ![h] = 0] /\ UNCHANGED toBroker
      /\ Arrives(Message("publish", h))
  BY DEF BrokerPublishes
<1>4. /\ \A t, id : In(inbox', t, id) <=> In(inbox, t, id) \/ ("publish" = t /\ h = id)
      /\ \A a, b, id : Before(inbox', a, b, id) <=>
           Before(inbox, a, b, id) \/ (In(inbox, a, id) /\ "publish" = b /\ h = id)
  <2>1. Message("publish", h) \in Replies
    BY ZeroIsId, Forms
  <2>2. Message("publish", h).type = "publish" /\ Message("publish", h).id = h
    BY DEF Message
  <2> QED
    BY <1>1, <1>3, <2>1, <2>2, Arrived
<1>5. ASSUME ~mistaken', NEW id \in BrokerId PROVE Good(id)'
  <2>1. Good(id) /\ (HasItem(id)' <=> HasItem(id))
    BY <1>2, <1>5 DEF Invariant, HasItem
  <2>2. exchange \in [BrokerId -> {"none", "sent", "released"}]
        /\ delivered \in [BrokerId -> 0 .. 2]
    BY <1>1 DEF Types
  <2>3. CASE id # h
    <3>1. exchange'[id] = exchange[id] /\ delivered'[id] = delivered[id]
      BY <1>3, <2>2, <2>3
    <3>2. /\ \A t : In(inbox', t, id) => In(inbox, t, id)
          /\ \A a, b : Before(inbox', a, b, id) => Before(inbox, a, b, id)
      BY <1>4, <2>3
    <3>3. Repeated(id)'
      BY <1>2, <2>1, <3>1, <3>2 DEF Good, Repeated
    <3>4. WhenNone(id)'
      BY <1>2, <1>3, <2>1, <3>1, <3>2 DEF Good, WhenNone
    <3>5. WhenSent(id)'
      BY <1>2, <1>3, <2>1, <3>1, <3>2 DEF Good, WhenSent
    <3>6. WhenReleased(id)'
      BY <1>2, <1>3, <2>1, <3>1, <3>2 DEF Good, WhenReleased
    <3> QED
      BY <3>3, <3>4, <3>5, <3>6 DEF Good
  <2>4. CASE id = h
    <3>1. exchange'[id] = "sent" /\ delivered'[id] = 0
      BY <1>3, <2>2, <2>4
    <3>2. ~In(toBroker, "pubrec", id) /\ ~In(inbox, "publish", id) /\ ~HasItem(id)
      BY <1>2, <1>3, <2>1, <2>4 DEF Good, WhenNone
    <3>3. ~Before(inbox', "publish", "pubrel", id)
      BY <1>4, <3>2, BothIn
    <3>4. ~Before(toBroker, "pubrec", "pubcomp", id)
      BY <3>2, BothIn
    <3>5. Repeated(id)'
      BY <3>1, <3>3 DEF Repeated
    <3>6. WhenSent(id)'
      BY <1>3, <2>1, <3>1, <3>2, <3>3, <3>4 DEF WhenSent
    <3> QED
      BY <3>1, <3>5, <3>6 DEF Good, WhenNone, WhenReleased
  <2> QED
    BY <2>3, <2>4
<1> QED
  BY <1>1, <1>2, <1>5, Shows DEF Invariant

LEMMA BrokerRepeatsPreserves ==
  ASSUME Invariant, NEW h \in BrokerId, BrokerRepeats(h)
  PROVE  Invariant'
<1> DEFINE type == IF exchange[h] = "sent" THEN "publish" ELSE "pubrel"
<1>1. Types /\ Types' /\ AtType'
  BY BrokerRepeatsTyped DEF Invariant
<1>2. Connection' /\ open /\ UNCHANGED <<open, object, session, overflowed, mistaken>>
  BY BrokerOpen
<1>3. /\ exchange[h] # "none" /\ UNCHANGED <<exchange, delivered, toBroker>>
      /\ Arrives(Message(type, h))
  BY DEF BrokerRepeats
<1>4. /\ \A t, id : In(inbox', t, id) <=> In(inbox, t, id) \/ (type = t /\ h = id)
      /\ \A a, b, id : Before(inbox', a, b, id) <=>
           Before(inbox, a, b, id) \/ (In(inbox, a, id) /\ type = b /\ h = id)
  <2>1. Message(type, h) \in Replies
    BY ZeroIsId, Forms
  <2>2. Message(type, h).type = type /\ Message(type, h).id = h
    BY DEF Message
  <2> QED
    BY <1>1, <1>3, <2>1, <2>2, Arrived
<1>5. ASSUME ~mistaken', NEW id \in BrokerId PROVE Good(id)'
  <2>1. Good(id) /\ (HasItem(id)' <=> HasItem(id))
    BY <1>2, <1>5 DEF Invariant, HasItem
  <2>2. CASE id # h
    <3>1. /\ \A t : In(inbox', t, id) => In(inbox, t, id)
          /\ \A a, b : Before(inbox', a, b, id) => Before(inbox, a, b, id)
      BY <1>4, <2>2
    <3> QED
      BY <1>2, <1>3, <2>1, <3>1, Quiet DEF HasItem
  <2>3. CASE id = h /\ exchange[h] = "sent"
    <3>1. /\ \A t : In(inbox', t, id) <=> In(inbox, t, id) \/ "publish" = t
          /\ \A a, b : Before(inbox', a, b, id) <=>
               Before(inbox, a, b, id) \/ (In(inbox, a, id) /\ "publish" = b)
      BY <1>4, <2>3
    <3>2. Repeated(id)'
      BY <1>2, <1>3, <2>1, <2>3, <3>1 DEF Good, Repeated, WhenSent
    <3>3. WhenSent(id)'
      BY <1>2, <1>3, <2>1, <2>3, <3>1 DEF Good, WhenSent
    <3> QED
      BY <1>3, <2>3, <3>2, <3>3 DEF Good, WhenNone, WhenReleased
  <2>4. CASE id = h /\ exchange[h] = "released"
    <3>1. /\ \A t : In(inbox', t, id) <=> In(inbox, t, id) \/ "pubrel" = t
          /\ \A a, b : Before(inbox', a, b, id) <=>
               Before(inbox, a, b, id) \/ (In(inbox, a, id) /\ "pubrel" = b)
      BY <1>4, <2>4
    <3>2. Repeated(id)'
      BY <1>2, <1>3, <2>1, <2>4, <3>1 DEF Good, Repeated, WhenReleased
    <3>3. WhenReleased(id)'
      BY <1>2, <1>3, <2>1, <2>4, <3>1 DEF Good, WhenReleased
    <3> QED
      BY <1>3, <2>4, <3>2, <3>3 DEF Good, WhenNone, WhenSent
  <2> QED
    BY <1>1, <1>3, <2>2, <2>3, <2>4 DEF Types
<1> QED
  BY <1>1, <1>2, <1>5, Shows DEF Invariant

LEMMA BrokerTakesPreserves ==
  ASSUME Invariant, BrokerTakes
  PROVE  Invariant'
<1> DEFINE frame == Head(toBroker)
           h == frame.id
<1>1. Types /\ Types' /\ AtType'
  BY BrokerTakesTyped DEF Invariant
<1>2. Connection' /\ open /\ UNCHANGED <<open, object, session, overflowed, mistaken>>
      /\ UNCHANGED delivered
  BY BrokerOpen DEF BrokerTakes
<1>3. /\ \A t, id : In(toBroker, t, id) <=> In(toBroker', t, id) \/ (frame.type = t /\ h = id)
      /\ \A a, b, id : Before(toBroker, a, b, id) <=>
           Before(toBroker', a, b, id) \/ (In(toBroker', b, id) /\ frame.type = a /\ h = id)
      /\ frame \in Frames /\ h \in Ids
  BY <1>1, Taken
<1>4. BrokerReplies(frame) \/ BrokerReleases(frame) \/ BrokerCompletes(frame)
      \/ BrokerIgnores(frame)
  BY DEF BrokerTakes
<1> HIDE DEF frame, h
<1>5. ASSUME ~mistaken', NEW id \in BrokerId
      PROVE  Good(id) /\ (HasItem(id)' <=> HasItem(id))
  BY <1>2, <1>5 DEF Invariant, HasItem
<1>6. ASSUME ~mistaken', NEW id \in BrokerId,
             exchange'[id] = exchange[id],
             \A t \in {"publish", "pubrel"} : In(inbox', t, id) => In(inbox, t, id),
             Before(inbox', "pubrel", "publish", id) => Before(inbox, "pubrel", "publish", id),
             Before(inbox', "publish", "pubrel", id) => Before(inbox, "publish", "pubrel", id)
      PROVE  Good(id)'
  <2>1. Good(id) /\ (HasItem(id)' <=> HasItem(id))
    BY <1>5, <1>6
  <2>2. Repeated(id)'
    BY <1>2, <1>6, <2>1 DEF Good, Repeated
  <2>3. WhenNone(id)'
    BY <1>2, <1>3, <1>6, <2>1 DEF Good, WhenNone
  <2>4. WhenSent(id)'
    BY <1>2, <1>3, <1>6, <2>1 DEF Good, WhenSent
  <2>5. WhenReleased(id)'
    BY <1>2, <1>3, <1>6, <2>1 DEF Good, WhenReleased
  <2> QED
    BY <2>2, <2>3, <2>4, <2>5 DEF Good
<1>7. exchange \in [BrokerId -> {"none", "sent", "released"}]
  BY <1>1 DEF Types
<1>8. ASSUME ~mistaken', NEW id \in BrokerId, BrokerReplies(frame) PROVE Good(id)'
  <2> DEFINE type == Reply[frame.type]
  <2>1. type \in {"connack", "suback", "unsuback", "pingresp"}
    BY <1>8 DEF BrokerReplies, Reply
  <2>2. Message(type, h) \in Replies /\ Message(type, h).type = type
    BY <1>3, <2>1, Forms DEF Message
  <2>3. Arrives(Message(type, h)) /\ UNCHANGED exchange
    BY <1>8 DEF BrokerReplies, h
  <2> HIDE DEF type
  <2>4. /\ \A t, k : In(inbox', t, k) <=> In(inbox, t, k) \/ (type = t /\ Message(type, h).id = k)
        /\ \A a, b, k : Before(inbox', a, b, k) <=>
             Before(inbox, a, b, k) \/ (In(inbox, a, k) /\ type = b /\ Message(type, h).id = k)
    BY <1>1, <2>2, <2>3, Arrived
  <2> QED
    BY <1>6, <1>8, <2>1, <2>3, <2>4
<1>9. ASSUME ~mistaken', NEW id \in BrokerId, BrokerReleases(frame) PROVE Good(id)'
  <2>1. Message("pubrel", h) \in Replies /\ Message("pubrel", h).type = "pubrel"
        /\ Message("pubrel", h).id = h
    BY <1>3, Forms DEF Message
  <2>2. /\ frame.type = "pubrec" /\ exchange[h] # "none"
        /\ Arrives(Message("pubrel", h))
        /\ exchange' = [exchange EXCEPT ![h] = "released"]
    BY <1>9 DEF BrokerReleases, h
  <2>3. /\ \A t, k : In(inbox', t, k) <=> In(inbox, t, k) \/ ("pubrel" = t /\ h = k)
        /\ \A a, b, k : Before(inbox', a, b, k) <=>
             Before(inbox, a, b, k) \/ (In(inbox, a, k) /\ "pubrel" = b /\ h = k)
    BY <1>1, <2>1, <2>2, Arrived
  <2>4. CASE id # h
    BY <1>6, <1>7, <1>9, <2>2, <2>3, <2>4
  <2>5. CASE id = h
    <3>1. exchange'[id] = "released" /\ exchange[id] \in {"sent", "released"}
      BY <1>7, <2>2, <2>5
    <3>2. In(toBroker, "pubrec", id)
          /\ (In(toBroker', "pubcomp", id) => Before(toBroker, "pubrec", "pubcomp", id))
          /\ (Before(toBroker', "pubcomp", "pubrec", id) => Before(toBroker, "pubcomp", "pubrec", id))
      BY <1>3, <2>2, <2>5
    <3>3. Before(inbox', "pubrel", "publish", id) => Before(inbox, "pubrel", "publish", id)
      BY <2>3
    <3>4. Good(id) /\ (HasItem(id)' <=> HasItem(id))
      BY <1>5, <1>9
    <3>5. ~Before(inbox, "pubrel", "publish", id)
      BY <3>1, <3>2, <3>4, BothIn DEF Good, WhenSent, WhenReleased
    <3>6. delivered[id] >= 1
      BY <3>1, <3>2, <3>4 DEF Good, WhenSent, WhenReleased
    <3>7. Repeated(id)'
      <4>1. In(inbox', "publish", id) => In(inbox, "publish", id)
        BY <2>3
      <4> QED
        BY <1>2, <3>3, <3>4, <3>5, <4>1 DEF Good, Repeated
    <3>8. WhenReleased(id)'
      <4>1. In(toBroker', "pubcomp", id) => ~In(inbox', "publish", id) /\ ~HasItem(id)
        <5> SUFFICES ASSUME In(toBroker', "pubcomp", id)
                     PROVE  ~In(inbox', "publish", id) /\ ~HasItem(id)
          OBVIOUS
        <5>1. exchange[id] = "released"
          BY <3>1, <3>2, <3>4 DEF Good, WhenSent
        <5>2. In(toBroker, "pubcomp", id)
          BY <1>3
        <5> QED
          BY <2>3, <3>4, <5>1, <5>2 DEF Good, WhenReleased
      <4>2. ~Before(toBroker', "pubcomp", "pubrec", id)
        <5> SUFFICES ASSUME Before(toBroker', "pubcomp", "pubrec", id)
                     PROVE  FALSE
          OBVIOUS
        <5>1. exchange[id] = "released"
          BY <3>1, <3>2, <3>4, BothIn DEF Good, WhenSent
        <5> QED
          BY <3>2, <3>4, <5>1 DEF Good, WhenReleased
      <4> QED
        BY <1>2, <3>3, <3>4, <3>5, <3>6, <4>1, <4>2 DEF WhenReleased
    <3> QED
      BY <3>1, <3>7, <3>8 DEF Good, WhenNone, WhenSent
  <2> QED
    BY <2>4, <2>5
<1>10. ASSUME ~mistaken', NEW id \in BrokerId, BrokerCompletes(frame) PROVE Good(id)'
  <2>1. /\ frame.type = "pubcomp" /\ exchange[h] = "released" /\ UNCHANGED inbox
        /\ exchange' = [exchange EXCEPT ![h] = "none"]
    BY <1>10 DEF BrokerCompletes, h
  <2>2. CASE id # h
    BY <1>6, <1>7, <1>10, <2>1, <2>2
  <2>3. CASE id = h
    <3>1. exchange'[id] = "none" /\ exchange[id] = "released" /\ In(toBroker, "pubcomp", id)
      BY <1>3, <1>7, <2>1, <2>3
    <3>2. Good(id) /\ (HasItem(id)' <=> HasItem(id))
      BY <1>5, <1>10
    <3>3. ~In(inbox, "publish", id) /\ ~HasItem(id) /\ ~Before(toBroker, "pubcomp", "pubrec", id)
      BY <3>1, <3>2 DEF Good, WhenReleased
    <3>4. ~In(toBroker', "pubrec", id)
      BY <1>3, <2>1, <2>3, <3>3
    <3>5. Repeated(id)'
      BY <1>2, <2>1, <3>2 DEF Good, Repeated
    <3>6. WhenNone(id)'
      BY <2>1, <3>2, <3>3, <3>4 DEF WhenNone
    <3> QED
      BY <3>1, <3>5, <3>6 DEF Good, WhenSent, WhenReleased
  <2> QED
    BY <2>2, <2>3
<1>11. ASSUME ~mistaken', NEW id \in BrokerId, BrokerIgnores(frame) PROVE Good(id)'
  BY <1>6, <1>11 DEF BrokerIgnores
<1>12. ~mistaken' => RecFirst(session')
  BY <1>2 DEF Invariant
<1> QED
  BY <1>1, <1>2, <1>4, <1>8, <1>9, <1>10, <1>11, <1>12, Shows

LEMMA InitInvariant == Init => Invariant
<1> SUFFICES ASSUME Init PROVE Invariant
  OBVIOUS
<1>1. Types /\ AtType
  BY InitTyped, TypesForm
<1>2. Connection
  BY DEF Init, Connection
<1>3. RecFirst(session)
  BY DEF Init, RecFirst
<1>4. ASSUME NEW id \in BrokerId PROVE Good(id)
  <2>1. inbox = <<>> /\ toBroker = <<>> /\ session = <<>> /\ exchange[id] = "none"
    BY DEF Init
  <2> QED
    BY <2>1, NoneIn DEF Good, Repeated, WhenNone, WhenSent, WhenReleased, HasItem
<1> QED
  BY <1>1, <1>2, <1>3, <1>4 DEF Invariant

LEMMA StepInvariant == Invariant /\ [Next]_vars => Invariant'
<1> SUFFICES ASSUME Invariant, [Next]_vars PROVE Invariant'
  OBVIOUS
<1>1. CASE Command
  BY <1>1, StartPreserves, CommandPreserves DEF Command
<1>2. CASE MainRuns
  BY <1>2, CommandPreserves, ClosingPreserves DEF MainRuns
<1>3. CASE MqttMain
  BY <1>3, SendConnectPreserves, SendSubscribePreserves, SendPublishPreserves,
     SendDisconnectPreserves, ClosingPreserves, CommandPreserves, ReceiveConnackPreserves,
     ReceiveSubackPreserves, ReceivePublishPreserves, ReceivePubrelPreserves,
     ReceivePingrespPreserves DEF MqttMain
<1>4. CASE Worker
  BY <1>4, CommandPreserves, ClosingPreserves, SendConnectPreserves DEF Worker
<1>5. CASE Broker
  BY <1>5, BrokerTakesPreserves, ClosingPreserves, BrokerPublishesPreserves,
     BrokerRepeatsPreserves DEF Broker
<1>6. CASE UNCHANGED vars
  <2>1. Types' /\ AtType'
    BY <1>6, StepTyped DEF Invariant
  <2>2. UNCHANGED <<object, open, session, inbox, toBroker, exchange, delivered,
                    overflowed, mistaken>>
    BY <1>6 DEF vars, commandVars, brokerVars, historyVars
  <2> QED
    BY <2>1, <2>2, Elsewhere
<1> QED
  BY <1>1, <1>2, <1>3, <1>4, <1>5, <1>6 DEF Next

(***************************************************************************)
(* An exchange that the broker completes was released, and it releases an  *)
(* exchange when the message was received (WhenReleased).                  *)
(***************************************************************************)
THEOREM MqttCompletedIsDelivered == Spec => CompletedIsDelivered
<1>1. ASSUME Invariant, NEW id \in BrokerId, exchange[id] = "released", ~mistaken
      PROVE  delivered[id] >= 1
  BY <1>1 DEF Invariant, Good, WhenReleased
<1>2. Invariant => \A id \in BrokerId :
        exchange[id] = "released" /\ exchange'[id] = "none" /\ open' /\ ~mistaken
          => delivered[id] >= 1
  BY <1>1
<1> QED
  BY <1>2, InitInvariant, StepInvariant, PTL DEF Spec, CompletedIsDelivered

-----------------------------------------------------------------------------
(***************************************************************************)
(* A received message is passed to the user when no item is in the session *)
(* for it; with room in the session there is one as long as the broker may *)
(* repeat it (Repeated).                                                   *)
(***************************************************************************)
Once ==
  /\ ~object => \A id \in BrokerId : delivered[id] = 0
  /\ DeliveredOnce

LEMMA OnceReceives ==
  ASSUME Invariant, Once, ReceivePublish
  PROVE  Once'
<1> DEFINE h == Head(inbox).id
           more == IF delivered[h] < 2 THEN delivered[h] + 1 ELSE delivered[h]
<1>1. Types /\ Receive("publish") /\ delivered \in [BrokerId -> 0 .. 2]
  BY DEF Invariant, Types, ReceivePublish
<1>2. object /\ UNCHANGED object
  BY DEF ReceivePublish, Receive, Pop, Turn, commandVars
<1>3. In(inbox, "publish", h)
  BY <1>1, Received
<1>4. ASSUME ~overflowed', ~mistaken', NEW id \in BrokerId PROVE delivered'[id] <= 1
  <2>1. ~mistaken
    BY <1>4, Zenon DEF ReceivePublish, Mistake
  <2>2. CASE Items(h) # {}
    <3>1. UNCHANGED <<overflowed, delivered>>
      BY <2>2 DEF ReceivePublish
    <3> QED
      BY <1>4, <2>1, <3>1 DEF Once, DeliveredOnce
  <2>3. CASE Items(h) = {}
    <3>1. /\ delivered' = [delivered EXCEPT ![h] = more]
          /\ overflowed' = (overflowed \/ Len(session) = SessionLen)
      BY <2>3 DEF ReceivePublish
    <3>2. ~overflowed
      BY <1>4, <3>1, Zenon
    <3>3. CASE id # h
      BY <1>1, <2>1, <3>1, <3>2, <3>3 DEF Once, DeliveredOnce
    <3>4. CASE id = h
      <4>1. ~HasItem(id)
        BY <2>3, <3>4, NoItem DEF HasItem
      <4>2. Repeated(id)
        BY <2>1 DEF Invariant, Good
      <4>3. ~(delivered[id] >= 1)
        BY <1>3, <3>2, <3>4, <4>1, <4>2 DEF Repeated
      <4> QED
        BY <1>1, <3>1, <3>4, <4>3
    <3> QED
      BY <3>3, <3>4
  <2> QED
    BY <2>2, <2>3
<1> QED
  BY <1>2, <1>4 DEF Once, DeliveredOnce

\* Any other step
LEMMA OnceElse ==
  ASSUME Once,
         \/ UNCHANGED delivered /\ (object => object') /\ (overflowed => overflowed')
              /\ (mistaken => mistaken')
         \/ UNCHANGED delivered /\ ~object
         \/ Disconnect
  PROVE  Once'
<1>1. CASE UNCHANGED delivered /\ (object => object') /\ (overflowed => overflowed')
              /\ (mistaken => mistaken')
  BY <1>1 DEF Once, DeliveredOnce
<1>2. CASE UNCHANGED delivered /\ ~object
  BY <1>2 DEF Once, DeliveredOnce
<1>3. CASE Disconnect
  BY <1>3 DEF Once, DeliveredOnce, Disconnect
<1> QED
  BY <1>1, <1>2, <1>3

LEMMA OnceStep == Invariant /\ Once /\ [Next]_vars => Once'
<1> SUFFICES ASSUME Invariant, Once, [Next]_vars PROVE Once'
  OBVIOUS
<1>1. CASE Command
  <2>1. UNCHANGED delivered /\ (~object \/ UNCHANGED <<object, overflowed, mistaken>>)
    BY <1>1 DEF Command, Start, Ask, Stop, brokerVars, historyVars
  <2> QED
    BY <2>1, OnceElse
<1>2. CASE MainRuns
  BY <1>2, OnceElse DEF MainRuns, Woken, TimesOut, Clear, brokerVars
<1>3. CASE MqttMain
  <2>1. CASE SendConnect \/ NothingReceived \/ ReceiveConnack
    <3>1. UNCHANGED <<delivered, object, overflowed, mistaken>>
      BY <2>1 DEF SendConnect, NothingReceived, ReceiveConnack, Receive, Pop,
                  commandVars, brokerVars, historyVars
    <3> QED
      BY <3>1, OnceElse
  <2>2. CASE SendSubscribe
    <3>1. UNCHANGED <<delivered, object, mistaken>>
      BY <2>2 DEF SendSubscribe, Pop, commandVars, brokerVars
    <3>2. overflowed => overflowed'
      BY <2>2 DEF SendSubscribe
    <3> QED
      BY <3>1, <3>2, OnceElse
  <2>3. CASE SendPublish
    <3>1. UNCHANGED <<delivered, object>>
      BY <2>3 DEF SendPublish, Pop, commandVars, brokerVars
    <3>2. (overflowed => overflowed') /\ (mistaken => mistaken')
      BY <2>3, Zenon DEF SendPublish, Mistake
    <3> QED
      BY <3>1, <3>2, OnceElse
  <2>4. CASE SendDisconnect \/ BrokerGone
    BY <2>4, OnceElse DEF SendDisconnect, BrokerGone, Close, Pop, commandVars, brokerVars,
                          historyVars
  <2>5. CASE ReceiveSuback \/ ReceivePubrel \/ ReceivePingresp
    <3>1. UNCHANGED <<delivered, overflowed, object>>
      BY <2>5 DEF ReceiveSuback, ReceivePubrel, ReceivePingresp, Receive, Pop, commandVars
    <3>2. mistaken => mistaken'
      BY <2>5, Zenon DEF ReceiveSuback, ReceivePubrel, ReceivePingresp, Mistake
    <3> QED
      BY <3>1, <3>2, OnceElse
  <2> QED
    BY <1>3, <2>1, <2>2, <2>3, <2>4, <2>5, OnceReceives DEF MqttMain
<1>4. CASE Worker
  BY <1>4, OnceElse DEF Worker, LinkDown, Clear, TickPing, TickTimeout, commandVars, brokerVars,
                        historyVars
<1>5. CASE Broker
  <2>1. CASE BrokerTakes \/ BrokerCloses
    BY <2>1, OnceElse DEF BrokerTakes, BrokerCloses, BrokerStep, commandVars
  <2>2. ASSUME NEW id \in BrokerId, BrokerPublishes(id) PROVE Once'
    <3>1. delivered \in [BrokerId -> 0 .. 2]
      BY DEF Invariant, Types
    <3>2. UNCHANGED <<object, overflowed, mistaken>> /\ delivered' = [delivered EXCEPT ![id] = 0]
      BY <2>2 DEF BrokerPublishes, commandVars, historyVars
    <3> QED
      BY <3>1, <3>2 DEF Once, DeliveredOnce
  <2>3. ASSUME NEW id \in BrokerId, BrokerRepeats(id) PROVE Once'
    BY <2>3, OnceElse DEF BrokerRepeats, BrokerStep, commandVars
  <2> QED
    BY <1>5, <2>1, <2>2, <2>3 DEF Broker
<1>6. CASE UNCHANGED vars
  BY <1>6, OnceElse DEF vars, commandVars, brokerVars, historyVars
<1> QED
  BY <1>1, <1>2, <1>3, <1>4, <1>5, <1>6 DEF Next

(***************************************************************************)
(* However often the broker repeats a message, and whichever frames are    *)
(* lost, the user gets it once, as long as the session has room and no     *)
(* item is mistaken for another.                                           *)
(***************************************************************************)
THEOREM MqttDeliveredOnce == Spec => []DeliveredOnce
<1>1. Init => Once
  BY DEF Init, Once, DeliveredOnce
<1>2. Once => DeliveredOnce
  BY DEF Once
<1> QED
  BY <1>1, <1>2, InitInvariant, StepInvariant, OnceStep, PTL DEF Spec

-----------------------------------------------------------------------------
(***************************************************************************)
(* Mqtt implements OnceDelivery.  The steps that matter are the broker's,  *)
(* ReceivePublish, and those that end or begin a connection.               *)
(***************************************************************************)
Unsafe == overflowed \/ mistaken

LEMMA DeliverySteps ==
  ASSUME Invariant, [Next]_vars
  PROVE  \/ Start
         \/ /\ Unsafe => Unsafe'
            /\ \/ UNCHANGED <<open, exchange, delivered>>
               \/ Disconnect \/ ReceivePublish \/ BrokerTakes
               \/ \E id \in BrokerId : BrokerPublishes(id)
<1>1. CASE Command
  BY <1>1 DEF Command, Ask, Stop, Unsafe, brokerVars, historyVars
<1>2. CASE MainRuns
  BY <1>2 DEF MainRuns, Woken, TimesOut, Clear, Unsafe, brokerVars, historyVars
<1>3. CASE MqttMain
  <2>1. CASE SendConnect \/ NothingReceived \/ ReceiveConnack
    BY <2>1 DEF SendConnect, NothingReceived, ReceiveConnack, Receive, Unsafe, brokerVars,
                historyVars
  <2>2. CASE SendSubscribe
    <3>1. UNCHANGED <<open, exchange, delivered, mistaken>>
      BY <2>2 DEF SendSubscribe, brokerVars
    <3>2. overflowed => overflowed'
      BY <2>2 DEF SendSubscribe
    <3> QED
      BY <3>1, <3>2 DEF Unsafe
  <2>3. CASE SendPublish
    <3>1. UNCHANGED <<open, exchange, delivered>>
      BY <2>3 DEF SendPublish, brokerVars
    <3>2. (overflowed => overflowed') /\ (mistaken => mistaken')
      BY <2>3, Zenon DEF SendPublish, Mistake
    <3> QED
      BY <3>1, <3>2 DEF Unsafe
  <2>4. CASE SendDisconnect \/ BrokerGone
    BY <2>4 DEF SendDisconnect, BrokerGone, Close, Unsafe, brokerVars, historyVars
  <2>5. CASE ReceiveSuback \/ ReceivePubrel \/ ReceivePingresp
    <3>1. UNCHANGED <<open, exchange, delivered, overflowed>>
      BY <2>5 DEF ReceiveSuback, ReceivePubrel, ReceivePingresp, Receive
    <3>2. mistaken => mistaken'
      BY <2>5, Zenon DEF ReceiveSuback, ReceivePubrel, ReceivePingresp, Mistake
    <3> QED
      BY <3>1, <3>2 DEF Unsafe
  <2>6. CASE ReceivePublish
    <3>1. (overflowed => overflowed') /\ (mistaken => mistaken')
      BY <2>6, Zenon DEF ReceivePublish, Mistake
    <3> QED
      BY <2>6, <3>1 DEF Unsafe
  <2> QED
    BY <1>3, <2>1, <2>2, <2>3, <2>4, <2>5, <2>6 DEF MqttMain
<1>4. CASE Worker
  BY <1>4 DEF Worker, LinkDown, Clear, TickPing, TickTimeout, Unsafe, brokerVars, historyVars
<1>5. CASE Broker
  <2>1. CASE BrokerTakes
    <3>1. UNCHANGED <<overflowed, mistaken>>
      BY <2>1 DEF BrokerTakes, BrokerStep
    <3> QED
      BY <2>1, <3>1 DEF Unsafe
  <2>2. CASE BrokerCloses
    BY <2>2 DEF BrokerCloses, BrokerStep, Unsafe
  <2>3. ASSUME NEW id \in BrokerId, BrokerPublishes(id) \/ BrokerRepeats(id)
        PROVE  /\ UNCHANGED <<overflowed, mistaken>>
               /\ BrokerPublishes(id) \/ UNCHANGED <<open, exchange, delivered>>
    BY <2>3 DEF BrokerPublishes, BrokerRepeats, BrokerStep, historyVars
  <2> QED
    BY <1>5, <2>1, <2>2, <2>3 DEF Broker, Unsafe
<1>6. CASE UNCHANGED vars
  BY <1>6 DEF vars, brokerVars, historyVars, Unsafe
<1> QED
  BY <1>1, <1>2, <1>3, <1>4, <1>5, <1>6 DEF Next, Command

\* A message that is passed to the user: its exchange was sent and not
\* released, or the connection has ended, and it was not passed before.
LEMMA ReceiveDelivers ==
  ASSUME Invariant, Once, ReceivePublish, ~Unsafe, ~Unsafe'
  PROVE  Delivery!Next \/ UNCHANGED <<open, exchange, delivered>>
<1> DEFINE h == Head(inbox).id
           more == IF delivered[h] < 2 THEN delivered[h] + 1 ELSE delivered[h]
<1>1. /\ Types /\ Receive("publish") /\ delivered \in [BrokerId -> 0 .. 2]
      /\ exchange \in [BrokerId -> {"none", "sent", "released"}]
      /\ UNCHANGED <<open, exchange>>
  BY DEF Invariant, Types, ReceivePublish, Receive
<1>2. In(inbox, "publish", h)
  BY <1>1, Received
<1>3. CASE Items(h) # {}
  <2>1. UNCHANGED delivered
    BY <1>3 DEF ReceivePublish
  <2> QED
    BY <1>1, <2>1
<1>4. CASE Items(h) = {} /\ h \notin BrokerId
  <2>1. delivered' = [delivered EXCEPT ![h] = more]
    BY <1>4 DEF ReceivePublish
  <2>2. delivered' = delivered
    BY <1>1, <1>4, <2>1
  <2> QED
    BY <1>1, <2>2
<1>5. CASE Items(h) = {} /\ h \in BrokerId
  <2>1. delivered' = [delivered EXCEPT ![h] = more]
    BY <1>5 DEF ReceivePublish
  <2>2. ~HasItem(h)
    BY <1>5, NoItem DEF HasItem
  <2>3. Repeated(h) /\ WhenNone(h) /\ WhenReleased(h)
    BY <1>5 DEF Invariant, Good, Unsafe
  <2>4. delivered[h] = 0
    BY <1>1, <1>2, <1>5, <2>2, <2>3 DEF Repeated, Unsafe
  <2>5. open => exchange[h] = "sent"
    BY <1>1, <1>2, <1>5, <2>3, <2>4 DEF WhenNone, WhenReleased
  <2>6. delivered' = [delivered EXCEPT ![h] = 1]
    BY <2>1, <2>4
  <2>7. Delivery!Exchange(h)
    BY <1>1, <2>4, <2>5, <2>6 DEF Delivery!Exchange, Delivery!Deliver
  <2> QED
    BY <1>5, <2>7 DEF Delivery!Next, Unsafe
<1> QED
  BY <1>3, <1>4, <1>5

\* The broker releases what was delivered, and completes what it released.
LEMMA BrokerDelivers ==
  ASSUME Invariant, Once, BrokerTakes, ~Unsafe, ~Unsafe'
  PROVE  Delivery!Next \/ UNCHANGED <<open, exchange, delivered>>
<1> DEFINE frame == Head(toBroker)
           k == frame.id
<1>1. /\ Types /\ delivered \in [BrokerId -> 0 .. 2] /\ toBroker \in Seq(Frames)
      /\ exchange \in [BrokerId -> {"none", "sent", "released"}]
      /\ toBroker # <<>> /\ open /\ UNCHANGED <<open, delivered>>
  BY DEF Invariant, Types, BrokerTakes, BrokerStep
<1>2. \A id \in BrokerId : Good(id) /\ delivered[id] <= 1
  BY DEF Invariant, Once, DeliveredOnce, Unsafe
<1>3. CASE BrokerReplies(frame) \/ BrokerIgnores(frame)
  BY <1>1, <1>3 DEF BrokerReplies, BrokerIgnores
<1>4. CASE BrokerReleases(frame) /\ k \in BrokerId
  <2>1. /\ exchange[k] # "none" /\ frame.type = "pubrec"
        /\ exchange' = [exchange EXCEPT ![k] = "released"]
    BY <1>4 DEF BrokerReleases
  <2>2. CASE exchange[k] = "released"
    BY <1>1, <2>1, <2>2
  <2>3. CASE exchange[k] = "sent"
    <3>1. In(toBroker, "pubrec", k)
      BY <1>1, <2>1, FirstTyped DEF In
    <3>2. delivered[k] = 1
      BY <1>1, <1>2, <1>4, <2>3, <3>1 DEF Good, WhenSent
    <3>3. Delivery!Exchange(k)
      BY <1>1, <2>1, <2>3, <3>2 DEF Delivery!Exchange, Delivery!Release
    <3> QED
      BY <1>4, <3>3 DEF Delivery!Next, Unsafe
  <2> QED
    BY <1>1, <1>4, <2>1, <2>2, <2>3
<1>5. CASE BrokerCompletes(frame) /\ k \in BrokerId
  <2>1. exchange[k] = "released" /\ exchange' = [exchange EXCEPT ![k] = "none"]
    BY <1>5 DEF BrokerCompletes
  <2>2. delivered[k] = 1
    BY <1>1, <1>2, <1>5, <2>1 DEF Good, WhenReleased
  <2>3. Delivery!Exchange(k)
    BY <1>1, <2>1, <2>2 DEF Delivery!Exchange, Delivery!Complete
  <2> QED
    BY <1>5, <2>3 DEF Delivery!Next, Unsafe
<1>6. CASE (BrokerReleases(frame) \/ BrokerCompletes(frame)) /\ k \notin BrokerId
  <2>1. exchange' = exchange
    BY <1>1, <1>6 DEF BrokerReleases, BrokerCompletes
  <2> QED
    BY <1>1, <2>1
<1> QED
  BY <1>3, <1>4, <1>5, <1>6 DEF BrokerTakes

\* Each step is one of OnceDelivery, or leaves its variables alone.
LEMMA StepDelivers ==
  Invariant /\ Once /\ [Next]_vars => [Delivery!Next]_(Delivery!vars)
<1> SUFFICES ASSUME Invariant, Once, [Next]_vars, ~Unsafe'
             PROVE  Delivery!Next \/ (Unsafe' = Unsafe /\ UNCHANGED <<open, exchange, delivered>>)
  BY DEF Delivery!Next, Delivery!vars, Unsafe
<1>1. /\ delivered \in [BrokerId -> 0 .. 2] /\ Types
      /\ exchange \in [BrokerId -> {"none", "sent", "released"}]
      /\ Unsafe \in BOOLEAN /\ Unsafe' \in BOOLEAN
  BY DEF Invariant, Types, Unsafe
<1>2. CASE Start
  <2>1. ~object /\ ~open /\ UNCHANGED <<exchange, delivered>>
    BY <1>2 DEF Invariant, Connection, Start, brokerVars
  <2>2. \A id \in BrokerId : exchange[id] = "none" /\ delivered[id] = 0
    BY <2>1 DEF Invariant, Connection, Once
  <2>3. CASE open'
    <3>1. Delivery!Fresh'
      BY <1>1, <2>1, <2>2 DEF Delivery!Fresh
    <3> QED
      BY <2>1, <2>3, <3>1 DEF Delivery!Next, Delivery!Connect, Unsafe
  <2>4. CASE ~open'
    <3>1. UNCHANGED <<open, overflowed, mistaken>>
      BY <1>2, <2>4 DEF Start
    <3> QED
      BY <2>1, <3>1 DEF Unsafe
  <2> QED
    BY <2>3, <2>4
<1>3. CASE ~Start
  <2>1. /\ ~Unsafe /\ Unsafe' = Unsafe
        /\ \/ UNCHANGED <<open, exchange, delivered>>
           \/ Disconnect \/ ReceivePublish \/ BrokerTakes
           \/ \E id \in BrokerId : BrokerPublishes(id)
    BY <1>1, <1>3, DeliverySteps
  <2>2. CASE Disconnect
    BY <2>1, <2>2 DEF Disconnect, Delivery!Next, Delivery!End, Delivery!Fresh, Unsafe
  <2>3. ASSUME NEW id \in BrokerId, BrokerPublishes(id) PROVE Delivery!Next
    <3>1. Delivery!Exchange(id)
      BY <2>3 DEF BrokerPublishes, Delivery!Exchange, Delivery!Publish
    <3> QED
      BY <2>1, <3>1 DEF Delivery!Next, Unsafe
  <2> QED
    BY <2>1, <2>2, <2>3, ReceiveDelivers, BrokerDelivers
<1> QED
  BY <1>2, <1>3

(***************************************************************************)
(* The client implements the exactly-once delivery of QoS 2, for every     *)
(* size of the queues, of the session and of the identifiers, whatever     *)
(* frames and events are lost and however often the broker repeats them,   *)
(* up to a full session or an item mistaken for another.                   *)
(***************************************************************************)
THEOREM MqttImplementsOnceDelivery == Spec => ExactlyOnce
<1>1. Init => Once /\ Delivery!Init
  BY DEF Init, Once, DeliveredOnce, Delivery!Init, Delivery!Fresh
<1> QED
  BY <1>1, InitInvariant, StepInvariant, OnceStep, StepDelivers, PTL
  DEF Spec, ExactlyOnce, Delivery!Spec

-----------------------------------------------------------------------------
(***************************************************************************)
(* A command that reports "done".                                          *)
(*                                                                         *)
(* The event that ends it carries no identifier, so the command is right   *)
(* to trust it only if no other request can raise one.  The invariant      *)
(* follows a request through the queue, the connection and back: there is  *)
(* at most one on its way, it is the last that was asked for, and its      *)
(* event comes when none is left.                                          *)
(***************************************************************************)
Asked == {"subscribe", "unsubscribe", "publish"}
Needing == {"subscribe", "unsubscribe"}
Acks == {"suback", "unsuback"}

Has(s, T) == \E i \in DOMAIN s : s[i].type \in T
Single(s, T, k) ==
  \A i, j \in DOMAIN s : s[i].type \in T /\ s[j].type \in T => i = j /\ s[i].id = k

NoneLeft == ~Has(queue, Asked) /\ ~Has(toBroker, Needing) /\ ~Has(inbox, Acks)

OneLeft ==
  /\ Single(queue, Asked, packetId)
  /\ Single(toBroker, Needing, packetId)
  /\ Single(inbox, Acks, packetId)
  /\ Has(queue, Asked) => ~Has(toBroker, Needing) /\ ~Has(inbox, Acks)
  /\ Has(toBroker, Needing) => ~Has(inbox, Acks)
  /\ Has(inbox, Acks) => answered

NoEvent == at.main = "idle" /\ isconnected /\ count > 0 => expected \notin Asked
OwnEvent == count > 0 /\ expected \in Asked => count = 1 /\ answered /\ NoneLeft

Tidy ==
  ~resent =>
    /\ at.main \in {"idle", "connect", "disconnect"} => NoneLeft
    /\ NoEvent
    /\ at.main \in Asked => OneLeft /\ OwnEvent

LEMMA HasAppend ==
  ASSUME NEW S, NEW s \in Seq(S), NEW x \in S
  PROVE  /\ \A T : Has(Append(s, x), T) <=> Has(s, T) \/ x.type \in T
         /\ \A T, k : Single(s, T, k) /\ x.type \notin T => Single(Append(s, x), T, k)
         /\ \A T, k : ~Has(s, T) /\ x.id = k => Single(Append(s, x), T, k)
<1>1. /\ Len(s) \in Nat /\ DOMAIN s = 1 .. Len(s)
      /\ DOMAIN Append(s, x) = 1 .. Len(s) + 1
      /\ \A i \in 1 .. Len(s) : Append(s, x)[i] = s[i]
      /\ Append(s, x)[Len(s) + 1] = x
  OBVIOUS
<1>2. \A i \in 1 .. Len(s) + 1 : i \in 1 .. Len(s) \/ i = Len(s) + 1
  BY <1>1
<1>3. ASSUME NEW T PROVE Has(Append(s, x), T) <=> Has(s, T) \/ x.type \in T
  <2>1. Has(Append(s, x), T) => Has(s, T) \/ x.type \in T
    BY <1>1, <1>2 DEF Has
  <2>2. Has(s, T) => Has(Append(s, x), T)
    BY <1>1 DEF Has
  <2>3. x.type \in T => Has(Append(s, x), T)
    BY <1>1 DEF Has
  <2> QED
    BY <2>1, <2>2, <2>3
<1>4. ASSUME NEW T, NEW k, Single(s, T, k), x.type \notin T
      PROVE  Single(Append(s, x), T, k)
  BY <1>1, <1>2, <1>4 DEF Single
<1>5. ASSUME NEW T, NEW k, ~Has(s, T), x.id = k
      PROVE  Single(Append(s, x), T, k)
  BY <1>1, <1>2, <1>5 DEF Single, Has
<1> QED
  BY <1>3, <1>4, <1>5

LEMMA HasTail ==
  ASSUME NEW S, NEW s \in Seq(S), s # <<>>
  PROVE  /\ \A T : Has(Tail(s), T) \/ Head(s).type \in T => Has(s, T)
         /\ \A T, k : Single(s, T, k) => Single(Tail(s), T, k)
         /\ \A T, k : Single(s, T, k) /\ Head(s).type \in T =>
              ~Has(Tail(s), T) /\ Head(s).id = k
<1>1. /\ Len(s) \in Nat /\ DOMAIN s = 1 .. Len(s) /\ 1 \in 1 .. Len(s)
      /\ DOMAIN Tail(s) = 1 .. Len(s) - 1
      /\ \A i \in 1 .. Len(s) - 1 : Tail(s)[i] = s[i + 1] /\ i + 1 \in 1 .. Len(s) /\ i + 1 # 1
      /\ \A i, j \in 1 .. Len(s) - 1 : i + 1 = j + 1 => i = j
      /\ Head(s) = s[1]
  OBVIOUS
<1>2. ASSUME NEW T, Has(Tail(s), T) \/ Head(s).type \in T PROVE Has(s, T)
  BY <1>1, <1>2 DEF Has
<1>3. ASSUME NEW T, NEW k, Single(s, T, k) PROVE Single(Tail(s), T, k)
  BY <1>1, <1>3 DEF Single
<1>4. ASSUME NEW T, NEW k, Single(s, T, k), Head(s).type \in T
      PROVE  ~Has(Tail(s), T) /\ Head(s).id = k
  BY <1>1, <1>4 DEF Single, Has
<1> QED
  BY <1>2, <1>3, <1>4

LEMMA HasConcat ==
  ASSUME NEW S, NEW s \in Seq(S), NEW t \in Seq(S), NEW T, ~Has(t, T)
  PROVE  /\ Has(s \o t, T) => Has(s, T)
         /\ \A k : Single(s, T, k) => Single(s \o t, T, k)
<1>1. /\ Len(s) \in Nat /\ DOMAIN s = 1 .. Len(s)
      /\ Len(t) \in Nat /\ DOMAIN t = 1 .. Len(t)
      /\ DOMAIN (s \o t) = 1 .. Len(s) + Len(t)
      /\ \A i \in 1 .. Len(s) + Len(t) :
           (s \o t)[i] = IF i <= Len(s) THEN s[i] ELSE t[i - Len(s)]
  OBVIOUS
<1>2. \A i \in 1 .. Len(s) + Len(t) :
        \/ i \in 1 .. Len(s) /\ (s \o t)[i] = s[i]
        \/ i - Len(s) \in 1 .. Len(t) /\ (s \o t)[i] = t[i - Len(s)]
  BY <1>1
<1>3. \A i \in 1 .. Len(s) + Len(t) : (s \o t)[i].type \in T =>
        i \in 1 .. Len(s) /\ (s \o t)[i] = s[i]
  BY <1>1, <1>2 DEF Has
<1>4. Has(s \o t, T) => Has(s, T)
  BY <1>1, <1>3 DEF Has
<1>5. ASSUME NEW k, Single(s, T, k) PROVE Single(s \o t, T, k)
  BY <1>1, <1>3, <1>5 DEF Single
<1> QED
  BY <1>4, <1>5

LEMMA HasNone ==
  /\ \A T : ~Has(<<>>, T)
  /\ \A T, k : Single(<<>>, T, k)
  BY DEF Has, Single

\* A sequence that has no more of the types than before
Less(s, t, T) == (Has(t, T) => Has(s, T)) /\ \A k : Single(s, T, k) => Single(t, T, k)

LEMMA PushLess ==
  ASSUME Types, NEW m \in Events, Push(m), m.type \notin Asked
  PROVE  Less(queue, queue', Asked)
<1>1. CASE queue' = queue
  BY <1>1 DEF Less
<1>2. CASE queue' = Append(queue, m)
  <2>1. queue \in Seq(Events)
    BY DEF Types
  <2> QED
    BY <1>2, <2>1, HasAppend DEF Less
<1> QED
  BY <1>1, <1>2 DEF Push

LEMMA PopLess ==
  ASSUME Types, NEW type, Pop(type)
  PROVE  /\ Less(queue, queue', Asked)
         /\ type \in Asked => Has(queue, Asked)
         /\ \A k : type \in Asked /\ Single(queue, Asked, k) =>
              ~Has(queue', Asked) /\ Head(queue).id = k
<1>1. queue \in Seq(Events) /\ queue # <<>> /\ queue' = Tail(queue) /\ Head(queue).type = type
  BY DEF Types, Pop
<1> QED
  BY <1>1, HasTail DEF Less

LEMMA ReceiveLess ==
  ASSUME Types, NEW type, Receive(type)
  PROVE  /\ Less(inbox, inbox', Acks) /\ Less(queue, queue', Asked)
         /\ type \in Acks => Has(inbox, Acks)
         /\ \A k : type \in Acks /\ Single(inbox, Acks, k) => ~Has(inbox', Acks)
<1>1. inbox \in Seq(Replies) /\ inbox # <<>> /\ inbox' = Tail(inbox) /\ Head(inbox).type = type
  BY DEF Types, Receive
<1>2. Pop("receive")
  BY DEF Receive
<1> QED
  BY <1>1, <1>2, HasTail, PopLess DEF Less

LEMMA SendLess ==
  ASSUME Types, NEW m \in Frames, Send(m), m.type \notin Needing
  PROVE  Less(toBroker, toBroker', Needing)
<1>1. CASE Put(<<m>>)
  <2>1. toBroker' = Append(toBroker, m) /\ toBroker \in Seq(Frames)
    BY <1>1, OneMore DEF Put, Types
  <2> QED
    BY <2>1, HasAppend DEF Less
<1>2. CASE NotPut
  BY <1>2 DEF NotPut, Less
<1> QED
  BY <1>1, <1>2 DEF Send

LEMMA ArriveLess ==
  ASSUME Types, NEW m \in Replies, Arrives(m)
  PROVE  /\ Less(queue, queue', Asked)
         /\ m.type \notin Acks => Less(inbox, inbox', Acks)
         /\ \A k : ~Has(inbox, Acks) /\ m.id = k => Single(inbox', Acks, k)
<1>1. inbox \in Seq(Replies) /\ inbox' = Append(inbox, m) /\ Push(Message("receive", 0))
  BY DEF Types, Arrives
<1>2. Message("receive", 0) \in Events /\ Message("receive", 0).type \notin Asked
  BY ZeroIsId, Forms DEF Message, Asked
<1> QED
  BY <1>1, <1>2, PushLess, HasAppend DEF Less

LEMMA Same == \A s, T : Less(s, s, T) /\ Less(s, <<>>, T)
  BY HasNone DEF Less

LEMMA NoneLeftStays ==
  ASSUME NoneLeft, Less(queue, queue', Asked), Less(toBroker, toBroker', Needing),
         Less(inbox, inbox', Acks)
  PROVE  NoneLeft'
  BY DEF NoneLeft, Less, Has

\* A step of another thread that is not about a request
LEMMA TidyQuiet ==
  ASSUME Tidy, at'.main = at.main, UNCHANGED packetId,
         resent => resent', answered => answered', isconnected' => isconnected,
         Less(queue, queue', Asked), Less(toBroker, toBroker', Needing),
         Less(inbox, inbox', Acks),
         UNCHANGED <<count, expected>> \/ expected' \notin Asked
  PROVE  Tidy'
<1> SUFFICES ASSUME ~resent' PROVE Tidy'
  BY DEF Tidy
<1>1. NoneLeft => NoneLeft'
  BY NoneLeftStays
<1>2. NoEvent => NoEvent'
  BY DEF NoEvent
<1>3. OneLeft => OneLeft'
  BY DEF OneLeft, Less
<1>4. OwnEvent => OwnEvent'
  BY <1>1 DEF OwnEvent
<1> QED
  BY <1>1, <1>2, <1>3, <1>4 DEF Tidy

\* A step that ends the connection, for the frames to the broker
LEMMA EndLess == Disconnect => Less(toBroker, toBroker', Needing)
  BY Same DEF Disconnect

LEMMA OtherEvent ==
  ASSUME NEW event \in {"connect", "disconnect"}, Callback(event)
  PROVE  expected' \notin Asked
  BY DEF Callback, Asked

LEMMA QuietWorker ==
  ASSUME Types, AtType, Tidy, LinkDown \/ Clear("worker") \/ TickPing \/ TickTimeout
  PROVE  Tidy'
<1>1. CASE LinkDown
  <2>1. at'.main = at.main
    BY <1>1 DEF LinkDown, Goto, AtType
  <2> QED
    BY <1>1, <2>1, TidyQuiet, Same DEF LinkDown, eventVars, historyVars
<1>2. CASE Clear("worker")
  <2>1. at'.main = at.main
    BY <1>2 DEF Clear, Goto, AtType
  <2>2. /\ queue' = <<>> /\ inbox' = <<>> /\ Disconnect /\ ~isconnected'
        /\ UNCHANGED <<packetId, count, expected, resent, answered>>
    BY <1>2 DEF Clear, eventVars, historyVars
  <2>3. Less(queue, queue', Asked) /\ Less(inbox, inbox', Acks)
    BY <2>2, Same
  <2> QED
    BY <2>1, <2>2, <2>3, TidyQuiet, EndLess
<1>3. CASE TickPing
  <2>1. Message("pingreq", 0) \in Frames /\ Message("pingreq", 0).type \notin Needing
    BY ZeroIsId, Forms DEF Message, Needing
  <2>2. Less(toBroker, toBroker', Needing)
    BY <1>3, <2>1, SendLess DEF TickPing
  <2> QED
    BY <1>3, <2>2, TidyQuiet, Same DEF TickPing, commandVars, eventVars, historyVars
<1>4. CASE TickTimeout
  <2>1. /\ UNCHANGED <<at, isconnected, packetId, queue, inbox, resent, answered>>
        /\ Disconnect /\ Callback("disconnect")
    BY <1>4 DEF TickTimeout, commandVars, historyVars
  <2>2. expected' \notin Asked
    BY <2>1, OtherEvent
  <2> QED
    BY <2>1, <2>2, TidyQuiet, EndLess, Same
<1> QED
  BY <1>1, <1>2, <1>3, <1>4

LEMMA QuietSending ==
  ASSUME Types, Tidy, SendConnect \/ SendDisconnect \/ BrokerGone \/ NothingReceived
  PROVE  Tidy'
<1>1. CASE SendConnect
  <2>1. Message("connect", 0) \in Frames /\ Message("connect", 0).type \notin Needing
    BY ZeroIsId, Forms DEF Message, Needing
  <2>2. Less(toBroker, toBroker', Needing) /\ Less(queue, queue', Asked)
    BY <1>1, <2>1, SendLess, PopLess DEF SendConnect
  <2> QED
    BY <1>1, <2>2, TidyQuiet, Same DEF SendConnect, Pop, commandVars, eventVars, historyVars
<1>2. CASE SendDisconnect
  <2>1. /\ Less(queue, queue', Asked)
        /\ UNCHANGED <<at, isconnected, packetId, resent, answered>>
    BY <1>2, PopLess DEF SendDisconnect, Pop, commandVars, historyVars
  <2>2. CASE Close
    <3>1. Disconnect /\ inbox' = <<>> /\ Callback("disconnect")
      BY <2>2 DEF Close
    <3>2. Less(inbox, inbox', Acks) /\ expected' \notin Asked
      BY <3>1, Same, OtherEvent
    <3> QED
      BY <2>1, <3>1, <3>2, TidyQuiet, EndLess
  <2>3. CASE NotPut /\ UNCHANGED <<eventVars, inbox>>
    BY <2>1, <2>3, TidyQuiet, Same DEF NotPut, eventVars
  <2> QED
    BY <1>2, <2>2, <2>3 DEF SendDisconnect
<1>3. CASE BrokerGone
  <2>1. /\ Less(queue, queue', Asked)
        /\ UNCHANGED <<at, isconnected, packetId, resent, answered>>
        /\ Disconnect /\ inbox' = <<>> /\ Callback("disconnect")
    BY <1>3, PopLess DEF BrokerGone, Close, Pop, commandVars, historyVars
  <2>2. Less(inbox, inbox', Acks) /\ expected' \notin Asked
    BY <2>1, Same, OtherEvent
  <2> QED
    BY <2>1, <2>2, TidyQuiet, EndLess
<1>4. CASE NothingReceived
  <2>1. Less(queue, queue', Asked)
    BY <1>4, PopLess DEF NothingReceived
  <2> QED
    BY <1>4, <2>1, TidyQuiet, Same DEF NothingReceived, Pop, commandVars, eventVars, historyVars
<1> QED
  BY <1>1, <1>2, <1>3, <1>4

LEMMA QuietReceiving ==
  ASSUME Types, Tidy,
         ReceiveConnack \/ ReceivePublish \/ ReceivePubrel \/ ReceivePingresp
  PROVE  Tidy'
<1>1. PICK type \in {"connack", "publish", "pubrel", "pingresp"} : Receive(type)
  BY DEF ReceiveConnack, ReceivePublish, ReceivePubrel, ReceivePingresp
<1>2. /\ Less(inbox, inbox', Acks) /\ Less(queue, queue', Asked)
      /\ UNCHANGED <<at, isconnected, packetId>> /\ Head(inbox).id \in Ids
  BY <1>1, ReceiveLess, ReceiveTyped
<1>3. CASE ReceiveConnack
  <2>1. expected' \notin Asked /\ UNCHANGED <<toBroker, resent, answered>>
    BY <1>3, OtherEvent DEF ReceiveConnack, historyVars
  <2> QED
    BY <1>2, <2>1, TidyQuiet, Same
<1>4. CASE ReceivePublish \/ ReceivePubrel
  <2> DEFINE id == Head(inbox).id
  <2>1. \E t \in {"pubrec", "pubcomp"} : Send(Message(t, id))
    BY <1>4 DEF ReceivePublish, ReceivePubrel
  <2>2. PICK t \in {"pubrec", "pubcomp"} : Send(Message(t, id))
    BY <2>1
  <2>3. Message(t, id) \in Frames /\ Message(t, id).type \notin Needing
    BY <1>2, Forms DEF Message, Needing
  <2>4. Less(toBroker, toBroker', Needing)
    BY <2>2, <2>3, SendLess
  <2>5. UNCHANGED <<count, expected, answered, resent>>
    BY <1>4 DEF ReceivePublish, ReceivePubrel, eventVars
  <2> QED
    BY <1>2, <2>4, <2>5, TidyQuiet
<1>5. CASE ReceivePingresp
  <2>1. UNCHANGED <<count, expected, answered>> /\ (resent => resent')
    BY <1>5, Zenon DEF ReceivePingresp, eventVars
  <2> SUFFICES ASSUME ~resent' PROVE Tidy'
    BY DEF Tidy
  <2>2. \A i \in DOMAIN session : session[i].type = "pubrec"
    BY <1>5, Zenon DEF ReceivePingresp
  <2>3. session \in Seq(Frames) /\ toBroker \in Seq(Frames) /\ ~Has(session, Needing)
    BY <2>2, KeptAreFrames DEF Types, Has, Needing
  <2>4. Less(toBroker, toBroker', Needing)
    <3>1. CASE Put(session)
      BY <2>3, <3>1, HasConcat DEF Put, Less
    <3>2. CASE NotPut \/ UNCHANGED toBroker
      BY <3>2, Same DEF NotPut
    <3>3. ASSUME NEW n \in 1 .. Len(session) - 1,
                 toBroker' = toBroker \o SubSeq(session, 1, n)
          PROVE  Less(toBroker, toBroker', Needing)
      <4>1. n \in 1 .. Len(session)
        BY <2>3
      <4>2. SubSeq(session, 1, n) \in Seq(Frames) /\ ~Has(SubSeq(session, 1, n), Needing)
        <5>1. /\ SubSeq(session, 1, n) \in Seq(Frames)
              /\ DOMAIN SubSeq(session, 1, n) = 1 .. n
              /\ \A i \in 1 .. n : SubSeq(session, 1, n)[i] = session[i] /\ i \in DOMAIN session
          BY <2>3, <4>1
        <5> QED
          BY <2>3, <5>1 DEF Has
      <4> QED
        BY <2>3, <3>3, <4>2, HasConcat DEF Less
    <3>4. \/ Put(session) \/ NotPut \/ UNCHANGED toBroker
          \/ \E n \in 1 .. Len(session) - 1 : toBroker' = toBroker \o SubSeq(session, 1, n)
      BY <1>5 DEF ReceivePingresp
    <3> QED
      BY <3>1, <3>2, <3>3, <3>4
  <2> QED
    BY <1>2, <2>1, <2>4, TidyQuiet
<1> QED
  BY <1>3, <1>4, <1>5

\* Where the main thread is when Mqttmain or the broker handles a request
LEMMA Handles ==
  ASSUME Types, Tidy, ~resent, ~NoneLeft, at.main # "clear"
  PROVE  at.main \in Asked /\ Waiting /\ OneLeft /\ OwnEvent
<1>1. at.main \in Requests \cup {"idle", "clear"}
  BY DEF Types
<1>2. at.main \in Asked
  BY <1>1 DEF Tidy, Requests, Asked
<1> QED
  BY <1>2 DEF Tidy, Waiting, Asked, Requests

LEMMA Quietly == Types /\ Waiting /\ Turn => count = 0
  BY DEF Types, Waiting, Turn

\* Once the main thread is in "clear", nothing is to be shown.
LEMMA Clears ==
  ASSUME at'.main = "clear" PROVE Tidy'
  BY DEF Tidy, NoEvent, Asked

LEMMA TidySendSubscribe ==
  ASSUME Types, Tidy, SendSubscribe
  PROVE  Tidy'
<1>1. PICK type \in {"subscribe", "unsubscribe"} : Pop(type) /\ Send(Head(queue))
  BY DEF SendSubscribe
<1>2. /\ UNCHANGED <<at, isconnected, packetId, count, expected, inbox, answered, resent>>
      /\ Turn
  BY <1>1 DEF SendSubscribe, Pop, commandVars, eventVars
<1> SUFFICES ASSUME ~resent PROVE Tidy'
  BY <1>2 DEF Tidy
<1>3. CASE at.main = "clear"
  BY <1>2, <1>3, Clears
<1>4. CASE at.main # "clear"
  <2>1. Has(queue, Asked)
    BY <1>1, PopLess DEF Asked
  <2>2. at.main \in Asked /\ OneLeft /\ count = 0
    BY <1>2, <1>4, <2>1, Handles, Quietly DEF NoneLeft
  <2>3. ~Has(queue', Asked) /\ Head(queue).id = packetId /\ Less(queue, queue', Asked)
    BY <1>1, <2>2, PopLess DEF OneLeft, Asked
  <2>4. ~Has(toBroker, Needing) /\ ~Has(inbox, Acks)
    BY <2>1, <2>2 DEF OneLeft
  <2>5. Single(toBroker', Needing, packetId)
    <3>1. CASE Put(<<Head(queue)>>)
      <4>1. Head(queue) \in Frames
        BY <1>1, PopTyped, RequestIsFrame
      <4>2. toBroker' = Append(toBroker, Head(queue)) /\ toBroker \in Seq(Frames)
        BY <3>1, <4>1, OneMore DEF Put, Types
      <4> QED
        BY <2>3, <2>4, <4>1, <4>2, HasAppend
    <3>2. CASE NotPut
      BY <2>2, <3>2 DEF NotPut, OneLeft
    <3> QED
      BY <1>1, <3>1, <3>2 DEF Send
  <2>6. OneLeft'
    BY <1>2, <2>2, <2>3, <2>4, <2>5 DEF OneLeft, Less
  <2>7. at'.main \in Asked /\ count' = 0
    BY <1>2, <2>2
  <2> QED
    BY <2>6, <2>7 DEF Tidy, NoEvent, OwnEvent, Asked
<1> QED
  BY <1>3, <1>4

LEMMA TidySendPublish ==
  ASSUME Types, Tidy, SendPublish
  PROVE  Tidy'
<1>1. /\ Pop("publish") /\ Turn
      /\ UNCHANGED <<at, isconnected, packetId, inbox, resent>>
  BY DEF SendPublish, Pop, commandVars
<1> SUFFICES ASSUME ~resent PROVE Tidy'
  BY <1>1 DEF Tidy
<1>2. CASE at.main = "clear"
  BY <1>1, <1>2, Clears
<1>3. CASE at.main # "clear"
  <2>1. Has(queue, Asked)
    BY <1>1, PopLess DEF Asked
  <2>2. at.main \in Asked /\ Waiting /\ OneLeft /\ count = 0
    BY <1>1, <1>3, <2>1, Handles, Quietly DEF NoneLeft
  <2>3. ~Has(queue', Asked) /\ Head(queue).id = packetId /\ Less(queue, queue', Asked)
    BY <1>1, <2>2, PopLess DEF OneLeft, Asked
  <2>4. ~Has(toBroker, Needing) /\ ~Has(inbox, Acks)
    BY <2>1, <2>2 DEF OneLeft
  <2>5. Less(toBroker, toBroker', Needing)
    <3>1. Head(queue) \in Frames /\ Head(queue).type \notin Needing
      BY <1>1, PopTyped, RequestIsFrame DEF Needing
    <3>2. Send(Head(queue))
      BY DEF SendPublish, Send
    <3> QED
      BY <3>1, <3>2, SendLess
  <2>6. NoneLeft'
    BY <1>1, <2>3, <2>4, <2>5 DEF NoneLeft, Less
  <2>7. OneLeft'
    BY <1>1, <2>2, <2>3, <2>5, <2>6 DEF OneLeft, Less, NoneLeft
  <2>8. OwnEvent'
    <3>1. CASE Callback("publish") /\ answered' = (answered \/ (Waiting /\ Head(queue).id = packetId))
      <4>1. answered'
        BY <2>2, <2>3, <3>1, Zenon
      <4>2. count' = 1
        BY <2>2, <3>1 DEF Callback
      <4> QED
        BY <2>6, <4>1, <4>2 DEF OwnEvent
    <3>2. CASE UNCHANGED <<eventVars, answered>>
      BY <2>2, <3>2 DEF OwnEvent, eventVars
    <3> QED
      BY <3>1, <3>2 DEF SendPublish
  <2>9. at'.main \in Asked
    BY <1>1, <2>2
  <2> QED
    BY <2>7, <2>8, <2>9 DEF Tidy, NoEvent, Asked
<1> QED
  BY <1>2, <1>3

LEMMA TidyReceiveSuback ==
  ASSUME Types, Tidy, ReceiveSuback
  PROVE  Tidy'
<1>1. PICK request \in {"subscribe", "unsubscribe"} :
        /\ Receive(IF request = "subscribe" THEN "suback" ELSE "unsuback")
        /\ Callback(request)
  BY DEF ReceiveSuback
<1>2. PICK type \in Acks : Receive(type)
  BY <1>1 DEF Acks
<1>3. UNCHANGED <<at, isconnected, packetId, toBroker, answered, resent>> /\ Turn
  BY <1>2, ReceiveTyped DEF ReceiveSuback, Receive, Pop
<1> SUFFICES ASSUME ~resent PROVE Tidy'
  BY <1>3 DEF Tidy
<1>4. CASE at.main = "clear"
  BY <1>3, <1>4, Clears
<1>5. CASE at.main # "clear"
  <2>1. Has(inbox, Acks) /\ Less(inbox, inbox', Acks) /\ Less(queue, queue', Asked)
    BY <1>2, ReceiveLess
  <2>2. at.main \in Asked /\ OneLeft /\ count = 0
    BY <1>3, <1>5, <2>1, Handles, Quietly DEF NoneLeft
  <2>3. ~Has(inbox', Acks)
    BY <1>2, <2>2, ReceiveLess DEF OneLeft
  <2>4. ~Has(toBroker, Needing) /\ ~Has(queue, Asked) /\ answered
    BY <2>1, <2>2 DEF OneLeft
  <2>5. NoneLeft'
    BY <1>3, <2>1, <2>3, <2>4 DEF NoneLeft, Less
  <2>6. OneLeft'
    BY <1>3, <2>1, <2>2, <2>5 DEF OneLeft, Less, NoneLeft
  <2>7. count' = 1 /\ answered'
    BY <1>1, <1>3, <2>2, <2>4 DEF Callback
  <2>8. OwnEvent'
    BY <2>5, <2>7 DEF OwnEvent
  <2>9. at'.main \in Asked
    BY <1>3, <2>2
  <2> QED
    BY <2>6, <2>8, <2>9 DEF Tidy, NoEvent, Asked
<1> QED
  BY <1>4, <1>5

LEMMA TidyBrokerTakes ==
  ASSUME Types, Tidy, BrokerTakes
  PROVE  Tidy'
<1> DEFINE frame == Head(toBroker)
<1>1. /\ toBroker \in Seq(Frames) /\ toBroker # <<>> /\ toBroker' = Tail(toBroker)
      /\ UNCHANGED <<at, isconnected, packetId, count, expected, resent>>
      /\ frame \in Frames /\ frame.id \in Ids
  BY Taken DEF BrokerTakes, BrokerStep, commandVars, eventVars, Types
<1>2. /\ Less(toBroker, toBroker', Needing)
      /\ frame.type \in Needing => Has(toBroker, Needing)
      /\ \A k : Single(toBroker, Needing, k) /\ frame.type \in Needing =>
           ~Has(toBroker', Needing) /\ frame.id = k
  BY <1>1, HasTail DEF Less
<1>3. BrokerReplies(frame) \/ BrokerReleases(frame) \/ BrokerCompletes(frame)
      \/ BrokerIgnores(frame)
  BY DEF BrokerTakes
<1> HIDE DEF frame
<1>4. CASE BrokerCompletes(frame) \/ BrokerIgnores(frame)
  BY <1>1, <1>2, <1>4, TidyQuiet, Same DEF BrokerCompletes, BrokerIgnores
<1>5. CASE BrokerReleases(frame)
  <2>1. Message("pubrel", frame.id) \in Replies /\ Message("pubrel", frame.id).type \notin Acks
    BY <1>1, Forms DEF Message, Acks
  <2>2. Less(queue, queue', Asked) /\ Less(inbox, inbox', Acks)
    BY <1>5, <2>1, ArriveLess DEF BrokerReleases
  <2> QED
    BY <1>1, <1>2, <1>5, <2>2, TidyQuiet DEF BrokerReleases
<1>6. CASE BrokerReplies(frame)
  <2> DEFINE type == Reply[frame.type]
             m == Message(type, frame.id)
  <2>1. frame.type \in {"connect", "pingreq"} \/ frame.type \in Needing
    BY <1>6 DEF BrokerReplies, Reply, Needing
  <2>2. /\ frame.type \in {"connect", "pingreq"} => type \in {"connack", "pingresp"}
        /\ frame.type \in Needing => type \in {"suback", "unsuback"}
    BY DEF Reply, Needing
  <2>3. m \in Replies /\ m.type = type /\ m.id = frame.id
    BY <1>1, <2>1, <2>2, Forms DEF Message
  <2>4. Arrives(m) /\ answered' = (answered \/ (Waiting /\ frame.id = packetId))
    BY <1>6 DEF BrokerReplies
  <2> HIDE DEF type, m
  <2>5. /\ Less(queue, queue', Asked)
        /\ type \notin Acks => Less(inbox, inbox', Acks)
        /\ \A k : ~Has(inbox, Acks) /\ frame.id = k => Single(inbox', Acks, k)
    BY <2>3, <2>4, ArriveLess
  <2>6. CASE frame.type \in {"connect", "pingreq"}
    <3>1. type \notin Acks
      BY <2>2, <2>6 DEF Acks
    <3>2. answered => answered'
      BY <2>4, Zenon
    <3> QED
      BY <1>1, <1>2, <2>5, <3>1, <3>2, TidyQuiet
  <2>7. CASE frame.type \in Needing
    <3> SUFFICES ASSUME ~resent PROVE Tidy'
      BY <1>1 DEF Tidy
    <3>1. CASE at.main = "clear"
      BY <1>1, <3>1, Clears
    <3>2. CASE at.main # "clear"
      <4>1. Has(toBroker, Needing)
        BY <1>2, <2>7
      <4>2. at.main \in Asked /\ Waiting /\ OneLeft /\ OwnEvent /\ ~NoneLeft
        BY <3>2, <4>1, Handles DEF NoneLeft
      <4>3. ~Has(queue, Asked) /\ ~Has(inbox, Acks)
        BY <4>1, <4>2 DEF OneLeft
      <4>4. ~Has(toBroker', Needing) /\ frame.id = packetId
        BY <1>2, <2>7, <4>2 DEF OneLeft
      <4>5. answered'
        BY <2>4, <4>2, <4>4, Zenon
      <4>6. Single(inbox', Acks, packetId)
        BY <2>5, <4>3, <4>4
      <4>7. OneLeft'
        BY <1>1, <1>2, <2>5, <4>2, <4>3, <4>4, <4>5, <4>6 DEF OneLeft, Less
      <4>8. OwnEvent'
        BY <1>1, <4>2 DEF OwnEvent
      <4>9. at'.main \in Asked
        BY <1>1, <4>2
      <4> QED
        BY <4>7, <4>8, <4>9 DEF Tidy, NoEvent, Asked
    <3> QED
      BY <3>1, <3>2
  <2> QED
    BY <2>1, <2>6, <2>7
<1> QED
  BY <1>3, <1>4, <1>5, <1>6

LEMMA TidyBroker ==
  ASSUME Types, Tidy, Broker
  PROVE  Tidy'
<1>1. ASSUME NEW id \in BrokerId, BrokerPublishes(id) \/ BrokerRepeats(id)
      PROVE  Tidy'
  <2>1. PICK type \in {"publish", "pubrel"} : Arrives(Message(type, id))
    BY <1>1 DEF BrokerPublishes, BrokerRepeats
  <2>2. Message(type, id) \in Replies /\ Message(type, id).type \notin Acks
    BY ZeroIsId, Forms DEF Message, Acks
  <2>3. Less(queue, queue', Asked) /\ Less(inbox, inbox', Acks)
    BY <2>1, <2>2, ArriveLess
  <2>4. UNCHANGED <<at, isconnected, packetId, count, expected, toBroker, resent, answered>>
    BY <1>1 DEF BrokerPublishes, BrokerRepeats, BrokerStep, commandVars, eventVars, historyVars
  <2> QED
    BY <2>3, <2>4, TidyQuiet, Same
<1>2. CASE BrokerCloses
  <2>1. Message("gone", 0) \in Events /\ Message("gone", 0).type \notin Asked
    BY ZeroIsId, Forms DEF Message, Asked
  <2>2. Less(queue, queue', Asked)
    BY <1>2, <2>1, PushLess DEF BrokerCloses
  <2>3. UNCHANGED <<at, isconnected, packetId, count, expected, inbox, resent, answered>>
        /\ Disconnect
    BY <1>2 DEF BrokerCloses, BrokerStep, commandVars, eventVars
  <2> QED
    BY <2>2, <2>3, TidyQuiet, EndLess, Same
<1> QED
  BY <1>1, <1>2, TidyBrokerTakes DEF Broker

LEMMA TidyMainRuns ==
  ASSUME Types, AtType, Tidy, MainRuns
  PROVE  Tidy'
<1>1. CASE Woken \/ TimesOut
  <2>1. /\ Waiting /\ UNCHANGED <<queue, packetId, expected, inbox, toBroker, resent>>
        /\ count \in Nat /\ (Succeed \/ Fail)
    BY <1>1 DEF Woken, TimesOut, Types, eventVars
  <2>2. CASE at'.main = "clear"
    BY <2>2, Clears
  <2>3. CASE at'.main # "clear"
    <3>1. /\ at'.main = "idle"
          /\ \/ Succeed /\ at.main # "disconnect"
             \/ Fail /\ at.main = "disconnect"
      BY <2>1, <2>3 DEF Succeed, Fail, Goto, MainIs, AtType
    <3>2. CASE Fail /\ at.main = "disconnect"
      <4>1. ~isconnected'
        BY <3>2 DEF Fail, MainIs
      <4>2. ~resent' => NoneLeft'
        BY <2>1, <3>2 DEF Tidy, NoneLeft
      <4> QED
        BY <3>1, <4>1, <4>2 DEF Tidy, NoEvent, Asked
    <3>3. CASE ~Fail /\ at.main # "disconnect"
      <4>1. Woken /\ count > 0 /\ count' = count - 1 /\ expected = at.main
        BY <1>1, <3>3 DEF Woken, TimesOut
      <4>2. CASE at.main = "connect"
        <5>1. expected' \notin Asked /\ (~resent' => NoneLeft')
          BY <2>1, <4>1, <4>2 DEF Tidy, NoneLeft, Asked
        <5> QED
          BY <3>1, <5>1 DEF Tidy, NoEvent, Asked
      <4>3. CASE at.main \in Asked
        <5>1. ~resent' => NoneLeft' /\ count' = 0
          BY <2>1, <4>1, <4>3 DEF Tidy, OwnEvent, NoneLeft
        <5> QED
          BY <3>1, <5>1 DEF Tidy, NoEvent, Asked
      <4> QED
        BY <2>1, <3>3, <4>2, <4>3 DEF Waiting, Requests, Asked
    <3>4. Fail => at.main = "disconnect"
      BY <2>3 DEF Fail, Goto, MainIs, AtType
    <3> QED
      BY <3>1, <3>2, <3>3, <3>4
  <2> QED
    BY <2>2, <2>3
<1>2. CASE Clear("main")
  <2>1. at'.main = "idle" /\ ~isconnected'
    BY <1>2 DEF Clear, Goto, AtType
  <2>2. NoneLeft'
    BY <1>2, HasNone DEF Clear, Disconnect, NoneLeft
  <2> QED
    BY <2>1, <2>2 DEF Tidy, NoEvent, Asked
<1> QED
  BY <1>1, <1>2 DEF MainRuns

LEMMA TidyCommand ==
  ASSUME Invariant, Tidy, Command
  PROVE  Tidy'
<1> USE DEF Invariant
<1>1. CASE Start
  <2>1. CASE at'.main = "clear"
    BY <2>1, Clears
  <2>2. CASE at'.main # "clear"
    <3>1. at'.main = "connect" /\ queue' = <<Message("connect", 0)>>
      BY <1>1, <2>2 DEF Start, Goto, AtType
    <3>2. inbox' = <<>> /\ toBroker' = <<>>
      BY <1>1 DEF Start, Connection
    <3>3. Message("connect", 0).type \notin Asked
      BY DEF Message, Asked
    <3>4. ~Has(queue', Asked)
      BY <3>1, <3>3 DEF Has
    <3> QED
      BY <3>1, <3>2, <3>4, HasNone DEF Tidy, NoEvent, NoneLeft, Asked
  <2> QED
    BY <2>1, <2>2
<1>2. ASSUME NEW request \in Asked, Ask(request)
      PROVE  Tidy'
  <2>1. CASE at'.main = "clear"
    BY <2>1, Clears
  <2>2. CASE at'.main # "clear"
    <3> SUFFICES ASSUME ~resent PROVE Tidy'
      BY <1>2 DEF Ask, historyVars, Tidy
    <3>1. at'.main = request /\ at.main = "idle" /\ Len(queue) < QueueLen
      BY <1>2, <2>2 DEF Ask, Goto, AtType, MainIs
    <3>2. NoneLeft /\ NoEvent
      BY <3>1 DEF Tidy
    <3>3. packetId' \in Ids
      BY <1>2, NextId DEF Ask, Types
    <3>4. Message(request, packetId') \in Events /\ Message(request, packetId').id = packetId'
      BY <3>3, Forms DEF Message, Asked, Requests
    <3>5. queue' = Append(queue, Message(request, packetId')) /\ queue \in Seq(Events)
      BY <1>2, <3>1 DEF Ask, Push, Types
    <3>6. Single(queue', Asked, packetId')
      BY <3>2, <3>4, <3>5, HasAppend DEF NoneLeft
    <3>7. UNCHANGED <<toBroker, inbox, count, expected>> /\ isconnected
      BY <1>2 DEF Ask, eventVars
    <3>8. OneLeft'
      BY <3>2, <3>6, <3>7 DEF OneLeft, NoneLeft, Single, Has
    <3>9. OwnEvent'
      BY <3>1, <3>2, <3>7 DEF OwnEvent, NoEvent
    <3> QED
      BY <3>1, <3>8, <3>9 DEF Tidy, NoEvent, Asked
  <2> QED
    BY <2>1, <2>2
<1>3. CASE Stop
  <2>1. Message("disconnect", 0) \in Events /\ Message("disconnect", 0).type \notin Asked
    BY ZeroIsId, Forms DEF Message, Asked, Requests
  <2>2. Less(queue, queue', Asked) /\ UNCHANGED <<toBroker, inbox, resent>> /\ at.main = "idle"
    BY <1>3, <2>1, PushLess DEF Stop, MainIs, historyVars
  <2>3. ~resent' => NoneLeft'
    BY <2>2, NoneLeftStays, Same DEF Tidy
  <2>4. at'.main = "disconnect" \/ (at'.main = "idle" /\ ~isconnected')
    BY <1>3 DEF Stop, Goto, MainIs, AtType
  <2> QED
    BY <2>3, <2>4 DEF Tidy, NoEvent, Asked
<1> QED
  BY <1>1, <1>2, <1>3 DEF Command, Asked

LEMMA TidyStep == Invariant /\ Tidy /\ [Next]_vars => Tidy'
<1> SUFFICES ASSUME Invariant, Tidy, [Next]_vars PROVE Tidy'
  OBVIOUS
<1>1. Types /\ AtType
  BY DEF Invariant
<1>2. CASE MqttMain
  BY <1>1, <1>2, QuietSending, QuietReceiving, TidySendSubscribe, TidySendPublish,
     TidyReceiveSuback DEF MqttMain
<1>3. CASE Worker
  BY <1>1, <1>3, QuietWorker DEF Worker
<1>4. CASE UNCHANGED vars
  BY <1>4, TidyQuiet, Same DEF vars, commandVars, eventVars, historyVars
<1> QED
  BY <1>1, <1>2, <1>3, <1>4, TidyCommand, TidyMainRuns, TidyBroker DEF Next

(***************************************************************************)
(* AT+MQTTSUB and AT+MQTTPUB report only what was done, although any event *)
(* raises their semaphore: a command that fails clears the connection and  *)
(* the queue, so no event of it is left for the next.                      *)
(***************************************************************************)
THEOREM MqttDoneIsAnswered == Spec => DoneIsAnswered
<1>1. Init => Tidy
  BY HasNone DEF Init, Tidy, NoneLeft, NoEvent, Asked
<1>2. ASSUME Invariant, Tidy, [Next]_vars,
             at.main \in Asked, at'.main = "idle", ~resent
      PROVE  answered
  <2>1. AtType
    BY <1>2 DEF Invariant
  <2>2. ~(UNCHANGED at) /\ at.main # "idle" /\ at.main # "clear"
    BY <1>2 DEF Asked
  <2>3. Woken \/ TimesOut
    <3>1. CASE Command
      BY <2>2, <3>1 DEF Command, Start, Ask, Stop, MainIs
    <3>2. CASE MainRuns
      BY <2>2, <3>2 DEF MainRuns, Clear
    <3>3. CASE MqttMain
      BY <2>2, <3>3 DEF MqttMain, SendConnect, SendSubscribe, SendPublish, SendDisconnect,
           BrokerGone, NothingReceived, ReceiveConnack, ReceiveSuback, ReceivePublish,
           ReceivePubrel, ReceivePingresp, Receive, Pop, commandVars
    <3>4. CASE Worker
      <4>1. at'.main = at.main
        BY <2>1, <3>4 DEF Worker, LinkDown, Clear, TickPing, TickTimeout, Goto, AtType,
                          commandVars
      <4> QED
        BY <1>2, <2>2, <4>1
    <3>5. CASE Broker
      BY <2>2, <3>5 DEF Broker, BrokerTakes, BrokerCloses, BrokerPublishes, BrokerRepeats,
                        BrokerStep, commandVars
    <3>6. CASE UNCHANGED vars
      BY <2>2, <3>6 DEF vars, commandVars
    <3> QED
      BY <1>2, <3>1, <3>2, <3>3, <3>4, <3>5, <3>6 DEF Next
  <2>4. ~Fail
    BY <1>2, <2>1 DEF Fail, Goto, MainIs, AtType, Asked
  <2>5. count > 0 /\ expected \in Asked
    BY <1>2, <2>3, <2>4 DEF Woken, TimesOut
  <2> QED
    BY <1>2, <2>5 DEF Tidy, OwnEvent
<1>3. Invariant /\ Tidy /\ [Next]_vars =>
        (at.main \in {"subscribe", "unsubscribe", "publish"} /\ at'.main = "idle"
          /\ ~resent => answered)
  BY <1>2 DEF Asked
<1> QED
  BY <1>1, <1>3, InitInvariant, StepInvariant, TidyStep, PTL DEF Spec, DoneIsAnswered
=============================================================================
