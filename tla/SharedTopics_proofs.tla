------------------------ MODULE SharedTopics_proofs ------------------------
(***************************************************************************)
(* Proofs about SharedTopics, for any number of transports, topics and     *)
(* objects and rings of any length: out of rings that are not torn a       *)
(* reader is handed each message at most once and in the order of the      *)
(* Sends, whoever is killed, destroyed or started again, and when.         *)
(***************************************************************************)
EXTENDS SharedTopics, ShmSegments_proofs

-----------------------------------------------------------------------------
(* Steps after which no transport has more open than before. *)

\* Every step of CreateOrOpenSegment and CloseSegment but the shm_open only keeps or closes
\* what is open, and keeps or unlinks what is linked.
Shrinks ==
  /\ \A u \in Transports, topic \in Topics, o \in Objects :
       At(u, topic, o)' => At(u, topic, o)
  /\ \A n \in Names : linked'[n] \in {linked[n], NoObject}
  /\ \A u \in Transports : \A s \in segments'[u] : s \in segments[u] \/ s.name = ShmName[s.topic]

\* Every step but those below only closes, unmaps or unlinks.
LEMMA FewerOpen ==
  ASSUME TypeOK, CallInv, NEW t \in Transports,
         \/ Ftruncate(t) \/ FtruncateFailed(t) \/ Mmap(t) \/ InitRing(t) \/ StoreSegment(t)
         \/ AccessFaults(t) \/ CloseSegment(t) \/ ShmUnlink(t) \/ Crash(t)
  PROVE  Shrinks
<1> USE DEF TypeOK, CallInv, Shrinks, At, Opening, Goto, Return, history
<1>1. CASE Ftruncate(t)
  BY <1>1 DEF Ftruncate
<1>2. CASE FtruncateFailed(t)
  BY <1>2 DEF FtruncateFailed
<1>3. CASE Mmap(t)
  <2>1. PICK mapped \in BOOLEAN : call' = [call EXCEPT ![t].mapped = mapped]
    BY <1>3 DEF Mmap
  <2>2. /\ call[t] \in Calls /\ call'[t].topic = call[t].topic /\ call'[t].object = call[t].object
        /\ \A u \in Transports \ {t} : call'[u] = call[u]
    BY <1>3, <2>1 DEF Mmap, Calls
  <2>3. /\ UNCHANGED <<linked, segments>> /\ pc[t] = "map"
        /\ \A u \in Transports \ {t} : pc'[u] = pc[u]
    BY <1>3 DEF Mmap
  <2> QED BY <2>2, <2>3
<1>4. CASE InitRing(t)
  BY <1>4 DEF InitRing
<1>5. CASE StoreSegment(t)
  BY <1>5 DEF StoreSegment
<1>6. CASE AccessFaults(t)
  BY <1>6 DEF AccessFaults
<1>7. CASE CloseSegment(t)
  BY <1>7 DEF CloseSegment
<1>8. CASE ShmUnlink(t)
  BY <1>8 DEF ShmUnlink
<1>9. CASE Crash(t)
  BY <1>9 DEF Crash
<1> QED BY <1>1, <1>2, <1>3, <1>4, <1>5, <1>6, <1>7, <1>8, <1>9

\* An empty queue is in order with every other.
LEMMA NothingPrecedes == \A s : Precede(<<>>, s) /\ Precede(s, <<>>)
BY DEF Precede

\* Such a step keeps the order, also if it empties rings.
LEMMA ShrinkKeepsOrder ==
  ASSUME TypeOK, RingTypeOK, OneTopicEach, OrderInv, OnceInOrder, Shrinks,
         UNCHANGED <<accepted, got>>, RingTypeOK',
         \A o \in Objects : unread'[o] \in {unread[o], <<>>}
  PROVE  OneTopicEach' /\ OrderInv' /\ OnceInOrder'
<1> USE SegmentsAssumption
<1>1. \A topic \in Topics, o \in Objects : Known(o, topic)' => Known(o, topic)
  BY DEF Shrinks, Known, Linked
<1>2. OneTopicEach'
  BY <1>1 DEF OneTopicEach, Shrinks
<1>3. OnceInOrder'
  BY DEF OnceInOrder
<1>4. ASSUME NEW topic \in Topics
      PROVE  (CountInv(topic) /\ AheadInv(topic) /\ LaterInv(topic))'
  <2>1. CountInv(topic)'
    BY <1>1 DEF OrderInv, CountInv, RingTypeOK
  <2>2. Linked(topic)' \in {Linked(topic), NoObject}
    BY DEF Shrinks, Linked
  <2>3. \A u \in Transports, o \in Objects : At(u, topic, o)' => At(u, topic, o)
    BY DEF Shrinks
  <2>4. AheadInv(topic)'
    BY <2>2, <2>3, TopicsAssumption DEF OrderInv, AheadInv, Precede, RingTypeOK
  <2>5. LaterInv(topic)'
    <3> SUFFICES ASSUME NEW o \in Objects, Linked(topic)' \in Objects \ {o}
                 PROVE  /\ At(ReaderOf[topic], topic, o)' =>
                             Precede(unread'[o], unread'[Linked(topic)'])
                        /\ At(WriterOf[topic], topic, o)' => unread'[Linked(topic)'] = <<>>
      BY DEF LaterInv, Precede
    <3>1. Linked(topic)' = Linked(topic) /\ Linked(topic) \in Objects \ {o}
      BY <2>2
    <3>2. At(ReaderOf[topic], topic, o)' => Precede(unread[o], unread[Linked(topic)])
      BY <3>1, <2>3, TopicsAssumption DEF OrderInv, LaterInv
    <3>3. At(WriterOf[topic], topic, o)' => unread[Linked(topic)] = <<>>
      BY <3>1, <2>3, TopicsAssumption DEF OrderInv, LaterInv
    <3>4. Precede(unread[o], unread[Linked(topic)]) =>
            Precede(unread'[o], unread'[Linked(topic)])
      BY <3>1, NothingPrecedes
    <3> QED BY <3>1, <3>2, <3>3, <3>4
  <2> QED BY <2>1, <2>4, <2>5
<1> QED BY <1>2, <1>3, <1>4 DEF OrderInv

\* What a transport does to its own segments leaves a Receive of another alone.
LEMMA OthersKept ==
  ASSUME TypeOK, NEW t \in Transports, NEW u \in Transports, u # t,
         \/ ShmOpen(t) \/ Ftruncate(t) \/ FtruncateFailed(t) \/ Mmap(t) \/ InitRing(t)
         \/ StoreSegment(t) \/ AccessFaults(t) \/ CloseSegment(t) \/ ShmUnlink(t) \/ Crash(t)
  PROVE  pc'[u] = pc[u] /\ segments'[u] = segments[u]
BY DEF TypeOK, Goto, Return, history, ShmOpen, Ftruncate, FtruncateFailed, Mmap, InitRing,
       StoreSegment, AccessFaults, CloseSegment, ShmUnlink, Crash

\* Calls that do not touch the ring.
LEMMA TopicKeptInv ==
  ASSUME TopicsInv, NEW t \in Transports, TopicKept(t)
  PROVE  TopicsInv'
<1> USE DEF TopicsInv
<1>0. /\ Unlocked(t) /\ UNCHANGED ring
      /\ \/ Ftruncate(t) \/ FtruncateFailed(t) \/ Mmap(t) \/ StoreSegment(t)
         \/ AccessFaults(t) \/ CloseSegment(t) \/ ShmUnlink(t)
  BY DEF TopicKept
<1>1. SegInv'
  BY <1>0, NextSegInv DEF Next
<1>2. RingTypeOK'
  BY <1>0 DEF RingTypeOK, ring
<1>3. ReadingInv'
  BY <1>0, OthersKept DEF ReadingInv, ring, Unlocked, SegInv
<1>4. Shrinks
  BY <1>0, FewerOpen DEF SegInv
<1>5. OneTopicEach' /\ OrderInv' /\ OnceInOrder'
  BY <1>0, <1>2, <1>4, ShrinkKeepsOrder DEF SegInv, ring
<1> QED BY <1>1, <1>2, <1>3, <1>5

\* A killed process is in no Receive any more.
LEMMA TopicCrashInv ==
  ASSUME TopicsInv, NEW t \in Transports, TopicCrash(t)
  PROVE  TopicsInv'
<1> USE DEF TopicsInv
<1>0. /\ Crash(t) /\ using' = [using EXCEPT ![t] = NoObject]
      /\ stored' = [stored EXCEPT ![t] = {}] /\ stale' = stale \ {t}
      /\ UNCHANGED <<unread, away, torn, accepted, got, strays>>
  BY DEF TopicCrash
<1>1. SegInv'
  BY <1>0, NextSegInv DEF Next
<1>2. RingTypeOK'
  BY <1>0 DEF RingTypeOK
<1>3. ReadingInv'
  BY <1>0, OthersKept DEF ReadingInv, RingTypeOK, Unlocked, SegInv
<1>4. Shrinks
  BY <1>0, FewerOpen DEF SegInv
<1>5. OneTopicEach' /\ OrderInv' /\ OnceInOrder'
  BY <1>0, <1>2, <1>4, ShrinkKeepsOrder DEF SegInv
<1> QED BY <1>1, <1>2, <1>3, <1>5

\* An index that Advertise resets leaves the ring as it was or empties it, whatever is in it
\* and whoever is in a Receive.
LEMMA TopicStoreInv ==
  ASSUME TopicsInv, NEW t \in Transports, TopicStore(t)
  PROVE  TopicsInv'
<1> USE DEF TopicsInv
<1> DEFINE o == call[t].object
<1>0. PICK index \in Indices :
        /\ stored' = [stored EXCEPT ![t] = @ \cup {index}]
        /\ away' = [away EXCEPT ![o] = @ \ {index}]
        /\ torn' \subseteq torn \cup {o} /\ stale' \subseteq stale \cup Transports
        /\ unread' = unread \/ unread' = [unread EXCEPT ![o] = <<>>]
        /\ UNCHANGED <<vars, using, accepted, got, strays>>
  BY DEF TopicStore, Empty
<1>1. SegInv'
  BY <1>0, NextSegInv
<1>2. o \in Objects
  <2>1. Opening(t)
    BY DEF TopicStore, Opening
  <2> QED BY <2>1 DEF SegInv, TypeOK, Calls
<1> HIDE DEF o
<1>3. RingTypeOK'
  <2>1. <<>> \in Seq(Numbers)
    OBVIOUS
  <2>2. unread' \in [Objects -> Seq(Numbers)] /\ torn' \subseteq Objects
    BY <1>0, <1>2, <2>1 DEF RingTypeOK
  <2>3. away' \in [Objects -> SUBSET Indices] /\ stored' \in [Transports -> SUBSET Indices]
    BY <1>0, <1>2 DEF RingTypeOK
  <2> QED BY <1>0, <2>2, <2>3 DEF RingTypeOK
<1>4. ReadingInv'
  BY <1>0 DEF ReadingInv, Unlocked, vars
<1>5. Shrinks
  BY <1>0 DEF Shrinks, At, Opening, OneTopicEach, vars
<1>6. \A p \in Objects : unread'[p] \in {unread[p], <<>>}
  BY <1>0 DEF RingTypeOK
<1>7. OneTopicEach' /\ OrderInv' /\ OnceInOrder'
  BY <1>0, <1>3, <1>5, <1>6, ShrinkKeepsOrder DEF SegInv
<1> QED BY <1>1, <1>3, <1>4, <1>7

\* The end of the stores changes no ring.
LEMMA TopicInitRingInv ==
  ASSUME TopicsInv, NEW t \in Transports, TopicInitRing(t)
  PROVE  TopicsInv'
<1> USE DEF TopicsInv
<1>0. /\ InitRing(t) /\ stored' = [stored EXCEPT ![t] = {}]
      /\ UNCHANGED <<unread, away, torn, using, stale, accepted, got, strays>>
  BY DEF TopicInitRing
<1>1. SegInv'
  BY <1>0, NextSegInv DEF Next
<1>2. RingTypeOK'
  BY <1>0 DEF RingTypeOK
<1>3. ReadingInv'
  <2>1. pc[t] = "init" /\ UNCHANGED segments
    BY <1>0 DEF InitRing, Goto
  <2> QED BY <1>0, <2>1, OthersKept DEF ReadingInv, Unlocked, SegInv
<1>4. Shrinks
  BY <1>0, FewerOpen DEF SegInv
<1>5. OneTopicEach' /\ OrderInv' /\ OnceInOrder'
  BY <1>0, <1>2, <1>4, ShrinkKeepsOrder DEF SegInv
<1> QED BY <1>1, <1>2, <1>3, <1>5

\* Nothing but the reader's own step changes.
LEMMA ReceiveBeginInv ==
  ASSUME TopicsInv, NEW t \in Transports, ReceiveBegin(t)
  PROVE  TopicsInv'
<1> USE DEF TopicsInv
<1>0. PICK s \in segments[t] :
        /\ t = ReaderOf[s.topic] /\ using' = [using EXCEPT ![t] = s.object]
        /\ pc[t] = "idle"
        /\ UNCHANGED <<vars, unread, away, torn, stored, stale, accepted, got, strays>>
  BY DEF ReceiveBegin
<1>1. SegInv'
  BY <1>0, NextSegInv
<1>2. RingTypeOK'
  BY <1>0 DEF RingTypeOK, SegInv, TypeOK, Segments
<1>3. ReadingInv'
  BY <1>0 DEF ReadingInv, Unlocked, RingTypeOK, vars
<1>4. Shrinks
  BY <1>0 DEF Shrinks, At, Opening, vars
<1>5. OneTopicEach' /\ OrderInv' /\ OnceInOrder'
  BY <1>0, <1>2, <1>4, ShrinkKeepsOrder DEF SegInv
<1> QED BY <1>1, <1>2, <1>3, <1>5

-----------------------------------------------------------------------------
(* Steps that put a message in or take one out. *)

\* What Append and Tail make of a sequence of numbers.
LEMMA AppendElements ==
  ASSUME NEW q \in Seq(Numbers), NEW k \in Numbers
  PROVE  /\ Append(q, k) \in Seq(Numbers) /\ Len(Append(q, k)) = Len(q) + 1
         /\ \A i \in 1 .. Len(q) : Append(q, k)[i] = q[i]
         /\ Append(q, k)[Len(q) + 1] = k
OBVIOUS

\* What is left of a queue when its first element is taken.
LEMMA TailElements ==
  ASSUME NEW q \in Seq(Numbers), q # <<>>
  PROVE  /\ Tail(q) \in Seq(Numbers) /\ Len(Tail(q)) = Len(q) - 1 /\ Len(q) \in Nat \ {0}
         /\ Head(q) = q[1] /\ 1 \in 1 .. Len(q)
         /\ \A i \in 1 .. Len(Tail(q)) : Tail(q)[i] = q[i + 1]
OBVIOUS

\* The elements of a queue of numbers.
LEMMA ElementsAreNumbers ==
  ASSUME NEW q \in Seq(Numbers)
  PROVE  Len(q) \in Nat /\ \A i \in 1 .. Len(q) : q[i] \in Numbers /\ q[i] \in Nat
BY DEF Numbers

\* A transport in no call has one object per topic.
LEMMA OneObjectAt ==
  ASSUME TypeOK, NEW t \in Transports, NEW s \in segments[t], NEW o \in Objects,
         pc[t] = "idle", At(t, s.topic, o)
  PROVE  o = s.object
BY DEF TypeOK, At, Opening

\* An object is used for one topic: what happens to the ring of one leaves the order of the
\* others' messages alone.
LEMMA OtherTopics ==
  ASSUME TypeOK, OrderInv, NEW topic \in Topics, NEW o \in Objects, ~Known(o, topic),
         UNCHANGED <<vars, accepted[topic], got[topic]>>,
         \A p \in Objects \ {o} : unread'[p] = unread[p]
  PROVE  (CountInv(topic) /\ AheadInv(topic) /\ LaterInv(topic))'
<1> USE DEF vars
<1>1. /\ \A t \in Transports, p \in Objects : At(t, topic, p)' = At(t, topic, p)
      /\ Linked(topic)' = Linked(topic)
      /\ \A p \in Objects : Known(p, topic)' = Known(p, topic)
  BY DEF At, Opening, Linked, Known
<1>2. /\ Linked(topic) # o
      /\ \A t \in Transports : ~At(t, topic, o)
  BY DEF Known
<1>3. CountInv(topic) /\ AheadInv(topic) /\ LaterInv(topic)
  BY DEF OrderInv
<1>4. CountInv(topic)'
  BY <1>1, <1>3 DEF CountInv
<1>5. AheadInv(topic)'
  BY <1>1, <1>2, <1>3, TopicsAssumption DEF AheadInv, Precede
<1>6. LaterInv(topic)'
  BY <1>1, <1>2, <1>3, TopicsAssumption DEF LaterInv, Precede
<1> QED BY <1>4, <1>5, <1>6

\* A Send appends a message with the next number.
LEMMA SendInv ==
  ASSUME TopicsInv, NEW t \in Transports, Send(t)
  PROVE  TopicsInv'
<1> USE DEF TopicsInv
<1>0. PICK s \in segments[t] :
        /\ pc[t] = "idle" /\ t = WriterOf[s.topic]
        /\ accepted' = [accepted EXCEPT ![s.topic] = Append(@, s.object)]
        /\ \/ unread' = unread
           \/ unread' = [unread EXCEPT ![s.object] = Append(@, Len(accepted[s.topic]) + 1)]
        /\ away' = [away EXCEPT ![s.object] = @ \cup {"write_index"}]
        /\ UNCHANGED <<vars, torn, stored, using, stale, got, strays>>
  BY DEF Send
<1> DEFINE topic == s.topic
           o     == s.object
           k     == Len(accepted[topic]) + 1
<1>1. topic \in Topics /\ o \in Objects /\ At(t, topic, o) /\ Known(o, topic)
  BY DEF SegInv, TypeOK, Segments, At, Known
<1>2. SegInv'
  BY <1>0, NextSegInv
<1>3. RingTypeOK'
  <2>1. /\ accepted[topic] \in Seq(Objects) /\ Append(accepted[topic], o) \in Seq(Objects)
        /\ k \in Numbers
    BY <1>1 DEF RingTypeOK, Numbers
  <2>2. Append(unread[o], k) \in Seq(Numbers)
    BY <2>1, <1>1, AppendElements DEF RingTypeOK
  <2> HIDE DEF k
  <2>3. unread' \in [Objects -> Seq(Numbers)]
    BY <1>0, <1>1, <2>2 DEF RingTypeOK, k
  <2>4. accepted' \in [Topics -> Seq(Objects)]
    BY <1>0, <1>1, <2>1 DEF RingTypeOK
  <2>5. away' \in [Objects -> SUBSET Indices]
    BY <1>0, <1>1 DEF RingTypeOK, Indices
  <2> QED BY <1>0, <2>3, <2>4, <2>5 DEF RingTypeOK
<1>4. ReadingInv' /\ OneTopicEach' /\ OnceInOrder'
  BY <1>0 DEF ReadingInv, Unlocked, OneTopicEach, OnceInOrder, Known, Linked, At, Opening, vars
<1>5. CountInv(topic) /\ AheadInv(topic) /\ LaterInv(topic)
  BY <1>1 DEF OrderInv
<1>6. /\ \A u \in Transports, p \in Objects : At(u, topic, p)' = At(u, topic, p)
      /\ Linked(topic)' = Linked(topic)
      /\ \A p \in Objects : Known(p, topic)' = Known(p, topic)
      /\ \A u \in Transports, p \in Objects : At(u, topic, p) => Known(p, topic)
  BY <1>0 DEF At, Opening, Linked, Known, vars
<1>7. Len(accepted'[topic]) = k /\ k = Len(accepted[topic]) + 1 /\ k \in Nat
  BY <1>0, <1>1 DEF RingTypeOK
<1>8. /\ got' = got /\ got[topic] \in Seq(Numbers)
      /\ \A p \in Objects : unread[p] \in Seq(Numbers) /\ (p # o => unread'[p] = unread[p])
      /\ unread'[o] \in {unread[o], Append(unread[o], k)}
  BY <1>0, <1>1 DEF RingTypeOK
<1>9. \A i \in 1 .. Len(unread'[o]) :
         unread'[o][i] = k \/ (i \in 1 .. Len(unread[o]) /\ unread'[o][i] = unread[o][i])
  <2>1. CASE unread'[o] = unread[o]
    BY <2>1
  <2>2. CASE unread'[o] = Append(unread[o], k)
    BY <2>2, <1>1, <1>7, <1>8, AppendElements, ElementsAreNumbers
  <2> QED BY <2>1, <2>2, <1>8
<1>10. \A i, j \in 1 .. Len(unread'[o]) :
         i < j => i \in 1 .. Len(unread[o]) /\ unread'[o][i] = unread[o][i]
  <2>1. CASE unread'[o] = unread[o]
    BY <2>1, <1>1, <1>8, ElementsAreNumbers
  <2>2. CASE unread'[o] = Append(unread[o], k)
    BY <2>2, <1>1, <1>7, <1>8, AppendElements, ElementsAreNumbers
  <2> QED BY <2>1, <2>2, <1>8
<1>a. /\ \A p \in Objects : \A i \in 1 .. Len(unread[p]) : unread[p][i] \in Nat
      /\ \A i \in 1 .. Len(got[topic]) : got[topic][i] \in Nat
      /\ Len(accepted[topic]) \in Nat
  BY <1>1, <1>8, ElementsAreNumbers DEF RingTypeOK
<1> HIDE DEF topic, o, k
<1>b. /\ \A p \in Objects : Known(p, topic) =>
           /\ \A i \in 1 .. Len(unread[p]) : unread[p][i] < k
           /\ \A i, j \in 1 .. Len(unread[p]) : i < j => unread[p][i] < unread[p][j]
      /\ \A i \in 1 .. Len(got[topic]) : got[topic][i] < k
  <2>1. CountInv(topic)
    BY <1>5
  <2>2. \A n \in Nat : n <= Len(accepted[topic]) => n < k
    BY <1>7, <1>a
  <2>3. ASSUME NEW p \in Objects, Known(p, topic), NEW i \in 1 .. Len(unread[p])
        PROVE  unread[p][i] < k
    <3>1. unread[p][i] <= Len(accepted[topic])
      BY <2>1, <2>3 DEF CountInv
    <3>2. unread[p][i] \in Nat
      BY <1>a
    <3> QED BY <3>1, <3>2, <2>2
  <2>4. ASSUME NEW i \in 1 .. Len(got[topic])
        PROVE  got[topic][i] < k
    <3>1. got[topic][i] <= Len(accepted[topic])
      BY <2>1 DEF CountInv
    <3> QED BY <3>1, <1>a, <2>2
  <2> QED BY <2>1, <2>3, <2>4 DEF CountInv
<1>11. CountInv(topic)'
  <2>1. ASSUME NEW i \in 1 .. Len(got[topic])
        PROVE  got'[topic][i] <= k
    <3>1. got[topic][i] < k /\ got[topic][i] \in Nat /\ got'[topic][i] = got[topic][i]
      BY <1>b, <1>a, <1>8
    <3> QED BY <3>1, <1>7
  <2>2. ASSUME NEW p \in Objects, Known(p, topic), NEW i \in 1 .. Len(unread'[p]),
               NEW j \in 1 .. Len(unread'[p])
        PROVE  unread'[p][i] <= k /\ (i < j => unread'[p][i] < unread'[p][j])
    <3>1. CASE p # o
      <4>1. unread'[p] = unread[p]
        BY <3>1, <1>8
      <4>2. unread[p][i] < k /\ unread[p][i] \in Nat
        BY <2>2, <4>1, <1>a, <1>b
      <4>3. i < j => unread[p][i] < unread[p][j]
        BY <2>2, <4>1, <1>b
      <4> QED BY <4>1, <4>2, <4>3, <1>7
    <3>2. CASE p = o
      <4>1. unread'[o][i] = k \/ (i \in 1 .. Len(unread[o]) /\ unread'[o][i] = unread[o][i])
        BY <3>2, <1>9
      <4>2. unread'[o][j] = k \/ (j \in 1 .. Len(unread[o]) /\ unread'[o][j] = unread[o][j])
        BY <3>2, <1>9
      <4>3. i < j => i \in 1 .. Len(unread[o]) /\ unread'[o][i] = unread[o][i]
        BY <3>2, <1>10
      <4>4. \A m \in 1 .. Len(unread[o]) : unread[o][m] < k /\ unread[o][m] \in Nat
        BY <1>1, <1>a, <1>b
      <4>5. \A l, m \in 1 .. Len(unread[o]) : l < m => unread[o][l] < unread[o][m]
        BY <1>1, <1>b
      <4> QED BY <3>2, <4>1, <4>2, <4>3, <4>4, <4>5, <1>7
    <3> QED BY <3>1, <3>2
  <2> QED BY <2>1, <2>2, <1>6, <1>7, <1>8, <1>a DEF CountInv
<1>12. AheadInv(topic)'
  <2> SUFFICES ASSUME NEW p \in Objects, p = Linked(topic) \/ At(ReaderOf[topic], topic, p)
               PROVE  Precede(got[topic], unread'[p])
    BY <1>1, <1>6, <1>8, TopicsAssumption DEF AheadInv, Precede
  <2>1. CASE p # o
    BY <2>1, <1>5, <1>8 DEF AheadInv
  <2>2. CASE p = o
    <3>1. Precede(got[topic], unread[o])
      BY <2>2, <1>1, <1>5 DEF AheadInv
    <3> QED BY <2>2, <3>1, <1>9, <1>b DEF Precede
  <2> QED BY <2>1, <2>2
<1>13. LaterInv(topic)'
  <2> SUFFICES ASSUME NEW p \in Objects, Linked(topic) \in Objects \ {p}
               PROVE  /\ At(ReaderOf[topic], topic, p) =>
                           Precede(unread'[p], unread'[Linked(topic)])
                      /\ At(WriterOf[topic], topic, p) => unread'[Linked(topic)] = <<>>
    BY <1>1, <1>6, TopicsAssumption DEF LaterInv, Precede
  <2>1. CASE o = Linked(topic)
    <3>1. ~At(WriterOf[topic], topic, p)
      BY <2>1, <1>0, OneObjectAt DEF SegInv, topic, o
    <3>2. ASSUME At(ReaderOf[topic], topic, p)
          PROVE  Precede(unread'[p], unread'[o])
      <4>1. Precede(unread[p], unread[o]) /\ p # o /\ Known(p, topic)
        BY <2>1, <3>2, <1>1, <1>5, <1>6, TopicsAssumption DEF LaterInv
      <4>2. unread'[p] = unread[p]
        BY <4>1, <1>8
      <4> QED BY <4>1, <4>2, <1>9, <1>b DEF Precede
    <3> QED BY <2>1, <3>1, <3>2
  <2>2. CASE o # Linked(topic)
    <3>1. unread'[Linked(topic)] = unread[Linked(topic)]
      BY <2>2, <1>8
    <3>2. CASE p = o
      <4>1. unread[Linked(topic)] = <<>>
        BY <3>2, <2>2, <1>0, <1>1, <1>5 DEF LaterInv, topic
      <4> QED BY <4>1, <3>1, NothingPrecedes
    <3>3. CASE p # o
      BY <3>1, <3>3, <1>5, <1>8 DEF LaterInv
    <3> QED BY <3>2, <3>3
  <2> QED BY <2>1, <2>2
<1>14. ASSUME NEW other \in Topics, other # topic
       PROVE  (CountInv(other) /\ AheadInv(other) /\ LaterInv(other))'
  <2>1. ~Known(o, other)
    BY <1>1, <1>14 DEF OneTopicEach
  <2>2. UNCHANGED <<vars, accepted[other], got[other]>>
    BY <1>0, <1>14 DEF topic, RingTypeOK
  <2> QED BY <2>1, <2>2, <1>1, <1>8, OtherTopics DEF SegInv
<1> QED BY <1>2, <1>3, <1>4, <1>11, <1>12, <1>13, <1>14 DEF OrderInv

\* A Receive takes the oldest message, or nothing, or what is in a torn ring.
LEMMA ReceiveEndInv ==
  ASSUME TopicsInv, NEW t \in Transports, ReceiveEnd(t)
  PROVE  TopicsInv'
<1> USE DEF TopicsInv
<1>0. PICK s \in segments[t] :
        /\ s.object = using[t] /\ ~Unlocked(t)
        /\ using' = [using EXCEPT ![t] = NoObject]
        /\ \/ /\ unread' = unread \/ unread' = [unread EXCEPT ![s.object] = <<>>]
              /\ got' = got
           \/ /\ unread[s.object] # <<>>
              /\ unread' = [unread EXCEPT ![s.object] = Tail(@)]
              /\ got' = [got EXCEPT ![s.topic] = Append(@, Head(unread[s.object]))]
        /\ away' = away \/ away' = [away EXCEPT ![s.object] = @ \cup {"read_index"}]
        /\ torn' \subseteq torn \cup {s.object} /\ stale' \subseteq stale
        /\ strays' \subseteq strays \cup {s.topic}
        /\ UNCHANGED <<vars, stored, accepted>>
  <2>1. CASE ReceiveNothing(t)
    BY <2>1 DEF ReceiveNothing, Ending
  <2>2. CASE ReceiveOldest(t)
    BY <2>2 DEF ReceiveOldest, Ending
  <2>3. CASE ReceiveStray(t)
    <3>1. PICK s \in segments[t] :
            /\ Ending(t, s) /\ Empty(s.object) /\ torn' = torn \cup {s.object}
            /\ away' = [away EXCEPT ![s.object] = @ \cup {"read_index"}]
            /\ strays' \in {strays, strays \cup {s.topic}}
      BY <2>3 DEF ReceiveStray
    <3>2. got' = got
      BY <2>3 DEF ReceiveStray
    <3> QED BY <3>1, <3>2 DEF Ending, Empty
  <2> QED BY <2>1, <2>2, <2>3 DEF ReceiveEnd
<1> DEFINE topic == s.topic
           o     == s.object
           head  == Head(unread[o])
<1>1. topic \in Topics /\ o \in Objects /\ At(t, topic, o) /\ Known(o, topic)
  BY DEF SegInv, TypeOK, Segments, At, Known
<1>2. SegInv'
  BY <1>0, NextSegInv
<1>3. pc[t] = "idle" /\ t = ReaderOf[topic]
  <2>1. PICK s2 \in segments[t] : s2.object = o /\ t = ReaderOf[s2.topic] /\ pc[t] = "idle"
    BY <1>0 DEF ReadingInv
  <2>2. s2.topic \in Topics /\ Known(o, s2.topic)
    BY <2>1 DEF SegInv, TypeOK, Segments, At, Known
  <2> QED BY <1>1, <2>1, <2>2 DEF OneTopicEach
<1>4. ReadingInv'
  BY <1>0 DEF ReadingInv, Unlocked, RingTypeOK, vars
<1>5. OneTopicEach'
  BY <1>0 DEF OneTopicEach, Known, Linked, At, Opening, vars
<1>6. /\ \A u \in Transports, p \in Objects, tp \in Topics : At(u, tp, p)' = At(u, tp, p)
      /\ \A tp \in Topics : Linked(tp)' = Linked(tp)
      /\ \A tp \in Topics, p \in Objects : Known(p, tp)' = Known(p, tp)
  BY <1>0 DEF At, Opening, Linked, Known, vars
<1>s. /\ away' \in [Objects -> SUBSET Indices] /\ torn' \subseteq Objects
      /\ stored' \in [Transports -> SUBSET Indices]
      /\ using' \in [Transports -> Objects \cup {NoObject}] /\ stale' \subseteq Transports
      /\ strays' \subseteq Topics /\ accepted' \in [Topics -> Seq(Objects)]
  <2>1. away' \in [Objects -> SUBSET Indices]
    <3>1. away \in [Objects -> SUBSET Indices]
      BY DEF RingTypeOK
    <3>2. away[o] \cup {"read_index"} \in SUBSET Indices
      BY <1>1, <3>1 DEF Indices
    <3>3. away' = away \/ away' = [away EXCEPT ![o] = away[o] \cup {"read_index"}]
      BY <1>0
    <3> QED BY <1>1, <3>1, <3>2, <3>3
  <2>2. torn' \subseteq Objects /\ stale' \subseteq Transports /\ strays' \subseteq Topics
    BY <1>0, <1>1 DEF RingTypeOK
  <2>3. using' \in [Transports -> Objects \cup {NoObject}]
    BY <1>0 DEF RingTypeOK
  <2>4. stored' = stored /\ accepted' = accepted
    BY <1>0
  <2>5. stored' \in [Transports -> SUBSET Indices] /\ accepted' \in [Topics -> Seq(Objects)]
    BY <2>4 DEF RingTypeOK
  <2> HIDE DEF TopicsInv
  <2> QED BY <2>1, <2>2, <2>3, <2>5
<1>7. CASE /\ unread' = unread \/ unread' = [unread EXCEPT ![o] = <<>>]
           /\ got' = got
  <2>1. RingTypeOK'
    <3>0. <<>> \in Seq(Numbers)
      OBVIOUS
    <3>1. unread' \in [Objects -> Seq(Numbers)]
      BY <1>1, <1>7, <3>0 DEF RingTypeOK
    <3>2. got' \in [Topics -> Seq(Numbers)]
      BY <1>7 DEF RingTypeOK
    <3> QED BY <1>s, <3>1, <3>2 DEF RingTypeOK
  <2>2. Shrinks
    BY <1>0 DEF Shrinks, At, Opening, vars
  <2>3. \A p \in Objects : unread'[p] \in {unread[p], <<>>}
    BY <1>7 DEF RingTypeOK
  <2> QED BY <1>0, <1>2, <1>4, <1>7, <2>1, <2>2, <2>3, ShrinkKeepsOrder DEF SegInv
<1>8. CASE /\ unread[o] # <<>> /\ unread' = [unread EXCEPT ![o] = Tail(@)]
           /\ got' = [got EXCEPT ![topic] = Append(@, head)]
  <2> HIDE DEF topic, o
  <2>1. unread[o] \in Seq(Numbers) /\ got[topic] \in Seq(Numbers)
    BY <1>1 DEF RingTypeOK
  <2>2. /\ Tail(unread[o]) \in Seq(Numbers) /\ Len(Tail(unread[o])) = Len(unread[o]) - 1
        /\ Len(unread[o]) \in Nat \ {0} /\ head = unread[o][1] /\ head \in Nat
        /\ \A i \in 1 .. Len(Tail(unread[o])) : Tail(unread[o])[i] = unread[o][i + 1]
    BY <2>1, <1>8, TailElements, ElementsAreNumbers
  <2> HIDE DEF head
  <2>3. /\ unread'[o] = Tail(unread[o])
        /\ \A p \in Objects \ {o} : unread'[p] = unread[p]
    BY <1>1, <1>8 DEF RingTypeOK
  <2>4. /\ got'[topic] = Append(got[topic], head)
        /\ \A other \in Topics \ {topic} : got'[other] = got[other]
    BY <1>1, <1>8 DEF RingTypeOK
  <2>5. /\ Append(got[topic], head) \in Seq(Numbers) /\ Len(got'[topic]) = Len(got[topic]) + 1
        /\ \A i \in 1 .. Len(got[topic]) : got'[topic][i] = got[topic][i]
        /\ got'[topic][Len(got[topic]) + 1] = head
        /\ Len(got[topic]) \in Nat /\ \A i \in 1 .. Len(got[topic]) : got[topic][i] \in Nat
    BY <2>1, <2>2, <2>4, AppendElements, ElementsAreNumbers
  <2>6. RingTypeOK'
    <3>1. unread' \in [Objects -> Seq(Numbers)] /\ got' \in [Topics -> Seq(Numbers)]
      BY <1>1, <1>8, <2>2, <2>5 DEF RingTypeOK
    <3> QED BY <1>s, <3>1 DEF RingTypeOK
  <2>7. CountInv(topic) /\ AheadInv(topic) /\ LaterInv(topic)
    BY <1>1 DEF OrderInv
  \* Everything got before is earlier than the message taken, everything left is later.
  <2>8. \A i \in 1 .. Len(got[topic]) : got[topic][i] < head
    BY <1>1, <1>3, <2>2, <2>7 DEF AheadInv, Precede
  <2>9. \A j \in 1 .. Len(unread'[o]) : head < unread'[o][j]
    BY <1>1, <2>2, <2>3, <2>7 DEF CountInv
  <2>10. \A i \in 1 .. Len(got'[topic]) :
           got'[topic][i] = head \/ (i \in 1 .. Len(got[topic]) /\ got'[topic][i] = got[topic][i])
    BY <2>5
  <2>11. OnceInOrder'
    <3> SUFFICES ASSUME NEW tp \in Topics, NEW i \in 1 .. Len(got'[tp]),
                        NEW j \in 1 .. Len(got'[tp]), i < j
                 PROVE  got'[tp][i] < got'[tp][j]
      BY DEF OnceInOrder
    <3>1. CASE tp # topic
      BY <2>4, <3>1 DEF OnceInOrder
    <3>2. CASE tp = topic
      <4>1. i \in 1 .. Len(got[topic]) /\ got'[topic][i] = got[topic][i]
        BY SMTT(20), <2>5, <3>2
      <4>2. CASE j \in 1 .. Len(got[topic])
        BY <1>1, <2>5, <3>2, <4>1, <4>2 DEF OnceInOrder
      <4>3. CASE got'[topic][j] = head
        BY <2>8, <3>2, <4>1, <4>3
      <4> QED BY <2>10, <3>2, <4>2, <4>3
    <3> QED BY <3>1, <3>2
  <2>12. CountInv(topic)'
    <3>1. ASSUME NEW i \in 1 .. Len(got'[topic])
          PROVE  got'[topic][i] <= Len(accepted[topic])
      <4>1. head <= Len(accepted[topic])
        BY <1>1, <2>2, <2>7 DEF CountInv
      <4> QED BY <2>7, <2>10, <4>1 DEF CountInv
    <3>2. ASSUME NEW p \in Objects, Known(p, topic), NEW i \in 1 .. Len(unread'[p]),
                 NEW j \in 1 .. Len(unread'[p])
          PROVE  /\ unread'[p][i] <= Len(accepted[topic])
                 /\ i < j => unread'[p][i] < unread'[p][j]
      <4>1. CASE p # o
        BY <2>3, <2>7, <3>2, <4>1 DEF CountInv
      <4>2. CASE p = o
        <5>1. /\ i + 1 \in 1 .. Len(unread[o]) /\ unread'[o][i] = unread[o][i + 1]
              /\ j + 1 \in 1 .. Len(unread[o]) /\ unread'[o][j] = unread[o][j + 1]
              /\ i < j => i + 1 < j + 1
          <6>1. i \in 1 .. Len(Tail(unread[o])) /\ j \in 1 .. Len(Tail(unread[o]))
            BY <2>3, <4>2
          <6>2. \A l \in 1 .. Len(Tail(unread[o])) :
                   l + 1 \in 1 .. Len(unread[o]) /\ Tail(unread[o])[l] = unread[o][l + 1]
            BY <2>2
          <6> QED BY <2>3, <6>1, <6>2
        <5>2. \A l, m \in 1 .. Len(unread[o]) :
                 unread[o][l] <= Len(accepted[topic]) /\ (l < m => unread[o][l] < unread[o][m])
          BY <1>1, <2>7 DEF CountInv
        <5>3. unread[o][i + 1] <= Len(accepted[topic])
          BY <5>1, <5>2
        <5>4. i < j => unread[o][i + 1] < unread[o][j + 1]
          BY <5>1, <5>2
        <5> QED BY <4>2, <5>1, <5>3, <5>4
      <4> QED BY <4>1, <4>2
    <3> QED BY <1>0, <1>6, <3>1, <3>2, <1>1 DEF CountInv
  <2>13. AheadInv(topic)'
    <3> SUFFICES ASSUME NEW p \in Objects, p = Linked(topic) \/ At(ReaderOf[topic], topic, p)
                 PROVE  Precede(got'[topic], unread'[p])
      BY <1>1, <1>6, TopicsAssumption DEF AheadInv, Precede
    <3>1. CASE p = o
      <4>1. \A j \in 1 .. Len(unread'[o]) : unread'[o][j] = unread[o][j + 1]
                                          /\ j + 1 \in 1 .. Len(unread[o])
        BY <2>2, <2>3
      <4>2. \A i \in 1 .. Len(got[topic]), j \in 1 .. Len(unread'[o]) :
               got[topic][i] < unread'[o][j]
        BY <1>1, <1>3, <2>7, <4>1 DEF AheadInv, Precede
      <4> QED BY <2>9, <2>10, <3>1, <4>2 DEF Precede
    <3>2. CASE p # o
      <4>1. p = Linked(topic)
        BY <1>3, <3>2, OneObjectAt DEF SegInv, topic, o
      <4>2. Precede(unread[o], unread[p])
        BY <1>1, <1>3, <2>7, <3>2, <4>1 DEF LaterInv
      <4>3. Precede(got[topic], unread[p])
        BY <2>7, <4>1 DEF AheadInv
      <4>4. \A j \in 1 .. Len(unread[p]) : head < unread[p][j]
        BY <2>2, <4>2 DEF Precede
      <4> QED BY <2>3, <2>10, <3>2, <4>3, <4>4 DEF Precede
    <3> QED BY <3>1, <3>2
  <2>14. LaterInv(topic)'
    <3> SUFFICES ASSUME NEW p \in Objects, Linked(topic) \in Objects \ {p}
                 PROVE  /\ At(ReaderOf[topic], topic, p) =>
                             Precede(unread'[p], unread'[Linked(topic)])
                        /\ At(WriterOf[topic], topic, p) => unread'[Linked(topic)] = <<>>
      BY <1>1, <1>6, TopicsAssumption DEF LaterInv, Precede
    <3>1. CASE o = Linked(topic)
      <4>1. ~At(ReaderOf[topic], topic, p)
        BY <1>3, <3>1, OneObjectAt DEF SegInv, topic, o
      <4>2. ~At(WriterOf[topic], topic, p)
        BY <1>8, <2>7, <3>1 DEF LaterInv
      <4> QED BY <4>1, <4>2
    <3>2. CASE o # Linked(topic)
      <4>1. unread'[Linked(topic)] = unread[Linked(topic)]
        BY <2>3, <3>2
      <4>2. CASE p # o
        BY <2>3, <2>7, <4>1, <4>2 DEF LaterInv
      <4>3. CASE p = o
        <5>1. Precede(unread[o], unread[Linked(topic)])
          BY <1>1, <1>3, <2>7, <3>2, <4>3 DEF LaterInv
        <5>2. Precede(Tail(unread[o]), unread[Linked(topic)])
          <6>1. \A i \in 1 .. Len(Tail(unread[o])) :
                   i + 1 \in 1 .. Len(unread[o]) /\ Tail(unread[o])[i] = unread[o][i + 1]
            BY <2>2
          <6> QED BY <5>1, <6>1 DEF Precede
        <5>3. At(WriterOf[topic], topic, o) => unread[Linked(topic)] = <<>>
          BY <1>1, <2>7, <3>2 DEF LaterInv
        <5> QED BY <2>3, <4>1, <4>3, <5>2, <5>3
      <4> QED BY <4>2, <4>3
    <3> QED BY <3>1, <3>2
  <2>15. ASSUME NEW other \in Topics, other # topic
         PROVE  (CountInv(other) /\ AheadInv(other) /\ LaterInv(other))'
    <3>1. ~Known(o, other)
      BY <1>1, <2>15 DEF OneTopicEach
    <3>2. UNCHANGED <<vars, accepted[other], got[other]>>
      BY <1>0, <2>4, <2>15
    <3> QED BY <3>1, <3>2, <1>1, <2>3, OtherTopics DEF SegInv
  <2> QED BY <1>2, <1>4, <1>5, <2>6, <2>11, <2>12, <2>13, <2>14, <2>15 DEF OrderInv
<1> QED BY <1>0, <1>7, <1>8

-----------------------------------------------------------------------------
(* Advertise and Subscribe. *)

\* Who opens an object that is there finds it under the name; a new one is empty, and no
\* other topic's.
LEMMA TopicOpenInv ==
  ASSUME TopicsInv, NEW t \in Transports, TopicOpen(t)
  PROVE  TopicsInv'
<1> USE DEF TopicsInv
<1>1. SegInv'
  BY NextSegInv DEF TopicOpen, Next
<1>0. PICK topic \in Topics, o \in Objects :
        /\ call'[t] \in Calls /\ call'[t].topic = topic /\ call'[t].object = o
        /\ \/ o = linked[ShmName[topic]] /\ linked' = linked
           \/ /\ linked[ShmName[topic]] = NoObject /\ o \notin InUse
              /\ linked' = [linked EXCEPT ![ShmName[topic]] = o]
        /\ pc[t] = "idle" /\ pc'[t] = "truncate" /\ UNCHANGED segments
        /\ \A u \in Transports \ {t} : pc'[u] = pc[u] /\ call'[u] = call[u]
  <2>1. PICK topic \in Topics, advertise \in BOOLEAN, o \in Objects :
          /\ \/ o = linked[ShmName[topic]] /\ linked' = linked
             \/ /\ linked[ShmName[topic]] = NoObject /\ o \notin InUse
                /\ linked' = [linked EXCEPT ![ShmName[topic]] = o]
          /\ call' = [call EXCEPT ![t] = [topic |-> topic, advertise |-> advertise,
                                          object |-> o, mapped |-> FALSE]]
          /\ Goto(t, "idle", "truncate") /\ UNCHANGED segments
    BY DEF TopicOpen, ShmOpen
  <2>2. /\ call \in [Transports -> {NoCall} \cup Calls \cup [name : Names]]
        /\ pc \in [Transports -> Steps]
    BY DEF SegInv, CallInv, TypeOK
  <2>3. call'[t] = [topic |-> topic, advertise |-> advertise, object |-> o, mapped |-> FALSE]
    BY <2>1, <2>2
  <2>4. \A u \in Transports \ {t} : pc'[u] = pc[u] /\ call'[u] = call[u]
    BY <2>1, <2>2 DEF Goto
  <2>5. pc[t] = "idle" /\ pc'[t] = "truncate"
    BY <2>1, <2>2 DEF Goto
  <2>6. call'[t] \in Calls /\ call'[t].topic = topic /\ call'[t].object = o
    BY <2>3 DEF Calls
  <2> QED BY <2>1, <2>4, <2>5, <2>6
<1>2. /\ IF o \in InUse THEN UNCHANGED <<unread, away, torn, dropped>>
         ELSE /\ unread' = [unread EXCEPT ![o] = <<>>]
              /\ torn' = torn \ {o} /\ away' = [away EXCEPT ![o] = {}]
      /\ UNCHANGED <<stored, using, stale, accepted, got, strays>>
  BY <1>0 DEF TopicOpen, Empty
<1>3. RingTypeOK'
  <2>1. <<>> \in Seq(Numbers)
    OBVIOUS
  <2>2. unread' \in [Objects -> Seq(Numbers)] /\ torn' \subseteq Objects
        /\ away' \in [Objects -> SUBSET Indices]
    BY <1>2, <2>1 DEF RingTypeOK
  <2> QED BY <1>2, <2>2 DEF RingTypeOK
<1>4. ReadingInv'
  BY <1>0, <1>2 DEF ReadingInv, Unlocked, TopicOpen
<1>5. OnceInOrder'
  BY <1>2 DEF OnceInOrder
<1>6. \A u \in Transports, tp \in Topics, p \in Objects :
        At(u, tp, p)' <=> At(u, tp, p) \/ (u = t /\ tp = topic /\ p = o)
  BY <1>0 DEF At, Opening
<1>7. CASE o = linked[ShmName[topic]] /\ linked' = linked
  <2>1. UNCHANGED unread
    <3>1. o \in InUse
      BY <1>7, SegmentsAssumption DEF InUse
    <3> QED BY <3>1, <1>2
  <2>2. \A tp \in Topics : Linked(tp)' = Linked(tp)
    BY <1>7 DEF Linked
  <2>3. \A tp \in Topics, p \in Objects : Known(p, tp)' <=> Known(p, tp)
    BY <1>6, <1>7, <2>2 DEF Known, Linked
  <2>4. OneTopicEach'
    BY <1>0, <2>3 DEF OneTopicEach
  <2>5. ASSUME NEW tp \in Topics
        PROVE  (CountInv(tp) /\ AheadInv(tp) /\ LaterInv(tp))'
    <3>0. /\ CountInv(tp) /\ AheadInv(tp) /\ LaterInv(tp)
          /\ ReaderOf[tp] \in Transports /\ WriterOf[tp] \in Transports
      BY TopicsAssumption DEF OrderInv
    <3>1. CountInv(tp)'
      BY <3>0, <1>2, <2>1, <2>3 DEF CountInv
    <3>2. AheadInv(tp)'
      BY <3>0, <1>2, <1>6, <1>7, <2>1, <2>2 DEF AheadInv, Precede, Linked
    <3>3. LaterInv(tp)'
      BY <3>0, <1>6, <1>7, <2>1, <2>2 DEF LaterInv, Precede, Linked
    <3> QED BY <3>1, <3>2, <3>3
  <2> QED BY <1>1, <1>3, <1>4, <1>5, <2>4, <2>5 DEF OrderInv
<1>8. CASE /\ linked[ShmName[topic]] = NoObject /\ o \notin InUse
           /\ linked' = [linked EXCEPT ![ShmName[topic]] = o]
  <2>1. unread'[o] = <<>> /\ \A p \in Objects \ {o} : unread'[p] = unread[p]
    BY <1>2, <1>8 DEF RingTypeOK
  <2>2. Linked(topic)' = o /\ \A tp \in Topics \ {topic} : Linked(tp)' = Linked(tp)
    BY <1>8, SegmentsAssumption, TopicsAssumption DEF Linked, SegInv, TypeOK
  <2>3. \A tp \in Topics : ~Known(o, tp)
    BY <1>8, SegmentsAssumption DEF InUse, Known, Linked, At
  <2>4. Linked(topic) = NoObject /\ NoObject \notin Objects
    BY <1>8, SegmentsAssumption DEF Linked
  <2>5. \A tp \in Topics, p \in Objects : Known(p, tp)' => Known(p, tp) \/ (p = o /\ tp = topic)
    BY <1>6, <2>2, <2>4 DEF Known
  <2>6. OneTopicEach'
    BY <1>0, <2>3, <2>5 DEF OneTopicEach
  <2>7. ASSUME NEW tp \in Topics
        PROVE  (CountInv(tp) /\ AheadInv(tp) /\ LaterInv(tp))'
    <3>0. /\ CountInv(tp) /\ AheadInv(tp) /\ LaterInv(tp)
          /\ ReaderOf[tp] \in Transports /\ WriterOf[tp] \in Transports
      BY TopicsAssumption DEF OrderInv
    <3>1. CountInv(tp)'
      BY <3>0, <1>2, <2>1, <2>5 DEF CountInv
    <3>2. AheadInv(tp)'
      <4> SUFFICES ASSUME NEW p \in Objects, Linked(tp)' = p \/ At(ReaderOf[tp], tp, p)', p # o
                   PROVE  Precede(got[tp], unread[p])
        BY <1>2, <2>1, <3>0, NothingPrecedes DEF AheadInv, Precede
      <4>1. Linked(tp) = p \/ At(ReaderOf[tp], tp, p)
        BY <1>6, <2>2, <3>0
      <4> QED BY <3>0, <4>1 DEF AheadInv
    <3>3. LaterInv(tp)'
      <4> SUFFICES ASSUME NEW p \in Objects, Linked(tp)' \in Objects \ {p}
                   PROVE  /\ At(ReaderOf[tp], tp, p)' =>
                               Precede(unread'[p], unread'[Linked(tp)'])
                          /\ At(WriterOf[tp], tp, p)' => unread'[Linked(tp)'] = <<>>
        BY DEF LaterInv, Precede
      <4>1. CASE tp = topic
        BY <2>1, <2>2, <4>1, NothingPrecedes
      <4>2. CASE tp # topic
        <5>1. Linked(tp)' = Linked(tp) /\ Linked(tp) \in Objects \ {p} /\ Linked(tp) # o
          BY <2>2, <2>3, <4>2 DEF Known
        <5>2. /\ At(ReaderOf[tp], tp, p)' => Precede(unread[p], unread[Linked(tp)])
              /\ At(WriterOf[tp], tp, p)' => unread[Linked(tp)] = <<>>
          BY <1>6, <3>0, <4>2, <5>1 DEF LaterInv
        <5> QED BY <2>1, <5>1, <5>2, NothingPrecedes
      <4> QED BY <4>1, <4>2
    <3> QED BY <3>1, <3>2, <3>3
  <2> QED BY <1>1, <1>3, <1>4, <1>5, <2>6, <2>7 DEF OrderInv
<1> QED BY <1>0, <1>7, <1>8

-----------------------------------------------------------------------------
(* Rings of undisturbed topics are not torn. *)

\* A system call or the end of a process disturbs the topic, or leaves the writer what it has.
LEMMA StepKeepsWriter ==
  ASSUME SegInv, OneTopicEach, NEW t \in Transports,
         \/ Ftruncate(t) \/ FtruncateFailed(t) \/ Mmap(t) \/ InitRing(t) \/ StoreSegment(t)
         \/ AccessFaults(t) \/ CloseSegment(t) \/ ShmUnlink(t) \/ Crash(t),
         NEW topic \in Topics, NEW o, Undisturbed(topic)'
  PROVE  Undisturbed(topic) /\ (WriterKeeps(topic, o) => WriterKeeps(topic, o)')
<1> DEFINE w == WriterOf[topic]
<1> USE DEF SegInv, TypeOK, CallInv, Undisturbed, Goto, Return, history
<1>0. w \in Transports
  BY TopicsAssumption
<1>1. CASE Ftruncate(t) \/ FtruncateFailed(t)
  BY <1>0, <1>1 DEF Ftruncate, FtruncateFailed, WriterKeeps
<1>2. CASE Mmap(t)
  BY <1>0, <1>2 DEF Mmap, WriterKeeps
<1>3. CASE InitRing(t)
  BY <1>0, <1>3 DEF InitRing, WriterKeeps
<1>4. CASE StoreSegment(t)
  BY <1>0, <1>4 DEF StoreSegment, WriterKeeps
<1>5. CASE AccessFaults(t)
  BY <1>0, <1>5 DEF AccessFaults, WriterKeeps
<1>6. CASE CloseSegment(t)
  <2>1. Undisturbed(topic) /\ pc[t] # "unlink" /\ pc'[t] = "unlink"
    BY <1>6 DEF CloseSegment
  <2>2. PICK s \in segments[t] :
          /\ segments' = [segments EXCEPT ![t] = @ \ {s}]
          /\ call' = [call EXCEPT ![t] = [name |-> s.name]]
          /\ \A u \in Transports \ {t} : pc'[u] = pc[u]
    BY <1>6 DEF CloseSegment
  <2>3. s.name = ShmName[s.topic] /\ call'[t].name = s.name
    BY <2>2 DEF OneTopicEach
  <2> QED BY <1>0, <2>1, <2>2, <2>3 DEF WriterKeeps
<1>7. CASE ShmUnlink(t)
  BY <1>0, <1>7 DEF ShmUnlink, WriterKeeps
<1>8. CASE Crash(t)
  <2>1. WriterKeeps(topic, o) => w # t
    <3> SUFFICES ASSUME w = t, WriterKeeps(topic, o) PROVE FALSE
      OBVIOUS
    <3>1. ShmName[topic] \in NamesOf(t)
      BY DEF WriterKeeps, NamesOf, OneTopicEach
    <3> QED BY <1>8, <3>1 DEF Crash
  <2> QED BY <1>0, <1>8, <2>1 DEF Crash, WriterKeeps
<1> QED BY <1>1, <1>2, <1>3, <1>4, <1>5, <1>6, <1>7, <1>8

\* A call that goes on is the one it was.
LEMMA SameCall ==
  ASSUME TypeOK, CallInv, NEW t \in Transports,
         \/ Ftruncate(t) \/ FtruncateFailed(t) \/ Mmap(t) \/ InitRing(t) \/ StoreSegment(t)
         \/ AccessFaults(t) \/ CloseSegment(t) \/ ShmUnlink(t) \/ Crash(t),
         NEW u \in Transports, Opening(u)'
  PROVE  /\ Opening(u)
         /\ call'[u].advertise = call[u].advertise /\ call'[u].topic = call[u].topic
         /\ pc'[u] = "init" => pc[u] = "init" \/ call[u].advertise
<1> USE DEF TypeOK, CallInv, Opening, Goto, Return, history
<1>1. CASE Mmap(t)
  <2>1. PICK mapped \in BOOLEAN : call' = [call EXCEPT ![t].mapped = mapped]
    BY <1>1 DEF Mmap
  <2>2. /\ Opening(t) /\ call'[t].topic = call[t].topic
        /\ call'[t].advertise = call[t].advertise
        /\ pc'[t] = "init" => call[t].advertise
        /\ \A v \in Transports \ {t} : call'[v] = call[v] /\ pc'[v] = pc[v]
    BY <1>1, <2>1 DEF Mmap, Calls
  <2> QED BY <2>2
<1>2. CASE Ftruncate(t) \/ FtruncateFailed(t) \/ InitRing(t) \/ StoreSegment(t)
  BY <1>2 DEF Ftruncate, FtruncateFailed, InitRing, StoreSegment
<1>3. CASE AccessFaults(t) \/ CloseSegment(t) \/ ShmUnlink(t) \/ Crash(t)
  BY <1>3 DEF AccessFaults, CloseSegment, ShmUnlink, Crash
<1> QED BY <1>1, <1>2, <1>3

\* Such a step touches no ring.
LEMMA StepKeepsRings ==
  ASSUME TopicsInv, KeptInv, NEW t \in Transports,
         \/ Ftruncate(t) \/ FtruncateFailed(t) \/ Mmap(t) \/ InitRing(t) \/ StoreSegment(t)
         \/ AccessFaults(t) \/ CloseSegment(t) \/ ShmUnlink(t) \/ Crash(t),
         UNCHANGED <<unread, away, torn, strays>>, stale' \subseteq stale,
         \A u \in Transports : u \in stale' =>
           using'[u] = using[u] /\ segments'[u] \subseteq segments[u]
  PROVE  KeptInv'
<1> USE DEF TopicsInv
<1>1. Shrinks
  BY FewerOpen DEF SegInv
<1>2. \A topic \in Topics, o \in Objects : Known(o, topic)' => Known(o, topic)
  BY <1>1, SegmentsAssumption DEF Shrinks, Known, Linked
<1>3. ASSUME NEW topic \in Topics, Undisturbed(topic)'
      PROVE  SoundInv(topic)'
  <2>1. \A o : Undisturbed(topic) /\ (WriterKeeps(topic, o) => WriterKeeps(topic, o)')
    BY <1>3, StepKeepsWriter
  <2>2. SoundInv(topic)
    BY <2>1 DEF KeptInv
  <2>3. topic \notin strays'
    BY <2>2 DEF SoundInv
  <2>4. \A o \in Objects : Known(o, topic)' =>
          o \notin torn' /\ (away'[o] # {} => WriterKeeps(topic, o)')
    BY <1>2, <2>1, <2>2 DEF SoundInv
  <2>5. \A u \in Transports : \A s \in segments'[u] :
          s.topic = topic /\ s.object = using'[u] => u \notin stale'
    BY <2>2 DEF SoundInv
  <2> QED BY <2>3, <2>4, <2>5 DEF SoundInv
<1>4. ASSUME NEW u \in Transports, Opening(u)'
      PROVE  /\ call'[u].advertise => u = WriterOf[call'[u].topic]
             /\ pc'[u] = "init" => call'[u].advertise
  <2>1. /\ Opening(u) /\ call'[u].advertise = call[u].advertise
        /\ call'[u].topic = call[u].topic
        /\ pc'[u] = "init" => pc[u] = "init" \/ call[u].advertise
    BY <1>4, SameCall DEF SegInv
  <2> QED BY <1>4, <2>1 DEF KeptInv
<1>5. \A u \in Transports : u \in stale' => ~Unlocked(u)'
  BY DEF KeptInv, Unlocked
<1> QED BY <1>3, <1>4, <1>5 DEF KeptInv

\* What TopicKept, TopicInitRing and TopicCrash add takes a transport out of its Receive.
LEMMA StepKeptInv ==
  ASSUME TopicsInv, KeptInv, NEW t \in Transports,
         TopicKept(t) \/ TopicInitRing(t) \/ TopicCrash(t)
  PROVE  KeptInv'
<1> USE DEF TopicsInv
<1>1. CASE TopicKept(t)
  <2>1. /\ UNCHANGED ring /\ Unlocked(t)
        /\ \/ Ftruncate(t) \/ FtruncateFailed(t) \/ Mmap(t) \/ StoreSegment(t)
           \/ AccessFaults(t) \/ CloseSegment(t) \/ ShmUnlink(t)
    BY <1>1 DEF TopicKept
  <2>2. \A u \in Transports : u \in stale => segments'[u] = segments[u]
    BY <2>1, OthersKept DEF KeptInv, SegInv
  <2> QED BY <2>1, <2>2, StepKeepsRings DEF ring
<1>2. CASE TopicInitRing(t)
  <2>1. /\ InitRing(t) /\ UNCHANGED <<segments, unread, away, torn, using, stale, strays>>
    BY <1>2 DEF TopicInitRing, InitRing
  <2> QED BY <2>1, StepKeepsRings
<1>3. CASE TopicCrash(t)
  <2>1. /\ Crash(t) /\ UNCHANGED <<unread, away, torn, strays>> /\ stale' = stale \ {t}
        /\ using' = [using EXCEPT ![t] = NoObject]
    BY <1>3 DEF TopicCrash
  <2>2. \A u \in Transports : u \in stale' => using'[u] = using[u] /\ segments'[u] = segments[u]
    BY <2>1, OthersKept DEF SegInv, RingTypeOK
  <2> QED BY <2>1, <2>2, StepKeepsRings
<1> QED BY <1>1, <1>2, <1>3

\* A ring that an Advertise of an undisturbed topic finds has its indices at 0.
LEMMA StoreKeptInv ==
  ASSUME TopicsInv, KeptInv, NEW t \in Transports, TopicStore(t)
  PROVE  KeptInv'
<1> USE DEF TopicsInv
<1> DEFINE o == call[t].object
           tp == call[t].topic
<1>0. PICK index \in Indices :
        /\ away' = [away EXCEPT ![o] = away[o] \ {index}]
        /\ IF index \notin away[o] THEN UNCHANGED <<unread, torn, stale>>
           ELSE /\ unread' = [unread EXCEPT ![o] = <<>>]
                /\ torn' \subseteq torn \cup {o}
                /\ stale' = stale \cup {u \in Transports : using[u] = o}
        /\ UNCHANGED <<vars, using, strays>> /\ pc[t] = "init"
  BY DEF TopicStore, Empty
<1>1. o \in Objects /\ tp \in Topics /\ At(t, tp, o) /\ Known(o, tp)
  BY <1>0 DEF SegInv, TypeOK, Calls, Opening, At, Known
<1>2. ASSUME NEW topic \in Topics, NEW p
      PROVE  /\ Known(p, topic)' <=> Known(p, topic)
             /\ WriterKeeps(topic, p)' <=> WriterKeeps(topic, p)
             /\ Undisturbed(topic)' <=> Undisturbed(topic)
  <2>1. Known(p, topic)' <=> Known(p, topic)
    BY <1>0 DEF Known, Linked, At, Opening, vars
  <2>2. WriterKeeps(topic, p)' <=> WriterKeeps(topic, p)
    <3>1. segments' = segments /\ pc' = pc /\ call' = call
      BY <1>0 DEF vars
    <3> QED BY <3>1 DEF WriterKeeps
  <2>3. Undisturbed(topic)' <=> Undisturbed(topic)
    BY <1>0 DEF Undisturbed, vars, history
  <2> QED BY <2>1, <2>2, <2>3
<1>3. Undisturbed(tp) => index \notin away[o]
  <2> SUFFICES ASSUME Undisturbed(tp), away[o] # {} PROVE FALSE
    OBVIOUS
  <2>1. WriterKeeps(tp, o)
    BY <1>1 DEF KeptInv, SoundInv
  <2>2. t = WriterOf[tp]
    BY <1>0 DEF KeptInv, Opening
  <2> QED BY <1>0, <2>1, <2>2 DEF WriterKeeps, SegInv, CallInv, Opening
<1> HIDE DEF o, tp
<1>4. \A p \in Objects : p # o => away'[p] = away[p]
  BY <1>0 DEF RingTypeOK
<1>5. ASSUME NEW topic \in Topics, Undisturbed(topic) PROVE SoundInv(topic)'
  <2>1. SoundInv(topic)
    BY <1>5 DEF KeptInv
  <2>2. CASE topic = tp
    <3>1. UNCHANGED <<unread, torn, stale>> /\ away' = away
      BY <1>0, <1>1, <1>3, <1>5, <2>2 DEF RingTypeOK
    <3> QED BY <1>0, <1>2, <2>1, <3>1 DEF SoundInv, vars
  <2>3. CASE topic # tp
    <3>1. ~Known(o, topic)
      BY <1>1, <2>3 DEF OneTopicEach
    <3>2. \A u \in Transports : \A s \in segments[u] : s.topic = topic => s.object # o
      BY <3>1, <1>1 DEF Known, At
    <3>3. \A u \in Transports : using[u] # o => (u \in stale' => u \in stale)
      BY <1>0
    <3>4. topic \notin strays' /\ \A p \in Objects : p # o => (p \in torn' => p \in torn)
      BY <1>0, <2>1 DEF SoundInv
    <3> QED BY <1>0, <1>2, <1>4, <2>1, <3>1, <3>2, <3>3, <3>4 DEF SoundInv, vars
  <2> QED BY <2>2, <2>3
<1>6. \A u \in Transports : u \in stale' => ~Unlocked(u)'
  <2>1. o # NoObject
    BY <1>1, SegmentsAssumption
  <2> QED BY <1>0, <2>1 DEF KeptInv, Unlocked
<1>7. \A p \in Objects : unread'[p] # <<>> => away'[p] # {}
  BY <1>0, <1>1, <1>4 DEF KeptInv, RingTypeOK
<1>8. \A u \in Transports : Opening(u)' =>
        /\ call'[u].advertise => u = WriterOf[call'[u].topic]
        /\ pc'[u] = "init" => call'[u].advertise
  BY <1>0 DEF KeptInv, Opening, vars
<1> QED BY <1>2, <1>5, <1>6, <1>7, <1>8 DEF KeptInv

\* An object that is opened is the topic's already, or new and its ring empty.
LEMMA OpenKeptInv ==
  ASSUME TopicsInv, KeptInv, NEW t \in Transports, TopicOpen(t)
  PROVE  KeptInv'
<1> USE DEF TopicsInv
<1> DEFINE c  == call'[t]
           o  == c.object
           tp == c.topic
<1>0. /\ tp \in Topics /\ o \in Objects /\ pc[t] = "idle" /\ pc'[t] = "truncate"
      /\ \/ o = linked[ShmName[tp]] /\ linked' = linked
         \/ o \notin InUse /\ linked' = [linked EXCEPT ![ShmName[tp]] = o]
      /\ \A u \in Transports \ {t} : pc'[u] = pc[u] /\ call'[u] = call[u]
      /\ UNCHANGED <<segments, unlinked, abandoned>>
  <2>1. PICK topic \in Topics, advertise \in BOOLEAN, p \in Objects :
          /\ \/ p = linked[ShmName[topic]] /\ linked' = linked
             \/ p \notin InUse /\ linked' = [linked EXCEPT ![ShmName[topic]] = p]
          /\ call' = [call EXCEPT ![t] = [topic |-> topic, advertise |-> advertise,
                                          object |-> p, mapped |-> FALSE]]
          /\ Goto(t, "idle", "truncate") /\ UNCHANGED <<segments, history>>
    BY DEF TopicOpen, ShmOpen
  <2>2. c = [topic |-> topic, advertise |-> advertise, object |-> p, mapped |-> FALSE]
    BY <2>1 DEF SegInv, CallInv
  <2>3. /\ pc[t] = "idle" /\ pc'[t] = "truncate"
        /\ \A u \in Transports \ {t} : pc'[u] = pc[u] /\ call'[u] = call[u]
    BY <2>1 DEF SegInv, CallInv, TypeOK, Goto
  <2> QED BY <2>1, <2>2, <2>3 DEF history
<1>1. /\ IF o \in InUse THEN UNCHANGED <<unread, away, torn>>
         ELSE /\ unread' = [unread EXCEPT ![o] = <<>>]
              /\ torn' = torn \ {o} /\ away' = [away EXCEPT ![o] = {}]
      /\ UNCHANGED <<stored, using, stale, strays>>
      /\ c.advertise => t = WriterOf[tp]
  BY DEF TopicOpen, Empty
<1> HIDE DEF c, o, tp
<1>2. /\ o \in InUse => UNCHANGED <<unread, away, torn>>
      /\ o \notin InUse => unread'[o] = <<>> /\ away'[o] = {} /\ o \notin torn'
      /\ \A p \in Objects \ {o} :
           unread'[p] = unread[p] /\ away'[p] = away[p] /\ (p \in torn' => p \in torn)
  BY <1>0, <1>1 DEF RingTypeOK
<1>3. \A topic \in Topics : Undisturbed(topic)' <=> Undisturbed(topic)
  BY <1>0 DEF Undisturbed
<1>4. \A topic \in Topics, p \in Objects : WriterKeeps(topic, p) => WriterKeeps(topic, p)'
  BY <1>0, TopicsAssumption DEF WriterKeeps
<1>5. \A topic \in Topics, p \in Objects :
        Known(p, topic)' => Known(p, topic) \/ (p = o /\ p \notin InUse)
  <2>1. \A u \in Transports, topic \in Topics, p \in Objects :
          At(u, topic, p)' => At(u, topic, p) \/ (topic = tp /\ p = o)
    BY <1>0 DEF At, Opening, tp, o, c
  <2>2. \A topic \in Topics : Linked(topic)' = Linked(topic) \/ Linked(topic)' = o
    BY <1>0, SegmentsAssumption DEF Linked, SegInv, TypeOK
  <2>3. o \in InUse => linked' = linked /\ o = Linked(tp)
    BY <1>0 DEF Linked
  <2> QED BY <2>1, <2>2, <2>3 DEF Known, Linked
<1>6. ASSUME NEW topic \in Topics, Undisturbed(topic)' PROVE SoundInv(topic)'
  <2>1. SoundInv(topic)
    BY <1>3, <1>6 DEF KeptInv
  <2>2. \A p \in Objects : Known(p, topic)' =>
          p \notin torn' /\ (away'[p] # {} => WriterKeeps(topic, p)')
    BY <1>2, <1>4, <1>5, <2>1 DEF SoundInv
  <2> QED BY <1>0, <1>1, <2>1, <2>2 DEF SoundInv
<1>7. ASSUME NEW u \in Transports, Opening(u)'
      PROVE  /\ call'[u].advertise => u = WriterOf[call'[u].topic]
             /\ pc'[u] = "init" => call'[u].advertise
  <2>1. CASE u = t
    BY <1>0, <1>1, <2>1 DEF c, tp
  <2>2. CASE u # t
    BY <1>0, <1>7, <2>2 DEF KeptInv, Opening
  <2> QED BY <2>1, <2>2
<1>8. /\ \A u \in Transports : u \in stale' => ~Unlocked(u)'
      /\ \A p \in Objects : unread'[p] # <<>> => away'[p] # {}
  BY <1>1, <1>2 DEF KeptInv, Unlocked
<1> QED BY <1>6, <1>7, <1>8 DEF KeptInv

\* Send and Receive open and close nothing.  An index that moves is one of a ring that its
\* writer has; a ring is torn by one who is on a torn ring.
LEMMA CopyKeptInv ==
  ASSUME TopicsInv, KeptInv, UNCHANGED vars,
         NEW o \in Objects, NEW tp \in Topics, Known(o, tp),
         Undisturbed(tp) => o \notin torn' /\ WriterKeeps(tp, o) /\ tp \notin strays',
         \A p \in Objects \ {o} : away'[p] = away[p] /\ unread'[p] = unread[p],
         away[o] # {} \/ unread'[o] # <<>> => away'[o] # {},
         torn' \subseteq torn \cup {o}, strays' \subseteq strays \cup {tp},
         \A u \in Transports : u \in stale' => u \in stale /\ using'[u] = using[u]
  PROVE  KeptInv'
<1> USE DEF TopicsInv
<1>0. /\ segments' = segments /\ pc' = pc /\ call' = call /\ linked' = linked
      /\ unlinked' = unlinked /\ abandoned' = abandoned
  BY DEF vars, history
<1>1. \A topic \in Topics, p \in Objects :
        /\ Known(p, topic)' <=> Known(p, topic)
        /\ WriterKeeps(topic, p)' <=> WriterKeeps(topic, p)
        /\ Undisturbed(topic)' <=> Undisturbed(topic)
  BY <1>0 DEF Known, Linked, At, Opening, WriterKeeps, Undisturbed
<1>2. ASSUME NEW topic \in Topics, Undisturbed(topic)' PROVE SoundInv(topic)'
  <2>1. SoundInv(topic) /\ Undisturbed(topic)
    BY <1>1, <1>2 DEF KeptInv
  <2>2. \A p \in Objects : p # o /\ Known(p, topic) =>
          p \notin torn' /\ (away'[p] # {} => WriterKeeps(topic, p))
    BY <2>1 DEF SoundInv
  <2>3. Known(o, topic) => topic = tp
    BY DEF OneTopicEach
  <2>4. topic \notin strays'
    BY <2>1 DEF SoundInv
  <2>5. \A u \in Transports : \A s \in segments[u] :
          s.topic = topic /\ s.object = using'[u] => u \notin stale'
    BY <2>1 DEF SoundInv
  <2> QED BY <1>0, <1>1, <2>1, <2>2, <2>3, <2>4, <2>5 DEF SoundInv
<1>3. \A u \in Transports : u \in stale' => ~Unlocked(u)'
  BY DEF KeptInv, Unlocked
<1>4. \A p \in Objects : unread'[p] # <<>> => away'[p] # {}
  BY DEF KeptInv
<1>5. \A u \in Transports : Opening(u)' =>
        /\ call'[u].advertise => u = WriterOf[call'[u].topic]
        /\ pc'[u] = "init" => call'[u].advertise
  BY <1>0 DEF KeptInv, Opening
<1> QED BY <1>2, <1>3, <1>4, <1>5 DEF KeptInv

\* The object of a segment is its topic's.
LEMMA SegmentKnown ==
  ASSUME TypeOK, NEW t \in Transports, NEW s \in segments[t]
  PROVE  s.topic \in Topics /\ s.object \in Objects /\ Known(s.object, s.topic)
BY DEF TypeOK, Segments, Known, At

LEMMA SendKeptInv ==
  ASSUME TopicsInv, KeptInv, NEW t \in Transports, Send(t)
  PROVE  KeptInv'
<1> USE DEF TopicsInv
<1>0. PICK s \in segments[t] :
        /\ t = WriterOf[s.topic]
        /\ \/ unread' = unread
           \/ unread' = [unread EXCEPT ![s.object] = Append(@, Len(accepted[s.topic]) + 1)]
        /\ away' = [away EXCEPT ![s.object] = @ \cup {"write_index"}]
        /\ UNCHANGED <<vars, torn, using, stale, strays>>
  BY DEF Send
<1> DEFINE o  == s.object
           tp == s.topic
<1>1. tp \in Topics /\ o \in Objects /\ Known(o, tp)
  BY SegmentKnown DEF SegInv
<1>2. /\ \A p \in Objects \ {o} : away'[p] = away[p] /\ unread'[p] = unread[p]
      /\ away'[o] # {}
  BY <1>0, <1>1 DEF RingTypeOK
<1>3. Undisturbed(tp) => o \notin torn' /\ WriterKeeps(tp, o) /\ tp \notin strays'
  BY <1>0, <1>1 DEF KeptInv, SoundInv, WriterKeeps
<1>4. UNCHANGED <<vars, torn, using, stale, strays>>
  BY <1>0
<1> HIDE DEF o, tp
<1> QED BY <1>1, <1>2, <1>3, <1>4, CopyKeptInv

\* A transport that begins a Receive is in none: no Advertise has come under it.
LEMMA BeginKeptInv ==
  ASSUME TopicsInv, KeptInv, NEW t \in Transports, ReceiveBegin(t)
  PROVE  KeptInv'
<1> USE DEF TopicsInv
<1>0. PICK s \in segments[t] :
        /\ using' = [using EXCEPT ![t] = s.object] /\ t \notin stale
        /\ UNCHANGED <<vars, unread, away, torn, stale, strays>>
  BY DEF ReceiveBegin, KeptInv
<1> DEFINE o  == s.object
           tp == s.topic
<1>1. tp \in Topics /\ o \in Objects /\ Known(o, tp)
  BY SegmentKnown DEF SegInv
<1>2. \A u \in Transports : u \in stale' => u \in stale /\ using'[u] = using[u]
  BY <1>0 DEF RingTypeOK
<1>3. UNCHANGED <<segments, pc, call, linked, unlinked, abandoned>>
  BY <1>0 DEF vars, history
<1>4. \A topic \in Topics : Undisturbed(topic)' => SoundInv(topic)'
  <2>1. \A topic \in Topics, p \in Objects :
          /\ Known(p, topic)' <=> Known(p, topic)
          /\ WriterKeeps(topic, p)' <=> WriterKeeps(topic, p)
          /\ Undisturbed(topic)' <=> Undisturbed(topic)
    BY <1>3 DEF Known, Linked, At, Opening, WriterKeeps, Undisturbed
  <2>2. ASSUME NEW topic \in Topics, Undisturbed(topic)' PROVE SoundInv(topic)'
    <3>1. SoundInv(topic)
      BY <1>1, <2>1, <2>2 DEF KeptInv
    <3>2. \A u \in Transports : \A r \in segments[u] :
            r.topic = topic /\ r.object = using'[u] => u \notin stale'
      BY <1>2, <3>1 DEF SoundInv
    <3> QED BY <1>0, <1>3, <2>1, <3>1, <3>2 DEF SoundInv
  <2> QED BY <2>2
<1>5. \A u \in Transports : u \in stale' => ~Unlocked(u)'
  BY <1>2 DEF KeptInv, Unlocked
<1> QED BY <1>0, <1>3, <1>4, <1>5 DEF KeptInv, Opening

LEMMA EndKeptInv ==
  ASSUME TopicsInv, KeptInv, NEW t \in Transports, ReceiveEnd(t)
  PROVE  KeptInv'
<1> USE DEF TopicsInv
<1>0. PICK s \in segments[t] :
        /\ s.object = using[t] /\ UNCHANGED vars
        /\ using' = [using EXCEPT ![t] = NoObject] /\ stale' = stale \ {t}
        /\ \/ UNCHANGED <<unread, away, torn, strays>>
           \/ /\ unread[s.object] # <<>>
              /\ unread' = [unread EXCEPT ![s.object] = Tail(@)]
              /\ away' = [away EXCEPT ![s.object] = @ \cup {"read_index"}]
              /\ UNCHANGED <<torn, strays>>
           \/ /\ OnTornRing(t)
              /\ unread' = [unread EXCEPT ![s.object] = <<>>]
              /\ away' = [away EXCEPT ![s.object] = @ \cup {"read_index"}]
              /\ torn' = torn \cup {s.object}
              /\ strays' \in {strays, strays \cup {s.topic}}
  <2>1. CASE ReceiveNothing(t)
    BY <2>1 DEF ReceiveNothing, Ending
  <2>2. CASE ReceiveOldest(t)
    BY <2>2 DEF ReceiveOldest, Ending
  <2>3. CASE ReceiveStray(t)
    BY <2>3 DEF ReceiveStray, Ending, Empty
  <2> QED BY <2>1, <2>2, <2>3 DEF ReceiveEnd
<1> DEFINE o  == s.object
           tp == s.topic
<1>1. tp \in Topics /\ o \in Objects /\ Known(o, tp)
  BY SegmentKnown DEF SegInv
<1>2. \A u \in Transports : u \in stale' => u \in stale /\ using'[u] = using[u]
  BY <1>0 DEF RingTypeOK
<1>3. CASE UNCHANGED <<unread, away, torn, strays>>
  <2>1. UNCHANGED <<segments, pc, call, linked, unlinked, abandoned>>
    BY <1>0 DEF vars, history
  <2>2. \A topic \in Topics, p \in Objects :
          /\ Known(p, topic)' <=> Known(p, topic)
          /\ WriterKeeps(topic, p)' <=> WriterKeeps(topic, p)
          /\ Undisturbed(topic)' <=> Undisturbed(topic)
    BY <2>1 DEF Known, Linked, At, Opening, WriterKeeps, Undisturbed
  <2>3. ASSUME NEW topic \in Topics, Undisturbed(topic)' PROVE SoundInv(topic)'
    <3>1. SoundInv(topic)
      BY <1>1, <2>2, <2>3 DEF KeptInv
    <3>2. \A u \in Transports : \A r \in segments[u] :
            r.topic = topic /\ r.object = using'[u] => u \notin stale'
      BY <1>2, <3>1 DEF SoundInv
    <3> QED BY <1>3, <2>1, <2>2, <3>1, <3>2 DEF SoundInv
  <2>4. \A u \in Transports : u \in stale' => ~Unlocked(u)'
    BY <1>2 DEF KeptInv, Unlocked
  <2> QED BY <1>3, <2>1, <2>3, <2>4 DEF KeptInv, Opening
<1>4. CASE /\ unread[o] # <<>> /\ unread' = [unread EXCEPT ![o] = Tail(@)]
           /\ away' = [away EXCEPT ![o] = @ \cup {"read_index"}]
           /\ UNCHANGED <<torn, strays>>
  <2>1. /\ \A p \in Objects \ {o} : away'[p] = away[p] /\ unread'[p] = unread[p]
        /\ away'[o] # {}
    BY <1>1, <1>4 DEF RingTypeOK
  <2>2. Undisturbed(tp) => o \notin torn' /\ WriterKeeps(tp, o) /\ tp \notin strays'
    BY <1>1, <1>4 DEF KeptInv, SoundInv
  <2> HIDE DEF o, tp
  <2> QED BY <1>0, <1>1, <1>2, <1>4, <2>1, <2>2, CopyKeptInv
<1>5. CASE /\ OnTornRing(t) /\ unread' = [unread EXCEPT ![o] = <<>>]
           /\ away' = [away EXCEPT ![o] = @ \cup {"read_index"}]
           /\ torn' = torn \cup {o} /\ strays' \in {strays, strays \cup {tp}}
  <2>1. /\ \A p \in Objects \ {o} : away'[p] = away[p] /\ unread'[p] = unread[p]
        /\ away'[o] # {}
    BY <1>1, <1>5 DEF RingTypeOK
  <2>2. ~Undisturbed(tp)
    BY <1>0, <1>1, <1>5 DEF KeptInv, SoundInv, OnTornRing
  <2> HIDE DEF o, tp
  <2> QED BY <1>0, <1>1, <1>2, <1>5, <2>1, <2>2, CopyKeptInv
<1> QED BY <1>0, <1>3, <1>4, <1>5

\* Every step keeps it.
LEMMA NextKeptInv == TopicsInv /\ KeptInv /\ [TNext]_tvars => KeptInv'
<1> SUFFICES ASSUME TopicsInv, KeptInv, [TNext]_tvars PROVE KeptInv'
  OBVIOUS
<1>1. CASE UNCHANGED tvars
  BY <1>1 DEF KeptInv, SoundInv, Undisturbed, Known, Linked, At, Opening, WriterKeeps, Unlocked,
     tvars, vars, history, ring
<1>2. ASSUME NEW t \in Transports,
             \/ TopicOpen(t) \/ TopicStore(t) \/ TopicInitRing(t) \/ TopicKept(t)
             \/ TopicCrash(t) \/ Send(t) \/ ReceiveBegin(t) \/ ReceiveEnd(t)
      PROVE  KeptInv'
  BY <1>2, OpenKeptInv, StoreKeptInv, StepKeptInv, SendKeptInv, BeginKeptInv, EndKeptInv
<1> QED BY <1>1, <1>2 DEF TNext

-----------------------------------------------------------------------------
(* The theorems. *)

\* At the start nothing is open and nothing has been sent.
LEMMA InitTopicsInv == TInit => TopicsInv
<1> SUFFICES ASSUME TInit PROVE TopicsInv
  OBVIOUS
<1>1. SegInv
  BY InitSegInv DEF TInit
<1>2. RingTypeOK
  BY DEF TInit, RingTypeOK
<1>3. \A topic \in Topics, o \in Objects : ~Known(o, topic) /\ Linked(topic) = NoObject
  BY SegmentsAssumption DEF TInit, Init, Known, Linked, At, Opening
<1>4. OneTopicEach /\ ReadingInv
  BY <1>3 DEF OneTopicEach, ReadingInv, Unlocked, TInit, Init
<1>5. OrderInv /\ OnceInOrder
  BY <1>3, SegmentsAssumption DEF TInit, OrderInv, OnceInOrder, CountInv, AheadInv, LaterInv,
     Precede
<1> QED BY <1>1, <1>2, <1>4, <1>5 DEF TopicsInv

\* Every step keeps the invariant.
LEMMA NextTopicsInv == TopicsInv /\ [TNext]_tvars => TopicsInv'
<1> SUFFICES ASSUME TopicsInv, [TNext]_tvars PROVE TopicsInv'
  OBVIOUS
<1>1. CASE UNCHANGED tvars
  <2>1. SegInv'
    BY <1>1, NextSegInv DEF TopicsInv, tvars
  <2>2. Shrinks
    BY <1>1 DEF Shrinks, tvars, vars, TopicsInv, OneTopicEach, At, Opening
  <2>3. RingTypeOK' /\ ReadingInv'
    BY <1>1 DEF TopicsInv, RingTypeOK, ReadingInv, Unlocked, tvars, vars, ring
  <2> QED BY <1>1, <2>1, <2>2, <2>3, ShrinkKeepsOrder DEF TopicsInv, SegInv, tvars, ring
<1>2. ASSUME NEW t \in Transports,
             \/ TopicOpen(t) \/ TopicStore(t) \/ TopicInitRing(t) \/ TopicKept(t)
             \/ TopicCrash(t) \/ Send(t) \/ ReceiveBegin(t) \/ ReceiveEnd(t)
      PROVE  TopicsInv'
  BY <1>2, TopicOpenInv, TopicStoreInv, TopicInitRingInv, TopicKeptInv, TopicCrashInv, SendInv,
     ReceiveBeginInv, ReceiveEndInv
<1> QED BY <1>1, <1>2 DEF TNext

\* The invariant holds in every reachable state.
THEOREM TopicsInvariant == TSpec => []TopicsInv
BY InitTopicsInv, NextTopicsInv, PTL DEF TSpec

\* Out of rings that are not torn Receive hands out each message at most once and in the order
\* of the Sends, whichever process is killed or destroyed and started again between which steps
\* of CreateOrOpenSegment, Advertise, CloseSegment, Send and Receive.
THEOREM ReceivedOnceInOrder == TSpec => []OnceInOrder
<1>1. TopicsInv => OnceInOrder
  BY DEF TopicsInv
<1> QED BY <1>1, TopicsInvariant, PTL

\* Advertise finds the indices of a ring in use only where a transport of the topic was killed
\* or destroyed or a system call failed: before that no ring is torn and Receive returns
\* nothing out of a torn one, for any number of transports that open, send and receive.
THEOREM StraysOnlyAfterRestart == TSpec => []StraysNeedRestart
<1>1. TInit => KeptInv
  BY SegmentsAssumption DEF TInit, Init, KeptInv, SoundInv, Opening
<1>2. TopicsInv /\ KeptInv => StraysNeedRestart
  <2> SUFFICES ASSUME TopicsInv, KeptInv PROVE StraysNeedRestart
    OBVIOUS
  <2>1. \A t \in Transports : \A s \in segments[t] :
          s.topic \in Topics /\ s.object \in Objects /\ Known(s.object, s.topic)
    BY SegmentKnown DEF TopicsInv, SegInv
  <2> QED BY <2>1 DEF KeptInv, SoundInv, StraysNeedRestart
<1> QED BY <1>1, <1>2, NextKeptInv, TopicsInvariant, PTL DEF TSpec

-----------------------------------------------------------------------------
(* The refinement of AtMostOnce. *)

\* What the step of a Send is to AtMostOnce: one more message of the topic.
LEMMA SendIsAccept ==
  ASSUME TopicsInv, NEW t \in Transports, Send(t)
  PROVE  \E topic \in Topics : Lossy!Accept(topic)
<1>1. PICK s \in segments[t] :
        accepted' = [accepted EXCEPT ![s.topic] = Append(@, s.object)]
  BY DEF Send
<1>2. got' = got
  BY DEF Send
<1>3. s.topic \in Topics /\ s.object \in Objects
  BY DEF TopicsInv, SegInv, TypeOK, Segments
<1>4. accepted[s.topic] \in Seq(Objects) /\ DOMAIN accepted = Topics
  BY <1>3 DEF TopicsInv, RingTypeOK
<1>5. Len(accepted'[s.topic]) = Len(accepted[s.topic]) + 1
  BY <1>1, <1>3, <1>4
<1>6. \A topic \in Topics : topic # s.topic => accepted'[topic] = accepted[topic]
  BY <1>1, <1>4
<1>7. [topic \in Topics |-> Len(accepted'[topic])] =
        [[topic \in Topics |-> Len(accepted[topic])] EXCEPT
           ![s.topic] = Len(accepted[s.topic]) + 1]
  BY <1>3, <1>5, <1>6
<1>8. \A topic \in Topics : HandedOut(topic)' = HandedOut(topic)
  BY <1>2 DEF HandedOut
<1> QED BY <1>3, <1>7, <1>8 DEF Lossy!Accept

\* A Receive that hands out a message: one its topic has accepted, and later than all the
\* topic's reader was handed before.
LEMMA ReceiveIsDeliver ==
  ASSUME TopicsInv, TopicsInv', NEW t \in Transports, ReceiveEnd(t), got' # got
  PROVE  \E topic \in Topics : \E x \in HandedOut(topic)' : Lossy!Deliver(topic, x)
<1>1. PICK s \in segments[t] :
        /\ unread[s.object] # <<>>
        /\ got' = [got EXCEPT ![s.topic] = Append(@, Head(unread[s.object]))]
  BY DEF ReceiveEnd, ReceiveNothing, ReceiveOldest, ReceiveStray
<1>2. accepted' = accepted
  BY DEF ReceiveEnd, ReceiveNothing, ReceiveOldest, ReceiveStray, Ending
<1> DEFINE topic == s.topic
           head  == Head(unread[s.object])
           n     == Len(got[topic]) + 1
           x     == [at |-> n, no |-> head]
<1>3. topic \in Topics /\ s.object \in Objects
  BY DEF TopicsInv, SegInv, TypeOK, Segments
<1>4. unread[s.object] \in Seq(Numbers) /\ got[topic] \in Seq(Numbers) /\ DOMAIN got = Topics
  BY <1>3 DEF TopicsInv, RingTypeOK
<1>5. head \in Numbers
  BY <1>1, <1>4, TailElements, ElementsAreNumbers
<1>6. got' = [got EXCEPT ![topic] = Append(got[topic], head)]
  BY <1>1
<1> HIDE DEF topic, head
<1>7. /\ got'[topic] = Append(got[topic], head)
      /\ \A other \in Topics \ {topic} : got'[other] = got[other]
  BY <1>3, <1>4, <1>6
<1>8. /\ Len(got[topic]) \in Nat /\ Len(got'[topic]) = n /\ got'[topic][n] = head
      /\ \A i \in 1 .. Len(got[topic]) : got'[topic][i] = got[topic][i]
  BY <1>4, <1>5, <1>7, AppendElements, ElementsAreNumbers
<1> HIDE DEF n
<1>9. n \in 1 .. Len(got'[topic]) /\ n = Len(got[topic]) + 1
      /\ \A i \in 1 .. Len(got[topic]) : i < n /\ i \in 1 .. Len(got'[topic])
  BY <1>8 DEF n
<1>10. x.no \in 1 .. Len(accepted[topic])
  <2>1. head <= Len(accepted[topic])
    BY <1>2, <1>3, <1>8, <1>9 DEF TopicsInv, OrderInv, CountInv
  <2>2. accepted[topic] \in Seq(Objects)
    BY <1>3 DEF TopicsInv, RingTypeOK
  <2> QED BY <1>5, <2>1, <2>2 DEF Numbers
<1>11. \A earlier \in HandedOut(topic) : earlier.at < x.at /\ earlier.no < x.no
  <2>1. \A i \in 1 .. Len(got[topic]) : got[topic][i] < head
    BY <1>3, <1>8, <1>9 DEF TopicsInv, OnceInOrder
  <2> QED BY <1>9, <2>1 DEF HandedOut
<1>12. HandedOut(topic)' = HandedOut(topic) \cup {x}
  <2>1. \A i \in 1 .. Len(got'[topic]) : i = n \/ i \in 1 .. Len(got[topic])
    BY <1>8, <1>9
  <2>2. \A i \in 1 .. Len(got[topic]) :
          [at |-> i, no |-> got'[topic][i]] = [at |-> i, no |-> got[topic][i]]
    BY <1>8
  <2>3. [at |-> n, no |-> got'[topic][n]] = x
    BY <1>8
  <2> QED BY <1>9, <2>1, <2>2, <2>3 DEF HandedOut
<1>13. \A other \in Topics \ {topic} : HandedOut(other)' = HandedOut(other)
  BY <1>7 DEF HandedOut
<1> HIDE DEF x
<1>14. [tp \in Topics |-> HandedOut(tp)'] =
         [[tp \in Topics |-> HandedOut(tp)] EXCEPT ![topic] = HandedOut(topic) \cup {x}]
  BY <1>3, <1>12, <1>13
<1>15. x \in HandedOut(topic)'
  BY <1>12
<1>16. Lossy!Deliver(topic, x)
  BY <1>2, <1>3, <1>10, <1>11, <1>14 DEF Lossy!Deliver
<1> QED BY <1>3, <1>15, <1>16

\* Every other step neither accepts a message nor hands one out.
LEMMA StepImplementsAtMostOnce ==
  TopicsInv /\ TopicsInv' /\ [TNext]_tvars => [Lossy!Next]_(Lossy!topics)
<1> SUFFICES ASSUME TopicsInv, TopicsInv', [TNext]_tvars
             PROVE  Lossy!Next \/ UNCHANGED Lossy!topics
  OBVIOUS
<1>1. CASE UNCHANGED <<accepted, got>>
  BY <1>1 DEF Lossy!topics, HandedOut
<1>2. ASSUME NEW t \in Transports, Send(t) PROVE Lossy!Next
  BY <1>2, SendIsAccept DEF Lossy!Next
<1>3. ASSUME NEW t \in Transports, ReceiveEnd(t), got' # got PROVE Lossy!Next
  <2>1. PICK topic \in Topics : \E x \in HandedOut(topic)' : Lossy!Deliver(topic, x)
    BY <1>3, ReceiveIsDeliver
  <2> QED BY <2>1 DEF Lossy!Next
<1>4. ASSUME NEW t \in Transports,
             \/ TopicOpen(t) \/ TopicStore(t) \/ TopicInitRing(t) \/ TopicKept(t)
             \/ TopicCrash(t) \/ ReceiveBegin(t) \/ (ReceiveEnd(t) /\ got' = got)
      PROVE  UNCHANGED <<accepted, got>>
  <2>1. CASE TopicOpen(t)
    BY <2>1 DEF TopicOpen
  <2>2. CASE TopicStore(t) \/ TopicInitRing(t) \/ TopicKept(t)
    BY <2>2 DEF TopicStore, TopicInitRing, TopicKept, ring
  <2>3. CASE TopicCrash(t) \/ ReceiveBegin(t)
    BY <2>3 DEF TopicCrash, ReceiveBegin
  <2>4. CASE ReceiveEnd(t) /\ got' = got
    BY <2>4 DEF ReceiveEnd, ReceiveNothing, ReceiveOldest, ReceiveStray, Ending
  <2> QED BY <1>4, <2>1, <2>2, <2>3, <2>4
<1> QED BY <1>1, <1>2, <1>3, <1>4 DEF TNext, tvars, ring

\* For any number of topics and of processes killed and started again, what comes out of a
\* topic's rings while they are not torn is an AtMostOnce stream (CreateOrOpenSegment,
\* Advertise, CloseSegment, Send and Receive).
THEOREM TopicsImplementAtMostOnce == TSpec => ImplementsAtMostOnce
<1>1. TInit => Lossy!Init
  BY DEF TInit, Lossy!Init, HandedOut
<1>2. TopicsInv /\ TopicsInv' /\ [TNext]_tvars => [Lossy!Next]_(Lossy!topics)
  BY StepImplementsAtMostOnce
<1> QED BY <1>1, <1>2, TopicsInvariant, PTL DEF TSpec, Lossy!Spec, ImplementsAtMostOnce
=============================================================================
