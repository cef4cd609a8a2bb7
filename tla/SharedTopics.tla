---------------------------- MODULE SharedTopics ----------------------------
(***************************************************************************)
(* Topics over shared memory, from end to end: ShmSegments with the ring   *)
(* that is inside each object (src/transport/shared_memory_transport.cc).  *)
(* One transport advertises a topic and sends, another one subscribes and  *)
(* receives; both are killed, destroyed and started again.                 *)
(*                                                                         *)
(* A Send is one step: for one writer and one reader SpscRing shows that   *)
(* it takes effect at once.  A Receive has a beginning and an end, because *)
(* an Advertise may come in between that resets the indices under it.  The *)
(* indices are then apart from each other and from what lies in memory: in *)
(* such a torn ring Receive walks through whatever is there and may return *)
(* old messages again.  Which, this module does not tell; it tells which   *)
(* messages come out of rings that are not torn.                           *)
(***************************************************************************)
EXTENDS ShmSegments, Sequences, Functions

CONSTANTS
  WriterOf, ReaderOf,  \* the transport that advertises a topic; that subscribes
  RingLimit,           \* the messages a ring has room for
  SendBound            \* bound: the messages accepted of a topic

ASSUME TopicsAssumption ==
  /\ WriterOf \in [Topics -> Transports] /\ ReaderOf \in [Topics -> Transports]
  /\ \A topic \in Topics : WriterOf[topic] # ReaderOf[topic]
  /\ \A t1, t2 \in Topics : ShmName[t1] = ShmName[t2] => t1 = t2
  /\ \A t, u \in Transports : TotalSize[t] = TotalSize[u]
  /\ RingLimit \in Nat /\ SendBound \in Nat

VARIABLES
  unread,    \* per object: the messages between read_index and write_index
  away,      \* per object: the indices that may be other than 0
  torn,      \* objects whose indices do not belong together
  stored,    \* per transport: the indices its Advertise has set to 0 so far
  using,     \* per transport: the object its Receive has begun to read
  stale,     \* transports under whose Receive an Advertise has changed an index
  accepted,  \* history, per topic: the objects that took the messages, in order
  got,       \* history, per topic: the numbers of the messages handed out
  strays,    \* history: topics of which Receive returned what was in a torn ring
  dropped    \* history: messages whose ring was reset or torn or whose memory was freed

ring  == <<unread, away, torn, stored, using, stale, accepted, got, strays, dropped>>
tvars == <<vars, ring>>

Indices == {"write_index", "read_index"}

TInit ==
  /\ Init
  /\ unread = [o \in Objects |-> <<>>] /\ away = [o \in Objects |-> {}] /\ torn = {}
  /\ stored = [t \in Transports |-> {}]
  /\ using = [t \in Transports |-> NoObject] /\ stale = {}
  /\ accepted = [topic \in Topics |-> <<>>] /\ got = [topic \in Topics |-> <<>>]
  /\ strays = {} /\ dropped = {}

\* The calls of a transport exclude each other by its mutex_.
Unlocked(t) == using[t] = NoObject

\* The messages that were put into object o.
PutInto(o) ==
  {m \in Topics \X (1 .. SendBound) :
     m[2] <= Len(accepted[m[1]]) /\ accepted[m[1]][m[2]] = o}

\* Whatever was in the ring of object o is no longer.
Empty(o) ==
  /\ unread' = [unread EXCEPT ![o] = <<>>]
  /\ dropped' = dropped \cup {m \in PutInto(o) : m[2] \in Range(unread[o])}

\* The segment of a topic that transport t can access without a fault.
Sound(t, s) == s \in segments[t] /\ s.mapped /\ s.size <= size[s.object]

-----------------------------------------------------------------------------
(* The steps of ShmSegments and what they do to a ring. *)

\* Advertise and Subscribe; a new object is filled with zeros: its ring is empty.
TopicOpen(t) ==
  /\ Unlocked(t) /\ ShmOpen(t)
  /\ LET c == call'[t]
     IN  /\ t = IF c.advertise THEN WriterOf[c.topic] ELSE ReaderOf[c.topic]
         /\ IF c.object \in InUse
            THEN UNCHANGED <<unread, away, torn, dropped>>
            ELSE /\ Empty(c.object) /\ torn' = torn \ {c.object}
                 /\ away' = [away EXCEPT ![c.object] = {}]
  /\ UNCHANGED <<stored, using, stale, accepted, got, strays>>

\* Advertise sets the indices to 0, one by one, also those of a ring in use; other processes
\* may see the stores in either order.  (Those of the two sizes change nothing: all
\* transports have the same.)
TopicStore(t) ==
  /\ pc[t] = "init" /\ call[t].mapped
  /\ \E index \in Indices \ stored[t] :
       LET o    == call[t].object
           left == away[o] \ {index}
       IN  /\ stored' = [stored EXCEPT ![t] = @ \cup {index}]
           /\ away' = [away EXCEPT ![o] = left]
           /\ IF index \notin away[o] THEN UNCHANGED <<unread, torn, stale, dropped>>
              ELSE /\ Empty(o)
                   /\ torn' = IF left = {} THEN torn \ {o} ELSE torn \cup {o}
                   /\ stale' = stale \cup {u \in Transports : using[u] = o}
  /\ UNCHANGED <<vars, using, accepted, got, strays>>

\* It goes on when it has set both, or faults at the first where nothing is mapped.
TopicInitRing(t) ==
  /\ InitRing(t)
  /\ call[t].mapped => stored[t] = Indices
  /\ stored' = [stored EXCEPT ![t] = {}]
  /\ UNCHANGED <<unread, away, torn, using, stale, accepted, got, strays, dropped>>

TopicKept(t) ==
  /\ Unlocked(t)
  /\ \/ Ftruncate(t) \/ FtruncateFailed(t) \/ Mmap(t) \/ StoreSegment(t)
     \/ AccessFaults(t) \/ CloseSegment(t) \/ ShmUnlink(t)
  /\ UNCHANGED ring

TopicCrash(t) ==
  /\ Crash(t)
  /\ stored' = [stored EXCEPT ![t] = {}]
  /\ using' = [using EXCEPT ![t] = NoObject]
  /\ stale' = stale \ {t}
  /\ UNCHANGED <<unread, away, torn, accepted, got, strays, dropped>>

-----------------------------------------------------------------------------
(* Send and Receive. *)

\* There is room.  (Without it Send returns false and changes nothing.)  In a torn ring there
\* may be room or not, and nothing is promised for the message.
Send(t) ==
  /\ pc[t] = "idle"
  /\ \E s \in segments[t] :
       LET k == Len(accepted[s.topic]) + 1
       IN  /\ t = WriterOf[s.topic] /\ Sound(t, s) /\ k <= SendBound
           /\ Len(unread[s.object]) < RingLimit
           /\ accepted' = [accepted EXCEPT ![s.topic] = Append(@, s.object)]
           /\ away' = [away EXCEPT ![s.object] = @ \cup {"write_index"}]
           /\ IF s.object \in torn
              THEN dropped' = dropped \cup {<<s.topic, k>>} /\ UNCHANGED unread
              ELSE unread' = [unread EXCEPT ![s.object] = Append(@, k)] /\ UNCHANGED dropped
  /\ UNCHANGED <<vars, torn, stored, using, stale, got, strays>>

\* The load of read_index.
ReceiveBegin(t) ==
  /\ pc[t] = "idle" /\ Unlocked(t)
  /\ \E s \in segments[t] :
       /\ t = ReaderOf[s.topic] /\ Sound(t, s)
       /\ using' = [using EXCEPT ![t] = s.object]
  /\ UNCHANGED <<vars, unread, away, torn, stored, stale, accepted, got, strays, dropped>>

\* The Receive of t ends; s is the segment it is in.
Ending(t, s) ==
  /\ ~Unlocked(t)
  /\ s \in segments[t] /\ s.object = using[t]
  /\ using' = [using EXCEPT ![t] = NoObject]
  /\ stale' = stale \ {t}
  /\ UNCHANGED <<vars, stored, accepted>>

\* The indices it goes by are apart.
OnTornRing(t) == using[t] \in torn \/ t \in stale

\* It returns false and stores nothing: the indices are equal, or the message is larger than
\* the caller's buffer.
ReceiveNothing(t) ==
  /\ \E s \in segments[t] : Ending(t, s)
  /\ UNCHANGED <<unread, away, torn, got, strays, dropped>>

\* Mutants of ReceiveOldest: read_index stays; it moves although nothing is handed out.
ReceivePeek(t) ==
  /\ ~OnTornRing(t)
  /\ \E s \in segments[t] :
       /\ Ending(t, s) /\ unread[s.object] # <<>>
       /\ got' = [got EXCEPT ![s.topic] = Append(@, Head(unread[s.object]))]
  /\ UNCHANGED <<unread, away, torn, strays, dropped>>

ReceiveSkips(t) ==
  /\ ~OnTornRing(t)
  /\ \E s \in segments[t] :
       /\ Ending(t, s) /\ unread[s.object] # <<>>
       /\ unread' = [unread EXCEPT ![s.object] = Tail(@)]
  /\ UNCHANGED <<away, torn, got, strays, dropped>>

\* It hands out the oldest message and moves read_index past it.
ReceiveOldest(t) ==
  /\ ~OnTornRing(t)
  /\ \E s \in segments[t] :
       /\ Ending(t, s) /\ unread[s.object] # <<>>
       /\ unread' = [unread EXCEPT ![s.object] = Tail(@)]
       /\ away' = [away EXCEPT ![s.object] = @ \cup {"read_index"}]
       /\ got' = [got EXCEPT ![s.topic] = Append(@, Head(unread[s.object]))]
  /\ UNCHANGED <<torn, strays, dropped>>

\* By indices that are apart it finds what lies at the old position: no header, another
\* topic's, or a message, perhaps one that was handed out before.  It stores a read_index
\* that goes with no write_index.
ReceiveStray(t) ==
  /\ OnTornRing(t)
  /\ \E s \in segments[t] :
       /\ Ending(t, s)
       /\ Empty(s.object)
       /\ torn' = torn \cup {s.object}
       /\ away' = [away EXCEPT ![s.object] = @ \cup {"read_index"}]
       /\ strays' \in {strays, strays \cup {s.topic}}
  /\ UNCHANGED got

ReceiveEnd(t) == ReceiveNothing(t) \/ ReceiveOldest(t) \/ ReceiveStray(t)

TNext ==
  \E t \in Transports :
    \/ TopicOpen(t) \/ TopicStore(t) \/ TopicInitRing(t) \/ TopicKept(t) \/ TopicCrash(t)
    \/ Send(t) \/ ReceiveBegin(t) \/ ReceiveEnd(t)

TSpec == TInit /\ [][TNext]_tvars

-----------------------------------------------------------------------------
(* Properties. *)

\* Out of rings that are not torn nothing is handed out twice or after a message sent later,
\* across kills and restarts of both sides and however often the object under the name is
\* replaced.  (Out of a torn ring Receive may return old messages again: strays.)
OnceInOrder ==
  \A topic \in Topics : \A i, j \in 1 .. Len(got[topic]) :
    i < j => got[topic][i] < got[topic][j]

\* No destructor has unlinked the name of the topic, and no killed process or failed call has
\* left it behind.
Undisturbed(topic) == ShmName[topic] \notin unlinked \cup abandoned

\* A ring is torn, and Receive returns what is in a torn ring, only where a transport of the
\* topic was killed or destroyed or a system call failed: Advertise of a running pair of
\* transports resets no index that is in use, however it and the Receives are interleaved.
StraysNeedRestart ==
  \A topic \in Topics : Undisturbed(topic) =>
    /\ topic \notin strays
    /\ \A t \in Transports : \A s \in segments[t] : s.topic = topic => s.object \notin torn

\* Each topic is a stream and its reader the only receiver.
HandedOut(topic) == {[at |-> i, no |-> got[topic][i]] : i \in 1 .. Len(got[topic])}

Lossy == INSTANCE AtMostOnce WITH
           Streams <- Topics, Receivers <- Topics,
           StreamOf <- [topic \in Topics |-> topic],
           sent  <- [topic \in Topics |-> Len(accepted[topic])],
           taken <- [topic \in Topics |-> HandedOut(topic)]

\* Kills, restarts and replaced objects make a topic lose messages and nothing else while its
\* ring is not torn: Receive hands out, of what Send accepted, some, once and in order.
ImplementsAtMostOnce == Lossy!Spec

\* The reader's application: it subscribes, restarts after a fault and polls, now and then
\* with a buffer that takes the message that is next.
Polls(r) ==
  /\ WF_tvars(TopicOpen(r)) /\ WF_tvars(TopicKept(r) /\ pc[r] # "idle")
  /\ WF_tvars(TopicKept(r) /\ pc'[r] = "fault") /\ WF_tvars(TopicCrash(r) /\ pc[r] = "fault")
  /\ WF_tvars(ReceiveBegin(r)) /\ WF_tvars(ReceiveEnd(r)) /\ SF_tvars(ReceiveOldest(r))

PollingSpec == TSpec /\ \A topic \in Topics : Polls(ReaderOf[topic])

\* What may befall a reader: it is killed, it is destroyed, a system call fails.
Befalls(r) ==
  \/ TopicCrash(r)
  \/ TopicKept(r) /\ (FtruncateFailed(r) \/ (pc[r] = "idle" /\ CloseSegment(r)))
  \/ TopicKept(r) /\ pc[r] = "map" /\ ~call'[r].mapped

\* Transport t has the segment of the topic on object o, or is opening it.
At(t, topic, o) ==
  \/ \E s \in segments[t] : s.topic = topic /\ s.object = o
  \/ Opening(t) /\ call[t].topic = topic /\ call[t].object = o

\* The reader has the object that took message k of the topic, or will get it when it
\* subscribes.
WithinReach(topic, k) ==
  LET opened == {o \in Objects : At(ReaderOf[topic], topic, o)}
      found  == IF opened = {} THEN {linked[ShmName[topic]]} ELSE opened
  IN  k <= Len(accepted[topic]) /\ accepted[topic][k] \in found

\* A message Send accepted is received in the end, if misfortunes of the reader end: only
\* an Advertise that resets or tears its ring, or has torn it before, or an unlink that leaves
\* the reader with another object, can come between.
Delivered ==
  \A topic \in Topics :
    <>[][~Befalls(ReaderOf[topic])]_tvars =>
      \A k \in 1 .. SendBound :
        Len(accepted[topic]) >= k ~>
          \/ k \in Range(got[topic])
          \/ <<topic, k>> \in dropped
          \/ ~WithinReach(topic, k)

-----------------------------------------------------------------------------
(* The inductive invariant. *)

\* The messages of a topic are numbered from 1.
Numbers == Nat \ {0}

RingTypeOK ==
  /\ unread \in [Objects -> Seq(Numbers)]
  /\ away \in [Objects -> SUBSET Indices] /\ torn \subseteq Objects
  /\ stored \in [Transports -> SUBSET Indices]
  /\ using \in [Transports -> Objects \cup {NoObject}] /\ stale \subseteq Transports
  /\ strays \subseteq Topics
  /\ accepted \in [Topics -> Seq(Objects)] /\ got \in [Topics -> Seq(Numbers)]

\* The object that is under the topic's name.
Linked(topic) == linked[ShmName[topic]]

\* An object in use belongs to one topic.
Known(o, topic) ==
  Linked(topic) = o \/ \E t \in Transports : At(t, topic, o)

OneTopicEach ==
  /\ \A t \in Transports : \A s \in segments[t] : s.name = ShmName[s.topic]
  /\ \A o \in Objects : \A t1, t2 \in Topics : Known(o, t1) /\ Known(o, t2) => t1 = t2

\* Who is in a Receive keeps the segment.
ReadingInv ==
  \A t \in Transports : ~Unlocked(t) =>
    pc[t] = "idle" /\ \E s \in segments[t] : s.object = using[t] /\ t = ReaderOf[s.topic]

Precede(s1, s2) == \A i \in 1 .. Len(s1), j \in 1 .. Len(s2) : s1[i] < s2[j]

\* Messages are numbered as they are accepted, and lie in the ring in this order.
CountInv(topic) ==
  /\ \A i \in 1 .. Len(got[topic]) : got[topic][i] <= Len(accepted[topic])
  /\ \A o \in Objects : Known(o, topic) =>
       \A i, j \in 1 .. Len(unread[o]) :
         unread[o][i] <= Len(accepted[topic]) /\ (i < j => unread[o][i] < unread[o][j])

\* What is unread where the reader is, or under the name, is later than all it got.
AheadInv(topic) ==
  \A o \in Objects : o = Linked(topic) \/ At(ReaderOf[topic], topic, o) =>
    Precede(got[topic], unread[o])

\* What is under the name is later than what is unread where the reader is, if that is
\* elsewhere; and a writer that is elsewhere has put nothing there.
LaterInv(topic) ==
  \A o \in Objects : Linked(topic) \in Objects \ {o} =>
    /\ At(ReaderOf[topic], topic, o) => Precede(unread[o], unread[Linked(topic)])
    /\ At(WriterOf[topic], topic, o) => unread[Linked(topic)] = <<>>

OrderInv == \A topic \in Topics : CountInv(topic) /\ AheadInv(topic) /\ LaterInv(topic)

\* Why StraysNeedRestart holds.  While nothing has befallen a topic's name, a ring whose indices
\* have moved is one its writer has, and will not advertise again.
WriterKeeps(topic, o) ==
  LET w == WriterOf[topic]
  IN  \/ \E s \in segments[w] : s.topic = topic /\ s.object = o
      \/ pc[w] = "unlink" /\ call[w].name = ShmName[topic]

SoundInv(topic) ==
  /\ topic \notin strays
  /\ \A o \in Objects : Known(o, topic) =>
       o \notin torn /\ (away[o] # {} => WriterKeeps(topic, o))
  /\ \A t \in Transports : \A s \in segments[t] :
       s.topic = topic /\ s.object = using[t] => t \notin stale

KeptInv ==
  /\ \A topic \in Topics : Undisturbed(topic) => SoundInv(topic)
  /\ \A t \in Transports : Opening(t) =>
       /\ call[t].advertise => t = WriterOf[call[t].topic]
       /\ pc[t] = "init" => call[t].advertise
  /\ \A t \in Transports : t \in stale => ~Unlocked(t)
  /\ \A o \in Objects : unread[o] # <<>> => away[o] # {}

TopicsInv ==
  SegInv /\ RingTypeOK /\ OneTopicEach /\ ReadingInv /\ OrderInv /\ OnceInOrder
=============================================================================
