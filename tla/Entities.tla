------------------------------ MODULE Entities ------------------------------
(***************************************************************************)
(* Participants, publishers, subscribers, topics, writers and readers of   *)
(* one process (src/core), the TransportManager that each of their calls   *)
(* makes for itself, and the threads of the application that call them.    *)
(*                                                                         *)
(* Every object has a mutex of its own.  A method that takes it, reads or  *)
(* writes and gives it back is one step, taken while the mutex is free.  A *)
(* method that first checks and then acts, or that calls other objects, is *)
(* several steps, and holds the mutex from one to the next if the code     *)
(* does.  Calls that change nothing (a getter, CreateTopic of a name that  *)
(* exists, SetTransportType refused) are not steps.                        *)
(***************************************************************************)
EXTENDS Naturals, FiniteSets

CONSTANTS
  Threads,         \* the threads of the application
  Participants,    \* the participants it created
  Publishers,      \* the publishers it may create
  Subscribers,     \* the subscribers it may create
  ParticipantOf,   \* the participant each of them is created by
  Names,           \* topic names
  TypeNames,       \* type names
  RelockOutcomes,  \* what locking a std::mutex may do in the thread that holds it
  ReaderBound,     \* bound: no reader is made when there are that many
  NoTopic,         \* no entry in topics_
  NoCall           \* a thread that is in no call

Factories == Publishers \cup Subscribers
Kinds     == {"UDP", "SHARED_MEMORY"}

ASSUME EntitiesAssumption ==
  /\ ParticipantOf \in [Factories -> Participants]
  /\ Publishers \cap Subscribers = {}
  /\ Participants \cap Factories = {}
  /\ RelockOutcomes \subseteq {"hang", "throw", "proceed"}
  /\ ReaderBound \in Nat

VARIABLES
  transport_type,  \* transport_type_ of each participant
  topics,          \* topics_ of each participant
  factories,       \* what is in publishers_ and subscribers_
  readers,         \* the data readers CreateDataReader returned
  owner,           \* the thread that holds a mutex from one step to the next
  pc, call,        \* per thread: the step it is at, the call it is in
  made,            \* history: the topics CreateTopic made and returned
  released,        \* the participants whose every handle the application dropped
  destroyed        \* the participants whose destructor ran

entities == <<transport_type, topics, factories, readers, made>>
handles  == <<released, destroyed>>
vars     == <<entities, owner, pc, call, handles>>

TopicObjects  == [of : Participants, name : Names, type : TypeNames, id : Nat]
ReaderObjects == [of : Subscribers, name : Names, kind : Kinds, id : Nat]
Mutexes       == Participants \cup Factories \cup ReaderObjects

ASSUME NoTopicAssumption == NoTopic \notin TopicObjects

-----------------------------------------------------------------------------
Init ==
  /\ transport_type = [p \in Participants |-> "UDP"]
  /\ topics = [p \in Participants |-> [n \in Names |-> NoTopic]]
  /\ factories = {}
  /\ readers = {}
  /\ owner = [m \in {} |-> NoCall]
  /\ pc = [th \in Threads |-> "idle"]
  /\ call = [th \in Threads |-> NoCall]
  /\ made = {}
  /\ released = {}
  /\ destroyed = {}

Free(m)    == m \notin DOMAIN owner
Lock(m, t) == owner' = [x \in DOMAIN owner \cup {m} |-> IF x = m THEN t ELSE owner[x]]
Unlock(m)  == owner' = [x \in DOMAIN owner \ {m} |-> owner[x]]

\* A null pointer dereferenced in one thread ends the process.
Running == \A t \in Threads : pc[t] # "fault"

Begin(t, step, args) ==
  /\ Running /\ pc[t] = "idle"
  /\ pc' = [pc EXCEPT ![t] = step]
  /\ call' = [call EXCEPT ![t] = args]

Continue(t, from, to) ==
  /\ Running /\ pc[t] = from
  /\ pc' = [pc EXCEPT ![t] = to]

Return(t, from) ==
  /\ Continue(t, from, "idle")
  /\ call' = [call EXCEPT ![t] = NoCall]

-----------------------------------------------------------------------------
(* DomainParticipantImpl. *)

CreateFactory(t, f) ==
  /\ Running /\ pc[t] = "idle"
  /\ f \notin factories /\ ParticipantOf[f] \notin released
  /\ Free(ParticipantOf[f])
  /\ factories' = factories \cup {f}
  /\ UNCHANGED <<transport_type, topics, readers, made, owner, pc, call, handles>>

\* Mutant of CreateTopicFind: the mutex is released after the look-up.
CreateTopicFindUnlocked(t, p) ==
  /\ p \notin released /\ Free(p)
  /\ \E n \in Names, ty \in TypeNames :
       /\ topics[p][n] = NoTopic
       /\ Begin(t, "insert_topic", [on |-> p, name |-> n, type |-> ty])
  /\ UNCHANGED <<entities, owner, handles>>

CreateTopicFind(t, p) ==
  /\ p \notin released /\ Free(p)
  /\ \E n \in Names, ty \in TypeNames :
       /\ topics[p][n] = NoTopic
       /\ Begin(t, "insert_topic", [on |-> p, name |-> n, type |-> ty])
  /\ Lock(p, t)
  /\ UNCHANGED <<entities, handles>>

\* Mutant of CreateTopicInsert: name and type name swapped.
CreateTopicInsertSwapped(t) ==
  /\ Return(t, "insert_topic")
  /\ LET p == call[t].on
         topic == [of |-> p, name |-> call[t].type, type |-> call[t].name,
                   id |-> Cardinality(made)]
     IN  /\ topics' = [topics EXCEPT ![p][call[t].name] = topic]
         /\ made' = made \cup {topic}
         /\ Unlock(p)
  /\ UNCHANGED <<transport_type, factories, readers, handles>>

CreateTopicInsert(t) ==
  /\ Return(t, "insert_topic")
  /\ LET p == call[t].on
         topic == [of |-> p, name |-> call[t].name, type |-> call[t].type,
                   id |-> Cardinality(made)]
     IN  /\ topics' = [topics EXCEPT ![p][topic.name] = topic]
         /\ made' = made \cup {topic}
         /\ Unlock(p)
  /\ UNCHANGED <<transport_type, factories, readers, handles>>

\* Mutant of SetTransportTypeCheck: subscribers are forgotten.
SetTransportTypeCheckPublishers(t, p) ==
  /\ p \notin released /\ Free(p)
  /\ \A f \in factories \cap Publishers : ParticipantOf[f] # p
  /\ \E kind \in Kinds : Begin(t, "store_type", [on |-> p, kind |-> kind])
  /\ Lock(p, t)
  /\ UNCHANGED <<entities, handles>>

\* Mutant of SetTransportTypeCheck: the mutex is released after the look.
SetTransportTypeCheckUnlocked(t, p) ==
  /\ p \notin released /\ Free(p)
  /\ \A f \in factories : ParticipantOf[f] # p
  /\ \E kind \in Kinds : Begin(t, "store_type", [on |-> p, kind |-> kind])
  /\ UNCHANGED <<entities, owner, handles>>

SetTransportTypeCheck(t, p) ==
  /\ p \notin released /\ Free(p)
  /\ \A f \in factories : ParticipantOf[f] # p
  /\ \E kind \in Kinds : Begin(t, "store_type", [on |-> p, kind |-> kind])
  /\ Lock(p, t)
  /\ UNCHANGED <<entities, handles>>

SetTransportTypeStore(t) ==
  /\ Return(t, "store_type")
  /\ transport_type' = [transport_type EXCEPT ![call[t].on] = call[t].kind]
  /\ Unlock(call[t].on)
  /\ UNCHANGED <<topics, factories, readers, made, handles>>

\* The application drops its handles on the participant and on what it made of it.  The
\* participant's publishers, subscribers and topics point back to it: with any of them
\* its destructor never runs.
Release(p) ==
  /\ Running /\ p \notin released
  /\ \A t \in Threads : pc[t] = "idle"
  /\ released' = released \cup {p}
  /\ destroyed' =
       IF \A f \in factories : ParticipantOf[f] # p /\ \A m \in made : m.of # p
       THEN destroyed \cup {p} ELSE destroyed
  /\ UNCHANGED <<entities, owner, pc, call>>

-----------------------------------------------------------------------------
(* CreateDataWriter and CreateDataReader. *)

\* Mutant of ConstructEndpoint: the factory's mutex is held across the construction.
ConstructEndpointLocked(t, f) ==
  /\ f \in factories /\ ParticipantOf[f] \notin released
  /\ Free(f) /\ Free(ParticipantOf[f])
  /\ Cardinality(readers) < ReaderBound
  /\ \E m \in made :
       Begin(t, "relock", [on |-> f, name |-> m.name,
                           kind |-> transport_type[ParticipantOf[f]]])
  /\ Lock(f, t)
  /\ UNCHANGED <<entities, handles>>

\* The constructor asks the factory for its participant and the participant for its
\* transport type, and calls CreateTransport of a fresh manager, which locks its mutex_.
ConstructEndpoint(t, f) ==
  /\ f \in factories /\ ParticipantOf[f] \notin released
  /\ Free(f) /\ Free(ParticipantOf[f])
  /\ Cardinality(readers) < ReaderBound
  /\ \E m \in made :
       Begin(t, "relock", [on |-> f, name |-> m.name,
                           kind |-> transport_type[ParticipantOf[f]]])
  /\ UNCHANGED <<entities, owner, handles>>

\* CreateTransport calls GetTransport, which locks mutex_ again: undefined for a
\* std::mutex.  It never returns; or it throws, which ends the call; or, where nothing is
\* locked, a transport of the type is made.
GetTransportRelocks(t) ==
  /\ \/ "hang" \in RelockOutcomes /\ Continue(t, "relock", "hung") /\ UNCHANGED call
     \/ "throw" \in RelockOutcomes /\ Return(t, "relock")
     \/ "proceed" \in RelockOutcomes /\ Continue(t, "relock", "announce") /\ UNCHANGED call
  /\ UNCHANGED <<entities, owner, handles>>

\* Advertise or Subscribe, on the transport of the type the participant has now; the
\* result is ignored.  Manager and transport end with the constructor.
Announce(t) ==
  /\ Continue(t, "announce", "register")
  /\ Free(call[t].on) /\ Free(ParticipantOf[call[t].on])
  /\ UNCHANGED <<entities, owner, call, handles>>

\* CreateDataWriter asks the topic it moved from for its name.
RegisterWriter(t) ==
  /\ Continue(t, "register", "fault")
  /\ call[t].on \in Publishers /\ Free(call[t].on)
  /\ UNCHANGED <<entities, owner, call, handles>>

RegisterReader(t) ==
  /\ Return(t, "register")
  /\ call[t].on \in Subscribers /\ Free(call[t].on)
  /\ readers' = readers \cup {[of |-> call[t].on, name |-> call[t].name,
                               kind |-> call[t].kind, id |-> Cardinality(readers)]}
  /\ UNCHANGED <<transport_type, topics, factories, made, owner, handles>>

-----------------------------------------------------------------------------
(* DataReaderImpl: Read, and Take, which is Read. *)

ReadBegin(t, d) ==
  /\ Free(d) /\ ParticipantOf[d.of] \notin released
  /\ Begin(t, "read", [on |-> d])
  /\ Lock(d, t)
  /\ UNCHANGED <<entities, handles>>

\* A fresh manager has no transport: no data, whatever was sent.
ReadReturn(t) ==
  /\ Return(t, "read")
  /\ Free(call[t].on.of) /\ Free(ParticipantOf[call[t].on.of])
  /\ Unlock(call[t].on)
  /\ UNCHANGED <<entities, handles>>

-----------------------------------------------------------------------------
\* What a thread does once it has begun a call.
Step(t) ==
  \/ CreateTopicInsert(t) \/ SetTransportTypeStore(t)
  \/ GetTransportRelocks(t) \/ Announce(t) \/ RegisterWriter(t) \/ RegisterReader(t)
  \/ ReadReturn(t)

Next ==
  \/ \E t \in Threads :
       \/ Step(t)
       \/ \E p \in Participants : CreateTopicFind(t, p) \/ SetTransportTypeCheck(t, p)
       \/ \E f \in Factories : CreateFactory(t, f) \/ ConstructEndpoint(t, f)
       \/ \E d \in readers : ReadBegin(t, d)
  \/ \E p \in Participants : Release(p)

Spec == Init /\ [][Next]_vars

\* A thread in a call goes on, and gets a mutex that is free again and again.
FairSpec == Spec /\ \A t \in Threads : SF_vars(Step(t))

-----------------------------------------------------------------------------
(* Properties. *)

PcNames == {"idle", "insert_topic", "store_type", "relock", "hung", "announce",
            "register", "read", "fault"}

\* Every variable keeps its type, and a call at a step has the arguments that step uses.
TypeOK ==
  /\ transport_type \in [Participants -> Kinds]
  /\ topics \in [Participants -> [Names -> TopicObjects \cup {NoTopic}]]
  /\ factories \subseteq Factories /\ readers \subseteq ReaderObjects
  /\ made \subseteq TopicObjects
  /\ released \subseteq Participants /\ destroyed \subseteq Participants
  /\ pc \in [Threads -> PcNames]
  /\ DOMAIN owner \subseteq Mutexes /\ \A m \in DOMAIN owner : owner[m] \in Threads
  /\ DOMAIN call = Threads
  /\ \A t \in Threads :
       /\ pc[t] = "insert_topic" =>
            call[t] \in [on : Participants, name : Names, type : TypeNames]
       /\ pc[t] = "store_type" => call[t] \in [on : Participants, kind : Kinds]
       /\ pc[t] \in {"relock", "announce", "register"} =>
            call[t] \in [on : Factories, name : Names, kind : Kinds]
       /\ pc[t] = "read" => call[t] \in [on : ReaderObjects]

\* A thread that is between two steps of a method holds the mutex the method took.
HoldsItsMutex ==
  \A t \in Threads : pc[t] \in {"insert_topic", "store_type", "read"} =>
    call[t].on \in DOMAIN owner /\ owner[call[t].on] = t

\* What a method checked still holds when it acts on it.
ChecksStillHold ==
  \A t \in Threads :
    /\ pc[t] = "insert_topic" => topics[call[t].on][call[t].name] = NoTopic
    /\ pc[t] = "store_type" => \A f \in factories : ParticipantOf[f] # call[t].on
    /\ pc[t] \in {"relock", "announce", "register"} =>
         call[t].on \in factories /\ \E m \in made : m.name = call[t].name

\* CreateTopic makes one topic for a name: a topic once returned is what every later
\* CreateTopic of that name finds, whatever other threads create meanwhile.
TopicIdentity == \A m \in made : topics[m.of][m.name] = m

\* The transport type a constructor creates its transport for is the one it looks it up
\* by afterwards, and the one every later Read uses: SetTransportType comes too late.
TransportAgreed ==
  /\ \A t \in Threads :
       pc[t] \in {"relock", "announce", "register"} =>
         call[t].kind = transport_type[ParticipantOf[call[t].on]]
  /\ \A d \in readers : d.kind = transport_type[ParticipantOf[d.of]]

\* The inductive invariant that TopicIdentity and TransportAgreed rest on: a check that a
\* method made under its participant's mutex is still true when the method acts on it.
EInv ==
  /\ TypeOK
  /\ IsFiniteSet(made) /\ IsFiniteSet(readers)
  /\ \A d \in readers : d.of \in factories
  /\ HoldsItsMutex /\ ChecksStillHold
  /\ TopicIdentity /\ TransportAgreed

\* What the threads' calls do to the participants is what calls would do that take effect at
\* once: nothing shows that CreateTopic and SetTransportType check first and act later, and
\* that a reader is constructed before it is registered.
Calls == INSTANCE ParticipantCalls
ImplementsCalls == Calls!Spec

\* No call waits for one that never returns: a thread that hangs in CreateTransport holds
\* no mutex that another call needs, and no call needs a mutex it holds itself.  (Unless
\* the process ends.)
NoCallBlocksAnother ==
  \A t \in Threads : pc[t] # "idle" ~> pc[t] \in {"idle", "hung"} \/ ~Running

\* CreateDataWriter and CreateDataReader return.
CreationReturns == \A t \in Threads : pc[t] = "relock" ~> pc[t] = "idle"

\* A participant the application is done with is destroyed.
ReleasedIsDestroyed == released \subseteq destroyed
=============================================================================
