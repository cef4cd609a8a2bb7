-------------------------- MODULE Entities_proofs --------------------------
(***************************************************************************)
(* Proofs about Entities, for any number of threads, participants,         *)
(* publishers, subscribers and names.  EInv is inductive: a method that    *)
(* checks and then acts holds its participant's mutex in between, so that  *)
(* no other thread's step can undo what it checked.                        *)
(***************************************************************************)
EXTENDS Entities, FiniteSetTheorems, TLAPS

-----------------------------------------------------------------------------
\* The initial state: nothing is made and every thread is idle.
LEMMA InitEInv == Init => EInv
<1> SUFFICES ASSUME Init PROVE EInv
  OBVIOUS
<1>1. TypeOK
  BY DEF Init, TypeOK, Kinds, PcNames, Mutexes
<1>2. IsFiniteSet(made) /\ IsFiniteSet(readers)
  BY FS_EmptySet DEF Init
<1>3. HoldsItsMutex /\ ChecksStillHold
  BY DEF Init, HoldsItsMutex, ChecksStillHold
<1>4. TopicIdentity /\ TransportAgreed
  BY DEF Init, TopicIdentity, TransportAgreed
<1> QED BY <1>1, <1>2, <1>3, <1>4 DEF EInv, Init

\* CreatePublisher, CreateSubscriber: a SetTransportType that found none of its
\* participant's holds the mutex this needs.
LEMMA CreateFactoryEInv ==
  ASSUME EInv, NEW t \in Threads, NEW f \in Factories, CreateFactory(t, f)
  PROVE  EInv'
<1> USE DEF CreateFactory, handles
<1>1. TypeOK'
  BY DEF EInv, TypeOK
<1>2. HoldsItsMutex'
  BY DEF EInv, HoldsItsMutex
<1>3. ChecksStillHold'
  BY DEF EInv, ChecksStillHold, HoldsItsMutex, Free
<1>4. TopicIdentity' /\ TransportAgreed'
  BY DEF EInv, TopicIdentity, TransportAgreed
<1> QED BY <1>1, <1>2, <1>3, <1>4 DEF EInv

\* The first half of CreateTopic.
LEMMA CreateTopicFindEInv ==
  ASSUME EInv, NEW t \in Threads, NEW p \in Participants, CreateTopicFind(t, p)
  PROVE  EInv'
<1> USE DEF CreateTopicFind, Begin, entities, handles, Lock
<1>1. TypeOK'
  BY DEF EInv, TypeOK, PcNames, Mutexes
<1>2. HoldsItsMutex'
  BY DEF EInv, TypeOK, HoldsItsMutex, Free
<1>3. ChecksStillHold'
  BY DEF EInv, TypeOK, ChecksStillHold
<1>4. TopicIdentity'
  BY DEF EInv, TopicIdentity
<1>5. TransportAgreed'
  BY DEF EInv, TypeOK, TransportAgreed
<1> QED BY <1>1, <1>2, <1>3, <1>4, <1>5 DEF EInv

\* The second half: the name had no topic when the mutex was taken, and no other thread
\* has put one there since.
LEMMA CreateTopicInsertEInv ==
  ASSUME EInv, NEW t \in Threads, CreateTopicInsert(t)
  PROVE  EInv'
<1> USE DEF CreateTopicInsert, Return, Continue, handles
<1> DEFINE p     == call[t].on
           topic == [of |-> p, name |-> call[t].name, type |-> call[t].type,
                     id |-> Cardinality(made)]
<1>1. /\ p \in Participants /\ topic \in TopicObjects
      /\ topic.of = p /\ topic.name = call[t].name
      /\ topics[p][topic.name] = NoTopic
  BY FS_CardinalityType DEF EInv, TypeOK, TopicObjects, ChecksStillHold
<1>2. /\ topics' = [topics EXCEPT ![p][topic.name] = topic]
      /\ made' = made \cup {topic} /\ Unlock(p)
      /\ UNCHANGED <<transport_type, factories, readers, released, destroyed>>
      /\ pc' = [pc EXCEPT ![t] = "idle"] /\ call' = [call EXCEPT ![t] = NoCall]
      /\ pc[t] = "insert_topic"
  OBVIOUS
<1> HIDE DEF p, topic
<1>3. TypeOK'
  BY <1>1, <1>2 DEF EInv, TypeOK, PcNames, Mutexes, Unlock, TopicObjects
<1>4. IsFiniteSet(made')
  BY <1>2, FS_AddElement DEF EInv
<1>5. HoldsItsMutex'
  BY <1>1, <1>2 DEF EInv, TypeOK, HoldsItsMutex, Unlock, p
<1>6. ChecksStillHold'
  BY <1>1, <1>2 DEF EInv, TypeOK, ChecksStillHold, HoldsItsMutex, p
<1>7. TopicIdentity'
  <2> SUFFICES ASSUME NEW m \in made' PROVE topics'[m.of][m.name] = m
    BY DEF TopicIdentity
  <2>1. CASE m = topic
    BY <2>1, <1>1, <1>2 DEF EInv, TypeOK, TopicObjects
  <2>2. CASE m \in made
    <3>1. m \in TopicObjects /\ topics[m.of][m.name] = m
      BY <2>2 DEF EInv, TypeOK, TopicIdentity
    <3>2. m.of # p \/ m.name # topic.name
      BY <3>1, <1>1, NoTopicAssumption
    <3> QED BY <3>1, <3>2, <1>1, <1>2 DEF EInv, TypeOK, TopicObjects
  <2> QED BY <2>1, <2>2, <1>2
<1>8. TransportAgreed'
  BY <1>2 DEF EInv, TypeOK, TransportAgreed
<1> QED BY <1>2, <1>3, <1>4, <1>5, <1>6, <1>7, <1>8 DEF EInv

\* The first half of SetTransportType.
LEMMA SetTransportTypeCheckEInv ==
  ASSUME EInv, NEW t \in Threads, NEW p \in Participants, SetTransportTypeCheck(t, p)
  PROVE  EInv'
<1> USE DEF SetTransportTypeCheck, Begin, entities, handles, Lock
<1>1. TypeOK'
  BY DEF EInv, TypeOK, PcNames, Mutexes
<1>2. HoldsItsMutex'
  BY DEF EInv, TypeOK, HoldsItsMutex, Free
<1>3. ChecksStillHold'
  BY DEF EInv, TypeOK, ChecksStillHold
<1>4. TopicIdentity'
  BY DEF EInv, TopicIdentity
<1>5. TransportAgreed'
  BY DEF EInv, TypeOK, TransportAgreed
<1> QED BY <1>1, <1>2, <1>3, <1>4, <1>5 DEF EInv

\* The second half: the participant still has no publisher and no subscriber, so nothing
\* that was made depends on its transport type.
LEMMA SetTransportTypeStoreEInv ==
  ASSUME EInv, NEW t \in Threads, SetTransportTypeStore(t)
  PROVE  EInv'
<1> USE DEF SetTransportTypeStore, Return, Continue, handles
<1>1. /\ call[t].on \in Participants /\ call[t].kind \in Kinds
      /\ \A f \in factories : ParticipantOf[f] # call[t].on
  BY DEF EInv, TypeOK, ChecksStillHold
<1>2. TypeOK'
  BY <1>1 DEF EInv, TypeOK, PcNames, Unlock
<1>3. HoldsItsMutex'
  BY DEF EInv, TypeOK, HoldsItsMutex, Unlock
<1>4. ChecksStillHold'
  BY DEF EInv, TypeOK, ChecksStillHold
<1>5. TopicIdentity'
  BY DEF EInv, TopicIdentity
<1>6. TransportAgreed'
  BY <1>1, EntitiesAssumption
     DEF EInv, TypeOK, ChecksStillHold, TransportAgreed, ReaderObjects, Factories
<1> QED BY <1>2, <1>3, <1>4, <1>5, <1>6 DEF EInv

\* The constructor of a writer or a reader reads the transport type.
LEMMA ConstructEndpointEInv ==
  ASSUME EInv, NEW t \in Threads, NEW f \in Factories, ConstructEndpoint(t, f)
  PROVE  EInv'
<1> USE DEF ConstructEndpoint, Begin, entities, handles
<1>1. ParticipantOf[f] \in Participants
  BY EntitiesAssumption
<1>2. TypeOK'
  BY <1>1 DEF EInv, TypeOK, PcNames, TopicObjects
<1>3. HoldsItsMutex'
  BY DEF EInv, TypeOK, HoldsItsMutex
<1>4. ChecksStillHold'
  BY DEF EInv, TypeOK, ChecksStillHold
<1>5. TopicIdentity'
  BY DEF EInv, TopicIdentity
<1>6. TransportAgreed'
  BY DEF EInv, TypeOK, TransportAgreed
<1> QED BY <1>2, <1>3, <1>4, <1>5, <1>6 DEF EInv

\* The second lock of CreateTransport, Advertise or Subscribe, and the null pointer of
\* CreateDataWriter: only the thread moves on.
LEMMA EndpointStepEInv ==
  ASSUME EInv, NEW t \in Threads,
         GetTransportRelocks(t) \/ Announce(t) \/ RegisterWriter(t)
  PROVE  EInv'
<1> USE DEF GetTransportRelocks, Announce, RegisterWriter, Return, Continue, entities, handles
<1>1. TypeOK'
  BY DEF EInv, TypeOK, PcNames
<1>2. HoldsItsMutex'
  BY DEF EInv, TypeOK, HoldsItsMutex
<1>3. ChecksStillHold'
  BY DEF EInv, TypeOK, ChecksStillHold
<1>4. TopicIdentity'
  BY DEF EInv, TopicIdentity
<1>5. TransportAgreed'
  BY DEF EInv, TypeOK, TransportAgreed
<1> QED BY <1>1, <1>2, <1>3, <1>4, <1>5 DEF EInv

\* CreateDataReader returns.
LEMMA RegisterReaderEInv ==
  ASSUME EInv, NEW t \in Threads, RegisterReader(t)
  PROVE  EInv'
<1> USE DEF RegisterReader, Return, Continue, handles
<1> DEFINE d == [of |-> call[t].on, name |-> call[t].name, kind |-> call[t].kind,
                 id |-> Cardinality(readers)]
<1>1. /\ d \in ReaderObjects /\ d.of \in factories
      /\ d.kind = transport_type[ParticipantOf[d.of]]
  BY FS_CardinalityType DEF EInv, TypeOK, ChecksStillHold, TransportAgreed, ReaderObjects
<1>2. readers' = readers \cup {d}
  OBVIOUS
<1> HIDE DEF d
<1>3. TypeOK'
  BY <1>1, <1>2 DEF EInv, TypeOK, PcNames
<1>4. IsFiniteSet(readers')
  BY <1>2, FS_AddElement DEF EInv
<1>5. HoldsItsMutex'
  BY DEF EInv, TypeOK, HoldsItsMutex
<1>6. ChecksStillHold'
  BY DEF EInv, TypeOK, ChecksStillHold
<1>7. TopicIdentity'
  BY DEF EInv, TopicIdentity
<1>8. TransportAgreed'
  BY <1>1, <1>2 DEF EInv, TypeOK, TransportAgreed
<1> QED BY <1>1, <1>2, <1>3, <1>4, <1>5, <1>6, <1>7, <1>8 DEF EInv

\* A reader's mutex is taken.
LEMMA ReadBeginEInv ==
  ASSUME EInv, NEW t \in Threads, NEW d \in readers, ReadBegin(t, d)
  PROVE  EInv'
<1> USE DEF ReadBegin, Begin, entities, handles, Lock
<1>1. TypeOK'
  BY DEF EInv, TypeOK, PcNames, Mutexes
<1>2. HoldsItsMutex'
  BY DEF EInv, TypeOK, HoldsItsMutex, Free
<1>3. ChecksStillHold'
  BY DEF EInv, TypeOK, ChecksStillHold
<1>4. TopicIdentity'
  BY DEF EInv, TopicIdentity
<1>5. TransportAgreed'
  BY DEF EInv, TypeOK, TransportAgreed
<1> QED BY <1>1, <1>2, <1>3, <1>4, <1>5 DEF EInv

\* And given back.
LEMMA ReadReturnEInv ==
  ASSUME EInv, NEW t \in Threads, ReadReturn(t)
  PROVE  EInv'
<1> USE DEF ReadReturn, Return, Continue, entities, handles, Unlock
<1>1. TypeOK'
  BY DEF EInv, TypeOK, PcNames
<1>2. HoldsItsMutex'
  BY DEF EInv, TypeOK, HoldsItsMutex
<1>3. ChecksStillHold'
  BY DEF EInv, TypeOK, ChecksStillHold
<1>4. TopicIdentity'
  BY DEF EInv, TopicIdentity
<1>5. TransportAgreed'
  BY DEF EInv, TypeOK, TransportAgreed
<1> QED BY <1>1, <1>2, <1>3, <1>4, <1>5 DEF EInv

\* A released participant keeps what it has.
LEMMA ReleaseEInv ==
  ASSUME EInv, NEW p \in Participants, Release(p)
  PROVE  EInv'
<1> USE DEF Release, entities
<1>1. TypeOK'
  BY DEF EInv, TypeOK
<1>2. HoldsItsMutex' /\ ChecksStillHold'
  BY DEF EInv, HoldsItsMutex, ChecksStillHold
<1>3. TopicIdentity' /\ TransportAgreed'
  BY DEF EInv, TopicIdentity, TransportAgreed
<1> QED BY <1>1, <1>2, <1>3 DEF EInv

-----------------------------------------------------------------------------
\* No step of any thread, nor a step of something else, breaks EInv.
LEMMA NextEInv == EInv /\ [Next]_vars => EInv'
<1> SUFFICES ASSUME EInv, [Next]_vars PROVE EInv'
  OBVIOUS
<1>1. CASE UNCHANGED vars
  BY <1>1 DEF EInv, TypeOK, HoldsItsMutex, ChecksStillHold, TopicIdentity, TransportAgreed,
              vars, entities, handles
<1>2. ASSUME NEW t \in Threads, Step(t) PROVE EInv'
  BY <1>2, CreateTopicInsertEInv, SetTransportTypeStoreEInv, EndpointStepEInv,
     RegisterReaderEInv, ReadReturnEInv DEF Step
<1>3. ASSUME NEW t \in Threads, NEW p \in Participants,
             CreateTopicFind(t, p) \/ SetTransportTypeCheck(t, p)
      PROVE  EInv'
  BY <1>3, CreateTopicFindEInv, SetTransportTypeCheckEInv
<1>4. ASSUME NEW t \in Threads, NEW f \in Factories,
             CreateFactory(t, f) \/ ConstructEndpoint(t, f)
      PROVE  EInv'
  BY <1>4, CreateFactoryEInv, ConstructEndpointEInv
<1>5. ASSUME NEW t \in Threads, NEW d \in readers, ReadBegin(t, d) PROVE EInv'
  BY <1>5, ReadBeginEInv
<1>6. ASSUME NEW p \in Participants, Release(p) PROVE EInv'
  BY <1>6, ReleaseEInv
<1> QED BY <1>1, <1>2, <1>3, <1>4, <1>5, <1>6 DEF Next

\* EInv holds in every state, for any number of threads, participants and names and
\* whatever the second lock of CreateTransport does.
THEOREM EntitiesInvariant == Spec => []EInv
<1>1. Init => EInv
  BY InitEInv
<1>2. EInv /\ [Next]_vars => EInv'
  BY NextEInv
<1> QED BY <1>1, <1>2, PTL DEF Spec

\* Whatever threads create topics of the same name at the same time, one of them makes
\* the topic and its participant keeps it (DomainParticipantImpl::CreateTopic).
THEOREM OneTopicPerName == Spec => []TopicIdentity
<1>1. EInv => TopicIdentity
  BY DEF EInv
<1> QED BY <1>1, EntitiesInvariant, PTL

\* The transport type of a participant never changes under a reader or under a writer or
\* reader being constructed (DomainParticipantImpl::SetTransportType).
THEOREM OneTransportType == Spec => []TransportAgreed
<1>1. EInv => TransportAgreed
  BY DEF EInv
<1> QED BY <1>1, EntitiesInvariant, PTL

-----------------------------------------------------------------------------
(* The refinement of ParticipantCalls, with the variables that they share. *)

\* The second half of CreateTopic is where the call takes effect: the topic it makes has
\* the name's place for the first time.
LEMMA InsertIsCreateTopic ==
  ASSUME EInv, NEW t \in Threads, CreateTopicInsert(t)
  PROVE  \E p \in Participants, n \in Names : Calls!CreateTopic(p, n)
<1> DEFINE p     == call[t].on
           n     == call[t].name
           topic == [of |-> p, name |-> n, type |-> call[t].type, id |-> Cardinality(made)]
<1>1. pc[t] = "insert_topic"
  BY DEF CreateTopicInsert, Return, Continue
<1>2. p \in Participants /\ n \in Names /\ topics[p][n] = NoTopic
  BY <1>1 DEF EInv, TypeOK, ChecksStillHold
<1>3. topic \in TopicObjects /\ topic.of = p /\ topic.name = n
  BY <1>1, FS_CardinalityType DEF EInv, TypeOK, TopicObjects
<1>4. /\ topics' = [topics EXCEPT ![p][n] = topic]
      /\ UNCHANGED <<transport_type, factories, readers>>
  BY DEF CreateTopicInsert
<1> HIDE DEF p, n, topic
<1>5. topics'[p][n] = topic
  BY <1>2, <1>4 DEF EInv, TypeOK
<1> QED BY <1>2, <1>3, <1>4, <1>5 DEF Calls!CreateTopic

\* The second half of SetTransportType: the participant still has nothing made of it.
LEMMA StoreIsSetTransportType ==
  ASSUME EInv, NEW t \in Threads, SetTransportTypeStore(t)
  PROVE  \E p \in Participants : Calls!SetTransportType(p)
<1>1. pc[t] = "store_type"
  BY DEF SetTransportTypeStore, Return, Continue
<1>2. call[t].on \in Participants /\ call[t].kind \in Kinds
  BY <1>1 DEF EInv, TypeOK
<1>3. ~Calls!Settled(call[t].on)
  BY <1>1 DEF EInv, ChecksStillHold, Calls!Settled
<1> QED BY <1>2, <1>3 DEF SetTransportTypeStore, Calls!SetTransportType

\* The registration of a reader is where CreateDataReader takes effect: the topic it was
\* given is still there, and the transport type is the one it was constructed for.
LEMMA RegisterIsCreateReader ==
  ASSUME EInv, NEW t \in Threads, RegisterReader(t)
  PROVE  \E f \in Factories : Calls!CreateReader(f)
<1> DEFINE f == call[t].on
           d == [of |-> f, name |-> call[t].name, kind |-> call[t].kind,
                 id |-> Cardinality(readers)]
<1>1. pc[t] = "register"
  BY DEF RegisterReader, Return, Continue
<1>2. f \in factories /\ f \in Factories /\ call[t].kind = transport_type[ParticipantOf[f]]
  BY <1>1 DEF EInv, TypeOK, ChecksStillHold, TransportAgreed
<1>3. \E p \in Participants : topics[p][call[t].name] # NoTopic
  <2>1. PICK m \in made : m.name = call[t].name
    BY <1>1 DEF EInv, ChecksStillHold
  <2>2. m \in TopicObjects /\ topics[m.of][m.name] = m
    BY DEF EInv, TypeOK, TopicIdentity
  <2> QED BY <2>1, <2>2, NoTopicAssumption DEF TopicObjects
<1>4. readers' = readers \cup {d} /\ UNCHANGED <<transport_type, topics, factories>>
  BY DEF RegisterReader
<1>5. d.of = f /\ d.name = call[t].name /\ d.kind = call[t].kind
  OBVIOUS
<1> HIDE DEF f, d
<1>6. d \in readers'
  BY <1>4
<1> QED BY <1>2, <1>3, <1>4, <1>5, <1>6 DEF Calls!CreateReader

\* Every other step is CreatePublisher, CreateSubscriber or one that no call shows.
LEMMA StepImplementsCalls == EInv /\ [Next]_vars => [Calls!Next]_(Calls!state)
<1> SUFFICES ASSUME EInv, [Next]_vars PROVE Calls!Next \/ UNCHANGED Calls!state
  OBVIOUS
<1> USE DEF Calls!state, entities
<1>1. CASE UNCHANGED vars
  BY <1>1 DEF vars
<1>2. ASSUME NEW t \in Threads, Step(t) PROVE Calls!Next \/ UNCHANGED Calls!state
  <2>1. CASE CreateTopicInsert(t)
    BY <2>1, InsertIsCreateTopic DEF Calls!Next
  <2>2. CASE SetTransportTypeStore(t)
    BY <2>2, StoreIsSetTransportType DEF Calls!Next
  <2>3. CASE RegisterReader(t)
    BY <2>3, RegisterIsCreateReader DEF Calls!Next
  <2>4. CASE GetTransportRelocks(t) \/ Announce(t) \/ RegisterWriter(t) \/ ReadReturn(t)
    BY <2>4 DEF GetTransportRelocks, Announce, RegisterWriter, ReadReturn
  <2> QED BY <1>2, <2>1, <2>2, <2>3, <2>4 DEF Step
<1>3. ASSUME NEW t \in Threads, NEW p \in Participants,
             CreateTopicFind(t, p) \/ SetTransportTypeCheck(t, p)
      PROVE  UNCHANGED Calls!state
  BY <1>3 DEF CreateTopicFind, SetTransportTypeCheck
<1>4. ASSUME NEW t \in Threads, NEW f \in Factories, CreateFactory(t, f)
      PROVE  Calls!Next
  BY <1>4 DEF CreateFactory, Calls!CreateFactory, Calls!Next
<1>5. ASSUME NEW t \in Threads, NEW f \in Factories, ConstructEndpoint(t, f)
      PROVE  UNCHANGED Calls!state
  BY <1>5 DEF ConstructEndpoint
<1>6. ASSUME NEW t \in Threads, NEW d \in readers, ReadBegin(t, d)
      PROVE  UNCHANGED Calls!state
  BY <1>6 DEF ReadBegin
<1>7. ASSUME NEW p \in Participants, Release(p) PROVE UNCHANGED Calls!state
  BY <1>7 DEF Release
<1> QED BY <1>1, <1>2, <1>3, <1>4, <1>5, <1>6, <1>7 DEF Next

\* What the calls of any number of threads do to participants, publishers, subscribers,
\* topics and readers is what the same calls would do one after the other, each at once
\* (DomainParticipantImpl, SubscriberImpl::CreateDataReader).
THEOREM CallsTakeEffectAtOnce == Spec => ImplementsCalls
<1>1. Init => Calls!Init
  BY DEF Init, Calls!Init
<1>2. EInv /\ [Next]_vars => [Calls!Next]_(Calls!state)
  BY StepImplementsCalls
<1> QED BY <1>1, <1>2, EntitiesInvariant, PTL DEF Spec, Calls!Spec, ImplementsCalls
=============================================================================
