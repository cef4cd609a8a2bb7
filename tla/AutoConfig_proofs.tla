------------------------- MODULE AutoConfig_proofs -------------------------
(***************************************************************************)
(* Proofs about AutoConfig: whatever documents there are and however often *)
(* a loader loads, the topics that endpoints name resolve.                 *)
(***************************************************************************)
EXTENDS AutoConfig, TLAPS

\* What a document may contain.
LEMMA DocumentType ==
  ASSUME NEW d \in Documents, Accepted(d)
  PROVE  /\ d \in Seq(ParticipantNodes) /\ d # <<>>
         /\ \A q \in DOMAIN d :
              /\ d[q] \in ParticipantNodes /\ d[q].name \in Names
              /\ \A j \in DOMAIN d[q].topics :
                   d[q].topics[j].name \in Names /\ d[q].topics[j].type_name \in TypeNames
              /\ \A j \in DOMAIN d[q].publishers : d[q].publishers[j].name \in Names
              /\ \A j \in DOMAIN d[q].subscribers : d[q].subscribers[j].name \in Names
<1>1. d \in Seq(ParticipantNodes) /\ d # <<>>
  BY ConfigAssumption DEF Accepted, LoadFromYamlNode, ValidateConfig
<1>2. ASSUME NEW q \in DOMAIN d
      PROVE  d[q] \in ParticipantNodes /\ ParseDomainParticipantConfig(d[q]) /\ d[q].name # Empty
  BY <1>1, <1>2 DEF Accepted, LoadFromYamlNode, ValidateConfig
<1>3. ASSUME NEW q \in DOMAIN d
      PROVE  d[q].name \in Names
  BY <1>2, <1>3 DEF ParticipantNodes, Field, ParseDomainParticipantConfig
<1>4. ASSUME NEW q \in DOMAIN d, NEW j \in DOMAIN d[q].topics
      PROVE  d[q].topics[j].name \in Names /\ d[q].topics[j].type_name \in TypeNames
  <2>1. d[q].topics[j] \in TopicNodes
    BY <1>2, <1>4 DEF ParticipantNodes
  <2>2. ParseTopicConfig(d[q].topics[j])
    BY <1>2, <1>4 DEF ParseDomainParticipantConfig
  <2>3. d[q].topics[j].name # Empty /\ d[q].topics[j].type_name # Empty
    BY <1>4 DEF Accepted, ValidateConfig
  <2> QED BY <2>1, <2>2, <2>3 DEF TopicNodes, Field, ParseTopicConfig
<1>5. ASSUME NEW q \in DOMAIN d, NEW j \in DOMAIN d[q].publishers
      PROVE  d[q].publishers[j].name \in Names
  <2>1. d[q].publishers[j] \in EndpointNodes
    BY <1>2, <1>5 DEF ParticipantNodes
  <2>2. d[q].publishers[j].name # Missing
    BY <1>2, <1>5 DEF ParseDomainParticipantConfig, ParsePublisherConfig
  <2>3. d[q].publishers[j].name # Empty
    BY <1>5 DEF Accepted, ValidateConfig
  <2> QED BY <2>1, <2>2, <2>3 DEF EndpointNodes, Field
<1>6. ASSUME NEW q \in DOMAIN d, NEW j \in DOMAIN d[q].subscribers
      PROVE  d[q].subscribers[j].name \in Names
  <2>1. d[q].subscribers[j] \in EndpointNodes
    BY <1>2, <1>6 DEF ParticipantNodes
  <2>2. d[q].subscribers[j].name # Missing
    BY <1>2, <1>6 DEF ParseDomainParticipantConfig, ParseSubscriberConfig, ParsePublisherConfig
  <2>3. d[q].subscribers[j].name # Empty
    BY <1>6 DEF Accepted, ValidateConfig
  <2> QED BY <2>1, <2>2, <2>3 DEF EndpointNodes, Field
<1> QED BY <1>1, <1>2, <1>3, <1>4, <1>5, <1>6

\* The configuration being loaded is one of those.
LEMMA NodeType ==
  ASSUME CInv, pc \in {"topics", "publishers", "subscribers"}
  PROVE  /\ Node \in ParticipantNodes /\ Node.name \in Names
         /\ \A j \in DOMAIN Node.topics :
              Node.topics[j].name \in Names /\ Node.topics[j].type_name \in TypeNames
         /\ \A j \in DOMAIN Node.publishers : Node.publishers[j].name \in Names
         /\ \A j \in DOMAIN Node.subscribers : Node.subscribers[j].name \in Names
         /\ at \in DOMAIN doc
         /\ DOMAIN Node.topics = 1 .. Len(Node.topics)
         /\ DOMAIN Node.publishers = 1 .. Len(Node.publishers)
         /\ DOMAIN Node.subscribers = 1 .. Len(Node.subscribers)
<1>1. doc \in Documents /\ Accepted(doc) /\ at \in 1 .. Len(doc) /\ doc \in Seq(ParticipantNodes)
  BY DEF CInv, DocAccepted, TypeOK
<1>2. at \in DOMAIN doc
  BY <1>1
<1>3. Node \in ParticipantNodes
  BY <1>1, <1>2, DocumentType DEF Node
<1>4. /\ Node.topics \in Seq(TopicNodes)
      /\ Node.publishers \in Seq(EndpointNodes)
      /\ Node.subscribers \in Seq(EndpointNodes)
  BY <1>3 DEF ParticipantNodes
<1>5. /\ DOMAIN Node.topics = 1 .. Len(Node.topics)
      /\ DOMAIN Node.publishers = 1 .. Len(Node.publishers)
      /\ DOMAIN Node.subscribers = 1 .. Len(Node.subscribers)
  BY <1>4
<1> QED BY <1>1, <1>2, <1>3, <1>5, DocumentType DEF Node

\* Before the first load all maps are empty.
LEMMA CInvInit == Init => CInv
BY ConfigAssumption DEF Init, CInv, TypeOK, DocAccepted, TopicsMade, Keys

-----------------------------------------------------------------------------
(* One lemma per action that moves the loops or writes a map. *)

\* A load begins with a document that was accepted.
LEMMA BeginsStep == ASSUME CInv, LoadBegins PROVE CInv'
<1>1. PICK d \in Documents : Accepted(d) /\ doc' = d
  BY DEF LoadBegins
<1>2. TypeOK'
  BY <1>1, DocumentType DEF LoadBegins, CInv, TypeOK, maps
<1>3. at' = 1 /\ Len(doc') \in Nat /\ pc' = "participants"
  BY <1>2 DEF LoadBegins, CInv, DocAccepted, TypeOK
<1>4. DocAccepted' /\ TopicsMade'
  BY <1>1, <1>3 DEF DocAccepted, TopicsMade, Accepted, LoadFromYamlNode, ValidateConfig
<1> QED BY <1>2, <1>4 DEF CInv

\* A load that is over leaves nothing to hold.
LEMMA OverStep ==
  ASSUME CInv, Return, participants' \in [Names -> [id : Nat] \cup {NoEntity}],
         topics' = topics, publishers' \in [Keys -> [of : Nat] \cup {NoEntity}],
         subscribers' \in [Keys -> [of : Nat] \cup {NoEntity}], UNCHANGED <<created, loads>>,
         topic_objects' = topic_objects, loaded' \subseteq Documents,
         last' \in Documents \cup {Missing}
  PROVE  CInv'
<1>1. TypeOK'
  BY DEF Return, CInv, TypeOK
<1>2. DocAccepted' /\ TopicsMade'
  BY DEF Return, DocAccepted, TopicsMade
<1> QED BY <1>1, <1>2 DEF CInv

\* A load that returns true.
LEMMA ReturnsStep == ASSUME CInv, LoadReturns PROVE CInv'
<1>1. doc \in Documents
  BY DEF LoadReturns, CInv, DocAccepted
<1> QED BY <1>1, OverStep DEF LoadReturns, CInv, TypeOK, maps

\* A load that returns false because of a topic.
LEMMA TopicFailsStep == ASSUME CInv, CreateTopicFails PROVE CInv'
BY OverStep DEF CreateTopicFails, CInv, TypeOK, maps

\* A participant is entered under a name.
LEMMA ParticipantStep == ASSUME CInv, CreateParticipant PROVE CInv'
<1>1. doc \in Documents /\ Accepted(doc) /\ at \in DOMAIN doc
  BY DEF CInv, TypeOK, DocAccepted, CreateParticipant
<1>2. Node.name \in Names
  BY <1>1, DocumentType DEF Node
<1>3. TypeOK'
  BY <1>2 DEF CInv, TypeOK, CreateParticipant
<1>4. DocAccepted' /\ TopicsMade'
  BY <1>1, <1>3 DEF CInv, TypeOK, DocAccepted, TopicsMade, CreateParticipant, Accepted,
                    LoadFromYamlNode, ValidateConfig
<1> QED BY <1>3, <1>4 DEF CInv

\* A topic is entered: the ones made before it stay, or are replaced by this participant's.
LEMMA TopicStep == ASSUME CInv, CreateTopic PROVE CInv'
<1> DEFINE node  == Node.topics[i]
           topic == [of |-> created, name |-> node.name, type_name |-> node.type_name]
           key   == <<Node.name, node.name>>
<1>0. /\ pc = "topics" /\ i \in 1 .. Len(Node.topics)
      /\ DOMAIN Node.topics = 1 .. Len(Node.topics)
  BY NodeType DEF CreateTopic, CInv, TypeOK
<1>1. /\ i \in DOMAIN Node.topics /\ node.name \in Names /\ node.type_name \in TypeNames
      /\ key \in Keys /\ Node \in ParticipantNodes
  BY <1>0, NodeType DEF Keys
<1>2. /\ topics' = [topics EXCEPT ![key] = topic] /\ i' = i + 1
      /\ topic_objects' = topic_objects \cup {topic}
      /\ UNCHANGED <<participants, publishers, subscribers, created, pc, doc, at, loads,
                     loaded, last>>
  BY DEF CreateTopic
<1>3. topic \in [of : Nat, name : Names, type_name : TypeNames]
  BY <1>1 DEF CInv, TypeOK
<1>4. TypeOK'
  BY <1>1, <1>2, <1>3 DEF CInv, TypeOK
<1>5. DocAccepted'
  BY <1>2 DEF CInv, DocAccepted, Accepted, LoadFromYamlNode, ValidateConfig
<1>6. TopicsMade'
  <2>1. pc = "topics" /\ pc' = "topics" /\ Node' = Node
    BY <1>2 DEF CreateTopic, Node
  <2>2. SUFFICES ASSUME NEW j \in 1 .. i PROVE Made(Node.topics[j].name)'
    BY <1>2, <2>1 DEF TopicsMade, CInv, TypeOK
  <2>3. CASE Node.topics[j].name = node.name
    <3>1. topics'[key] = topic
      BY <1>1, <1>2 DEF CInv, TypeOK
    <3>2. topic # NoEntity
      BY <1>3, ConfigAssumption
    <3> QED BY <1>2, <2>1, <2>3, <3>1, <3>2 DEF Made
  <2>4. CASE Node.topics[j].name # node.name
    <3>1. Made(Node.topics[j].name) /\ j \in 1 .. i - 1
      BY <2>1, <2>2, <2>4 DEF CInv, TypeOK, TopicsMade
    <3>2. <<Node.name, Node.topics[j].name>> \in Keys
      <4>1. j \in DOMAIN Node.topics
        BY <1>0, <2>2
      <4> QED BY <4>1, <2>1, NodeType DEF Keys
    <3>3. topics'[<<Node.name, Node.topics[j].name>>] = topics[<<Node.name, Node.topics[j].name>>]
      BY <1>1, <1>2, <2>4, <3>2 DEF CInv, TypeOK
    <3> QED BY <1>2, <2>1, <3>1, <3>3 DEF Made
  <2> QED BY <2>3, <2>4
<1> QED BY <1>4, <1>5, <1>6 DEF CInv

\* An endpoint's step leaves the topics alone.
LEMMA EndpointStep ==
  ASSUME CInv, pc \in {"publishers", "subscribers"}, NEW node, Associate(node),
         publishers' \in [Keys -> [of : Nat] \cup {NoEntity}],
         subscribers' \in [Keys -> [of : Nat] \cup {NoEntity}],
         UNCHANGED <<participants, topics, created, topic_objects, loads, loaded, last>>
  PROVE  CInv'
<1>1. CASE Return
  BY <1>1, OverStep DEF CInv, TypeOK
<1>2. CASE i' = i + 1 /\ UNCHANGED <<pc, doc, at>>
  <2>1. TypeOK'
    BY <1>2 DEF CInv, TypeOK
  <2>2. DocAccepted'
    BY <1>2 DEF CInv, DocAccepted, Accepted, LoadFromYamlNode, ValidateConfig
  <2>3. TopicsMade'
    BY <1>2 DEF CInv, TopicsMade, Made, Node
  <2> QED BY <2>1, <2>2, <2>3 DEF CInv
<1> QED BY <1>1, <1>2 DEF Associate

\* A publisher is entered, whether its topics are found or not.
LEMMA PublisherStep == ASSUME CInv, CreatePublisher PROVE CInv'
<1>1. <<Node.name, Node.publishers[i].name>> \in Keys
  <2>1. pc = "publishers" /\ i \in 1 .. Len(Node.publishers)
    BY DEF CreatePublisher, CInv, TypeOK
  <2>2. i \in DOMAIN Node.publishers
    BY <2>1, NodeType
  <2> QED BY <2>1, <2>2, NodeType DEF Keys
<1>2. publishers' \in [Keys -> [of : Nat] \cup {NoEntity}]
  BY <1>1 DEF CreatePublisher, CInv, TypeOK
<1>3. subscribers' \in [Keys -> [of : Nat] \cup {NoEntity}]
  BY DEF CreatePublisher, CInv, TypeOK
<1> QED BY <1>2, <1>3, EndpointStep DEF CreatePublisher

\* A subscriber is entered, whether its topics are found or not.
LEMMA SubscriberStep == ASSUME CInv, CreateSubscriber PROVE CInv'
<1>1. <<Node.name, Node.subscribers[i].name>> \in Keys
  <2>1. pc = "subscribers" /\ i \in 1 .. Len(Node.subscribers)
    BY DEF CreateSubscriber, CInv, TypeOK
  <2>2. i \in DOMAIN Node.subscribers
    BY <2>1, NodeType
  <2> QED BY <2>1, <2>2, NodeType DEF Keys
<1>2. subscribers' \in [Keys -> [of : Nat] \cup {NoEntity}]
  BY <1>1 DEF CreateSubscriber, CInv, TypeOK
<1>3. publishers' \in [Keys -> [of : Nat] \cup {NoEntity}]
  BY DEF CreateSubscriber, CInv, TypeOK
<1> QED BY <1>2, <1>3, EndpointStep DEF CreateSubscriber

\* A loop ends: the one over topics has made them all.
LEMMA NextLoopStep == ASSUME CInv, NextLoop PROVE CInv'
<1>1. TypeOK'
  BY DEF NextLoop, CInv, TypeOK, maps
<1>2. DocAccepted'
  BY DEF NextLoop, CInv, TypeOK, DocAccepted, Accepted, LoadFromYamlNode, ValidateConfig
<1>3. TopicsMade'
  <2>1. CASE pc = "topics"
    <3>1. Node.topics \in Seq(TopicNodes) /\ i > Len(Node.topics) /\ i \in Nat
      BY <2>1, NodeType DEF NextLoop, CInv, TypeOK, ParticipantNodes
    <3>2. pc' = "publishers" /\ UNCHANGED <<topics, created, doc, at>>
      BY <2>1 DEF NextLoop, maps
    <3>3. \A j \in 1 .. i - 1 : Made(Node.topics[j].name)
      BY <2>1 DEF CInv, TopicsMade
    <3>4. \A j \in 1 .. Len(Node.topics) : Made(Node.topics[j].name)
      BY <3>1, <3>3
    <3> QED BY <3>2, <3>4 DEF TopicsMade, Made, Node
  <2>2. CASE pc # "topics"
    BY <2>2 DEF NextLoop, CInv, TopicsMade, Made, Node, maps
  <2> QED BY <2>1, <2>2
<1> QED BY <1>1, <1>2, <1>3 DEF CInv

\* Every step keeps CInv.
LEMMA CInvStep == CInv /\ [Next]_vars => CInv'
<1> SUFFICES ASSUME CInv, [Next]_vars PROVE CInv'
  OBVIOUS
<1>1. CASE LoadRejected
  BY <1>1 DEF LoadRejected, CInv, TypeOK, DocAccepted, TopicsMade, Made, Node, maps, locals,
              Accepted, LoadFromYamlNode, ValidateConfig
<1>2. CASE UNCHANGED vars
  BY <1>2 DEF vars, CInv, TypeOK, DocAccepted, TopicsMade, Made, Node, maps, locals,
              Accepted, LoadFromYamlNode, ValidateConfig
<1> QED
  BY <1>1, <1>2, BeginsStep, ReturnsStep, ParticipantStep, TopicStep, TopicFailsStep,
     PublisherStep, SubscriberStep, NextLoopStep DEF Next

\* The inductive invariant holds in every state of every loader.
THEOREM ConfigInvariant == Spec => []CInv
<1> QED BY CInvInit, CInvStep, PTL DEF Spec

-----------------------------------------------------------------------------
\* Each topic an accepted endpoint names is one of its participant's topics.
LEMMA AcceptedNames ==
  ASSUME CInv, pc \in {"publishers", "subscribers"},
         NEW node, node \in {Node.publishers[j] : j \in DOMAIN Node.publishers}
                     \cup {Node.subscribers[j] : j \in DOMAIN Node.subscribers}
  PROVE  Resolved(node)
<1>1. ParseDomainParticipantConfig(Node)
  BY NodeType DEF CInv, DocAccepted, Accepted, LoadFromYamlNode, Node
<1>2. ParsePublisherConfig(node, Node.topics)
  BY <1>1 DEF ParseDomainParticipantConfig, ParseSubscriberConfig
<1>3. SUFFICES ASSUME NEW n \in DOMAIN node.topic_names, node.topic_names[n] # Missing
               PROVE  Made(node.topic_names[n])
  BY DEF Resolved
<1>4. PICK j \in DOMAIN Node.topics : Node.topics[j].name = node.topic_names[n]
  BY <1>2, <1>3 DEF ParsePublisherConfig
<1>5. j \in 1 .. Len(Node.topics)
  BY <1>4, NodeType DEF ParticipantNodes
<1>6. Made(Node.topics[j].name)
  BY <1>5 DEF CInv, TopicsMade
<1> QED BY <1>4, <1>6

\* The look-ups of CreateEntities never fail and never find another participant's topic:
\* for all documents, repeated names and earlier loads, failed ones included.
THEOREM Resolves == Spec => []ReferencesResolve
<1>1. CInv => ReferencesResolve
  BY AcceptedNames DEF ReferencesResolve
<1> QED BY <1>1, ConfigInvariant, PTL

-----------------------------------------------------------------------------
(* What was loaded stays. *)

\* No step takes an entry out of a map.
EntriesStay ==
  /\ \A n \in Names : participants[n] # NoEntity => participants'[n] # NoEntity
  /\ \A k \in Keys : /\ topics[k] # NoEntity => topics'[k] # NoEntity
                     /\ publishers[k] # NoEntity => publishers'[k] # NoEntity
                     /\ subscribers[k] # NoEntity => subscribers'[k] # NoEntity

\* Entries are replaced, never removed.
LEMMA Stay == ASSUME CInv, [Next]_vars PROVE EntriesStay
<1> USE ConfigAssumption
<1>1. CASE CreateParticipant
  BY <1>1 DEF CreateParticipant, EntriesStay, CInv, TypeOK
<1>2. CASE CreateTopic
  <2> DEFINE node  == Node.topics[i]
             topic == [of |-> created, name |-> node.name, type_name |-> node.type_name]
  <2>1. pc = "topics" /\ i \in 1 .. Len(Node.topics)
    BY <1>2 DEF CreateTopic, CInv, TypeOK
  <2>2. node.name \in Names /\ node.type_name \in TypeNames
    BY <2>1, NodeType
  <2>3. topic # NoEntity
    BY <2>2 DEF CInv, TypeOK
  <2> QED BY <1>2, <2>3 DEF CreateTopic, EntriesStay, CInv, TypeOK
<1>3. CASE CreatePublisher
  BY <1>3 DEF CreatePublisher, EntriesStay, CInv, TypeOK
<1>4. CASE CreateSubscriber
  BY <1>4 DEF CreateSubscriber, EntriesStay, CInv, TypeOK
<1>5. CASE UNCHANGED maps
  BY <1>5 DEF maps, EntriesStay
<1> QED
  BY <1>1, <1>2, <1>3, <1>4, <1>5
     DEF Next, vars, LoadRejected, LoadBegins, LoadReturns, CreateTopicFails, NextLoop

\* So what can be had from the getters can be had after the step.
LEMMA ThereStays ==
  ASSUME EntriesStay, NEW d \in Documents, Accepted(d), NEW q \in DOMAIN d, There(d, q)
  PROVE  There(d, q)'
<1>1. /\ d[q].name \in Names
      /\ \A j \in DOMAIN d[q].topics : <<d[q].name, d[q].topics[j].name>> \in Keys
      /\ \A j \in DOMAIN d[q].publishers : <<d[q].name, d[q].publishers[j].name>> \in Keys
      /\ \A j \in DOMAIN d[q].subscribers : <<d[q].name, d[q].subscribers[j].name>> \in Keys
  BY DocumentType DEF Keys
<1> QED
  BY <1>1 DEF There, EntriesStay, GetParticipant, GetTopic, GetPublisher, GetSubscriber

\* What was loaded stays there, and a load that returns true adds what its loops have passed.
LEMMA LoadedStays ==
  ASSUME LInv, [Next]_vars PROVE LoadedIsThere' /\ \A d \in loaded' : Accepted(d)
<1>1. EntriesStay
  BY Stay DEF LInv
<1>2. \A d \in loaded : Accepted(d) /\ d \in Documents /\ \A q \in DOMAIN d : There(d, q)'
  BY <1>1, ThereStays DEF LInv, LoadedIsThere, CInv, TypeOK
<1>3. CASE LoadReturns
  <2>1. doc \in Documents /\ Accepted(doc) /\ DOMAIN doc = 1 .. Len(doc) /\ at > Len(doc)
    BY <1>3 DEF LoadReturns, LInv, CInv, DocAccepted, TypeOK
  <2>2. \A q \in DOMAIN doc : There(doc, q)
    BY <1>3, <2>1 DEF LoadReturns, LInv, PassedIsThere, CInv, TypeOK
  <2>3. PICK new \in Documents : new = doc
    BY <2>1
  <2>4. \A q \in DOMAIN new : There(new, q)'
    BY <1>1, <2>1, <2>2, <2>3, ThereStays
  <2>5. loaded' = loaded \cup {new}
    BY <1>3, <2>3 DEF LoadReturns
  <2> QED BY <1>2, <2>1, <2>3, <2>4, <2>5 DEF LoadedIsThere
<1>4. CASE loaded' = loaded
  BY <1>2, <1>4 DEF LoadedIsThere
<1> QED
  BY <1>3, <1>4 DEF Next, vars, LoadRejected, LoadBegins, CreateParticipant, CreateTopic,
                    CreateTopicFails, CreatePublisher, CreateSubscriber, NextLoop

\* The participants before the one the loops are at stay there while the load goes on.
LEMMA PassedStays ==
  ASSUME LInv, [Next]_vars, pc # "idle", UNCHANGED doc,
         NEW q \in 1 .. at - 1, q \in DOMAIN doc
  PROVE  There(doc, q)'
<1>1. doc \in Documents /\ Accepted(doc) /\ There(doc, q)
  BY DEF LInv, CInv, DocAccepted, PassedIsThere
<1>2. PICK d \in Documents : d = doc
  BY <1>1
<1>3. There(d, q)'
  BY <1>1, <1>2, Stay, ThereStays DEF LInv
<1> QED BY <1>2, <1>3 DEF There

\* All of them, where the load stays at its participant.
LEMMA PassedParticipants ==
  ASSUME LInv, [Next]_vars, pc # "idle", UNCHANGED <<doc, at>>
  PROVE  \A q \in 1 .. at - 1 : There(doc, q)'
<1>1. at - 1 <= Len(doc) /\ DOMAIN doc = 1 .. Len(doc) /\ at \in Nat
  BY DEF LInv, CInv, TypeOK, DocAccepted
<1> QED BY <1>1, PassedStays

(* The entities of the participant in progress. *)

\* The participant is there once it is made.
LEMMA ProgressParticipant == ASSUME LInv, CreateParticipant PROVE Progress'
<1>1. doc \in Documents /\ Accepted(doc) /\ at \in DOMAIN doc
  BY DEF LInv, CInv, TypeOK, DocAccepted, CreateParticipant
<1>2. Node.name \in Names
  BY <1>1, DocumentType DEF Node
<1>3. participants'[Node.name] = [id |-> created + 1] /\ [id |-> created + 1] # NoEntity
  BY <1>2, ConfigAssumption DEF CreateParticipant, LInv, CInv, TypeOK
<1> QED BY <1>3 DEF CreateParticipant, Progress, GetParticipant, Node

\* A topic leaves what is known of the participant alone.
LEMMA ProgressTopic == ASSUME LInv, CreateTopic PROVE Progress'
BY DEF CreateTopic, LInv, PassedIsThere, Progress, GetParticipant, Node

\* The publishers up to this one are there.
LEMMA ProgressPublisher == ASSUME LInv, CreatePublisher, i' = i + 1, UNCHANGED <<pc, doc, at>>
                           PROVE  Progress'
<1>1. pc = "publishers" /\ Node' = Node /\ participants' = participants /\ i \in Nat
  BY DEF CreatePublisher, Node, LInv, CInv, TypeOK
<1>2. GetParticipant(Node.name) # NoEntity
  BY <1>1 DEF LInv, PassedIsThere, Progress
<1>3. ASSUME NEW j \in DOMAIN Node.publishers, j < i + 1
      PROVE  publishers'[<<Node.name, Node.publishers[j].name>>] # NoEntity
  <2>1. <<Node.name, Node.publishers[j].name>> \in Keys /\ j \in Nat
    BY <1>1, <1>3, NodeType DEF Keys, LInv
  <2>2. [of |-> created] # NoEntity
    BY ConfigAssumption DEF LInv, CInv, TypeOK
  <2>3. CASE j = i
    BY <2>1, <2>2, <2>3 DEF CreatePublisher, LInv, CInv, TypeOK
  <2>4. CASE j < i
    <3>1. publishers[<<Node.name, Node.publishers[j].name>>] # NoEntity
      BY <1>1, <1>2, <1>3, <2>4 DEF LInv, PassedIsThere, Progress, GetPublisher, GetParticipant
    <3> QED BY <2>1, <2>2, <3>1 DEF CreatePublisher, LInv, CInv, TypeOK
  <2> QED BY <1>1, <1>3, <2>1, <2>3, <2>4
<1> QED BY <1>1, <1>2, <1>3 DEF Progress, GetParticipant, GetPublisher

\* The subscribers up to this one are there.
LEMMA ProgressSubscriber == ASSUME LInv, CreateSubscriber, i' = i + 1, UNCHANGED <<pc, doc, at>>
                            PROVE  Progress'
<1>1. pc = "subscribers" /\ Node' = Node /\ i \in Nat
      /\ UNCHANGED <<participants, publishers>>
  BY DEF CreateSubscriber, Node, LInv, CInv, TypeOK
<1>2. GetParticipant(Node.name) # NoEntity
  BY <1>1 DEF LInv, PassedIsThere, Progress
<1>3. ASSUME NEW j \in DOMAIN Node.subscribers, j < i + 1
      PROVE  subscribers'[<<Node.name, Node.subscribers[j].name>>] # NoEntity
  <2>1. <<Node.name, Node.subscribers[j].name>> \in Keys /\ j \in Nat
    BY <1>1, <1>3, NodeType DEF Keys, LInv
  <2>2. [of |-> created] # NoEntity
    BY ConfigAssumption DEF LInv, CInv, TypeOK
  <2>3. CASE j = i
    BY <2>1, <2>2, <2>3 DEF CreateSubscriber, LInv, CInv, TypeOK
  <2>4. CASE j < i
    <3>1. subscribers[<<Node.name, Node.subscribers[j].name>>] # NoEntity
      BY <1>1, <1>2, <1>3, <2>4 DEF LInv, PassedIsThere, Progress, GetSubscriber, GetParticipant
    <3> QED BY <2>1, <2>2, <3>1 DEF CreateSubscriber, LInv, CInv, TypeOK
  <2> QED BY <1>1, <1>3, <2>1, <2>3, <2>4
<1>4. \A j \in DOMAIN Node.publishers :
        GetPublisher(Node.name, Node.publishers[j].name) # NoEntity
  BY <1>1 DEF LInv, PassedIsThere, Progress
<1> QED BY <1>1, <1>2, <1>3, <1>4 DEF Progress, GetParticipant, GetPublisher, GetSubscriber

\* A loop that ends has passed all of its entities, and the last one the participant.
LEMMA PassedNextLoop == ASSUME LInv, NextLoop PROVE PassedIsThere'
<1>0. [Next]_vars /\ UNCHANGED <<maps, doc>>
  BY DEF Next, NextLoop
<1>1. CASE pc = "topics"
  <2>1. pc' = "publishers" /\ i' = 1 /\ UNCHANGED <<doc, at, maps>>
    BY <1>1 DEF NextLoop
  <2>2. \A j \in DOMAIN Node.publishers : j \in Nat /\ ~(j < 1)
    BY <1>1, NodeType DEF LInv
  <2>3. Progress'
    BY <1>1, <2>1, <2>2 DEF LInv, PassedIsThere, Progress, GetParticipant, Node, maps
  <2> QED BY <1>0, <1>1, <2>1, <2>3, PassedParticipants DEF PassedIsThere
<1>2. CASE pc = "publishers"
  <2>1. /\ pc' = "subscribers" /\ i' = 1 /\ UNCHANGED <<doc, at, maps>>
        /\ i > Len(Node.publishers)
    BY <1>2 DEF NextLoop
  <2>2. /\ \A j \in DOMAIN Node.subscribers : j \in Nat /\ ~(j < 1)
        /\ \A j \in DOMAIN Node.publishers : j < i
    BY <1>2, <2>1, NodeType DEF LInv, CInv, TypeOK
  <2>3. Progress'
    BY <1>2, <2>1, <2>2 DEF LInv, PassedIsThere, Progress, GetParticipant, GetPublisher,
                            GetSubscriber, Node, maps
  <2> QED BY <1>0, <1>2, <2>1, <2>3, PassedParticipants DEF PassedIsThere
<1>3. CASE pc = "subscribers"
  <2>1. /\ pc' = "participants" /\ at' = at + 1 /\ UNCHANGED <<doc, maps>>
        /\ i > Len(Node.subscribers)
    BY <1>3 DEF NextLoop
  <2>2. \A j \in DOMAIN Node.subscribers : j < i
    BY <1>3, <2>1, NodeType DEF LInv, CInv, TypeOK
  <2>3. GetParticipant(Node.name) # NoEntity
    BY <1>3 DEF LInv, PassedIsThere, Progress
  <2>4. \A j \in DOMAIN Node.topics : GetTopic(Node.name, Node.topics[j].name) # NoEntity
    BY <1>3, <2>3, NodeType DEF LInv, CInv, TopicsMade, Made, GetTopic, GetParticipant
  <2>5. There(doc, at)
    BY <1>3, <2>2, <2>3, <2>4 DEF LInv, PassedIsThere, Progress, There, Node
  <2>6. ASSUME NEW q \in 1 .. at PROVE There(doc, q)
    <3>1. CASE q = at
      BY <2>5, <3>1
    <3>2. CASE q # at
      <4>1. q \in 1 .. at - 1
        BY <3>2, <2>6 DEF LInv, CInv, TypeOK
      <4> QED BY <1>3, <4>1 DEF LInv, PassedIsThere
    <3> QED BY <3>1, <3>2
  <2>7. 1 .. at' - 1 = 1 .. at
    BY <2>1 DEF LInv, CInv, TypeOK
  <2>8. ASSUME NEW q \in 1 .. at PROVE There(doc, q)'
    BY <2>1, <2>6 DEF There, GetParticipant, GetTopic, GetPublisher, GetSubscriber, maps
  <2> QED BY <2>1, <2>7, <2>8 DEF PassedIsThere, Progress
<1> QED BY <1>1, <1>2, <1>3 DEF NextLoop

\* So PassedIsThere holds after every step.
LEMMA PassedStep == ASSUME LInv, [Next]_vars PROVE PassedIsThere'
<1>1. CASE LoadBegins
  BY <1>1 DEF LoadBegins, LInv, CInv, DocAccepted, PassedIsThere, Progress
<1>2. CASE Return
  BY <1>2 DEF Return, PassedIsThere, Progress
<1>3. CASE CreateParticipant
  <2>1. pc = "participants" /\ UNCHANGED <<doc, at>>
    BY <1>3 DEF CreateParticipant
  <2> QED BY <1>3, <2>1, PassedParticipants, ProgressParticipant DEF PassedIsThere
<1>4. CASE CreateTopic
  <2>1. pc = "topics" /\ UNCHANGED <<doc, at>>
    BY <1>4 DEF CreateTopic
  <2> QED BY <1>4, <2>1, PassedParticipants, ProgressTopic DEF PassedIsThere
<1>5. CASE CreatePublisher /\ ~Return
  <2>1. pc = "publishers" /\ i' = i + 1 /\ UNCHANGED <<pc, doc, at>>
    BY <1>5 DEF CreatePublisher, Associate
  <2> QED BY <1>5, <2>1, PassedParticipants, ProgressPublisher DEF PassedIsThere
<1>6. CASE CreateSubscriber /\ ~Return
  <2>1. pc = "subscribers" /\ i' = i + 1 /\ UNCHANGED <<pc, doc, at>>
    BY <1>6 DEF CreateSubscriber, Associate
  <2> QED BY <1>6, <2>1, PassedParticipants, ProgressSubscriber DEF PassedIsThere
<1>7. CASE NextLoop
  BY <1>7, PassedNextLoop
<1>8. CASE UNCHANGED <<maps, locals>>
  BY <1>8 DEF LInv, PassedIsThere, Progress, There, GetParticipant, GetTopic, GetPublisher,
              GetSubscriber, Node, maps, locals
<1> QED
  BY <1>1, <1>2, <1>3, <1>4, <1>5, <1>6, <1>7, <1>8
     DEF Next, vars, LoadRejected, LoadReturns, CreateTopicFails

\* Before the first load there is nothing to be there.
LEMMA LInvInit == Init => LInv
BY CInvInit DEF Init, LInv, LoadedIsThere, PassedIsThere, Progress

\* Every step keeps LInv.
LEMMA LInvStep == LInv /\ [Next]_vars => LInv'
<1> SUFFICES ASSUME LInv, [Next]_vars PROVE LInv'
  OBVIOUS
<1>1. CInv'
  BY CInvStep DEF LInv
<1>2. LoadedIsThere' /\ \A d \in loaded' : Accepted(d)
  BY LoadedStays
<1>3. PassedIsThere'
  BY PassedStep
<1> QED BY <1>1, <1>2, <1>3 DEF LInv, Accepted, LoadFromYamlNode, ValidateConfig

\* The second inductive invariant: it adds what the loops have passed.
THEOREM LoadInvariant == Spec => []LInv
<1> QED BY LInvInit, LInvStep, PTL DEF Spec

\* All that a load which returned true names stays in the maps, whatever is loaded later
\* and however it ends.
THEOREM LoadedStaysThere == Spec => []LoadedIsThere
<1>1. LInv => LoadedIsThere
  BY DEF LInv
<1> QED BY <1>1, LoadInvariant, PTL
-----------------------------------------------------------------------------
(* What was loaded last belongs together. *)

\* A step writes the maps under the name of the participant in progress only.
OthersStay ==
  /\ \A n \in Names : n # Node.name => participants'[n] = participants[n]
  /\ \A k \in Keys : k[1] # Node.name =>
       topics'[k] = topics[k] /\ publishers'[k] = publishers[k] /\ subscribers'[k] = subscribers[k]

\* Every step of a load writes under one name.
LEMMA OthersStayStep == ASSUME CInv, [Next]_vars PROVE OthersStay
<1>1. CASE CreateParticipant
  BY <1>1 DEF CreateParticipant, OthersStay, CInv, TypeOK
<1>2. CASE CreateTopic
  BY <1>2 DEF CreateTopic, OthersStay, CInv, TypeOK
<1>3. CASE CreatePublisher
  BY <1>3 DEF CreatePublisher, OthersStay, CInv, TypeOK
<1>4. CASE CreateSubscriber
  BY <1>4 DEF CreateSubscriber, OthersStay, CInv, TypeOK
<1>5. CASE UNCHANGED maps
  BY <1>5 DEF maps, OthersStay
<1> QED
  BY <1>1, <1>2, <1>3, <1>4, <1>5
     DEF Next, vars, LoadRejected, LoadBegins, LoadReturns, CreateTopicFails, NextLoop

\* So what another participant has together stays together.
LEMMA TogetherStays ==
  ASSUME OthersStay, NEW d \in Documents, Accepted(d), NEW q \in DOMAIN d,
         d[q].name # Node.name, Together(d, q)
  PROVE  Together(d, q)'
<1>1. /\ d[q].name \in Names
      /\ \A j \in DOMAIN d[q].topics : <<d[q].name, d[q].topics[j].name>> \in Keys
      /\ \A j \in DOMAIN d[q].publishers : <<d[q].name, d[q].publishers[j].name>> \in Keys
      /\ \A j \in DOMAIN d[q].subscribers : <<d[q].name, d[q].subscribers[j].name>> \in Keys
  BY DocumentType DEF Keys
<1>2. GetParticipant(d[q].name)' = GetParticipant(d[q].name)
  BY <1>1 DEF OthersStay, GetParticipant
<1>3. \A j \in DOMAIN d[q].topics :
        GetTopic(d[q].name, d[q].topics[j].name)' = GetTopic(d[q].name, d[q].topics[j].name)
  BY <1>1 DEF OthersStay, GetTopic
<1>4. \A j \in DOMAIN d[q].publishers :
        GetPublisher(d[q].name, d[q].publishers[j].name)'
          = GetPublisher(d[q].name, d[q].publishers[j].name)
  BY <1>1 DEF OthersStay, GetPublisher
<1>5. \A j \in DOMAIN d[q].subscribers :
        GetSubscriber(d[q].name, d[q].subscribers[j].name)'
          = GetSubscriber(d[q].name, d[q].subscribers[j].name)
  BY <1>1 DEF OthersStay, GetSubscriber
<1> QED BY <1>2, <1>3, <1>4, <1>5 DEF Together

\* Where the load stays at its participant, those before it stay together.
LEMMA TogetherPassed ==
  ASSUME TInv, [Next]_vars, pc \in {"participants", "topics", "publishers", "subscribers"},
         at <= Len(doc), UNCHANGED doc, DistinctParticipants(doc), NEW q \in 1 .. at - 1
  PROVE  Together(doc, q)'
<1>1. /\ doc \in Documents /\ Accepted(doc) /\ q \in DOMAIN doc /\ at \in DOMAIN doc /\ q # at
  BY DEF TInv, LInv, CInv, DocAccepted, TypeOK
<1>2. doc[q].name # Node.name /\ Together(doc, q)
  BY <1>1 DEF DistinctParticipants, Node, TInv, PassedIsTogether
<1>3. PICK d \in Documents : d = doc
  BY <1>1
<1>4. Together(d, q)'
  BY <1>1, <1>2, <1>3, OthersStayStep, TogetherStays DEF TInv, LInv
<1> QED BY <1>3, <1>4 DEF Together

\* No entity is made for a participant that is not the one of its name.
LEMMA OwnParticipant == ASSUME TInv, CreateParticipant PROVE OwnInProgress'
<1>1. doc \in Documents /\ Accepted(doc) /\ at \in DOMAIN doc
  BY DEF TInv, LInv, CInv, TypeOK, DocAccepted, CreateParticipant
<1>2. Node.name \in Names
  BY <1>1, DocumentType DEF Node
<1>3. participants'[Node.name] = [id |-> created']
  BY <1>2 DEF CreateParticipant, TInv, LInv, CInv, TypeOK
<1> QED BY <1>3 DEF CreateParticipant, OwnInProgress, GetParticipant, Node

\* A topic leaves the identities of participant and endpoints alone.
LEMMA OwnTopic == ASSUME TInv, CreateTopic PROVE OwnInProgress'
BY DEF CreateTopic, TInv, OwnInProgress, GetParticipant, Node

\* The publishers up to this one are the participant's.
LEMMA OwnPublisher == ASSUME TInv, CreatePublisher, i' = i + 1, UNCHANGED <<pc, doc, at>>
                      PROVE  OwnInProgress'
<1>1. /\ pc = "publishers" /\ Node' = Node /\ UNCHANGED <<participants, created>>
      /\ CInv /\ i \in Nat
  BY DEF CreatePublisher, Node, TInv, LInv, CInv, TypeOK
<1>2. GetParticipant(Node.name).id = created
  BY <1>1 DEF TInv, OwnInProgress
<1>3. ASSUME NEW j \in DOMAIN Node.publishers, j < i + 1
      PROVE  publishers'[<<Node.name, Node.publishers[j].name>>].of = created
  <2>1. <<Node.name, Node.publishers[j].name>> \in Keys /\ j \in Nat
    BY <1>1, <1>3, NodeType DEF Keys
  <2>2. CASE j = i
    BY <2>1, <2>2 DEF CreatePublisher, TInv, LInv, CInv, TypeOK
  <2>3. CASE j < i
    <3>1. publishers[<<Node.name, Node.publishers[j].name>>].of = created
      BY <1>1, <2>3 DEF TInv, OwnInProgress
    <3> QED BY <2>1, <3>1 DEF CreatePublisher, TInv, LInv, CInv, TypeOK
  <2> QED BY <1>1, <1>3, <2>1, <2>2, <2>3
<1> QED BY <1>1, <1>2, <1>3 DEF OwnInProgress, GetParticipant

\* The subscribers up to this one are the participant's.
LEMMA OwnSubscriber == ASSUME TInv, CreateSubscriber, i' = i + 1, UNCHANGED <<pc, doc, at>>
                       PROVE  OwnInProgress'
<1>1. /\ pc = "subscribers" /\ Node' = Node /\ UNCHANGED <<participants, publishers, created>>
      /\ CInv /\ i \in Nat
  BY DEF CreateSubscriber, Node, TInv, LInv, CInv, TypeOK
<1>2. /\ GetParticipant(Node.name).id = created
      /\ \A j \in DOMAIN Node.publishers :
           publishers[<<Node.name, Node.publishers[j].name>>].of = created
  BY <1>1 DEF TInv, OwnInProgress
<1>3. ASSUME NEW j \in DOMAIN Node.subscribers, j < i + 1
      PROVE  subscribers'[<<Node.name, Node.subscribers[j].name>>].of = created
  <2>1. <<Node.name, Node.subscribers[j].name>> \in Keys /\ j \in Nat
    BY <1>1, <1>3, NodeType DEF Keys
  <2>2. CASE j = i
    BY <2>1, <2>2 DEF CreateSubscriber, TInv, LInv, CInv, TypeOK
  <2>3. CASE j < i
    <3>1. subscribers[<<Node.name, Node.subscribers[j].name>>].of = created
      BY <1>1, <2>3 DEF TInv, OwnInProgress
    <3> QED BY <2>1, <3>1 DEF CreateSubscriber, TInv, LInv, CInv, TypeOK
  <2> QED BY <1>1, <1>3, <2>1, <2>2, <2>3
<1> QED BY <1>1, <1>2, <1>3 DEF OwnInProgress, GetParticipant

\* A participant whose loops are over is together.
LEMMA TogetherMade ==
  ASSUME TInv, pc = "subscribers", i > Len(Node.subscribers) PROVE Together(doc, at)
<1>1. GetParticipant(Node.name).id = created /\ participants[Node.name] # NoEntity
  BY DEF TInv, OwnInProgress, LInv, PassedIsThere, Progress, GetParticipant
<1>2. \A j \in DOMAIN Node.topics : GetTopic(Node.name, Node.topics[j].name).of = created
  BY <1>1, NodeType DEF TInv, LInv, CInv, TopicsMade, Made, GetTopic
<1>3. \A j \in DOMAIN Node.publishers :
        GetPublisher(Node.name, Node.publishers[j].name).of = created
  BY <1>1 DEF TInv, OwnInProgress, GetPublisher
<1>4. \A j \in DOMAIN Node.subscribers : j < i
  BY NodeType DEF TInv, LInv, CInv, TypeOK
<1>5. \A j \in DOMAIN Node.subscribers :
        GetSubscriber(Node.name, Node.subscribers[j].name).of = created
  BY <1>1, <1>4 DEF TInv, OwnInProgress, GetSubscriber
<1> QED BY <1>1, <1>2, <1>3, <1>5 DEF Together, Node

\* A loop that ends leaves the maps as they are.
LEMMA TogetherNextLoop ==
  ASSUME TInv, NextLoop PROVE OwnInProgress' /\ PassedIsTogether' /\ LastLoadIsTogether'
<1>1. /\ UNCHANGED <<maps, created, doc, last>> /\ last = Missing /\ i' = 1
      /\ pc \in {"topics", "publishers", "subscribers"} /\ CInv /\ at \in Nat
  BY DEF NextLoop, TInv, PassedIsTogether, LInv, CInv, TypeOK
<1>2. /\ \A j \in DOMAIN Node.publishers : j \in Nat /\ ~(j < 1)
      /\ \A j \in DOMAIN Node.subscribers : j \in Nat /\ ~(j < 1)
  BY <1>1, NodeType
<1>3. OwnInProgress'
  <2>1. CASE pc = "topics"
    BY <1>1, <1>2, <2>1 DEF NextLoop, TInv, OwnInProgress, GetParticipant, Node, maps
  <2>2. CASE pc = "publishers"
    <3>1. \A j \in DOMAIN Node.publishers : j < i
      BY <1>1, <2>2, NodeType DEF NextLoop, CInv, TypeOK
    <3> QED
      BY <1>1, <1>2, <2>2, <3>1 DEF NextLoop, TInv, OwnInProgress, GetParticipant, Node, maps
  <2>3. CASE pc = "subscribers"
    BY <2>3 DEF NextLoop, OwnInProgress
  <2> QED BY <1>1, <2>1, <2>2, <2>3
<1>4. ASSUME DistinctParticipants(doc), NEW q \in 1 .. at' - 1
      PROVE  Together(doc, q)
  <2>1. CASE at' = at
    BY <1>1, <1>4, <2>1 DEF TInv, PassedIsTogether
  <2>2. CASE at' = at + 1
    <3>1. Together(doc, at)
      BY <2>2, TogetherMade, <1>1 DEF NextLoop
    <3>2. q = at \/ q \in 1 .. at - 1
      BY <1>1, <1>4, <2>2
    <3> QED BY <1>1, <1>4, <3>1, <3>2 DEF TInv, PassedIsTogether
  <2> QED BY <2>1, <2>2 DEF NextLoop
<1>5. \A q \in 1 .. at' - 1 : DistinctParticipants(doc) => Together(doc, q)'
  BY <1>1, <1>4 DEF Together, GetParticipant, GetTopic, GetPublisher, GetSubscriber, maps
<1> QED BY <1>1, <1>3, <1>5 DEF PassedIsTogether, LastLoadIsTogether, DistinctParticipants

\* Before the first load nothing was loaded last.
LEMMA TInvInit == Init => TInv
BY LInvInit DEF Init, TInv, OwnInProgress, PassedIsTogether, LastLoadIsTogether

\* A step between the beginning and the end of a load that stays at its participant.
LEMMA TogetherGoesOn ==
  ASSUME TInv, [Next]_vars, pc # "idle", at <= Len(doc), UNCHANGED <<doc, at, last>>
  PROVE  PassedIsTogether' /\ LastLoadIsTogether'
<1>1. pc \in {"participants", "topics", "publishers", "subscribers"} /\ last = Missing
  BY DEF TInv, LInv, CInv, TypeOK, PassedIsTogether
<1>2. DistinctParticipants(doc) => \A q \in 1 .. at - 1 : Together(doc, q)'
  BY <1>1, TogetherPassed
<1> QED BY <1>1, <1>2 DEF PassedIsTogether, LastLoadIsTogether, DistinctParticipants

\* A load that returns, with or without success, is not in progress any more.
LEMMA TogetherEnds ==
  ASSUME TInv, Return, last' = Missing
  PROVE  OwnInProgress' /\ PassedIsTogether' /\ LastLoadIsTogether'
BY DEF Return, OwnInProgress, PassedIsTogether, LastLoadIsTogether

\* Every step keeps TInv.
LEMMA TInvStep == TInv /\ [Next]_vars => TInv'
<1> SUFFICES ASSUME TInv, [Next]_vars
             PROVE  OwnInProgress' /\ PassedIsTogether' /\ LastLoadIsTogether'
  BY LInvStep DEF TInv
<1>1. CASE LoadBegins
  <2>1. at = 1
    BY <1>1 DEF LoadBegins, TInv, LInv, CInv, DocAccepted
  <2> QED BY <1>1, <2>1 DEF LoadBegins, OwnInProgress, PassedIsTogether, LastLoadIsTogether
<1>2. CASE LoadReturns
  <2>1. doc \in Seq(ParticipantNodes) /\ at > Len(doc) /\ at \in Nat
    BY <1>2 DEF LoadReturns, TInv, LInv, CInv, TypeOK
  <2>2. DistinctParticipants(doc) => \A q \in DOMAIN doc : Together(doc, q)
    BY <1>2, <2>1 DEF LoadReturns, TInv, PassedIsTogether
  <2>3. last' = doc /\ UNCHANGED maps /\ pc' = "idle"
    BY <1>2 DEF LoadReturns, Return
  <2>4. LastLoadIsTogether'
    BY <2>2, <2>3 DEF LastLoadIsTogether, DistinctParticipants, Together, GetParticipant,
                      GetTopic, GetPublisher, GetSubscriber, maps
  <2> QED BY <2>3, <2>4 DEF OwnInProgress, PassedIsTogether
<1>3. CASE CreateParticipant
  <2>1. pc # "idle" /\ at <= Len(doc) /\ UNCHANGED <<doc, at, last>>
    BY <1>3 DEF CreateParticipant
  <2> QED BY <1>3, <2>1, OwnParticipant, TogetherGoesOn
<1>4. CASE CreateTopic
  <2>1. pc # "idle" /\ at <= Len(doc) /\ UNCHANGED <<doc, at, last>>
    BY <1>4 DEF CreateTopic, TInv, LInv, CInv, DocAccepted
  <2> QED BY <1>4, <2>1, OwnTopic, TogetherGoesOn
<1>5. CASE CreateTopicFails
  BY <1>5, TogetherEnds DEF CreateTopicFails, TInv, PassedIsTogether
<1>6. CASE CreatePublisher /\ Return
  BY <1>6, TogetherEnds DEF CreatePublisher, TInv, PassedIsTogether
<1>7. CASE CreatePublisher /\ ~Return
  <2>1. /\ pc # "idle" /\ at <= Len(doc) /\ i' = i + 1
        /\ UNCHANGED <<pc, doc, at, last>>
    BY <1>7 DEF CreatePublisher, Associate, TInv, LInv, CInv, DocAccepted
  <2> QED BY <1>7, <2>1, OwnPublisher, TogetherGoesOn
<1>8. CASE CreateSubscriber /\ Return
  BY <1>8, TogetherEnds DEF CreateSubscriber, TInv, PassedIsTogether
<1>9. CASE CreateSubscriber /\ ~Return
  <2>1. /\ pc # "idle" /\ at <= Len(doc) /\ i' = i + 1
        /\ UNCHANGED <<pc, doc, at, last>>
    BY <1>9 DEF CreateSubscriber, Associate, TInv, LInv, CInv, DocAccepted
  <2> QED BY <1>9, <2>1, OwnSubscriber, TogetherGoesOn
<1>10. CASE NextLoop
  BY <1>10, TogetherNextLoop
<1>11. CASE UNCHANGED <<maps, locals, created, last>>
  BY <1>11 DEF TInv, OwnInProgress, PassedIsTogether, LastLoadIsTogether, DistinctParticipants,
               Together, GetParticipant, GetTopic, GetPublisher, GetSubscriber, Node, maps, locals
<1> QED
  BY <1>1, <1>2, <1>3, <1>4, <1>5, <1>6, <1>7, <1>8, <1>9, <1>10, <1>11
     DEF Next, vars, LoadRejected

\* The third inductive invariant: it adds to which participant the entities belong.
THEOREM TogetherInvariant == Spec => []TInv
<1> QED BY TInvInit, TInvStep, PTL DEF Spec

\* The entities that a load which returned true has named, until the next load, are those
\* of one participant each: for all documents with distinct participants, whatever was
\* loaded before, and however the loads before ended.
THEOREM LastIsTogether == Spec => []LastLoadIsTogether
<1>1. TInv => LastLoadIsTogether
  BY DEF TInv
<1> QED BY <1>1, TogetherInvariant, PTL
=============================================================================
