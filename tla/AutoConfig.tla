----------------------------- MODULE AutoConfig -----------------------------
(***************************************************************************)
(* Configuration: what of a YAML document is accepted (src/config/         *)
(* config.cc), and AutoConfigLoader, which creates the entities of an      *)
(* accepted one and hands them out by name (src/config/auto_config.cc).    *)
(*                                                                         *)
(* A loader is used by one thread.  CreateEntities is one step per entity, *)
(* because it may return false after any of them and keeps what it made.   *)
(***************************************************************************)
EXTENDS Naturals, Sequences

CONSTANTS
  Documents,   \* the YAML documents the application may load
  Names,       \* names of participants, topics, publishers and subscribers
  TypeNames,   \* names of topic types
  Transports,  \* names of transport types
  Missing,     \* a field that is absent or is not what the parser looks for
  Malformed,   \* a scalar that cannot be converted: an exception of the YAML library
  Empty,       \* the empty string
  NoEntity,    \* no entry in a map
  LoadBound    \* bound: no load begins after that many

Field(values) == values \cup {Missing, Empty}

TopicNodes    == [name : Field(Names), type_name : Field(TypeNames)]
EndpointNodes == [name : Field(Names), transport : Transports \cup {Missing, Malformed},
                  topic_names : Seq(Field(Names))]
ParticipantNodes ==
  [name : Field(Names), domain_id : Nat \cup {Missing, Malformed}, topics : Seq(TopicNodes),
   publishers : Seq(EndpointNodes), subscribers : Seq(EndpointNodes)]

ASSUME ConfigAssumption ==
  /\ Documents \subseteq Seq(ParticipantNodes) \cup {Missing}
  /\ Missing \notin Names /\ Empty \notin Names /\ Missing # Empty
  /\ Missing \notin Seq(ParticipantNodes)
  /\ NoEntity \notin [of : Nat] /\ NoEntity \notin [id : Nat]
  /\ NoEntity \notin [of : Nat, name : Names, type_name : TypeNames]
  /\ LoadBound \in Nat

-----------------------------------------------------------------------------
(* config.cc. *)

ParseTopicConfig(node) == node.name # Missing /\ node.type_name # Missing

ParseTransportConfig(transport) == transport # Malformed

\* Mutant of ParsePublisherConfig: the topics it names are not looked for.
ParsePublisherConfigUnchecked(node, topic_nodes) ==
  node.name # Missing /\ ParseTransportConfig(node.transport)

\* The topics it names are among the participant's.  (An element that is not a scalar is
\* left out.)
ParsePublisherConfig(node, topic_nodes) ==
  /\ node.name # Missing
  /\ ParseTransportConfig(node.transport)
  /\ \A r \in DOMAIN node.topic_names :
       \/ node.topic_names[r] = Missing
       \/ \E j \in DOMAIN topic_nodes : topic_nodes[j].name = node.topic_names[r]

\* The same checks, written out again.
ParseSubscriberConfig(node, topic_nodes) == ParsePublisherConfig(node, topic_nodes)

ParseDomainParticipantConfig(node) ==
  /\ node.name # Missing
  /\ node.domain_id \notin {Missing, Malformed}
  /\ \A j \in DOMAIN node.topics : ParseTopicConfig(node.topics[j])
  /\ \A j \in DOMAIN node.publishers : ParsePublisherConfig(node.publishers[j], node.topics)
  /\ \A j \in DOMAIN node.subscribers : ParseSubscriberConfig(node.subscribers[j], node.topics)

LoadFromYamlNode(document) ==
  /\ document # Missing
  /\ \A q \in DOMAIN document : ParseDomainParticipantConfig(document[q])

\* Mutant of ValidateConfig: the names of subscribers are not looked at.
ValidateConfigPublishers(document) ==
  /\ document # <<>>
  /\ \A q \in DOMAIN document :
       /\ document[q].name # Empty
       /\ \A j \in DOMAIN document[q].topics :
            document[q].topics[j].name # Empty /\ document[q].topics[j].type_name # Empty
       /\ \A j \in DOMAIN document[q].publishers : document[q].publishers[j].name # Empty

ValidateConfig(document) ==
  /\ document # <<>>
  /\ \A q \in DOMAIN document :
       /\ document[q].name # Empty
       /\ \A j \in DOMAIN document[q].topics :
            document[q].topics[j].name # Empty /\ document[q].topics[j].type_name # Empty
       /\ \A j \in DOMAIN document[q].publishers : document[q].publishers[j].name # Empty
       /\ \A j \in DOMAIN document[q].subscribers : document[q].subscribers[j].name # Empty

-----------------------------------------------------------------------------
(* AutoConfigLoader. *)

VARIABLES
  participants, topics, publishers, subscribers,  \* its maps
  created,        \* the number of participants made; the last one's identity
  topic_objects,  \* what is in the topics_ of the participants
  pc,             \* the loop of CreateEntities it is in, or "idle"
  doc, at, i,     \* the configuration, the participant and the entity the loops are at
  loads,          \* the number of loads so far
  loaded, last    \* history: the documents loaded; the one loaded last, when nothing followed

maps   == <<participants, topics, publishers, subscribers>>
locals == <<pc, doc, at, i>>
vars   == <<maps, created, topic_objects, locals, loads, loaded, last>>

Keys == Names \X Names

Init ==
  /\ participants = [n \in Names |-> NoEntity]
  /\ topics = [k \in Keys |-> NoEntity]
  /\ publishers = [k \in Keys |-> NoEntity]
  /\ subscribers = [k \in Keys |-> NoEntity]
  /\ created = 0 /\ topic_objects = {}
  /\ pc = "idle" /\ doc = <<>> /\ at = 1 /\ i = 1
  /\ loads = 0 /\ loaded = {} /\ last = Missing

Node == doc[at]

\* LoadFromFile and LoadFromString go on to CreateEntities.
Accepted(d) == LoadFromYamlNode(d) /\ ValidateConfig(d)

\* The rest of the load has the loops' positions no more.
Return == pc' = "idle" /\ doc' = <<>> /\ at' = 1 /\ i' = 1

LoadRejected ==
  /\ pc = "idle" /\ loads < LoadBound
  /\ \E d \in Documents : ~Accepted(d)
  /\ loads' = loads + 1
  /\ UNCHANGED <<maps, created, topic_objects, locals, loaded, last>>

LoadBegins ==
  /\ pc = "idle" /\ loads < LoadBound
  /\ \E d \in Documents : Accepted(d) /\ doc' = d
  /\ pc' = "participants"
  /\ loads' = loads + 1
  /\ last' = Missing
  /\ UNCHANGED <<maps, created, topic_objects, at, i, loaded>>

LoadReturns ==
  /\ pc = "participants" /\ at > Len(doc)
  /\ Return
  /\ loaded' = loaded \cup {doc}
  /\ last' = doc
  /\ UNCHANGED <<maps, created, topic_objects, loads>>

\* A participant of the same name is replaced; what the maps have under its name stays.
CreateParticipant ==
  /\ pc = "participants" /\ at <= Len(doc)
  /\ created' = created + 1
  /\ participants' = [participants EXCEPT ![Node.name] = [id |-> created']]
  /\ pc' = "topics" /\ i' = 1
  /\ UNCHANGED <<topics, publishers, subscribers, topic_objects, doc, at, loads, loaded, last>>

\* DomainParticipantImpl::CreateTopic of the name with another type returned nullptr.
TypeConflict(node) ==
  \E o \in topic_objects : o.of = created /\ o.name = node.name /\ o.type_name # node.type_name

\* Mutant of CreateTopic: a topic that is in the map is not replaced.
CreateTopicKept ==
  /\ pc = "topics" /\ i <= Len(Node.topics)
  /\ LET node  == Node.topics[i]
         topic == [of |-> created, name |-> node.name, type_name |-> node.type_name]
     IN  /\ ~TypeConflict(node)
         /\ topic_objects' = topic_objects \cup {topic}
         /\ topics' = [topics EXCEPT ![<<Node.name, node.name>>] =
                         IF @ = NoEntity THEN topic ELSE @]
  /\ i' = i + 1
  /\ UNCHANGED <<participants, publishers, subscribers, created, pc, doc, at, loads, loaded, last>>

CreateTopic ==
  /\ pc = "topics" /\ i <= Len(Node.topics)
  /\ LET node  == Node.topics[i]
         topic == [of |-> created, name |-> node.name, type_name |-> node.type_name]
     IN  /\ ~TypeConflict(node)
         /\ topic_objects' = topic_objects \cup {topic}
         /\ topics' = [topics EXCEPT ![<<Node.name, node.name>>] = topic]
  /\ i' = i + 1
  /\ UNCHANGED <<participants, publishers, subscribers, created, pc, doc, at, loads, loaded, last>>

\* The load returns false; what it has made stays in the maps.
CreateTopicFails ==
  /\ pc = "topics" /\ i <= Len(Node.topics)
  /\ TypeConflict(Node.topics[i])
  /\ Return
  /\ UNCHANGED <<maps, created, topic_objects, loads, loaded, last>>

\* Every topic the endpoint names is in the map: else the load returns false.
TopicsFound(node) ==
  \A r \in DOMAIN node.topic_names :
    node.topic_names[r] # Missing => topics[<<Node.name, node.topic_names[r]>>] # NoEntity

Associate(node) ==
  \/ TopicsFound(node) /\ i' = i + 1 /\ UNCHANGED <<pc, doc, at>>
  \/ ~TopicsFound(node) /\ Return

CreatePublisher ==
  /\ pc = "publishers" /\ i <= Len(Node.publishers)
  /\ publishers' = [publishers EXCEPT ![<<Node.name, Node.publishers[i].name>>] =
                      [of |-> created]]
  /\ Associate(Node.publishers[i])
  /\ UNCHANGED <<participants, topics, subscribers, created, topic_objects, loads, loaded, last>>

\* Mutant of CreateSubscriber: the two names of the key are swapped.
CreateSubscriberSwapped ==
  /\ pc = "subscribers" /\ i <= Len(Node.subscribers)
  /\ subscribers' = [subscribers EXCEPT ![<<Node.subscribers[i].name, Node.name>>] =
                       [of |-> created]]
  /\ Associate(Node.subscribers[i])
  /\ UNCHANGED <<participants, topics, publishers, created, topic_objects, loads, loaded, last>>

CreateSubscriber ==
  /\ pc = "subscribers" /\ i <= Len(Node.subscribers)
  /\ subscribers' = [subscribers EXCEPT ![<<Node.name, Node.subscribers[i].name>>] =
                       [of |-> created]]
  /\ Associate(Node.subscribers[i])
  /\ UNCHANGED <<participants, topics, publishers, created, topic_objects, loads, loaded, last>>

\* One loop ends and the next begins.
NextLoop ==
  /\ \/ pc = "topics" /\ i > Len(Node.topics) /\ pc' = "publishers" /\ at' = at
     \/ pc = "publishers" /\ i > Len(Node.publishers) /\ pc' = "subscribers" /\ at' = at
     \/ pc = "subscribers" /\ i > Len(Node.subscribers) /\ pc' = "participants" /\ at' = at + 1
  /\ i' = 1
  /\ UNCHANGED <<maps, created, topic_objects, doc, loads, loaded, last>>

Next ==
  \/ LoadRejected \/ LoadBegins \/ LoadReturns
  \/ CreateParticipant \/ CreateTopic \/ CreateTopicFails \/ CreatePublisher \/ CreateSubscriber
  \/ NextLoop

Spec == Init /\ [][Next]_vars

\* The getters.
GetParticipant(n) == participants[n]
GetTopic(n, t) == IF participants[n] = NoEntity THEN NoEntity ELSE topics[<<n, t>>]
GetPublisher(n, p) == IF participants[n] = NoEntity THEN NoEntity ELSE publishers[<<n, p>>]
GetSubscriber(n, s) == IF participants[n] = NoEntity THEN NoEntity ELSE subscribers[<<n, s>>]

-----------------------------------------------------------------------------
(* Properties. *)

\* Every variable keeps its type: what an accepted document names has a name.
TypeOK ==
  /\ participants \in [Names -> [id : Nat] \cup {NoEntity}]
  /\ topics \in [Keys -> [of : Nat, name : Names, type_name : TypeNames] \cup {NoEntity}]
  /\ publishers \in [Keys -> [of : Nat] \cup {NoEntity}]
  /\ subscribers \in [Keys -> [of : Nat] \cup {NoEntity}]
  /\ created \in Nat
  /\ topic_objects \subseteq [of : Nat, name : Names, type_name : TypeNames]
  /\ pc \in {"idle", "participants", "topics", "publishers", "subscribers"}
  /\ doc \in Seq(ParticipantNodes)
  /\ \A q \in DOMAIN doc :
       /\ \A j \in DOMAIN doc[q].publishers : doc[q].publishers[j].name \in Names
       /\ \A j \in DOMAIN doc[q].subscribers : doc[q].subscribers[j].name \in Names
  /\ at \in Nat \ {0} /\ i \in Nat \ {0} /\ loads \in Nat
  /\ loaded \subseteq Documents /\ last \in Documents \cup {Missing}

\* The topics an endpoint names are, when CreateEntities looks for them, there and those of
\* the participant under construction, whatever was loaded before and whatever names
\* repeat: the parser has compared with the right topics.
Made(topic_name) ==
  LET topic == topics[<<Node.name, topic_name>>]
  IN  topic # NoEntity /\ topic.of = created

Resolved(node) ==
  \A r \in DOMAIN node.topic_names :
    node.topic_names[r] # Missing => Made(node.topic_names[r])

ReferencesResolve ==
  /\ pc = "publishers" => \A j \in DOMAIN Node.publishers : Resolved(Node.publishers[j])
  /\ pc = "subscribers" => \A j \in DOMAIN Node.subscribers : Resolved(Node.subscribers[j])

\* Whatever a load that returned true names can be had from the getters ever after, also
\* when later loads fail half-way.
There(d, q) ==
  /\ GetParticipant(d[q].name) # NoEntity
  /\ \A j \in DOMAIN d[q].topics : GetTopic(d[q].name, d[q].topics[j].name) # NoEntity
  /\ \A j \in DOMAIN d[q].publishers :
       GetPublisher(d[q].name, d[q].publishers[j].name) # NoEntity
  /\ \A j \in DOMAIN d[q].subscribers :
       GetSubscriber(d[q].name, d[q].subscribers[j].name) # NoEntity

LoadedIsThere == \A d \in loaded : \A q \in DOMAIN d : There(d, q)

DistinctParticipants(d) == \A q, r \in DOMAIN d : d[q].name = d[r].name => q = r

Together(d, q) ==
  LET n  == d[q].name
      id == GetParticipant(n).id
  IN  /\ \A j \in DOMAIN d[q].topics : GetTopic(n, d[q].topics[j].name).of = id
      /\ \A j \in DOMAIN d[q].publishers : GetPublisher(n, d[q].publishers[j].name).of = id
      /\ \A j \in DOMAIN d[q].subscribers : GetSubscriber(n, d[q].subscribers[j].name).of = id

\* After a load that returned true, and until the next one, all it names under one
\* participant's name was created by the participant of that name: a writer made with the
\* publisher and the topic of the getters is that participant's.  Documents that name a
\* participant twice are excluded: the second one replaces the first one, whose topics and
\* publishers stay where the second has none of their names.
LastLoadIsTogether ==
  last # Missing /\ DistinctParticipants(last) => \A q \in DOMAIN last : Together(last, q)

\* Why ReferencesResolve holds: a configuration is created as it was accepted, and when
\* the endpoints' turn comes all topics of their participant are in the map.
DocAccepted ==
  /\ pc = "idle" => at = 1
  /\ pc # "idle" => doc \in Documents /\ Accepted(doc) /\ at <= Len(doc) + 1
  /\ pc \in {"topics", "publishers", "subscribers"} => at <= Len(doc)

TopicsMade ==
  /\ pc = "topics" => \A j \in 1 .. i - 1 : Made(Node.topics[j].name)
  /\ pc \in {"publishers", "subscribers"} =>
       \A j \in 1 .. Len(Node.topics) : Made(Node.topics[j].name)

CInv == TypeOK /\ DocAccepted /\ TopicsMade

\* Why LoadedIsThere holds: what the loops have passed is in the maps, and stays there.
Progress ==
  /\ pc \in {"topics", "publishers", "subscribers"} => GetParticipant(Node.name) # NoEntity
  /\ pc \in {"publishers", "subscribers"} =>
       \A j \in DOMAIN Node.publishers :
         pc = "subscribers" \/ j < i => GetPublisher(Node.name, Node.publishers[j].name) # NoEntity
  /\ pc = "subscribers" =>
       \A j \in DOMAIN Node.subscribers :
         j < i => GetSubscriber(Node.name, Node.subscribers[j].name) # NoEntity

PassedIsThere == Progress /\ (pc # "idle" => \A q \in 1 .. at - 1 : There(doc, q))

LInv == CInv /\ LoadedIsThere /\ PassedIsThere /\ \A d \in loaded : Accepted(d)

\* Why LastLoadIsTogether holds: what the loops have passed of a participant is its own,
\* and the loops write under the name of the participant they are at only.
OwnInProgress ==
  /\ pc \in {"topics", "publishers", "subscribers"} => GetParticipant(Node.name).id = created
  /\ pc \in {"publishers", "subscribers"} =>
       \A j \in DOMAIN Node.publishers :
         pc = "subscribers" \/ j < i =>
           publishers[<<Node.name, Node.publishers[j].name>>].of = created
  /\ pc = "subscribers" =>
       \A j \in DOMAIN Node.subscribers :
         j < i => subscribers[<<Node.name, Node.subscribers[j].name>>].of = created

PassedIsTogether ==
  pc # "idle" =>
    /\ last = Missing
    /\ DistinctParticipants(doc) => \A q \in 1 .. at - 1 : Together(doc, q)

TInv == LInv /\ OwnInProgress /\ PassedIsTogether /\ LastLoadIsTogether
=============================================================================
