-------------------------- MODULE ParticipantCalls --------------------------
(***************************************************************************)
(* What participants promise an application of many threads: each of their *)
(* calls takes effect at once, or not at all.  A topic name stands for one *)
(* topic for good; the transport type is settled by the first publisher or *)
(* subscriber; a reader is one of an existing topic, by the type its       *)
(* participant has.                                                        *)
(***************************************************************************)
CONSTANTS
  Participants, Factories, ParticipantOf, Names, Kinds,
  TopicObjects,  \* the topics there may be
  NoTopic        \* no topic of that name

VARIABLES transport_type, topics, factories, readers

state == <<transport_type, topics, factories, readers>>

Init ==
  /\ transport_type = [p \in Participants |-> "UDP"]
  /\ topics = [p \in Participants |-> [n \in Names |-> NoTopic]]
  /\ factories = {}
  /\ readers = {}

Settled(p) == \E f \in factories : ParticipantOf[f] = p

SetTransportType(p) ==
  /\ ~Settled(p)
  /\ \E kind \in Kinds : transport_type' = [transport_type EXCEPT ![p] = kind]
  /\ UNCHANGED <<topics, factories, readers>>

\* CreatePublisher or CreateSubscriber.
CreateFactory(f) ==
  /\ f \notin factories
  /\ factories' = factories \cup {f}
  /\ UNCHANGED <<transport_type, topics, readers>>

\* Of a name that has no topic.  (Of another one it returns the topic, or nothing.)
CreateTopic(p, n) ==
  LET topic == topics'[p][n]
  IN  /\ topics[p][n] = NoTopic
      /\ topic \in TopicObjects /\ topic.of = p /\ topic.name = n
      /\ topics' = [topics EXCEPT ![p][n] = topic]
      /\ UNCHANGED <<transport_type, factories, readers>>

CreateReader(f) ==
  /\ f \in factories
  /\ \E d \in readers' :
       /\ d.of = f /\ d.kind = transport_type[ParticipantOf[f]]
       /\ \E p \in Participants : topics[p][d.name] # NoTopic
       /\ readers' = readers \cup {d}
  /\ UNCHANGED <<transport_type, topics, factories>>

Next ==
  \/ \E p \in Participants :
       SetTransportType(p) \/ \E n \in Names : CreateTopic(p, n)
  \/ \E f \in Factories : CreateFactory(f) \/ CreateReader(f)

Spec == Init /\ [][Next]_state
=============================================================================
