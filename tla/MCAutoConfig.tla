--------------------------- MODULE MCAutoConfig ---------------------------
(***************************************************************************)
(* TLC instances of AutoConfig: documents of one or two participants whose *)
(* names, topics and references may repeat, clash or be missing.           *)
(***************************************************************************)
EXTENDS AutoConfig

CONSTANTS P, Q, T, U, X, TypeA, TypeB

Topic(name, type)    == [name |-> name, type_name |-> type]
Endpoint(name, refs) == [name |-> name, transport |-> "UDP", topic_names |-> refs]

Participant(name, ts, ps, ss) ==
  [name |-> name, domain_id |-> 0, topics |-> ts, publishers |-> ps, subscribers |-> ss]

NoEndpoint == <<>>

\* One participant: no topic, one, two, the same twice, the same with two types; endpoints
\* that name one of them, another one, or something that is no scalar.
OfTopics ==
  {<<>>, <<Topic(T, TypeA)>>, <<Topic(T, TypeA), Topic(U, TypeB)>>,
   <<Topic(T, TypeA), Topic(T, TypeA)>>, <<Topic(T, TypeA), Topic(T, TypeB)>>}

Singles ==
  {<<Participant(P, ts, <<Endpoint(X, refs)>>, <<Endpoint(T, refs)>>)>> :
     ts \in OfTopics, refs \in {<<>>, <<T>>, <<U, Missing>>}}

\* Two participants, of two names or of one.
Pairs ==
  {<<Participant(P, <<Topic(T, TypeA)>>, <<Endpoint(X, <<T>>)>>, NoEndpoint),
     Participant(n, ts, NoEndpoint, ss)>> :
       n \in {P, Q}, ts \in {<<>>, <<Topic(T, TypeB)>>, <<Topic(U, TypeA), Topic(U, TypeB)>>},
       ss \in {NoEndpoint, <<Endpoint(X, <<T>>)>>}}

\* What is not accepted.
Faulty ==
  {Missing, <<>>,
   <<Participant(Missing, <<>>, <<>>, <<>>)>>, <<Participant(Empty, <<>>, <<>>, <<>>)>>,
   <<[Participant(P, <<>>, <<>>, <<>>) EXCEPT !.domain_id = Malformed]>>,
   <<Participant(P, <<Topic(T, Missing)>>, <<>>, <<>>)>>,
   <<Participant(P, <<Topic(Empty, TypeA)>>, <<>>, <<>>)>>,
   <<Participant(P, <<>>, <<Endpoint(Missing, <<>>)>>, <<>>)>>,
   <<Participant(P, <<>>, <<>>, <<Endpoint(Empty, <<>>)>>)>>,
   <<Participant(P, <<>>, <<[Endpoint(X, <<>>) EXCEPT !.transport = Malformed]>>, <<>>)>>}

MCDocuments == Singles \cup Pairs \cup Faulty
===========================================================================
