----------------------------- MODULE MCShmRing -----------------------------
(***************************************************************************)
(* TLC instances of ShmRing in which both transports write one segment:    *)
(* two writers of a topic, or two topics whose names fall on the same      *)
(* segment name, one of them read.                                         *)
(***************************************************************************)
EXTENDS ShmRing

CONSTANTS A, B, TopicA, TopicB

Both == {A, B}
JustA == {A}
JustB == {B}
None == {}

\* One topic for both, or a topic each whose names are the same but for characters that
\* CreateOrOpenSegment replaces.
SameTopic == [t \in Both |-> TopicA]
OwnTopic  == [t \in Both |-> IF t = A THEN TopicA ELSE TopicB]

\* Both names are shorter than a header's topic field.
Short == [topic \in {TopicOf[t] : t \in Transports} |-> topic]
=============================================================================
