--------------------------- MODULE MCSharedTopics ---------------------------
(***************************************************************************)
(* TLC instance of SharedTopics: a writer and a reader of one topic.       *)
(***************************************************************************)
EXTENDS SharedTopics

CONSTANTS A, B, T1, N1

Both   == {A, B}
Topic1 == {T1}

OwnName  == [topic \in Topics |-> N1]
SameSize == [t \in Transports |-> 2]
JustA    == [topic \in Topics |-> A]
OnlyB    == [topic \in Topics |-> B]
=============================================================================
