--------------------------- MODULE MCShmSegments ---------------------------
(***************************************************************************)
(* TLC instance of ShmSegments: three transports and one topic; all        *)
(* transports have the same buffer_size_.                                  *)
(***************************************************************************)
EXTENDS ShmSegments

CONSTANTS A, B, C, T1, N1

Three == {A, B, C}
None  == {}
JustA == {A}
OneTopic == {T1}

OwnName  == [topic \in Topics |-> N1]
SameSize == [t \in Transports |-> 2]
=============================================================================
