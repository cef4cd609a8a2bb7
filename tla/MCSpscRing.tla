---------------------------- MODULE MCSpscRing ----------------------------
(***************************************************************************)
(* TLC instances of SpscRing.  The ring has 7 cells and messages take 3 or *)
(* 4 of them, so that positions do not repeat with the ring, the ring is   *)
(* exactly full at times and a message can start in the last cell.         *)
(***************************************************************************)
EXTENDS SpscRing

CONSTANTS T

MCTransports  == {TheWriter, TheReader}
MCTopicOf     == [t \in MCTransports |-> T]
MCHeaderTopic == [topic \in {T} |-> topic]
MCWriters     == {TheWriter}
MCReaders     == {TheReader}
MCNobody      == {}
=============================================================================
