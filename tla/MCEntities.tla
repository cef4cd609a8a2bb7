---------------------------- MODULE MCEntities ----------------------------
(***************************************************************************)
(* TLC instances of Entities: two threads on one participant with a        *)
(* publisher and a subscriber.                                             *)
(***************************************************************************)
EXTENDS Entities

CONSTANTS P

MCParticipants  == {P}
MCParticipantOf == [f \in Factories |-> P]
=============================================================================
