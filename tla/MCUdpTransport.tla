--------------------------- MODULE MCUdpTransport ---------------------------
(***************************************************************************)
(* TLC instances of UdpTransport: two transports on one host or on two;    *)
(* topics that hash to ports of their own, and topics that hash to one.    *)
(***************************************************************************)
EXTENDS UdpTransport, TLC

CONSTANTS A, B, T1, T2, T3, Host1, Host2, Port1, Port2, Domain

Two         == {A, B}
OneTopic    == {T1}
ThreeTopics == {T1, T2, T3}

SameHost  == [t \in Transports |-> Host1]
TwoHosts  == [t \in Transports |-> IF t = A THEN Host1 ELSE Host2]
OneDomain == [t \in Transports |-> Domain]

OnePort    == [c \in {Domain} \X Topics |-> Port1]
TwoCollide == [c \in {Domain} \X Topics |-> IF c[2] = T3 THEN Port2 ELSE Port1]

\* On one host the transports are alike, and so are the topics that collide.
Symmetry == Permutations(Transports) \cup Permutations({T1, T2})
=============================================================================
