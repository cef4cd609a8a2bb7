----------------------------- MODULE AtMostOnce -----------------------------
(***************************************************************************)
(* What is left of TopicChannel when processes may be killed, segments     *)
(* replaced and datagrams lost: of the messages of a stream a receiver is  *)
(* handed some, in the order they were accepted, and no message is handed  *)
(* out twice, to one receiver or to two.                                   *)
(***************************************************************************)
EXTENDS Naturals

CONSTANTS
  Streams,    \* each numbers its messages from 1
  Receivers,
  StreamOf    \* the stream each of them is handed messages of

VARIABLES
  sent,   \* the number of messages of a stream Send returned true for
  taken   \* per receiver: a record of the when and which of every message handed out

topics == <<sent, taken>>

Init ==
  /\ sent = [s \in Streams |-> 0]
  /\ taken = [r \in Receivers |-> {}]

Accept(s) ==
  /\ sent' = [sent EXCEPT ![s] = @ + 1]
  /\ UNCHANGED taken

\* The messages in between are lost to this receiver.
Deliver(r, x) ==
  /\ x.no \in 1 .. sent[StreamOf[r]]
  /\ \A earlier \in taken[r] : earlier.at < x.at /\ earlier.no < x.no
  /\ \A q \in Receivers \ {r} : StreamOf[q] = StreamOf[r] =>
       \A other \in taken[q] : other.no # x.no
  /\ taken' = [taken EXCEPT ![r] = @ \cup {x}]
  /\ UNCHANGED sent

Next ==
  \/ \E s \in Streams : Accept(s)
  \/ \E r \in Receivers : \E x \in taken'[r] : Deliver(r, x)

Spec == Init /\ [][Next]_topics
=============================================================================
