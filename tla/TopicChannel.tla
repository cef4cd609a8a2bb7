--------------------------- MODULE TopicChannel ---------------------------
(***************************************************************************)
(* What a topic between one writer and one reader promises, whatever the   *)
(* transport: messages Send accepted are handed out by Receive exactly     *)
(* once, whole and in order.                                               *)
(***************************************************************************)
EXTENDS Sequences, Naturals

CONSTANT Payloads   \* the messages the writer may send

VARIABLES
  sent,       \* the messages Send returned true for, in order
  delivered   \* the messages Receive returned true with, in order

chan == <<sent, delivered>>

Init == sent = <<>> /\ delivered = <<>>

Accept(m) ==
  /\ sent' = Append(sent, m)
  /\ UNCHANGED delivered

Deliver ==
  /\ Len(delivered) < Len(sent)
  /\ delivered' = Append(delivered, sent[Len(delivered) + 1])
  /\ UNCHANGED sent

Next == Deliver \/ \E m \in Payloads : Accept(m)

Spec == Init /\ [][Next]_chan

\* A reader that keeps polling gets everything.
Fairness == WF_chan(Deliver)
=============================================================================
