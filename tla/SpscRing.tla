----------------------------- MODULE SpscRing -----------------------------
(***************************************************************************)
(* ShmRing as the unit test and the examples use it: one transport that    *)
(* advertises the topic and sends, another that subscribes and receives,   *)
(* and less than 2^32 bytes of traffic.  This is the use for which the     *)
(* ring keeps every promise of TopicChannel, and why: the inductive        *)
(* invariant IInv below, proved in SpscRing_proofs.                        *)
(***************************************************************************)
EXTENDS ShmRing

CONSTANTS TheWriter, TheReader

ASSUME SpscAssumption ==
  /\ TheWriter # TheReader
  /\ Transports = {TheWriter, TheReader}
  /\ Writers = {TheWriter}
  /\ Readers = {TheReader}
  /\ Crashable \subseteq Readers
  /\ TopicOf \in [Transports -> {TopicOf[TheReader]}]
  /\ HeaderTopic[TopicOf[TheReader]] = TopicOf[TheReader]
  /\ TrafficBound < IndexMod
  /\ NoMsg \notin Message /\ Torn \notin Message

-----------------------------------------------------------------------------
(* What the ring implements. *)

w == TheWriter
r == TheReader

\* What the reader's application got.
Got == received[r]

Channel == INSTANCE TopicChannel WITH Payloads <- Message, sent <- log, delivered <- Got

\* The ring, abstracted to what was accepted and what was handed out, is a TopicChannel.
ImplementsChannel == Channel!Spec

\* The reader's application subscribes, calls Receive again and again, and now and then
\* with a buffer that takes the message that is next.
Polling ==
  /\ WF_vars(Subscribe(r)) /\ WF_vars(Receive(r))
  /\ SF_vars(Receive(r) /\ pc[r] = "read_header" /\ pc'[r] = "read_data")
PollingSpec == Spec /\ Polling

\* If its process is killed only finitely often, it gets every accepted message.
DeliversAll == <>[][~Crash(r)]_vars => Channel!Fairness

\* Where an accepted message lies in the stream of the indices, and the cells of those that
\* were accepted and not handed out.
Start(i) == log[i].sequence
End(i)   == log[i].sequence + Total(log[i])

UnreadCells ==
  IF Len(Got) < Len(log) THEN End(Len(log)) - Start(Len(Got) + 1) ELSE 0

\* A call that returns false for want of a message, or of space, tells the truth: at its
\* step nothing is there that Send has accepted and Receive not handed out, or so much that
\* the message would fill the ring.
RefusalsExact ==
  [][/\ ReceiveEmpty(r) => Got = log
     /\ SendNoSpace(w) => UnreadCells + Total(msg[w]) >= BufferSize]_vars

\* One call moves one index, forward only; the reader never passes the writer and the
\* writer never gets a whole buffer ahead of the reader (a full ring is not an empty one).
IndicesAdvance ==
  [][/\ write_index <= write_index' /\ read_index <= read_index'
     /\ write_index = write_index' \/ read_index = read_index'
     /\ read_index' <= write_index'
     /\ write_index' - read_index' < BufferSize]_vars

-----------------------------------------------------------------------------
(* The inductive invariant. *)

UnreadMessages == Len(Got) + 1 .. Len(log)

InPlace(i) ==
  /\ (Start(i) % BufferSize) + Total(log[i]) <= Mapped
  /\ \A k \in 0 .. Total(log[i]) - 1 : data[(Start(i) % BufferSize) + k] = Cell(log[i], k)

\* Until the writer's Advertise returns the ring is empty, and it is initialised once.
PhaseInv ==
  /\ pc[w] \in {"idle", "advertise", "load_read", "copy_header", "copy_data",
                "store_write", "fault"}
  /\ pc[r] \in {"idle", "load_write", "read_header", "read_data", "store_read"}
  /\ w \in segments \/ pc[w] \in {"idle", "advertise"}
  /\ w \in segments =>
       /\ pc[w] # "advertise"
       /\ buffer_size = BufferSize /\ max_message_size = MaxMessageSize
  /\ w \notin segments => write_index = 0 /\ read_index = 0 /\ log = <<>>
  /\ pc[w] = "advertise" =>
       /\ "buffer_size" \notin stores[w] => buffer_size = BufferSize
       /\ "max_message_size" \notin stores[w] => max_message_size = MaxMessageSize
  /\ write_index = traffic

\* The accepted messages lie end to end, from index 0 to write_index.
ChainInv ==
  /\ \A i \in 1 .. Len(log) :
       /\ End(i) <= write_index
       /\ i = Len(log) => End(i) = write_index
       /\ i < Len(log) => Start(i + 1) = End(i)
  /\ \A i, j \in 1 .. Len(log) : i < j => End(i) <= Start(j)
  /\ log = <<>> => write_index = 0

\* The reader has handed out a prefix of them and read_index is where it ends.
PrefixInv ==
  /\ Len(Got) <= Len(log)
  /\ \A i \in 1 .. Len(Got) : Got[i] = log[i]
  /\ Len(Got) < Len(log) => read_index = Start(Len(Got) + 1)
  /\ Len(Got) = Len(log) => read_index = write_index
  /\ read_index <= write_index
  /\ write_index - read_index < BufferSize

\* The unread ones are in memory, inside the mapping.
MemoryInv == \A i \in UnreadMessages : InPlace(i)

\* What the writer has established at each step of Send.
WriterInv ==
  /\ pc[w] \in {"load_read", "copy_header", "copy_data", "store_write"} =>
       /\ msg[w] \in Message
       /\ idx[w] = write_index /\ msg[w].sequence = write_index
       /\ msg[w].topic = TopicOf[r]
       /\ Total(msg[w]) <= MaxMessageSize
       /\ traffic + Total(msg[w]) <= TrafficBound
  /\ pc[w] \in {"copy_header", "copy_data", "store_write"} =>
       /\ pos[w] = write_index % BufferSize
       /\ write_index - read_index + Total(msg[w]) < BufferSize
  /\ pc[w] \in {"copy_data", "store_write"} =>
       \A k \in 0 .. HeaderSize - 1 : data[pos[w] + k] = Cell(msg[w], k)
  /\ pc[w] = "store_write" =>
       /\ pos[w] + Total(msg[w]) <= Mapped
       /\ \A k \in HeaderSize .. Total(msg[w]) - 1 : data[pos[w] + k] = Cell(msg[w], k)

\* What the reader has established at each step of Receive.
ReaderInv ==
  /\ pc[r] # "idle" => r \in segments
  /\ pc[r] \in {"load_write", "read_header", "read_data", "store_read"} =>
       idx[r] = read_index
  /\ pc[r] \in {"read_header", "read_data", "store_read"} =>
       Len(Got) < Len(log) /\ pos[r] = read_index % BufferSize
  /\ pc[r] \in {"read_data", "store_read"} => msg[r] = log[Len(Got) + 1]
  /\ pc[r] = "store_read" => body[r] = Payload(msg[r])

TopicInv == \A i \in 1 .. Len(log) : log[i].topic = TopicOf[r]

CoreInv ==
  /\ BaseTypeOK /\ PhaseInv /\ ChainInv /\ PrefixInv /\ MemoryInv
  /\ WriterInv /\ ReaderInv /\ TopicInv

\* No memcpy has met another, so that what each leaves and finds is known.
NothingMet == raced = [t \in Transports |-> {}]

IInv == CoreInv /\ NothingMet
=============================================================================
