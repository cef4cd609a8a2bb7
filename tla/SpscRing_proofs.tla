-------------------------- MODULE SpscRing_proofs --------------------------
(***************************************************************************)
(* IInv is an invariant of the one-writer, one-reader ring for every ring, *)
(* header and message size, and what follows from it.                      *)
(***************************************************************************)
EXTENDS SpscRing, TLAPS

-----------------------------------------------------------------------------
(* Arithmetic of positions. *)

\* Division with remainder, as a position (index % buffer_size) is computed.
LEMMA DivMod ==
  ASSUME NEW N \in Nat \ {0}, NEW a \in Nat
  PROVE  a = N * (a \div N) + (a % N) /\ a \div N \in Int /\ a % N \in 0 .. N - 1
BY SMT

\* Below the modulus % does nothing: where the 32-bit indices have not wrapped.
LEMMA SmallMod ==
  ASSUME NEW N \in Nat \ {0}, NEW a \in Nat, a < N
  PROVE  a % N = a
BY SMT

\* No multiple of N lies strictly between 0 and N.
LEMMA NoMultipleBetween ==
  ASSUME NEW N \in Nat \ {0}, NEW d \in Int, N * d > 0, N * d < N
  PROVE  FALSE
<1>1. CASE d <= 0
  BY <1>1, SMT
<1>2. CASE d >= 1
  BY <1>2, SMT
<1> QED BY <1>1, <1>2

\* Two stream offsets less than a ring apart are never at the same cell, however far
\* past the end of the ring the copies that hold them run.
LEMMA DistinctCells ==
  ASSUME NEW N \in Nat \ {0}, NEW a \in Nat, NEW b \in Nat, NEW j \in Nat, NEW k \in Nat,
         a + j < b + k, b + k < a + j + N
  PROVE  (a % N) + j # (b % N) + k
<1> SUFFICES ASSUME (a % N) + j = (b % N) + k PROVE FALSE
  OBVIOUS
<1> DEFINE q1 == a \div N
           q2 == b \div N
<1>1. a = N * q1 + (a % N) /\ q1 \in Int /\ a % N \in Nat
  BY DivMod
<1>2. b = N * q2 + (b % N) /\ q2 \in Int /\ b % N \in Nat
  BY DivMod
<1> HIDE DEF q1, q2
<1>3. N * (q2 - q1) = (b + k) - (a + j)
  BY <1>1, <1>2, SMT
<1>4. q2 - q1 \in Int
  BY <1>1, <1>2
<1>5. N * (q2 - q1) > 0 /\ N * (q2 - q1) < N
  BY <1>3
<1> QED BY <1>4, <1>5, NoMultipleBetween

-----------------------------------------------------------------------------
(* Constants. *)

\* The two assumptions, in the form the proofs cite.
LEMMA Constants ==
  /\ BufferSize \in Nat \ {0} /\ HeaderSize \in Nat \ {0} /\ MaxMessageSize \in Nat
  /\ Slack \in Nat /\ IndexMod \in Nat /\ BufferSize < IndexMod
  /\ TrafficBound \in Nat /\ TrafficBound < IndexMod
  /\ Mapped \in Nat /\ Mapped = BufferSize + Slack
  /\ w # r /\ Transports = {w, r} /\ Writers = {w} /\ Readers = {r}
  /\ Crashable \subseteq {r}
  /\ TopicOf[w] = TopicOf[r] /\ HeaderTopic[TopicOf[w]] = TopicOf[r]
  /\ Sizes \subseteq Nat
BY RingAssumption, SpscAssumption DEF Mapped, w, r

\* A message is at least its header long and is neither of the two special contents.
LEMMA MessageFacts ==
  ASSUME NEW m \in Message
  PROVE  /\ m.sequence \in Nat /\ m.sequence < IndexMod /\ m.size \in Nat
         /\ Total(m) \in Nat /\ Total(m) >= HeaderSize /\ Total(m) > 0
         /\ Total(m) = HeaderSize + m.size
         /\ m # NoMsg /\ m # Torn
BY Constants, SpscAssumption DEF Message, Total

\* The parts of BaseTypeOK that most steps need, on their own.
LEMMA ThreadTypes ==
  ASSUME CoreInv
  PROVE  /\ pc \in [Transports -> PcNames] /\ DOMAIN body = Transports
         /\ idx \in [Transports -> Index] /\ pos \in [Transports -> 0 .. BufferSize - 1]
         /\ msg \in [Transports -> Message \cup Headers \cup {NoMsg}]
BY DEF CoreInv, BaseTypeOK

\* What the histories hold.
LEMMA HistoryTypes ==
  ASSUME CoreInv
  PROVE  /\ log \in Seq(Message) /\ received \in [Transports -> Seq(Message \cup {Torn})]
         /\ traffic \in Nat
BY DEF CoreInv, BaseTypeOK

-----------------------------------------------------------------------------
\* A zero-filled segment nobody has mapped satisfies the invariant.
LEMMA InitInv == Init => IInv
<1> SUFFICES ASSUME Init PROVE IInv
  OBVIOUS
<1> USE Constants
<1>1. BaseTypeOK
  BY DEF Init, BaseTypeOK, Index, SizePair, Cells, sizes, PcNames
<1>2. PhaseInv
  BY DEF Init, PhaseInv
<1>3. ChainInv
  BY DEF Init, ChainInv
<1>4. PrefixInv
  BY DEF Init, PrefixInv, Got
<1>5. MemoryInv
  BY DEF Init, MemoryInv, UnreadMessages, Got
<1>6. WriterInv /\ ReaderInv /\ TopicInv
  BY DEF Init, WriterInv, ReaderInv, TopicInv
<1>7. NothingMet
  BY DEF Init, NothingMet
<1> QED BY <1>1, <1>2, <1>3, <1>4, <1>5, <1>6, <1>7 DEF IInv, CoreInv

-----------------------------------------------------------------------------
(* Frames: what an action that leaves part of the state alone preserves. *)

\* A step that moves no index, writes no cell and completes no call.
LEMMA RingUnchanged ==
  ASSUME CoreInv, UNCHANGED <<indices, data, log, received>>
  PROVE  ChainInv' /\ PrefixInv' /\ MemoryInv' /\ TopicInv'
<1>1. ChainInv'
  BY DEF CoreInv, ChainInv, indices, Start, End, Total
<1>2. PrefixInv'
  BY DEF CoreInv, PrefixInv, indices, Start, Got
<1>3. MemoryInv'
  BY DEF CoreInv, MemoryInv, UnreadMessages, InPlace, Start, Total, Got, Cell, Mapped
<1>4. TopicInv'
  BY DEF CoreInv, TopicInv
<1> QED BY <1>1, <1>2, <1>3, <1>4

\* A step of the reader leaves what the writer knows, if it only makes room.
LEMMA WriterUnchanged ==
  ASSUME CoreInv, read_index' \in Nat, read_index <= read_index',
         UNCHANGED <<write_index, data, traffic, pc[w], idx[w], msg[w], pos[w]>>
  PROVE  WriterInv'
<1>1. write_index \in Nat /\ read_index \in Nat
  BY Constants DEF CoreInv, BaseTypeOK, Index
<1>2. pc[w] \in {"load_read", "copy_header", "copy_data", "store_write"} => Total(msg[w]) \in Nat
  BY MessageFacts DEF CoreInv, WriterInv
<1> QED BY <1>1, <1>2, Constants DEF CoreInv, WriterInv, Total, Cell, Message

\* A step of the writer leaves what the reader knows, if it only appends.
LEMMA ReaderUnchanged ==
  ASSUME CoreInv, Len(log') >= Len(log), log' \in Seq(Message),
         \A i \in 1 .. Len(log) : log'[i] = log[i],
         UNCHANGED <<read_index, segments, received, pc[r], idx[r], msg[r], pos[r], body[r]>>
  PROVE  ReaderInv'
<1>1. Len(log) \in Nat /\ Len(log') \in Nat /\ Len(Got) \in Nat
  BY Constants DEF CoreInv, BaseTypeOK, Got
<1>2. Got' = Got
  BY DEF Got
<1>3. body[r] = Payload(msg[r]) => body[r]' = Payload(msg[r])'
  BY DEF Payload, Total, Cell
<1>4. Len(Got) < Len(log) =>
        /\ Len(Got) < Len(log')
        /\ Len(Got) + 1 \in 1 .. Len(log) /\ log'[Len(Got) + 1] = log[Len(Got) + 1]
  BY <1>1
<1>5. ReaderInv
  BY DEF CoreInv
<1> QED BY <1>2, <1>3, <1>4, <1>5 DEF ReaderInv

-----------------------------------------------------------------------------
(* Advertise. *)

\* Only the writer advertises, and only once: it is not killed.
LEMMA AdvertiseOpenInv ==
  ASSUME CoreInv, NEW t \in Transports, AdvertiseOpen(t)
  PROVE  CoreInv'
<1> USE Constants
<1>1. t = w /\ pc[w] = "idle" /\ w \notin segments
  BY DEF AdvertiseOpen, Goto
<1>2. BaseTypeOK'
  BY <1>1
     DEF CoreInv, BaseTypeOK, AdvertiseOpen, Goto, Fields, indices, sizes, history, PcNames
<1>3. PhaseInv'
  BY <1>1 DEF CoreInv, PhaseInv, BaseTypeOK, AdvertiseOpen, Goto, Fields, indices, sizes, history
<1>4. ChainInv' /\ PrefixInv' /\ MemoryInv' /\ TopicInv'
  BY RingUnchanged DEF AdvertiseOpen, history
<1>5. WriterInv' /\ ReaderInv'
  BY <1>1
     DEF CoreInv, WriterInv, ReaderInv, BaseTypeOK, AdvertiseOpen, Goto, indices, history, Got,
         Payload, Total, Cell
<1> QED BY <1>2, <1>3, <1>4, <1>5 DEF CoreInv

\* The stores of Advertise are the same in any order: the indices they reset are zero.
LEMMA AdvertiseStoreInv ==
  ASSUME CoreInv, NEW t \in Transports, AdvertiseStore(t)
  PROVE  CoreInv'
<1> USE Constants
<1>1. t = w /\ pc[w] = "advertise" /\ w \notin segments
  BY DEF CoreInv, PhaseInv, AdvertiseStore
<1>2. UNCHANGED <<indices, data, log, received>>
  BY <1>1 DEF CoreInv, PhaseInv, AdvertiseStore, history, indices
<1>3. BaseTypeOK'
  BY <1>1, <1>2
     DEF CoreInv, BaseTypeOK, AdvertiseStore, indices, sizes, SizePair, history, Fields
<1>4. PhaseInv'
  BY <1>1, <1>2 DEF CoreInv, PhaseInv, BaseTypeOK, AdvertiseStore, indices, history
<1>5. ChainInv' /\ PrefixInv' /\ MemoryInv' /\ TopicInv'
  BY <1>2, RingUnchanged
<1>6. WriterInv' /\ ReaderInv'
  BY <1>1, <1>2
     DEF CoreInv, WriterInv, ReaderInv, AdvertiseStore, indices, history, Got, Payload, Total, Cell
<1> QED BY <1>3, <1>4, <1>5, <1>6 DEF CoreInv

\* When Advertise returns, all four fields of the ring have their values.
LEMMA AdvertiseReturnInv ==
  ASSUME CoreInv, NEW t \in Transports, AdvertiseReturn(t)
  PROVE  CoreInv'
<1> USE Constants
<1>1. t = w /\ pc[w] = "advertise" /\ w \notin segments /\ stores[w] = {}
  BY DEF CoreInv, PhaseInv, AdvertiseReturn, Goto, history
<1>2. BaseTypeOK'
  BY <1>1
     DEF CoreInv, BaseTypeOK, AdvertiseReturn, Goto, history, locals, indices, sizes,
         PcNames
<1>3. PhaseInv'
  BY <1>1 DEF CoreInv, PhaseInv, BaseTypeOK, AdvertiseReturn, Goto, history, indices, sizes
<1>4. ChainInv' /\ PrefixInv' /\ MemoryInv' /\ TopicInv'
  BY RingUnchanged DEF AdvertiseReturn, history
<1>5. WriterInv' /\ ReaderInv'
  BY <1>1
     DEF CoreInv, WriterInv, ReaderInv, BaseTypeOK, AdvertiseReturn, Goto, history, indices,
         locals, Got, Payload, Total, Cell
<1> QED BY <1>2, <1>3, <1>4, <1>5 DEF CoreInv

\* Subscribe may come before or after Advertise: it leaves the segment alone.
LEMMA SubscribeInv ==
  ASSUME CoreInv, NEW t \in Transports, Subscribe(t)
  PROVE  CoreInv'
<1> USE Constants
<1>1. t = r /\ pc[r] = "idle"
  BY DEF Subscribe
<1>2. BaseTypeOK'
  BY <1>1 DEF CoreInv, BaseTypeOK, Subscribe, locals, indices, sizes, history
<1>3. PhaseInv'
  BY <1>1 DEF CoreInv, PhaseInv, Subscribe, indices, sizes, history
<1>4. ChainInv' /\ PrefixInv' /\ MemoryInv' /\ TopicInv'
  BY RingUnchanged DEF Subscribe, history
<1>5. WriterInv' /\ ReaderInv'
  BY <1>1
     DEF CoreInv, WriterInv, ReaderInv, Subscribe, indices, locals, history, Got, Payload,
         Total, Cell
<1> QED BY <1>2, <1>3, <1>4, <1>5 DEF CoreInv

-----------------------------------------------------------------------------
(* What the invariant says of the message at hand. *)

\* Everything unread lies at or after read_index and before write_index.
LEMMA UnreadBetween ==
  ASSUME CoreInv, NEW i \in UnreadMessages
  PROVE  /\ i \in 1 .. Len(log) /\ log[i] \in Message
         /\ Start(i) \in Nat /\ Total(log[i]) \in Nat /\ Total(log[i]) >= HeaderSize
         /\ read_index <= Start(i) /\ End(i) <= write_index
<1>1. Len(Got) \in Nat /\ Len(log) \in Nat /\ log \in Seq(Message)
  BY Constants DEF CoreInv, BaseTypeOK, Got
<1>2. i \in 1 .. Len(log) /\ log[i] \in Message /\ Len(Got) + 1 \in 1 .. Len(log)
  BY <1>1 DEF UnreadMessages
<1>3. Start(i) \in Nat /\ Total(log[i]) \in Nat /\ Total(log[i]) >= HeaderSize
  BY <1>2, MessageFacts DEF Start
<1>4. End(i) <= write_index
  BY <1>2 DEF CoreInv, ChainInv
<1>5. read_index <= Start(i)
  <2> DEFINE h == Len(Got) + 1
  <2>1. read_index = Start(h)
    BY <1>1, <1>2 DEF CoreInv, PrefixInv
  <2>2. CASE i = h
    BY <2>1, <2>2, <1>3
  <2>3. CASE i # h
    <3>1. h < i
      BY <1>1, <2>3 DEF UnreadMessages
    <3>2. End(h) <= Start(i)
      BY <1>2, <3>1 DEF CoreInv, ChainInv
    <3>3. Start(h) \in Nat /\ Total(log[h]) \in Nat /\ End(h) = Start(h) + Total(log[h])
      BY <1>1, <1>2, MessageFacts DEF Start, End
    <3> HIDE DEF h
    <3> QED BY <2>1, <3>2, <3>3, <1>3
  <2> QED BY <2>2, <2>3
<1> QED BY <1>2, <1>3, <1>4, <1>5

\* The cells the writer has reserved hold nothing unread.
LEMMA ReservedApart ==
  ASSUME CoreInv, pc[w] \in {"copy_header", "copy_data", "store_write"},
         NEW i \in UnreadMessages, NEW k \in 0 .. Total(log[i]) - 1,
         NEW c \in 0 .. Total(msg[w]) - 1
  PROVE  (Start(i) % BufferSize) + k # pos[w] + c
<1>1. write_index \in Nat /\ read_index \in Nat
  BY DEF CoreInv, BaseTypeOK, Index
<1>2. Start(i) \in Nat /\ Total(log[i]) \in Nat /\ read_index <= Start(i)
      /\ Start(i) + Total(log[i]) <= write_index
  BY UnreadBetween DEF End, Start
<1>3. Total(msg[w]) \in Nat /\ pos[w] = write_index % BufferSize
      /\ write_index - read_index + Total(msg[w]) < BufferSize
  BY MessageFacts DEF CoreInv, WriterInv
<1>4. k \in Nat /\ c \in Nat
      /\ Start(i) + k < write_index + c /\ write_index + c < Start(i) + k + BufferSize
  BY <1>1, <1>2, <1>3, Constants
<1>5. (Start(i) % BufferSize) + k # (write_index % BufferSize) + c
  <2> DEFINE a == Start(i)
  <2>1. a \in Nat
    BY <1>2
  <2> HIDE DEF a
  <2>2. a + k < write_index + c /\ write_index + c < a + k + BufferSize
    BY <1>4 DEF a
  <2>3. (a % BufferSize) + k # (write_index % BufferSize) + c
    BY <1>1, <1>4, <2>1, <2>2, Constants, DistinctCells
  <2> QED BY <2>3 DEF a
<1> QED BY <1>3, <1>5

\* The message the reader is at.
LEMMA HeadMessage ==
  ASSUME CoreInv, Len(Got) < Len(log)
  PROVE  LET h == Len(Got) + 1
         IN  /\ h \in UnreadMessages /\ h \in 1 .. Len(log) /\ log[h] \in Message
             /\ read_index = Start(h) /\ InPlace(h)
<1>1. Len(Got) \in Nat /\ Len(log) \in Nat /\ log \in Seq(Message)
  BY Constants DEF CoreInv, BaseTypeOK, Got
<1>2. Len(Got) + 1 \in UnreadMessages
  BY <1>1 DEF UnreadMessages
<1> QED BY <1>1, <1>2 DEF CoreInv, PrefixInv, MemoryInv

-----------------------------------------------------------------------------
(* Send. *)

\* Send starts from the writer's own index, and the message it builds fits the bounds.
LEMMA SendBeginInv ==
  ASSUME CoreInv, NEW t \in Transports, SendBegin(t)
  PROVE  CoreInv'
<1> USE Constants
<1>1. t = w /\ pc[w] = "idle" /\ w \in segments
  BY DEF SendBegin, Goto
<1>2. PICK s \in Sizes :
        LET m == [sender |-> w, topic |-> HeaderTopic[TopicOf[w]],
                  sequence |-> write_index, size |-> s]
        IN  /\ Total(m) <= max_message_size
            /\ traffic + Total(m) <= TrafficBound
            /\ msg' = [msg EXCEPT ![w] = m]
  BY <1>1 DEF SendBegin
<1> DEFINE m == [sender |-> w, topic |-> HeaderTopic[TopicOf[w]],
                 sequence |-> write_index, size |-> s]
<1>3. m \in Message /\ m.sequence = write_index /\ m.topic = TopicOf[r]
  BY DEF CoreInv, BaseTypeOK, Index, Message
<1>4. Total(m) <= MaxMessageSize /\ traffic + Total(m) <= TrafficBound
      /\ msg' = [msg EXCEPT ![w] = m]
  BY <1>1, <1>2 DEF CoreInv, PhaseInv
<1> HIDE DEF m
<1>5. msg'[w] = m
  BY <1>4 DEF CoreInv, BaseTypeOK
<1>6. BaseTypeOK'
  BY <1>1, <1>3, <1>4
     DEF CoreInv, BaseTypeOK, SendBegin, Goto, indices, sizes, history, PcNames, Index
<1>7. PhaseInv'
  BY <1>1 DEF CoreInv, PhaseInv, BaseTypeOK, SendBegin, Goto, indices, sizes, history
<1>8. ChainInv' /\ PrefixInv' /\ MemoryInv' /\ TopicInv'
  BY RingUnchanged DEF SendBegin, history
<1>9. pc' = [pc EXCEPT ![w] = "load_read"] /\ idx'[w] = write_index'
  BY <1>1 DEF SendBegin, Goto, indices, CoreInv, BaseTypeOK
<1>10. WriterInv'
  BY <1>3, <1>4, <1>5, <1>9 DEF CoreInv, BaseTypeOK, WriterInv, SendBegin, indices, history, Total
<1>11. ReaderInv'
  BY <1>1, <1>4, <1>9
     DEF CoreInv, BaseTypeOK, ReaderInv, SendBegin, indices, history, Got, Cell
<1> QED BY <1>6, <1>7, <1>8, <1>10, <1>11 DEF CoreInv

\* Send never divides by zero: the ring is initialised before segments_ has the topic.
LEMMA SendDivideByZeroInv ==
  ASSUME CoreInv, NEW t \in Transports, SendDivideByZero(t)
  PROVE  FALSE
BY Constants DEF CoreInv, PhaseInv, SendDivideByZero, Goto

\* A Send that finds no space leaves the ring as it was.
LEMMA SendNoSpaceInv ==
  ASSUME CoreInv, NEW t \in Transports, SendNoSpace(t)
  PROVE  CoreInv'
<1> USE Constants
<1>1. t = w /\ pc[w] = "load_read"
  BY DEF CoreInv, PhaseInv, SendNoSpace, Return, Goto
<1>2. BaseTypeOK'
  <2>1. /\ pc' \in [Transports -> PcNames] /\ DOMAIN body' = Transports
        /\ idx' \in [Transports -> Index] /\ pos' \in [Transports -> 0 .. BufferSize - 1]
        /\ msg' \in [Transports -> Message \cup Headers \cup {NoMsg}]
    BY <1>1, ThreadTypes DEF SendNoSpace, Return, Goto, ForgetLocals, Index, PcNames
  <2> QED BY <1>1, <2>1 DEF CoreInv, BaseTypeOK, SendNoSpace, indices, sizes, history
<1>3. PhaseInv'
  BY <1>1 DEF CoreInv, PhaseInv, BaseTypeOK, SendNoSpace, Return, Goto, indices, sizes, history
<1>4. ChainInv' /\ PrefixInv' /\ MemoryInv' /\ TopicInv'
  BY RingUnchanged DEF SendNoSpace, history
<1>5. WriterInv' /\ ReaderInv'
  BY <1>1
     DEF CoreInv, WriterInv, ReaderInv, BaseTypeOK, SendNoSpace, Return, Goto, ForgetLocals,
         indices, history, Got, Payload, Total, Cell
<1> QED BY <1>2, <1>3, <1>4, <1>5 DEF CoreInv

\* The space check, made with a read_index that may be stale by the time it is used, still
\* holds after it: read_index only moves forward.
LEMMA SendReserveInv ==
  ASSUME CoreInv, NEW t \in Transports, SendReserve(t)
  PROVE  CoreInv'
<1> USE Constants
<1>1. t = w /\ pc[w] = "load_read" /\ buffer_size = BufferSize
  BY DEF CoreInv, PhaseInv, SendReserve, Goto
<1>2. pos' = [pos EXCEPT ![w] = write_index % BufferSize]
  BY <1>1 DEF CoreInv, WriterInv, SendReserve
<1>3. write_index \in Nat /\ read_index \in Nat /\ read_index <= write_index
      /\ write_index - read_index < BufferSize
  BY DEF CoreInv, BaseTypeOK, Index, PrefixInv
<1>4. AvailableSpace(write_index, read_index) = BufferSize - (write_index - read_index)
  <2>1. BufferSize - (write_index - read_index) \in Nat
        /\ BufferSize - (write_index - read_index) < IndexMod
    BY <1>3
  <2> QED BY <1>1, <1>3, <2>1, SmallMod DEF AvailableSpace
<1>5. msg[w] \in Message /\ Total(msg[w]) \in Nat /\ idx[w] = write_index
  BY <1>1, MessageFacts DEF CoreInv, WriterInv
<1>6. write_index - read_index + Total(msg[w]) < BufferSize
  BY <1>1, <1>3, <1>4, <1>5 DEF SendReserve
<1>7. write_index % BufferSize \in 0 .. BufferSize - 1
  BY <1>3, DivMod
<1>8. BaseTypeOK'
  <2>1. /\ pc' \in [Transports -> PcNames]
        /\ pos' \in [Transports -> 0 .. BufferSize - 1]
        /\ pc'[w] # "store_read" /\ pc'[r] = pc[r]
    <3>1. pc \in [Transports -> PcNames] /\ pos \in [Transports -> 0 .. BufferSize - 1]
      BY DEF CoreInv, BaseTypeOK
    <3>2. pc' = [pc EXCEPT ![w] = "copy_header"]
          /\ pos' = [pos EXCEPT ![w] = write_index % BufferSize]
      BY <1>1, <1>2, <1>3, <1>5 DEF SendReserve, Goto
    <3> QED BY <1>7, <3>1, <3>2 DEF PcNames
  <2> QED BY <2>1 DEF CoreInv, BaseTypeOK, SendReserve, indices, sizes, history
<1>9. PhaseInv'
  BY <1>1 DEF CoreInv, PhaseInv, BaseTypeOK, SendReserve, Goto, indices, sizes, history
<1>10. ChainInv' /\ PrefixInv' /\ MemoryInv' /\ TopicInv'
  BY RingUnchanged DEF SendReserve, history
<1>11. pc'[w] = "copy_header" /\ pos'[w] = write_index % BufferSize
  BY <1>1, <1>2 DEF CoreInv, BaseTypeOK, SendReserve, Goto
<1>12. WriterInv'
  BY <1>1, <1>6, <1>11 DEF CoreInv, WriterInv, SendReserve, indices, history, Total
<1>13. ReaderInv'
  BY <1>1
     DEF CoreInv, ReaderInv, BaseTypeOK, SendReserve, Goto, indices, history, Got, Payload,
         Total, Cell
<1> QED BY <1>8, <1>9, <1>10, <1>12, <1>13 DEF CoreInv

\* A copy of part of the writer's message touches nothing but the reserved cells, which
\* then hold it.
LEMMA CopyInReserved ==
  ASSUME CoreInv, pc[w] \in {"copy_header", "copy_data"},
         NEW from \in Nat, NEW to \in Nat, to <= Total(msg[w]),
         pos[w] + to <= Mapped,
         data' = Copied(pos[w], msg[w], from, to, {}),
         UNCHANGED <<log, received>>
  PROVE  /\ data' \in [0 .. Mapped - 1 -> Cells]
         /\ MemoryInv'
         /\ \A k \in from .. to - 1 : data'[pos[w] + k] = Cell(msg[w], k)
         /\ \A k \in 0 .. from - 1 :
              pos[w] + k < Mapped => data'[pos[w] + k] = data[pos[w] + k]
<1> USE Constants
<1>1. msg[w] \in Message /\ Total(msg[w]) \in Nat
  BY MessageFacts DEF CoreInv, WriterInv
<1>2. pos[w] \in Nat
  BY DEF CoreInv, BaseTypeOK
<1>3. data \in [0 .. Mapped - 1 -> Cells]
  BY DEF CoreInv, BaseTypeOK
<1>4. data' = [c \in 0 .. Mapped - 1 |->
                 IF c - pos[w] \in from .. to - 1 THEN Cell(msg[w], c - pos[w]) ELSE data[c]]
  BY <1>3 DEF Copied
<1>5. \A k \in from .. to - 1 : k \in Nat /\ Cell(msg[w], k) \in Cells
  BY <1>1 DEF Cell, Cells
<1>6. data' \in [0 .. Mapped - 1 -> Cells]
  <2> SUFFICES ASSUME NEW c \in 0 .. Mapped - 1
               PROVE  (IF c - pos[w] \in from .. to - 1 THEN Cell(msg[w], c - pos[w])
                       ELSE data[c]) \in Cells
    BY <1>4
  <2> QED BY <1>3, <1>5
<1>7. \A k \in from .. to - 1 : data'[pos[w] + k] = Cell(msg[w], k)
  <2> SUFFICES ASSUME NEW k \in from .. to - 1
               PROVE  data'[pos[w] + k] = Cell(msg[w], k)
    OBVIOUS
  <2>1. pos[w] + k \in 0 .. Mapped - 1 /\ (pos[w] + k) - pos[w] = k
    BY <1>2
  <2> QED BY <1>4, <2>1
<1>8. \A k \in 0 .. from - 1 : pos[w] + k < Mapped => data'[pos[w] + k] = data[pos[w] + k]
  <2> SUFFICES ASSUME NEW k \in 0 .. from - 1, pos[w] + k < Mapped
               PROVE  data'[pos[w] + k] = data[pos[w] + k]
    OBVIOUS
  <2>1. pos[w] + k \in 0 .. Mapped - 1 /\ (pos[w] + k) - pos[w] = k /\ k \notin from .. to - 1
    BY <1>2
  <2> QED BY <1>4, <2>1
<1>9. MemoryInv'
  <2>1. UnreadMessages' = UnreadMessages
    BY DEF UnreadMessages, Got
  <2> SUFFICES ASSUME NEW i \in UnreadMessages
               PROVE  InPlace(i)'
    BY <2>1 DEF MemoryInv
  <2>2. InPlace(i)
    BY DEF CoreInv, MemoryInv
  <2>3. Start(i) \in Nat /\ Total(log[i]) \in Nat
    BY UnreadBetween
  <2>4. Start(i) % BufferSize \in Nat
    BY <2>3, DivMod
  <2>5. ASSUME NEW k \in 0 .. Total(log[i]) - 1
        PROVE  data'[(Start(i) % BufferSize) + k] = Cell(log[i], k)
    <3> DEFINE c == (Start(i) % BufferSize) + k
    <3>1. c \in 0 .. Mapped - 1 /\ data[c] = Cell(log[i], k)
      BY <2>2, <2>3, <2>4 DEF InPlace
    <3>2. \A j \in 0 .. Total(msg[w]) - 1 : c # pos[w] + j
      BY ReservedApart
    <3> HIDE DEF c
    <3>3. c - pos[w] \notin from .. to - 1
      BY <1>1, <1>2, <3>1, <3>2
    <3>4. data'[c] = Cell(log[i], k)
      BY <1>4, <3>1, <3>3
    <3> QED BY <3>4 DEF c
  <2> QED BY <2>2, <2>5 DEF InPlace, Start, Total, Cell
<1> QED BY <1>6, <1>7, <1>8, <1>9

\* The copy in progress of Send stays inside the cells it has reserved.
LEMMA WritingReserved ==
  ASSUME CoreInv, pc[w] \in {"copy_header", "copy_data"}, NEW c \in Writing(w)
  PROVE  \E j \in 0 .. Total(msg[w]) - 1 : c = pos[w] + j
<1>1. pos[w] \in Nat /\ Total(msg[w]) \in Nat /\ HeaderSize <= Total(msg[w]) /\ HeaderSize \in Nat
  BY MessageFacts, Constants DEF CoreInv, WriterInv, BaseTypeOK
<1>2. c \in pos[w] .. pos[w] + Total(msg[w]) - 1
  BY <1>1 DEF Writing
<1>3. c - pos[w] \in 0 .. Total(msg[w]) - 1 /\ c = pos[w] + (c - pos[w])
  BY <1>1, <1>2
<1> QED BY <1>3

\* Copying the header into the reserved cells disturbs no unread message.
LEMMA SendCopyHeaderInv ==
  ASSUME CoreInv, NothingMet, NEW t \in Transports, SendCopyHeader(t)
  PROVE  CoreInv'
<1> USE Constants
<1>1. t = w /\ pc[w] = "copy_header" /\ pc' = [pc EXCEPT ![w] = "copy_data"]
      /\ pos[w] + HeaderSize <= Mapped /\ data' = Copied(pos[w], msg[w], 0, HeaderSize, {})
  BY DEF CoreInv, PhaseInv, NothingMet, SendCopyHeader, Goto
<1>2. msg[w] \in Message /\ Total(msg[w]) \in Nat /\ HeaderSize <= Total(msg[w])
  BY <1>1, MessageFacts DEF CoreInv, WriterInv
<1>3. UNCHANGED <<write_index, read_index, sizes, segments, locals, stores, history>>
  BY DEF SendCopyHeader, indices
<1>4. /\ data' \in [0 .. Mapped - 1 -> Cells]
      /\ MemoryInv'
      /\ \A k \in 0 .. HeaderSize - 1 : data'[pos[w] + k] = Cell(msg[w], k)
  BY <1>1, <1>2, <1>3, CopyInReserved DEF history
<1>5. BaseTypeOK'
  BY <1>1, <1>3, <1>4 DEF CoreInv, BaseTypeOK, locals, sizes, history, PcNames, Index
<1>6. PhaseInv'
  BY <1>1, <1>3 DEF CoreInv, PhaseInv, BaseTypeOK, sizes, history
<1>7. ChainInv' /\ PrefixInv' /\ TopicInv'
  BY <1>3 DEF CoreInv, ChainInv, PrefixInv, TopicInv, history, Start, End, Total, Got
<1>8. WriterInv'
  BY <1>1, <1>3, <1>4 DEF CoreInv, WriterInv, BaseTypeOK, locals, history, Total, Cell
<1>9. ReaderInv'
  BY <1>1, <1>3 DEF CoreInv, ReaderInv, BaseTypeOK, locals, history, Got, Payload, Total, Cell
<1> QED BY <1>4, <1>5, <1>6, <1>7, <1>8, <1>9 DEF CoreInv

\* Copying the payload disturbs no unread message and leaves the header in place.
LEMMA SendCopyDataInv ==
  ASSUME CoreInv, NothingMet, NEW t \in Transports, SendCopyData(t)
  PROVE  CoreInv'
<1> USE Constants
<1>1. t = w /\ pc[w] = "copy_data" /\ pc' = [pc EXCEPT ![w] = "store_write"]
      /\ pos[w] + Total(msg[w]) <= Mapped
      /\ data' = Copied(pos[w], msg[w], HeaderSize, Total(msg[w]), {})
  BY DEF CoreInv, PhaseInv, NothingMet, SendCopyData, Goto
<1>2. msg[w] \in Message /\ Total(msg[w]) \in Nat /\ HeaderSize <= Total(msg[w])
  BY <1>1, MessageFacts DEF CoreInv, WriterInv
<1>3. UNCHANGED <<write_index, read_index, sizes, segments, locals, stores, history>>
  BY DEF SendCopyData, indices
<1>4. /\ data' \in [0 .. Mapped - 1 -> Cells]
      /\ MemoryInv'
      /\ \A k \in HeaderSize .. Total(msg[w]) - 1 : data'[pos[w] + k] = Cell(msg[w], k)
      /\ \A k \in 0 .. HeaderSize - 1 :
           pos[w] + k < Mapped => data'[pos[w] + k] = data[pos[w] + k]
  BY <1>1, <1>2, <1>3, CopyInReserved DEF history
<1>5. \A k \in 0 .. HeaderSize - 1 : data'[pos[w] + k] = Cell(msg[w], k)
  <2>1. pos[w] \in Nat
    BY DEF CoreInv, BaseTypeOK
  <2>2. \A k \in 0 .. HeaderSize - 1 : pos[w] + k < Mapped
    BY <1>1, <1>2, <2>1
  <2> QED BY <1>1, <1>4, <2>2 DEF CoreInv, WriterInv
<1>6. BaseTypeOK'
  BY <1>1, <1>3, <1>4 DEF CoreInv, BaseTypeOK, locals, sizes, history, PcNames, Index
<1>7. PhaseInv'
  BY <1>1, <1>3 DEF CoreInv, PhaseInv, BaseTypeOK, sizes, history
<1>8. ChainInv' /\ PrefixInv' /\ TopicInv'
  BY <1>3 DEF CoreInv, ChainInv, PrefixInv, TopicInv, history, Start, End, Total, Got
<1>9. WriterInv'
  BY <1>1, <1>3, <1>4, <1>5 DEF CoreInv, WriterInv, BaseTypeOK, locals, history, Total, Cell
<1>10. ReaderInv'
  BY <1>1, <1>3 DEF CoreInv, ReaderInv, BaseTypeOK, locals, history, Got, Payload, Total, Cell
<1> QED BY <1>4, <1>6, <1>7, <1>8, <1>9, <1>10 DEF CoreInv

\* A Send that faults in a copy has spoiled reserved cells only.
LEMMA SendOverrunInv ==
  ASSUME CoreInv, NEW t \in Transports, SendOverrun(t)
  PROVE  CoreInv'
<1> USE Constants
<1>1. t = w /\ pc' = [pc EXCEPT ![w] = "fault"]
      /\ pc[w] \in {"copy_header", "copy_data"} /\ data' = CutShort(Writing(w))
  BY DEF CoreInv, PhaseInv, SendOverrun, Goto
<1>2. UNCHANGED <<write_index, read_index, sizes, segments, locals, stores, history>>
  BY DEF SendOverrun, indices
<1>d. data \in [0 .. Mapped - 1 -> Cells] /\ Unknown \in Cells
  BY DEF CoreInv, BaseTypeOK, Cells
<1>e. data' \in [0 .. Mapped - 1 -> Cells]
  BY <1>1, <1>d DEF CutShort
<1>m. MemoryInv'
  <2>1. UnreadMessages' = UnreadMessages
    BY <1>2 DEF UnreadMessages, Got, history
  <2> SUFFICES ASSUME NEW i \in UnreadMessages
               PROVE  InPlace(i)'
    BY <2>1 DEF MemoryInv
  <2>2. InPlace(i) /\ Start(i) \in Nat /\ Total(log[i]) \in Nat
    BY UnreadBetween DEF CoreInv, MemoryInv
  <2>3. Start(i) % BufferSize \in Nat
    BY <2>2, DivMod
  <2>4. ASSUME NEW k \in 0 .. Total(log[i]) - 1
        PROVE  data'[(Start(i) % BufferSize) + k] = Cell(log[i], k)
    <3> DEFINE c == (Start(i) % BufferSize) + k
    <3>1. c \in 0 .. Mapped - 1 /\ data[c] = Cell(log[i], k)
      BY <2>2, <2>3 DEF InPlace
    <3>2. \A j \in 0 .. Total(msg[w]) - 1 : c # pos[w] + j
      BY <1>1, ReservedApart
    <3> HIDE DEF c
    <3>3. c \notin Writing(w)
      BY <1>1, <3>1, <3>2, WritingReserved
    <3>4. data'[c] = data[c]
      BY <1>1, <1>d, <3>1, <3>3 DEF CutShort
    <3> QED BY <3>1, <3>4 DEF c
  <2> QED BY <1>2, <2>2, <2>4 DEF InPlace, Start, Total, Cell, history
<1>3. BaseTypeOK'
  BY <1>1, <1>2, <1>e DEF CoreInv, BaseTypeOK, locals, sizes, history, PcNames, Index
<1>4. PhaseInv'
  BY <1>1, <1>2 DEF CoreInv, PhaseInv, BaseTypeOK, sizes, history
<1>5. ChainInv' /\ PrefixInv' /\ TopicInv'
  BY <1>2 DEF CoreInv, ChainInv, PrefixInv, TopicInv, history, Start, End, Total, Got
<1>6. WriterInv' /\ ReaderInv'
  BY <1>1, <1>2
     DEF CoreInv, WriterInv, ReaderInv, BaseTypeOK, locals, history, Got, Payload, Total, Cell
<1> QED BY <1>3, <1>4, <1>5, <1>6, <1>m DEF CoreInv

\* Storing write_index makes a message unread that is already whole in memory.
LEMMA SendCommitInv ==
  ASSUME CoreInv, NEW t \in Transports, SendCommit(t)
  PROVE  CoreInv'
<1> USE Constants
<1>1. t = w /\ pc[w] = "store_write" /\ w \in segments
      /\ pc' = [pc EXCEPT ![w] = "idle"]
  BY DEF CoreInv, PhaseInv, SendCommit, Return, Goto
<1>m. PICK m \in Message : m = msg[w]
  BY <1>1 DEF CoreInv, WriterInv
<1>n. PICK n \in Nat : n = Len(log)
  BY DEF CoreInv, BaseTypeOK
<1>2. /\ Total(m) \in Nat /\ Total(m) > 0
      /\ idx[w] = write_index /\ m.sequence = write_index /\ m.topic = TopicOf[r]
      /\ traffic + Total(m) <= TrafficBound
      /\ write_index - read_index + Total(m) < BufferSize
  BY <1>1, <1>m, MessageFacts DEF CoreInv, WriterInv
<1>3. write_index \in Nat /\ read_index \in Nat /\ log \in Seq(Message)
      /\ Len(Got) \in Nat /\ Len(Got) <= n
  BY <1>n DEF CoreInv, BaseTypeOK, Index, Got, PrefixInv
<1>4. write_index' = write_index + Total(m) /\ write_index' \in 0 .. IndexMod - 1
  <2>1. write_index + Total(m) \in Nat /\ write_index + Total(m) < IndexMod
    BY SMTT(20), <1>2, <1>3 DEF CoreInv, PhaseInv
  <2>2. (write_index + Total(m)) % IndexMod = write_index + Total(m)
    BY <2>1, SmallMod
  <2> QED BY <1>1, <1>m, <1>2, <2>1, <2>2 DEF SendCommit, Advance
<1>5. /\ UNCHANGED <<read_index, sizes, data, segments, stores, received>>
      /\ log' = Append(log, m) /\ traffic' = traffic + Total(m)
      /\ idx' = [idx EXCEPT ![w] = 0] /\ pos' = [pos EXCEPT ![w] = 0]
      /\ msg' = [msg EXCEPT ![w] = NoMsg] /\ body' = [body EXCEPT ![w] = <<>>]
  BY <1>1, <1>m DEF SendCommit, Return, ForgetLocals
<1>6. /\ log' \in Seq(Message) /\ Len(log') = n + 1
      /\ log'[n + 1] = m
      /\ \A i \in 1 .. n : log'[i] = log[i]
  BY <1>n, <1>3, <1>5
<1>7. BaseTypeOK'
  <2>1. /\ write_index' \in Index /\ read_index' \in Index
        /\ sizes' \in SizePair
        /\ data' \in [0 .. Mapped - 1 -> Cells]
        /\ segments' \subseteq Transports
        /\ stores' \in [Transports -> SUBSET Fields]
        /\ received' \in [Transports -> Seq(Message \cup {Torn})]
    BY <1>4, <1>5 DEF CoreInv, BaseTypeOK, Index
  <2>2. /\ pc' \in [Transports -> PcNames] /\ DOMAIN body' = Transports
        /\ idx' \in [Transports -> Index] /\ pos' \in [Transports -> 0 .. BufferSize - 1]
        /\ msg' \in [Transports -> Message \cup Headers \cup {NoMsg}]
    BY <1>1, <1>5 DEF CoreInv, BaseTypeOK, Index, PcNames
  <2>3. traffic' \in Nat
    BY <1>2, <1>5, HistoryTypes
  <2> QED BY <1>6, <2>1, <2>2, <2>3 DEF BaseTypeOK
<1>8. PhaseInv'
  BY <1>1, <1>2, <1>4, <1>5 DEF CoreInv, PhaseInv, BaseTypeOK, sizes
<1>9. /\ Start(n + 1)' = write_index /\ End(n + 1)' = write_index'
      /\ \A i \in 1 .. n : Start(i)' = Start(i) /\ End(i)' = End(i)
  BY <1>n, <1>2, <1>4, <1>6 DEF Start, End, Total
<1>10. ChainInv'
  <2>1. \A i \in 1 .. n : End(i) <= write_index /\ (i = n => End(i) = write_index)
        /\ (i < n => Start(i + 1) = End(i)) /\ End(i) \in Int /\ Start(i) \in Int
    <3>1. \A i \in 1 .. n : End(i) <= write_index /\ (i = n => End(i) = write_index)
          /\ (i < n => Start(i + 1) = End(i))
      BY <1>n DEF CoreInv, ChainInv
    <3>2. \A i \in 1 .. n : log[i] \in Message
      BY <1>n, <1>3
    <3>3. \A i \in 1 .. n : End(i) \in Int /\ Start(i) \in Int
      BY <3>2, MessageFacts DEF Start, End
    <3> QED BY <3>1, <3>3
  <2>2. \A i \in 1 .. n + 1 :
          /\ End(i)' <= write_index'
          /\ i = n + 1 => End(i)' = write_index'
          /\ i < n + 1 => Start(i + 1)' = End(i)'
    <3> SUFFICES ASSUME NEW i \in 1 .. n + 1
                 PROVE  /\ End(i)' <= write_index'
                        /\ i = n + 1 => End(i)' = write_index'
                        /\ i < n + 1 => Start(i + 1)' = End(i)'
      OBVIOUS
    <3>1. CASE i = n + 1
      BY <1>3, <1>4, <1>9, <3>1
    <3>2. CASE i = n
      BY <1>2, <1>3, <1>4, <1>9, <2>1, <3>2
    <3>3. CASE i < n
      <4>1. i \in 1 .. n /\ i + 1 \in 1 .. n
        BY <1>3, <3>3
      <4> QED BY SMTT(20), <1>2, <1>3, <1>4, <1>9, <2>1, <3>3, <4>1
    <3> QED BY <1>3, <3>1, <3>2, <3>3
  <2>3. \A i, j \in 1 .. n + 1 : i < j => End(i)' <= Start(j)'
    <3> SUFFICES ASSUME NEW i \in 1 .. n + 1, NEW j \in 1 .. n + 1, i < j
                 PROVE  End(i)' <= Start(j)'
      OBVIOUS
    <3>1. i \in 1 .. n
      BY <1>3
    <3>2. CASE j = n + 1
      BY <1>9, <2>1, <3>1, <3>2
    <3>3. CASE j \in 1 .. n
      BY <1>n, <1>9, <3>1, <3>3 DEF CoreInv, ChainInv
    <3> QED BY <1>3, <3>2, <3>3
  <2>4. log' # <<>>
    BY <1>3, <1>6
  <2> QED BY <1>6, <2>2, <2>3, <2>4 DEF ChainInv
<1>11. PrefixInv'
  <2>1. Got' = Got
    BY <1>5 DEF Got
  <2>2. Len(Got) < n + 1
    BY <1>3
  <2>3. read_index = Start(Len(Got) + 1)'
    <3>1. CASE Len(Got) = n
      BY <1>n, <1>3, <1>9, <2>1, <3>1 DEF CoreInv, PrefixInv
    <3>2. CASE Len(Got) < n
      <4>1. Len(Got) + 1 \in 1 .. n
        BY <1>3, <3>2
      <4> QED BY <1>n, <1>9, <2>1, <3>2, <4>1 DEF CoreInv, PrefixInv
    <3> QED BY <1>3, <3>1, <3>2
  <2>4. \A i \in 1 .. Len(Got) : Got[i] = log'[i]
    BY <1>n, <1>3, <1>6 DEF CoreInv, PrefixInv
  <2>5. read_index <= write_index' /\ write_index' - read_index < BufferSize
    BY <1>2, <1>3, <1>4 DEF CoreInv, PrefixInv
  <2> QED BY SMTT(20), <1>3, <1>5, <1>6, <2>1, <2>2, <2>3, <2>4, <2>5 DEF PrefixInv
<1>12. MemoryInv'
  <2> SUFFICES ASSUME NEW i \in UnreadMessages' PROVE InPlace(i)'
    BY DEF MemoryInv
  <2>1. i \in Len(Got) + 1 .. n + 1
    BY <1>5, <1>6 DEF UnreadMessages, Got
  <2>2. CASE i = n + 1
    <3>1. pos[w] = write_index % BufferSize /\ pos[w] + Total(m) <= Mapped
      BY <1>1, <1>m DEF CoreInv, WriterInv
    <3>2. \A k \in 0 .. Total(m) - 1 : data[pos[w] + k] = Cell(m, k)
      BY <1>1, <1>m, <1>2 DEF CoreInv, WriterInv
    <3> QED BY <1>5, <1>6, <1>9, <2>2, <3>1, <3>2 DEF InPlace, Total, Cell
  <2>3. CASE i \in Len(Got) + 1 .. n
    <3>1. InPlace(i)
      BY <1>n, <2>3 DEF CoreInv, MemoryInv, UnreadMessages
    <3>2. i \in 1 .. n
      BY <1>3, <2>3
    <3> QED BY <1>5, <1>6, <1>9, <3>1, <3>2 DEF InPlace, Total, Cell
  <2> QED BY <1>3, <2>1, <2>2, <2>3
<1>13. WriterInv'
  BY <1>1, <1>5 DEF CoreInv, BaseTypeOK, WriterInv
<1>14. ReaderInv'
  <2>1. UNCHANGED <<pc[r], idx[r], msg[r], pos[r], body[r]>>
    BY <1>1, <1>5 DEF CoreInv, BaseTypeOK
  <2> QED BY <1>n, <1>3, <1>5, <1>6, <2>1, ReaderUnchanged
<1>15. TopicInv'
  <2> SUFFICES ASSUME NEW i \in 1 .. Len(log') PROVE log'[i].topic = TopicOf[r]
    BY DEF TopicInv
  <2>1. CASE i = n + 1
    BY <1>2, <1>6, <2>1
  <2>2. CASE i \in 1 .. n
    <3>1. log[i].topic = TopicOf[r]
      BY <1>n, <2>2 DEF CoreInv, TopicInv
    <3> QED BY <1>6, <2>2, <3>1
  <2> QED BY <1>3, <1>6, <2>1, <2>2
<1> QED BY <1>7, <1>8, <1>10, <1>11, <1>12, <1>13, <1>14, <1>15 DEF CoreInv

-----------------------------------------------------------------------------
(* Receive. *)

\* Every step of Receive is the reader's.
LEMMA ReaderSteps ==
  ASSUME CoreInv, NEW t \in Transports,
         pc[t] \in {"load_write", "read_header", "read_data", "store_read",
                    "skip_header", "skip_message"}
  PROVE  t = r /\ pc[r] \notin {"skip_header", "skip_message"}
BY Constants DEF CoreInv, PhaseInv

\* Receive starts from the reader's own index.
LEMMA ReceiveBeginInv ==
  ASSUME CoreInv, NEW t \in Transports, ReceiveBegin(t)
  PROVE  CoreInv'
<1> USE Constants
<1>1. t = r /\ r \in segments /\ pc' = [pc EXCEPT ![r] = "load_write"]
      /\ idx' = [idx EXCEPT ![r] = read_index] /\ pc[r] = "idle"
  BY DEF ReceiveBegin, Goto
<1>2. UNCHANGED <<write_index, read_index, sizes, data, segments, pos, msg, body, stores,
                  history>>
  BY DEF ReceiveBegin, indices
<1>3. BaseTypeOK'
  BY <1>1, <1>2 DEF CoreInv, BaseTypeOK, sizes, history, PcNames, Index
<1>4. PhaseInv'
  BY <1>1, <1>2 DEF CoreInv, PhaseInv, BaseTypeOK, sizes, history
<1>5. ChainInv' /\ PrefixInv' /\ MemoryInv' /\ TopicInv'
  BY <1>2, RingUnchanged DEF indices, history
<1>6. WriterInv' /\ ReaderInv'
  BY <1>1, <1>2 DEF CoreInv, WriterInv, ReaderInv, BaseTypeOK, history, Got, Payload, Total, Cell
<1> QED BY <1>3, <1>4, <1>5, <1>6 DEF CoreInv

\* A Receive that finds the ring empty leaves it as it was.
LEMMA ReceiveEmptyInv ==
  ASSUME CoreInv, NEW t \in Transports, ReceiveEmpty(t)
  PROVE  CoreInv'
<1> USE Constants
<1>1. t = r /\ pc[r] = "load_write" /\ pc' = [pc EXCEPT ![r] = "idle"]
  BY ReaderSteps DEF ReceiveEmpty, Return, Goto
<1>2. UNCHANGED <<write_index, read_index, sizes, data, segments, stores, history>>
      /\ ForgetLocals(r)
  BY <1>1 DEF ReceiveEmpty, Return, indices
<1>3. BaseTypeOK'
  <2>1. /\ pc' \in [Transports -> PcNames] /\ DOMAIN body' = Transports
        /\ idx' \in [Transports -> Index] /\ pos' \in [Transports -> 0 .. BufferSize - 1]
        /\ msg' \in [Transports -> Message \cup Headers \cup {NoMsg}]
        /\ \A u \in Transports : pc'[u] # "store_read"
    BY <1>1, <1>2, ThreadTypes DEF CoreInv, PhaseInv, ForgetLocals, Index, PcNames
  <2> QED BY <1>2, <2>1 DEF CoreInv, BaseTypeOK, sizes, history
<1>4. PhaseInv'
  BY <1>1, <1>2 DEF CoreInv, PhaseInv, BaseTypeOK, sizes, history
<1>5. ChainInv' /\ PrefixInv' /\ MemoryInv' /\ TopicInv'
  BY <1>2, RingUnchanged DEF indices, history
<1>6. WriterInv' /\ ReaderInv'
  BY <1>1, <1>2
     DEF CoreInv, WriterInv, ReaderInv, BaseTypeOK, ForgetLocals, history, Got, Payload, Total, Cell
<1> QED BY <1>3, <1>4, <1>5, <1>6 DEF CoreInv

\* An index other than write_index is where the oldest unread message starts.
LEMMA ReceiveLocateInv ==
  ASSUME CoreInv, NEW t \in Transports, ReceiveLocate(t)
  PROVE  CoreInv'
<1> USE Constants
<1>1. t = r /\ pc[r] = "load_write" /\ pc' = [pc EXCEPT ![r] = "read_header"]
  BY ReaderSteps DEF ReceiveLocate, Goto
<1>2. UNCHANGED <<write_index, read_index, sizes, data, segments, idx, msg, body, stores,
                  history>>
  BY DEF ReceiveLocate, indices
<1>3. idx[r] = read_index /\ read_index # write_index /\ read_index \in Nat
  BY <1>1 DEF CoreInv, ReaderInv, ReceiveLocate, BaseTypeOK, Index
<1>4. Len(Got) < Len(log) /\ log # <<>>
  BY <1>3 DEF CoreInv, PrefixInv, BaseTypeOK, Got
<1>5. buffer_size = BufferSize
  BY <1>4 DEF CoreInv, PhaseInv
<1>6. pos' = [pos EXCEPT ![r] = read_index % BufferSize]
      /\ read_index % BufferSize \in 0 .. BufferSize - 1
  BY <1>1, <1>3, <1>5, DivMod DEF ReceiveLocate
<1>7. BaseTypeOK'
  BY <1>1, <1>2, <1>6 DEF CoreInv, BaseTypeOK, sizes, history, PcNames, Index
<1>8. PhaseInv'
  BY <1>1, <1>2 DEF CoreInv, PhaseInv, BaseTypeOK, sizes, history
<1>9. ChainInv' /\ PrefixInv' /\ MemoryInv' /\ TopicInv'
  BY <1>2, RingUnchanged DEF indices, history
<1>10. WriterInv'
  BY <1>1, <1>2, <1>6 DEF CoreInv, WriterInv, BaseTypeOK, history, Total, Cell
<1>11. ReaderInv'
  BY <1>1, <1>2, <1>3, <1>4, <1>6 DEF CoreInv, ReaderInv, BaseTypeOK, history, Got
<1> QED BY <1>7, <1>8, <1>9, <1>10, <1>11 DEF CoreInv

\* At read_header and after, the message at the reader's position is the oldest unread
\* one, whole and inside the mapping.
LEMMA AtHead ==
  ASSUME CoreInv, pc[r] \in {"read_header", "read_data", "store_read"}
  PROVE  LET m == log[Len(Got) + 1]
         IN  /\ m \in Message /\ m.topic = TopicOf[r]
             /\ idx[r] = m.sequence /\ idx[r] = read_index
             /\ pos[r] + Total(m) <= Mapped
             /\ \A k \in 0 .. Total(m) - 1 : data[pos[r] + k] = Cell(m, k)
<1> DEFINE h == Len(Got) + 1
<1>1. Len(Got) < Len(log) /\ pos[r] = read_index % BufferSize /\ idx[r] = read_index
  BY DEF CoreInv, ReaderInv
<1>2. h \in 1 .. Len(log) /\ log[h] \in Message /\ read_index = Start(h) /\ InPlace(h)
  BY <1>1, HeadMessage
<1>3. log[h].topic = TopicOf[r]
  BY <1>2 DEF CoreInv, TopicInv
<1> QED BY <1>1, <1>2, <1>3 DEF InPlace, Start

\* The header found there is that message's: its magic number and its topic match.
LEMMA ReceiveHeaderInv ==
  ASSUME CoreInv, NothingMet, NEW t \in Transports, ReceiveHeader(t)
  PROVE  CoreInv'
<1> USE Constants
<1>1. t = r /\ pc[r] = "read_header"
  BY ReaderSteps DEF ReceiveHeader
<1>2. PICK m \in Message : m = log[Len(Got) + 1]
  BY <1>1, AtHead
<1>3. /\ m.topic = TopicOf[r] /\ pos[r] + Total(m) <= Mapped
      /\ \A k \in 0 .. Total(m) - 1 : data[pos[r] + k] = Cell(m, k)
  BY <1>1, <1>2, AtHead
<1>p. pos[r] \in Nat
  BY DEF CoreInv, BaseTypeOK
<1>4. Total(m) \in Nat /\ HeaderSize <= Total(m)
  BY MessageFacts
<1>5. data[pos[r]] = Cell(m, 0) /\ \A k \in 0 .. HeaderSize - 1 : data[pos[r] + k] = Cell(m, k)
  <2>1. 0 \in 0 .. Total(m) - 1 /\ pos[r] + 0 = pos[r]
        /\ 0 .. HeaderSize - 1 \subseteq 0 .. Total(m) - 1
    BY <1>p, <1>4
  <2> QED BY <1>3, <2>1
<1>6. HeadersFound(r) = {m} /\ m # NoMsg
  <2>1. data[pos[r]].msg = m
    BY <1>5 DEF Cell
  <2>2. IsHeader(pos[r]) /\ raced[r] = {}
    BY <1>5, <2>1 DEF IsHeader, NothingMet
  <2>3. data[pos[r]] # ZeroCell
    BY <1>5 DEF Cell, ZeroCell
  <2>4. HeadersFound(r) = {m}
    BY <2>1, <2>2, <2>3 DEF HeadersFound
  <2> QED BY <2>4, MessageFacts
<1>7. UNCHANGED <<write_index, read_index, sizes, data, segments, stores, history>>
  BY DEF ReceiveHeader, indices
<1>8. \/ Return(r, "read_header")
      \/ /\ Goto(r, "read_header", "read_data")
         /\ msg' = [msg EXCEPT ![r] = m]
         /\ UNCHANGED <<idx, pos, body>>
  BY <1>1, <1>3, <1>6 DEF ReceiveHeader
<1>9. BaseTypeOK'
  <2>1. /\ pc' \in [Transports -> PcNames] /\ DOMAIN body' = Transports
        /\ idx' \in [Transports -> Index] /\ pos' \in [Transports -> 0 .. BufferSize - 1]
        /\ msg' \in [Transports -> Message \cup Headers \cup {NoMsg}]
    BY SMTT(20), <1>8 DEF CoreInv, BaseTypeOK, Return, Goto, ForgetLocals, Index, PcNames
  <2>2. \A u \in Transports : pc'[u] # "store_read"
    BY <1>1, <1>8 DEF CoreInv, BaseTypeOK, PhaseInv, Return, Goto
  <2> QED BY <1>7, <2>1, <2>2 DEF CoreInv, BaseTypeOK, sizes, history
<1>10. PhaseInv'
  BY <1>1, <1>7, <1>8 DEF CoreInv, PhaseInv, BaseTypeOK, Return, Goto, sizes, history
<1>11. ChainInv' /\ PrefixInv' /\ MemoryInv' /\ TopicInv'
  BY <1>7, RingUnchanged DEF indices, history
<1>12. WriterInv'
  BY SMTT(20), <1>1, <1>7, <1>8
     DEF CoreInv, WriterInv, BaseTypeOK, Return, Goto, ForgetLocals, history, Total, Cell
<1>13. ReaderInv'
  BY <1>1, <1>2, <1>7, <1>8
     DEF CoreInv, ReaderInv, BaseTypeOK, Return, Goto, ForgetLocals, history, Got
<1> QED BY <1>9, <1>10, <1>11, <1>12, <1>13 DEF CoreInv

\* The payload copied out is the one Send copied in.
LEMMA ReceiveDataInv ==
  ASSUME CoreInv, NothingMet, NEW t \in Transports, ReceiveData(t)
  PROVE  CoreInv'
<1> USE Constants
<1>1. t = r /\ pc[r] = "read_data" /\ pc' = [pc EXCEPT ![r] = "store_read"]
      /\ body' = [body EXCEPT ![r] = PayloadAt(pos[r], msg[r])]
  BY ReaderSteps DEF ReceiveData, Goto, NothingMet
<1>2. UNCHANGED <<write_index, read_index, sizes, data, segments, idx, pos, msg, stores,
                  history>>
  BY DEF ReceiveData, indices
<1>3. PICK m \in Message : m = msg[r] /\ m = log[Len(Got) + 1]
  BY <1>1, AtHead DEF CoreInv, ReaderInv
<1>4. \A k \in 0 .. Total(m) - 1 : data[pos[r] + k] = Cell(m, k)
  BY <1>1, <1>3, AtHead
<1>5. PayloadAt(pos[r], m) = Payload(m)
  <2>1. \A k \in HeaderSize .. Total(m) - 1 : data[pos[r] + k] = Cell(m, k)
    BY <1>4, MessageFacts
  <2> QED BY <2>1 DEF PayloadAt, Payload
<1>6. body' = [body EXCEPT ![r] = Payload(m)]
  BY <1>1, <1>3, <1>5
<1>7. BaseTypeOK'
  <2>1. body'[r] = Payload(msg[r]) /\ DOMAIN body' = Transports /\ pc'[w] # "store_read"
    BY <1>1, <1>3, <1>6 DEF CoreInv, BaseTypeOK, PhaseInv
  <2> QED BY <1>1, <1>2, <2>1 DEF CoreInv, BaseTypeOK, sizes, history, PcNames, Index
<1>8. PhaseInv'
  BY <1>1, <1>2 DEF CoreInv, PhaseInv, BaseTypeOK, sizes, history
<1>9. ChainInv' /\ PrefixInv' /\ MemoryInv' /\ TopicInv'
  BY <1>2, RingUnchanged DEF indices, history
<1>10. WriterInv'
  BY <1>1, <1>2 DEF CoreInv, WriterInv, BaseTypeOK, history, Total, Cell
<1>11. ReaderInv'
  <2>1. body'[r] = Payload(msg[r])' /\ pc'[r] = "store_read" /\ Got' = Got
    BY ZenonT(30), <1>1, <1>2, <1>3, <1>6, ThreadTypes DEF history, Got, Payload, Total, Cell
  <2> QED BY <1>1, <1>2, <1>3, <2>1 DEF CoreInv, ReaderInv, history
<1> QED BY <1>7, <1>8, <1>9, <1>10, <1>11 DEF CoreInv

\* Receive never reads past the mapping: the message was written there.
LEMMA ReceiveOverrunInv ==
  ASSUME CoreInv, NEW t \in Transports, ReceiveOverrun(t)
  PROVE  FALSE
<1>1. t = r /\ pc[r] \in {"read_header", "read_data"}
  BY ReaderSteps DEF ReceiveOverrun, Goto
<1>2. PICK m \in Message : m = log[Len(Got) + 1] /\ (pc[r] = "read_data" => m = msg[r])
  BY <1>1, AtHead DEF CoreInv, ReaderInv
<1>3. pos[r] + Total(m) <= Mapped /\ pos[r] \in Nat
  BY <1>1, <1>2, AtHead, Constants DEF CoreInv, BaseTypeOK
<1>4. Total(m) \in Nat /\ HeaderSize <= Total(m)
  BY MessageFacts
<1> QED BY <1>1, <1>2, <1>3, <1>4, Constants DEF ReceiveOverrun, Goto

\* With one topic in the ring Receive has nothing to skip.
LEMMA ReceiveSkipInv ==
  ASSUME CoreInv, NEW t \in Transports, ReceiveSkip(t)
  PROVE  FALSE
BY ReaderSteps DEF ReceiveSkip, Return, Goto

\* The effect of a completed Receive: the oldest unread message is handed out, whole, and
\* read_index moves to where it ends.
LEMMA ReceiveCommitEffect ==
  ASSUME CoreInv, NEW t \in Transports, ReceiveCommit(t)
  PROVE  LET m == log[Len(Got) + 1]
         IN  /\ t = r /\ pc[r] = "store_read" /\ m \in Message /\ Len(Got) < Len(log)
             /\ received' = [received EXCEPT ![r] = Append(Got, m)]
             /\ read_index' = read_index + Total(m)
             /\ read_index' <= write_index
<1> USE Constants
<1>1. t = r /\ pc[r] = "store_read" /\ Len(Got) < Len(log)
  BY ReaderSteps DEF ReceiveCommit, Return, Goto, CoreInv, ReaderInv
<1>2. PICK m \in Message : m = log[Len(Got) + 1] /\ m = msg[r]
  BY <1>1, AtHead DEF CoreInv, ReaderInv
<1>3. idx[r] = read_index /\ m.sequence = read_index
  BY <1>1, <1>2, AtHead
<1>4. received' = [received EXCEPT ![r] = Append(Got, m)]
  <2>1. HandedOut(r) = m
    BY <1>1, <1>2 DEF HandedOut, CoreInv, ReaderInv
  <2> QED BY <1>1, <2>1 DEF ReceiveCommit, Got
<1>5. Len(Got) + 1 \in 1 .. Len(log)
  BY <1>1, HeadMessage
<1>6. read_index + Total(m) <= write_index
  BY <1>2, <1>3, <1>5 DEF CoreInv, ChainInv, End
<1>7. write_index \in 0 .. IndexMod - 1 /\ read_index \in Nat /\ Total(m) \in Nat
  BY MessageFacts DEF CoreInv, BaseTypeOK, Index
<1>8. (read_index + Total(m)) % IndexMod = read_index + Total(m)
  BY <1>6, <1>7, SmallMod
<1>9. read_index' = read_index + Total(m)
  BY <1>1, <1>2, <1>3, <1>8 DEF ReceiveCommit, Advance
<1> QED BY <1>1, <1>2, <1>4, <1>6, <1>9

\* Storing read_index gives back exactly the cells of the message handed out.
LEMMA ReceiveCommitInv ==
  ASSUME CoreInv, NEW t \in Transports, ReceiveCommit(t)
  PROVE  CoreInv'
<1> USE Constants
<1>1. PICK m \in Message : m = log[Len(Got) + 1]
  BY ReceiveCommitEffect
<1>2. /\ t = r /\ pc[r] = "store_read" /\ Len(Got) < Len(log)
      /\ received' = [received EXCEPT ![r] = Append(Got, m)]
      /\ read_index' = read_index + Total(m)
      /\ read_index' <= write_index
  BY <1>1, ReceiveCommitEffect
<1>3. /\ pc' = [pc EXCEPT ![r] = "idle"] /\ ForgetLocals(r)
      /\ UNCHANGED <<write_index, sizes, data, segments, stores, log, traffic>>
  BY <1>2 DEF ReceiveCommit, Return, Goto
<1>4. Got \in Seq(Message \cup {Torn}) /\ Len(Got) \in Nat /\ Len(log) \in Nat
      /\ write_index \in Nat /\ read_index \in Nat /\ Total(m) \in Nat
      /\ write_index < IndexMod
  BY MessageFacts DEF CoreInv, BaseTypeOK, Index, Got
<1>5. PICK d \in Nat : d = Len(Got)
  BY <1>4
<1>6. Got' = Append(Got, m) /\ Len(Got') = d + 1 /\ Got'[d + 1] = m
      /\ \A i \in 1 .. d : Got'[i] = Got[i]
  BY <1>2, <1>4, <1>5 DEF CoreInv, BaseTypeOK, Got
<1>7. BaseTypeOK'
  <2>1. read_index' \in Index /\ write_index' \in Index
    BY <1>2, <1>3, <1>4 DEF Index
  <2>2. received' \in [Transports -> Seq(Message \cup {Torn})]
    BY <1>2, <1>4, HistoryTypes
  <2>3. /\ pc' \in [Transports -> PcNames] /\ DOMAIN body' = Transports
        /\ idx' \in [Transports -> Index] /\ pos' \in [Transports -> 0 .. BufferSize - 1]
        /\ msg' \in [Transports -> Message \cup Headers \cup {NoMsg}]
        /\ \A u \in Transports : pc'[u] # "store_read"
    BY <1>3, ThreadTypes DEF CoreInv, PhaseInv, ForgetLocals, Index, PcNames
  <2> QED BY <1>3, <2>1, <2>2, <2>3 DEF CoreInv, BaseTypeOK, sizes
<1>8. PhaseInv'
  BY <1>2, <1>3, <1>4 DEF CoreInv, PhaseInv, BaseTypeOK, sizes
<1>9. ChainInv' /\ TopicInv'
  BY <1>3 DEF CoreInv, ChainInv, TopicInv, Start, End, Total
<1>10. PrefixInv'
  <2>1. d + 1 \in 1 .. Len(log) /\ End(d + 1) = read_index'
    <3>1. d + 1 \in 1 .. Len(log) /\ read_index = Start(d + 1)
      BY <1>2, <1>5, HeadMessage
    <3> QED BY <1>1, <1>2, <1>5, <3>1 DEF End, Start
  <2>2. d + 1 < Len(log) => read_index' = Start(d + 2)'
    BY <1>3, <1>4, <2>1 DEF CoreInv, ChainInv, Start
  <2>3. d + 1 = Len(log) => read_index' = write_index
    BY <2>1 DEF CoreInv, ChainInv
  <2>4. \A i \in 1 .. d + 1 : Got'[i] = log[i]
    BY <1>1, <1>5, <1>6 DEF CoreInv, PrefixInv
  <2>5. write_index - read_index' < BufferSize
    BY <1>2, <1>4 DEF CoreInv, PrefixInv
  <2> QED BY <1>2, <1>3, <1>4, <1>6, <2>1, <2>2, <2>3, <2>4, <2>5 DEF PrefixInv
<1>11. MemoryInv'
  <2>1. UnreadMessages' \subseteq UnreadMessages
    BY <1>3, <1>4, <1>5, <1>6 DEF UnreadMessages
  <2> QED BY <1>3, <2>1 DEF CoreInv, MemoryInv, InPlace, Start, Total, Cell
<1>12. WriterInv'
  <2>1. UNCHANGED <<pc[w], idx[w], msg[w], pos[w]>>
    BY <1>3 DEF CoreInv, BaseTypeOK, ForgetLocals
  <2> QED BY <1>2, <1>3, <1>4, <2>1, WriterUnchanged
<1>13. ReaderInv'
  BY <1>3 DEF CoreInv, ReaderInv, BaseTypeOK
<1> QED BY <1>7, <1>8, <1>9, <1>10, <1>11, <1>12, <1>13 DEF CoreInv

\* A reader killed between two steps leaves the ring as another reader can take it up.
LEMMA CrashInv ==
  ASSUME CoreInv, NEW t \in Transports, Crash(t)
  PROVE  CoreInv'
<1> USE Constants
<1>1. t = r /\ pc' = [pc EXCEPT ![r] = "idle"] /\ ForgetLocals(r)
      /\ stores' = [stores EXCEPT ![r] = {}]
      /\ segments' = segments \ {r}
      /\ UNCHANGED <<write_index, read_index, sizes, data, log, received, traffic>>
  <2>1. t = r
    BY DEF Crash
  <2>2. Writing(r) = {}
    BY DEF Writing, CoreInv, PhaseInv
  <2>3. data' = data
    BY <2>1, <2>2 DEF Crash, CutShort, CoreInv, BaseTypeOK
  <2> QED BY <2>1, <2>3 DEF Crash, indices, history
<1>2. BaseTypeOK'
  <2>1. /\ pc' \in [Transports -> PcNames] /\ DOMAIN body' = Transports
        /\ idx' \in [Transports -> Index] /\ pos' \in [Transports -> 0 .. BufferSize - 1]
        /\ msg' \in [Transports -> Message \cup Headers \cup {NoMsg}]
        /\ \A u \in Transports : pc'[u] # "store_read"
    BY <1>1, ThreadTypes DEF CoreInv, PhaseInv, ForgetLocals, Index, PcNames
  <2> QED BY <1>1, <2>1 DEF CoreInv, BaseTypeOK, sizes
<1>3. PhaseInv'
  BY <1>1 DEF CoreInv, PhaseInv, BaseTypeOK, sizes
<1>4. ChainInv' /\ PrefixInv' /\ MemoryInv' /\ TopicInv'
  BY <1>1, RingUnchanged DEF indices
<1>5. WriterInv' /\ ReaderInv'
  BY <1>1 DEF CoreInv, WriterInv, ReaderInv, BaseTypeOK, ForgetLocals, Total, Cell
<1> QED BY <1>2, <1>3, <1>4, <1>5 DEF CoreInv

-----------------------------------------------------------------------------
\* What the writer copies in and what the reader copies out are apart.
LEMMA CopiesApart == CoreInv => RaceFree
<1> SUFFICES ASSUME CoreInv, NEW t \in Transports, NEW u \in Transports, t # u,
                    NEW c \in Writing(t), c \in Writing(u) \cup Reading(u)
             PROVE  FALSE
  BY DEF RaceFree
<1> USE Constants
<1>1. t = w /\ u = r
  BY DEF CoreInv, PhaseInv, Writing
<1>2. c \in Reading(r) /\ c \in Writing(w)
  BY <1>1 DEF CoreInv, PhaseInv, Writing
<1>3. pc[w] \in {"copy_header", "copy_data"} /\ pc[r] \in {"read_header", "read_data"}
  BY <1>2 DEF Writing, Reading
<1>4. msg[w] \in Message /\ pos[w] \in Nat /\ pos[r] \in Nat
  BY <1>3 DEF CoreInv, WriterInv, BaseTypeOK
<1>5. PICK m \in Message : m = log[Len(Got) + 1] /\ (pc[r] = "read_data" => m = msg[r])
  BY <1>3, AtHead DEF CoreInv, ReaderInv
<1>6. Total(m) \in Nat /\ HeaderSize <= Total(m)
      /\ Total(msg[w]) \in Nat /\ HeaderSize <= Total(msg[w])
  BY <1>4, MessageFacts
<1>7. PICK j \in 0 .. Total(msg[w]) - 1 : c = pos[w] + j
  <2>1. c - pos[w] \in 0 .. Total(msg[w]) - 1 /\ c = pos[w] + (c - pos[w])
    BY <1>2, <1>3, <1>4, <1>6 DEF Writing
  <2> QED BY <2>1
<1>8. PICK k \in 0 .. Total(m) - 1 : c = pos[r] + k
  <2>1. CASE pc[r] = "read_header"
    <3>1. c \in pos[r] .. pos[r] + HeaderSize - 1
      BY <1>2, <2>1 DEF Reading
    <3>2. c - pos[r] \in 0 .. Total(m) - 1 /\ c = pos[r] + (c - pos[r])
      BY <3>1, <1>4, <1>6
    <3> QED BY <3>2
  <2>2. CASE pc[r] = "read_data"
    <3>1. c \in pos[r] + HeaderSize .. pos[r] + Total(m) - 1
      BY <1>2, <1>5, <2>2 DEF Reading
    <3>2. c - pos[r] \in 0 .. Total(m) - 1 /\ c = pos[r] + (c - pos[r])
      BY <3>1, <1>4, <1>6
    <3> QED BY <3>2
  <2> QED BY <1>3, <2>1, <2>2
<1>9. Len(Got) < Len(log) /\ pos[r] = read_index % BufferSize
  BY <1>3 DEF CoreInv, ReaderInv
<1>10. Len(Got) + 1 \in UnreadMessages /\ pos[r] = Start(Len(Got) + 1) % BufferSize
  BY <1>9, HeadMessage
<1> QED BY <1>3, <1>5, <1>7, <1>8, <1>10, ReservedApart

\* Every step preserves what the two threads know of the ring.
LEMMA NextCoreInv == ASSUME CoreInv, NothingMet, [Next]_vars PROVE CoreInv'
<1>1. ASSUME NEW t \in Transports, Advertise(t) PROVE CoreInv'
  BY <1>1, AdvertiseOpenInv, AdvertiseStoreInv, AdvertiseReturnInv
     DEF Advertise
<1>2. ASSUME NEW t \in Transports, Send(t) PROVE CoreInv'
  BY <1>2, SendBeginInv, SendDivideByZeroInv, SendNoSpaceInv, SendReserveInv,
     SendCopyHeaderInv, SendCopyDataInv, SendOverrunInv, SendCommitInv DEF Send
<1>3. ASSUME NEW t \in Transports, Receive(t) PROVE CoreInv'
  BY <1>3, ReceiveBeginInv, ReceiveEmptyInv, ReceiveLocateInv, ReceiveHeaderInv,
     ReceiveDataInv, ReceiveOverrunInv, ReceiveCommitInv, ReceiveSkipInv DEF Receive
<1>4. CASE UNCHANGED vars
  <2>1. UNCHANGED <<indices, sizes, data, segments, pc, locals, stores, history>>
    BY <1>4 DEF vars
  <2>2. BaseTypeOK' /\ PhaseInv'
    BY <2>1 DEF CoreInv, BaseTypeOK, PhaseInv, indices, sizes, locals, history
  <2>3. ChainInv' /\ PrefixInv' /\ MemoryInv' /\ TopicInv'
    BY <2>1, RingUnchanged DEF history
  <2>4. WriterInv' /\ ReaderInv'
    BY <2>1 DEF CoreInv, WriterInv, ReaderInv, indices, locals, history, Got, Payload, Total, Cell
  <2> QED BY <2>2, <2>3, <2>4 DEF CoreInv
<1> QED BY <1>1, <1>2, <1>3, <1>4, SubscribeInv, CrashInv DEF Next

\* Copies that are apart do not meet: what they leave and find stays known.
LEMMA NextNothingMet == ASSUME NothingMet, RaceFree', [Next]_vars PROVE NothingMet'
<1>1. CASE UNCHANGED raced
  BY <1>1 DEF NothingMet
<1>2. CASE NoteMeetings
  <2>1. \A t \in Transports : Meeting(t)' = {}
    BY DEF Meeting, RaceFree
  <2> QED BY <1>2, <2>1 DEF NoteMeetings, NothingMet
<1> QED BY <1>1, <1>2
        DEF Next, vars, Advertise, AdvertiseOpen, AdvertiseStore, AdvertiseReturn, Subscribe,
            Send, Receive, Crash

\* Every step preserves the invariant.
LEMMA NextInv == IInv /\ [Next]_vars => IInv'
<1>1. CoreInv /\ NothingMet /\ [Next]_vars => CoreInv'
  BY NextCoreInv
<1>2. CoreInv' => RaceFree'
  BY CopiesApart, PTL
<1>3. NothingMet /\ RaceFree' /\ [Next]_vars => NothingMet'
  BY NextNothingMet
<1> QED BY <1>1, <1>2, <1>3 DEF IInv

\* IInv holds in every reachable state: what the writer and the reader each know of the
\* ring at every step of Send and Receive, whatever the sizes and the interleaving.
THEOREM SpscInvariant == Spec => []IInv
<1>1. Init => IInv
  BY InitInv
<1>2. IInv /\ [Next]_vars => IInv'
  BY NextInv
<1> QED BY <1>1, <1>2, PTL DEF Spec

-----------------------------------------------------------------------------
(* What follows from the invariant. *)

\* Receive hands out exactly what Send accepted, in order, whole and once: the reader may
\* be killed between any two of its steps.
THEOREM InOrder == Spec => []DeliveredInOrder
<1>1. CoreInv => DeliveredInOrder
  BY Constants DEF CoreInv, PrefixInv, DeliveredInOrder, Got
<1> QED BY <1>1, SpscInvariant, PTL DEF IInv

\* The space check of WriteToRingBuffer keeps every unread message whole.
THEOREM Intact == Spec => []UnreadIntact
<1>1. CoreInv => UnreadIntact
  <2> SUFFICES ASSUME CoreInv, NEW i \in 1 .. Len(log), Unread(log[i])
               PROVE  \A k \in 0 .. Total(log[i]) - 1 :
                        data[(log[i].sequence % BufferSize) + k] = Cell(log[i], k)
    BY DEF UnreadIntact
  <2>1. Len(Got) \in Nat /\ Len(log) \in Nat
    BY Constants DEF CoreInv, BaseTypeOK, Got
  <2>2. i \notin 1 .. Len(Got)
    BY Constants DEF CoreInv, PrefixInv, Unread, Got
  <2>3. i \in UnreadMessages
    BY <2>1, <2>2 DEF UnreadMessages
  <2> QED BY <2>3 DEF CoreInv, MemoryInv, InPlace, Start
<1> QED BY <1>1, SpscInvariant, PTL DEF IInv

\* The two indices order every pair of conflicting copies: no copy of the writer's is in
\* progress where one of the reader's is, so that there is no data race.
THEOREM NoDataRace == Spec => []RaceFree
BY SpscInvariant, CopiesApart, PTL DEF IInv

\* However little is mapped past the ring, Receive never faults: no copy out of the ring runs
\* past the mapping and no position is computed with a buffer_size of zero, since what it finds
\* has been copied in there before write_index was stored.
THEOREM ReceiveNeverFaults == Spec => [](pc[r] # "fault")
<1>1. CoreInv => pc[r] # "fault"
  BY DEF CoreInv, PhaseInv
<1> QED BY <1>1, SpscInvariant, PTL DEF IInv

\* Send does not fault either while no message it accepts is longer than what is mapped past
\* the last cell of the ring, that cell included: with the default ring of 2^20 bytes, whose
\* data ends 4080 bytes before a page does, payloads of up to 3929 bytes.  The check for space
\* alone does not see to that for longer ones: it counts cells, not where the message starts.
THEOREM NoOverrun ==
  ASSUME \A s \in Sizes : HeaderSize + s <= MaxMessageSize => HeaderSize + s <= Slack + 1
  PROVE  Spec => []NoFault
<1>1. Init => NoFault
  BY DEF Init, NoFault
<1>2. CoreInv /\ NoFault /\ [Next]_vars => NoFault'
  <2> SUFFICES ASSUME CoreInv, NoFault, [Next]_vars PROVE NoFault'
    OBVIOUS
  <2> USE Constants
  <2>1. ASSUME NEW t \in Transports, SendOverrun(t) PROVE FALSE
    <3>1. t = w /\ pc[w] \in {"copy_header", "copy_data"}
      BY <2>1 DEF CoreInv, PhaseInv, SendOverrun, Goto
    <3>2. msg[w] \in Message /\ Total(msg[w]) <= MaxMessageSize
      BY <3>1 DEF CoreInv, WriterInv
    <3>3. pos[w] \in 0 .. BufferSize - 1
      BY DEF CoreInv, BaseTypeOK
    <3>4. Total(msg[w]) \in Nat /\ HeaderSize <= Total(msg[w])
      BY <3>2, MessageFacts
    <3>5. Total(msg[w]) <= Slack + 1
      BY <3>2 DEF Message, Total
    <3> QED BY <2>1, <3>1, <3>3, <3>4, <3>5 DEF SendOverrun, Goto
  <2>2. CASE UNCHANGED vars
    BY <2>2 DEF vars, NoFault
  <2>3. ASSUME NEW t \in Transports,
               Advertise(t) \/ Subscribe(t) \/ Send(t) \/ Receive(t) \/ Crash(t)
        PROVE  NoFault'
    <3>1. PICK to \in PcNames \ {"fault"} : pc' = [pc EXCEPT ![t] = to] \/ pc' = pc
      BY <2>1, <2>3, SendDivideByZeroInv, ReceiveOverrunInv
         DEF Advertise, Subscribe, Send, Receive, Crash, AdvertiseOpen, AdvertiseStore,
             AdvertiseReturn, SendBegin, SendNoSpace, SendReserve,
             SendCopyHeader, SendCopyData, SendCommit, ReceiveBegin, ReceiveEmpty,
             ReceiveLocate, ReceiveHeader, ReceiveData, ReceiveCommit, ReceiveSkip,
             Return, Goto, PcNames
    <3> QED BY <3>1 DEF NoFault, CoreInv, BaseTypeOK
  <2> QED BY <2>2, <2>3 DEF Next
<1> QED BY <1>1, <1>2, SpscInvariant, PTL DEF Spec, IInv
-----------------------------------------------------------------------------
(* The ring implements the channel. *)

\* The effect of a completed Send: the message is accepted and write_index moves to where
\* it ends, still less than a ring ahead of read_index.
LEMMA SendCommitEffect ==
  ASSUME CoreInv, NEW t \in Transports, SendCommit(t)
  PROVE  /\ t = w /\ msg[w] \in Message
         /\ log' = Append(log, msg[w])
         /\ write_index <= write_index' /\ write_index' - read_index < BufferSize
         /\ UNCHANGED <<read_index, received>>
<1> USE Constants
<1>1. t = w /\ pc[w] = "store_write"
  BY DEF CoreInv, PhaseInv, SendCommit, Return, Goto
<1>2. PICK m \in Message : m = msg[w]
  BY <1>1 DEF CoreInv, WriterInv
<1>3. /\ idx[w] = write_index /\ traffic + Total(m) <= TrafficBound /\ write_index = traffic
      /\ write_index - read_index + Total(m) < BufferSize
      /\ write_index \in Nat /\ read_index \in Nat /\ Total(m) \in Nat
  <2>1. idx[w] = write_index /\ traffic + Total(m) <= TrafficBound
        /\ write_index - read_index + Total(m) < BufferSize
    BY <1>1, <1>2 DEF CoreInv, WriterInv
  <2>2. write_index = traffic
    BY DEF CoreInv, PhaseInv
  <2>3. write_index \in Nat /\ read_index \in Nat
    BY DEF CoreInv, BaseTypeOK, Index
  <2> QED BY <1>2, <2>1, <2>2, <2>3, MessageFacts
<1>4. (write_index + Total(m)) % IndexMod = write_index + Total(m)
  <2>1. write_index + Total(m) \in Nat /\ write_index + Total(m) < IndexMod
    BY <1>3
  <2> QED BY <2>1, SmallMod
<1>5. write_index' = write_index + Total(m)
  BY <1>1, <1>2, <1>3, <1>4 DEF SendCommit, Advance
<1>6. log' = Append(log, msg[w]) /\ UNCHANGED <<read_index, received>>
  BY <1>1 DEF SendCommit
<1>7. write_index <= write_index' /\ write_index' - read_index < BufferSize
  BY <1>3, <1>5
<1> QED BY <1>1, <1>2, <1>6, <1>7

\* Between commits nothing a caller can observe changes: an Advertise that initialises
\* the indices finds them zero.
LEMMA QuietSteps ==
  ASSUME CoreInv, [Next]_vars,
         ~ \E t \in Transports : SendCommit(t) \/ ReceiveCommit(t)
  PROVE  UNCHANGED <<write_index, read_index, log, received>>
<1>1. ASSUME NEW t \in Transports, Advertise(t)
      PROVE  UNCHANGED <<write_index, read_index, log, received>>
  <2>1. CASE AdvertiseStore(t)
    <3>1. t = w /\ w \notin segments
      BY <2>1, Constants DEF AdvertiseStore, CoreInv, PhaseInv
    <3>2. write_index = 0 /\ read_index = 0
      BY <3>1 DEF CoreInv, PhaseInv
    <3> QED BY <2>1, <3>2 DEF AdvertiseStore, history
  <2> QED BY <1>1, <2>1 DEF Advertise, AdvertiseOpen, AdvertiseReturn,
                           indices, history
<1>2. ASSUME NEW t \in Transports, Send(t)
      PROVE  UNCHANGED <<write_index, read_index, log, received>>
  BY <1>2 DEF Send, SendBegin, SendDivideByZero, SendNoSpace, SendReserve, SendCopyHeader,
              SendCopyData, SendOverrun, indices, history
<1>3. ASSUME NEW t \in Transports, Receive(t)
      PROVE  UNCHANGED <<write_index, read_index, log, received>>
  BY <1>3, ReceiveSkipInv
     DEF Receive, ReceiveBegin, ReceiveEmpty, ReceiveLocate, ReceiveHeader, ReceiveData,
         ReceiveOverrun, indices, history
<1>4. ASSUME NEW t \in Transports, Subscribe(t) \/ Crash(t)
      PROVE  UNCHANGED <<write_index, read_index, log, received>>
  BY <1>4 DEF Subscribe, Crash, indices, history
<1>5. CASE UNCHANGED vars
  BY <1>5 DEF vars, indices, history
<1> QED BY <1>1, <1>2, <1>3, <1>4, <1>5 DEF Next

\* Every step of the ring is a step of TopicChannel or leaves it alone: SendCommit accepts,
\* ReceiveCommit delivers.  A caller of Send and Receive cannot tell the ring from a queue.
THEOREM RefinesChannel == Spec => ImplementsChannel
<1>1. Init => Channel!Init
  BY Constants DEF Init, Channel!Init, Got
<1>2. CoreInv /\ [Next]_vars => [Channel!Next]_(Channel!chan)
  <2> SUFFICES ASSUME CoreInv, [Next]_vars PROVE [Channel!Next]_(Channel!chan)
    OBVIOUS
  <2>1. ASSUME NEW t \in Transports, SendCommit(t) PROVE Channel!Next
    <3>1. \E m \in Message : Channel!Accept(m)
      BY <2>1, SendCommitEffect DEF Channel!Accept, Got
    <3> QED BY <3>1 DEF Channel!Next
  <2>2. ASSUME NEW t \in Transports, ReceiveCommit(t) PROVE Channel!Next
    <3>1. Len(Got) < Len(log) /\ UNCHANGED log
          /\ received' = [received EXCEPT ![r] = Append(Got, log[Len(Got) + 1])]
      BY <2>2, ReceiveCommitEffect DEF ReceiveCommit
    <3>2. Got' = Append(Got, log[Len(Got) + 1])
      BY <3>1, Constants DEF CoreInv, BaseTypeOK, Got
    <3>3. Channel!Deliver
      BY <3>1, <3>2 DEF Channel!Deliver
    <3> QED BY <3>3 DEF Channel!Next
  <2>3. CASE ~ \E t \in Transports : SendCommit(t) \/ ReceiveCommit(t)
    BY <2>3, QuietSteps DEF Channel!chan, Got
  <2> QED BY <2>1, <2>2, <2>3
<1> QED BY <1>1, <1>2, SpscInvariant, PTL DEF Spec, IInv, ImplementsChannel, Channel!Spec

\* Send moves write_index and Receive moves read_index, each forward only, never both, and
\* never so that they pass each other or come a whole ring apart, where a full ring would
\* look empty.
THEOREM IndicesOnlyAdvance == Spec => IndicesAdvance
<1> DEFINE Step ==
      /\ write_index <= write_index' /\ read_index <= read_index'
      /\ write_index = write_index' \/ read_index = read_index'
      /\ read_index' <= write_index'
      /\ write_index' - read_index' < BufferSize
<1>1. CoreInv /\ NothingMet /\ [Next]_vars => [Step]_vars
  <2> SUFFICES ASSUME CoreInv, NothingMet, [Next]_vars PROVE Step
    OBVIOUS
  <2>1. /\ write_index \in Nat /\ read_index \in Nat /\ read_index <= write_index
        /\ write_index - read_index < BufferSize /\ BufferSize \in Nat
    BY Constants DEF CoreInv, BaseTypeOK, Index, PrefixInv
  <2>2. ASSUME NEW t \in Transports, SendCommit(t) PROVE Step
    <3>1. write_index' \in Int
      <4>1. CoreInv'
        BY NextCoreInv
      <4> QED BY <4>1, Constants DEF CoreInv, BaseTypeOK, Index
    <3>2. /\ write_index <= write_index' /\ write_index' - read_index < BufferSize
          /\ read_index' = read_index
      BY <2>2, SendCommitEffect
    <3>3. read_index <= read_index' /\ read_index' <= write_index'
      BY <2>1, <3>1, <3>2
    <3>4. write_index' - read_index' < BufferSize
      BY <3>2
    <3> QED BY <3>2, <3>3, <3>4
  <2>3. ASSUME NEW t \in Transports, ReceiveCommit(t) PROVE Step
    <3>1. PICK m \in Message : m = log[Len(Got) + 1]
      BY <2>3, ReceiveCommitEffect
    <3>2. read_index' = read_index + Total(m) /\ read_index' <= write_index
          /\ UNCHANGED write_index
      BY <2>3, <3>1, ReceiveCommitEffect DEF ReceiveCommit
    <3> QED BY <2>1, <3>1, <3>2, MessageFacts
  <2>4. CASE ~ \E t \in Transports : SendCommit(t) \/ ReceiveCommit(t)
    BY <2>1, <2>4, QuietSteps
  <2> HIDE DEF Step
  <2> QED BY <2>2, <2>3, <2>4
<1>2. [][Step]_vars => IndicesAdvance
  BY PTL DEF IndicesAdvance
<1> HIDE DEF Step
<1> QED BY <1>1, <1>2, SpscInvariant, PTL DEF Spec, IInv

\* What the indices are apart is what lies unread.
LEMMA UnreadIsBetween ==
  ASSUME CoreInv
  PROVE  /\ write_index \in Nat /\ read_index \in Nat /\ read_index <= write_index
         /\ write_index - read_index < BufferSize
         /\ UnreadCells = write_index - read_index
         /\ write_index = read_index => Len(Got) = Len(log)
<1>1. /\ write_index \in Nat /\ read_index \in Nat /\ read_index <= write_index
      /\ write_index - read_index < BufferSize /\ Len(Got) <= Len(log)
      /\ Len(Got) \in Nat /\ Len(log) \in Nat
  BY HistoryTypes, Constants DEF CoreInv, BaseTypeOK, Index, PrefixInv
<1>2. CASE Len(Got) = Len(log)
  BY <1>1, <1>2 DEF UnreadCells, CoreInv, PrefixInv
<1>3. CASE Len(Got) < Len(log)
  <2>1. Len(log) \in 1 .. Len(log) /\ Len(Got) + 1 \in 1 .. Len(log)
    BY <1>1, <1>3
  <2>2. End(Len(log)) = write_index /\ read_index = Start(Len(Got) + 1)
    BY <1>3, <2>1 DEF CoreInv, ChainInv, PrefixInv
  <2>3. End(Len(Got) + 1) <= write_index
    BY <2>1 DEF CoreInv, ChainInv
  <2>4. PICK m \in Message : m = log[Len(Got) + 1]
    BY <2>1, HistoryTypes
  <2>5. read_index < write_index
    <3>1. Start(Len(Got) + 1) = m.sequence /\ End(Len(Got) + 1) = m.sequence + Total(m)
      BY <2>4 DEF Start, End
    <3>2. m.sequence \in Nat /\ Total(m) \in Nat /\ Total(m) > 0
      BY MessageFacts
    <3> QED BY <1>1, <2>2, <2>3, <3>1, <3>2
  <2> QED BY <1>1, <1>3, <2>2, <2>5 DEF UnreadCells
<1> QED BY <1>1, <1>2, <1>3

\* Receive finds nothing only when every accepted message was handed out, and Send finds no
\* space only when the message would fill the ring.
THEOREM RefusalsAreExact == Spec => RefusalsExact
<1> DEFINE Step == /\ ReceiveEmpty(r) => Got = log
                   /\ SendNoSpace(w) => UnreadCells + Total(msg[w]) >= BufferSize
<1>1. CoreInv => Step
  <2> SUFFICES ASSUME CoreInv PROVE Step
    OBVIOUS
  <2>1. ASSUME ReceiveEmpty(r) PROVE Got = log
    <3>1. read_index = write_index
      BY <2>1 DEF ReceiveEmpty, Return, Goto, CoreInv, ReaderInv
    <3>2. Len(Got) = Len(log)
      BY <3>1, UnreadIsBetween
    <3>3. Got \in Seq(Message \cup {Torn}) /\ log \in Seq(Message)
      BY HistoryTypes, Constants DEF Got
    <3>4. \A i \in 1 .. Len(Got) : Got[i] = log[i]
      BY DEF CoreInv, PrefixInv
    <3> QED BY <3>2, <3>3, <3>4
  <2>2. ASSUME SendNoSpace(w) PROVE UnreadCells + Total(msg[w]) >= BufferSize
    <3>1. /\ pc[w] = "load_read" /\ buffer_size # 0
          /\ AvailableSpace(idx[w], read_index) <= Total(msg[w])
      BY <2>2 DEF SendNoSpace, Return, Goto
    <3>2. buffer_size = BufferSize /\ idx[w] = write_index /\ msg[w] \in Message
      BY <3>1, Constants DEF CoreInv, BaseTypeOK, sizes, SizePair, WriterInv
    <3>3. AvailableSpace(write_index, read_index) = BufferSize - (write_index - read_index)
      <4> USE Constants
      <4>1. /\ write_index \in Nat /\ read_index \in Nat /\ read_index <= write_index
            /\ write_index - read_index < BufferSize
        BY UnreadIsBetween
      <4>2. /\ BufferSize - (write_index - read_index) \in Nat
            /\ BufferSize - (write_index - read_index) < IndexMod
        BY <4>1
      <4> QED BY <3>2, <4>1, <4>2, SmallMod DEF AvailableSpace
    <3>4. Total(msg[w]) \in Nat /\ BufferSize \in Nat
      BY <3>2, MessageFacts, Constants
    <3> QED BY <3>1, <3>2, <3>3, <3>4, UnreadIsBetween
  <2> QED BY <2>1, <2>2
<1>2. [][Step]_vars => RefusalsExact
  BY PTL DEF RefusalsExact
<1> HIDE DEF Step
<1> QED BY <1>1, <1>2, SpscInvariant, PTL DEF Spec, IInv

\* The indices stay below 2^32, positions inside the ring and memory full of cells.
THEOREM TypeCorrect == Spec => []TypeOK
<1>1. IInv => TypeOK
  BY DEF IInv, CoreInv, TypeOK, NothingMet
<1> QED BY <1>1, SpscInvariant, PTL
=============================================================================
