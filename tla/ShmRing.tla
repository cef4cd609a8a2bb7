------------------------------ MODULE ShmRing ------------------------------
(***************************************************************************)
(* The ring buffer of one shared memory segment, as                        *)
(* src/transport/shared_memory_transport.cc operates it.                   *)
(*                                                                         *)
(* Several SharedMemoryTransport objects, in one process or in many, have  *)
(* the same segment mapped.  A transport's own mutex_ lets it run one      *)
(* Advertise, Subscribe, Send or Receive at a time, but nothing orders the *)
(* accesses of different transports except the two atomic indices.  Each   *)
(* action below is therefore one access to the shared segment (or one copy *)
(* into or out of it), and the actions of different transports interleave. *)
(* A memcpy is not atomic: it lasts as long as pc says, takes effect when  *)
(* that step is left, and where it meets another's memcpy in time and      *)
(* place (raced), or is cut short, what it leaves or finds is unknown.     *)
(*                                                                         *)
(* Sizes and offsets are counted in cells.  With a cell of one byte the    *)
(* code's values are HeaderSize = 152, BufferSize = 2^20, MaxMessageSize = *)
(* 2^16 and IndexMod = 2^32.                                               *)
(***************************************************************************)
EXTENDS Integers, Sequences

CONSTANTS
  Transports,      \* the transports that may map the segment
  Writers,         \* those whose application advertises the topic and sends
  Readers,         \* those whose application subscribes and receives
  Crashable,       \* those whose process may be killed and started again
  TopicOf,         \* the topic name each transport's application uses
  HeaderTopic,     \* what a topic name becomes in the 64 bytes of a header
  BufferSize,      \* buffer_size_ of every transport
  HeaderSize,      \* sizeof(MessageHeader)
  MaxMessageSize,  \* max_message_size_ of every transport
  Slack,           \* cells mapped past the ring's data: struct padding, page rounding
  IndexMod,        \* the indices are uint32_t: arithmetic modulo IndexMod
  Sizes,           \* the payload sizes the applications send
  Capacities,      \* the buffer_size arguments the applications receive with
  TrafficBound,    \* bound: no Send begins that would take the cells accepted past it
  ReceiveBound,    \* bound: no Receive begins after this many handed out messages
  AnySize,         \* what header.size may hold in a header that is not one message's
  NoMsg,           \* the content of memory no message was written to
  Torn             \* what a receiver got that need not be a message as it was sent

ASSUME RingAssumption ==
  /\ Writers \subseteq Transports
  /\ Readers \subseteq Transports
  /\ Crashable \subseteq Transports
  /\ DOMAIN HeaderTopic = {TopicOf[t] : t \in Transports}
  /\ BufferSize \in Nat \ {0}
  /\ HeaderSize \in Nat \ {0}
  /\ MaxMessageSize \in Nat
  /\ Slack \in Nat
  /\ IndexMod \in Nat
  /\ BufferSize < IndexMod
  /\ Sizes \subseteq Nat
  /\ Capacities \subseteq Nat
  /\ Sizes \subseteq AnySize /\ AnySize \subseteq Nat
  /\ TrafficBound \in Nat
  /\ ReceiveBound \in Nat

VARIABLES
  \* The shared segment (struct RingBuffer).
  write_index, read_index, buffer_size, max_message_size, data,
  \* Per transport: who has the topic in segments_, the step it is at, and the
  \* locals of the call in progress.
  segments, pc, idx, pos, msg, body, stores,
  \* The cells of its memcpy in progress that another's memcpy has met meanwhile.
  raced,
  \* History: the messages Send returned true for, the messages Receive handed out, and
  \* the cells accepted.
  log, received, traffic

indices == <<write_index, read_index>>
sizes   == <<buffer_size, max_message_size>>
locals  == <<idx, pos, msg, body>>
history == <<log, received, traffic>>
vars    == <<indices, sizes, data, segments, pc, locals, stores, raced, history>>

-----------------------------------------------------------------------------
(* Messages, cells and index arithmetic. *)

Mapped == BufferSize + Slack
Fields == {"write_index", "read_index", "buffer_size", "max_message_size"}

Message == [sender : Transports, topic : {HeaderTopic[TopicOf[t]] : t \in Transports},
            sequence : 0 .. IndexMod - 1, size : Sizes]

Total(m)   == HeaderSize + m.size
Cell(m, k) == [msg |-> m, off |-> k]
ZeroCell   == [msg |-> NoMsg, off |-> -1]
Unknown    == [msg |-> NoMsg, off |-> -2]

\* memcpy of the part [from, to) of message m, laid out from position p; what is left in
\* the cells met is not known.
Copied(p, m, from, to, met) ==
  [c \in DOMAIN data |->
     IF c - p \notin from .. to - 1 THEN data[c] ELSE IF c \in met THEN Unknown ELSE Cell(m, c - p)]

\* memcpy cut short somewhere in the given cells.
CutShort(cells) == [c \in DOMAIN data |-> IF c \in cells THEN Unknown ELSE data[c]]

\* Whether one message's whole header lies at position p.
IsHeader(p) == \A k \in 0 .. HeaderSize - 1 : data[p + k] = Cell(data[p].msg, k)

\* The payload found after the header at position p.
PayloadAt(p, m) == [k \in HeaderSize .. Total(m) - 1 |-> data[p + k]]
Payload(m)      == [k \in HeaderSize .. Total(m) - 1 |-> Cell(m, k)]

\* Whether the caller's buffer takes the payload; mutants: one byte too strict, unchecked.
FitsStrictly(capacity, m) == capacity > m.size
FitsAlways(capacity, m) == TRUE
Fits(capacity, m) == capacity >= m.size

\* An index moved on; mutant: kept in a wider integer.
AdvanceWide(i, n) == i + n
Advance(i, n) == (i + n) % IndexMod

\* Mutants of AvailableSpace: unread messages not subtracted; only payloads subtracted.
AvailableAlways(w, r) == buffer_size
AvailablePayload(w, r) ==
  IF w >= r THEN (buffer_size + HeaderSize - (w - r)) % IndexMod ELSE r - w

\* With the indices apart, unsigned: no more than the ring when the writer is ahead.
AvailableSpace(w, r) ==
  IF w >= r THEN (buffer_size - (w - r)) % IndexMod ELSE r - w

-----------------------------------------------------------------------------
(* The cells of the memcpy in progress. *)

Writing(t) ==
  CASE pc[t] = "copy_header" -> pos[t] .. pos[t] + HeaderSize - 1
    [] pc[t] = "copy_data"   -> pos[t] + HeaderSize .. pos[t] + Total(msg[t]) - 1
    [] OTHER -> {}

Reading(t) ==
  CASE pc[t] = "read_header" -> pos[t] .. pos[t] + HeaderSize - 1
    [] pc[t] = "read_data"   -> pos[t] + HeaderSize .. pos[t] + Total(msg[t]) - 1
    [] OTHER -> {}

\* Those in which t's memcpy and another's meet, one of them writing.
Meeting(t) ==
  UNION {(Writing(t) \cap (Writing(u) \cup Reading(u))) \cup (Reading(t) \cap Writing(u)) :
           u \in Transports \ {t}}

\* A memcpy goes on while its transport stays at the same step.
NoteMeetings ==
  raced' = [t \in Transports |-> Meeting(t)' \cup (IF pc'[t] = pc[t] THEN raced[t] ELSE {})]

\* What bytes that are no message's header may say, read as one.
Headers == [topic : {TopicOf[t] : t \in Transports} \cup {Torn}, size : AnySize]

\* What t's memcpy of a header may find: the message there or no magic number (NoMsg);
\* and where header and payload bytes of several messages are mixed, or payload bytes lie
\* that may equal the magic number, any size under t's topic or another.
HeadersFound(t) ==
  CASE raced[t] = {} /\ IsHeader(pos[t])         -> {data[pos[t]].msg}
    [] raced[t] = {} /\ data[pos[t]] = ZeroCell  -> {NoMsg}
    [] OTHER -> {NoMsg} \cup {h \in Headers : h.topic \in {TopicOf[t], Torn}}

-----------------------------------------------------------------------------
(* A freshly created segment is zero-filled by ftruncate. *)
Init ==
  /\ write_index = 0
  /\ read_index = 0
  /\ buffer_size = 0
  /\ max_message_size = 0
  /\ data = [c \in 0 .. Mapped - 1 |-> ZeroCell]
  /\ segments = {}
  /\ pc = [t \in Transports |-> "idle"]
  /\ idx = [t \in Transports |-> 0]
  /\ pos = [t \in Transports |-> 0]
  /\ msg = [t \in Transports |-> NoMsg]
  /\ body = [t \in Transports |-> <<>>]
  /\ stores = [t \in Transports |-> {}]
  /\ raced = [t \in Transports |-> {}]
  /\ log = <<>>
  /\ received = [t \in Transports |-> <<>>]
  /\ traffic = 0

Goto(t, from, to) == pc[t] = from /\ pc' = [pc EXCEPT ![t] = to]

\* The locals of a call end with it.
ForgetLocals(t) ==
  /\ idx' = [idx EXCEPT ![t] = 0]
  /\ pos' = [pos EXCEPT ![t] = 0]
  /\ msg' = [msg EXCEPT ![t] = NoMsg]
  /\ body' = [body EXCEPT ![t] = <<>>]

Return(t, from) == Goto(t, from, "idle") /\ ForgetLocals(t)

-----------------------------------------------------------------------------
(* Advertise and Subscribe. *)

\* Advertise of a topic the transport has no segment for yet: open or create the
\* segment, then the four stores below.  (With a segment, also one that was only
\* subscribed, it returns true and touches nothing.)
AdvertiseOpen(t) ==
  /\ Goto(t, "idle", "advertise")
  /\ t \in Writers \ segments
  /\ stores' = [stores EXCEPT ![t] = Fields]
  /\ UNCHANGED <<indices, sizes, data, segments, idx, pos, msg, body, raced, history>>

\* The stores that initialise the ring are relaxed or plain: another process may
\* see them in any order.
AdvertiseStore(t) ==
  /\ pc[t] = "advertise"
  /\ \E f \in stores[t] :
       /\ write_index' = IF f = "write_index" THEN 0 ELSE write_index
       /\ read_index' = IF f = "read_index" THEN 0 ELSE read_index
       /\ buffer_size' = IF f = "buffer_size" THEN BufferSize ELSE buffer_size
       /\ max_message_size' =
            IF f = "max_message_size" THEN MaxMessageSize ELSE max_message_size
       /\ stores' = [stores EXCEPT ![t] = @ \ {f}]
  /\ UNCHANGED <<data, segments, pc, idx, pos, msg, body, raced, history>>

AdvertiseReturn(t) ==
  /\ Goto(t, "advertise", "idle")
  /\ stores[t] = {}
  /\ segments' = segments \cup {t}
  /\ UNCHANGED <<indices, sizes, data, locals, stores, raced, history>>

\* Subscribe maps the segment and leaves its content alone.
Subscribe(t) ==
  /\ t \in Readers \ segments
  /\ pc[t] = "idle"
  /\ segments' = segments \cup {t}
  /\ UNCHANGED <<indices, sizes, data, pc, locals, stores, raced, history>>

-----------------------------------------------------------------------------
(* Send and WriteToRingBuffer. *)

\* Up to the load of write_index.  The early returns (payload or total too large,
\* no such topic) change nothing.
SendBegin(t) ==
  /\ Goto(t, "idle", "load_read")
  /\ t \in Writers \cap segments
  /\ \E s \in Sizes :
       LET m == [sender |-> t, topic |-> HeaderTopic[TopicOf[t]],
                 sequence |-> write_index, size |-> s]
       IN  /\ s <= MaxMessageSize
           /\ Total(m) <= max_message_size
           /\ traffic + Total(m) <= TrafficBound
           /\ msg' = [msg EXCEPT ![t] = m]
  /\ idx' = [idx EXCEPT ![t] = write_index]
  /\ UNCHANGED <<indices, sizes, data, segments, pos, body, stores, history>>

\* position = write_index % buffer_size with a buffer_size of zero.
SendDivideByZero(t) ==
  /\ Goto(t, "load_read", "fault")
  /\ buffer_size = 0
  /\ UNCHANGED <<indices, sizes, data, segments, locals, stores, history>>

\* Mutant of SendNoSpace: it waits for the reader instead of returning false.
SendWaits(t) ==
  /\ Goto(t, "load_read", "load_read")
  /\ buffer_size # 0
  /\ AvailableSpace(idx[t], read_index) <= Total(msg[t])
  /\ UNCHANGED <<indices, sizes, data, segments, locals, stores, history>>

\* Mutant of SendNoSpace: the header is counted twice.
SendNoSpaceTwice(t) ==
  /\ Return(t, "load_read")
  /\ buffer_size # 0
  /\ AvailableSpace(idx[t], read_index) <= HeaderSize + Total(msg[t])
  /\ UNCHANGED <<indices, sizes, data, segments, stores, history>>

SendNoSpace(t) ==
  /\ Return(t, "load_read")
  /\ buffer_size # 0
  /\ AvailableSpace(idx[t], read_index) <= Total(msg[t])
  /\ UNCHANGED <<indices, sizes, data, segments, stores, history>>

\* Mutants of SendReserve: a message may fill the ring to the last cell; the position is
\* the index itself.
SendReserveFull(t) ==
  /\ Goto(t, "load_read", "copy_header")
  /\ AvailableSpace(idx[t], read_index) >= Total(msg[t])
  /\ pos' = [pos EXCEPT ![t] = idx[t] % buffer_size]
  /\ UNCHANGED <<indices, sizes, data, segments, idx, msg, body, stores, history>>

SendReserveUnwrapped(t) ==
  /\ Goto(t, "load_read", "copy_header")
  /\ AvailableSpace(idx[t], read_index) > Total(msg[t])
  /\ pos' = [pos EXCEPT ![t] = idx[t]]
  /\ UNCHANGED <<indices, sizes, data, segments, idx, msg, body, stores, history>>

SendReserve(t) ==
  /\ Goto(t, "load_read", "copy_header")
  /\ buffer_size # 0
  /\ AvailableSpace(idx[t], read_index) > Total(msg[t])
  /\ pos' = [pos EXCEPT ![t] = idx[t] % buffer_size]
  /\ UNCHANGED <<indices, sizes, data, segments, idx, msg, body, stores, history>>

\* Either memcpy is contiguous from pos: it never wraps to the start of data, and
\* past the mapping it faults half-way.
SendCopyHeader(t) ==
  /\ Goto(t, "copy_header", "copy_data")
  /\ pos[t] + HeaderSize <= Mapped
  /\ data' = Copied(pos[t], msg[t], 0, HeaderSize, raced[t])
  /\ UNCHANGED <<indices, sizes, segments, locals, stores, history>>

SendCopyData(t) ==
  /\ Goto(t, "copy_data", "store_write")
  /\ pos[t] + Total(msg[t]) <= Mapped
  /\ data' = Copied(pos[t], msg[t], HeaderSize, Total(msg[t]), raced[t])
  /\ UNCHANGED <<indices, sizes, segments, locals, stores, history>>

SendOverrun(t) ==
  /\ \/ /\ Goto(t, "copy_header", "fault")
        /\ pos[t] + HeaderSize > Mapped
     \/ /\ Goto(t, "copy_data", "fault")
        /\ pos[t] + Total(msg[t]) > Mapped
  /\ data' = CutShort(Writing(t))
  /\ UNCHANGED <<indices, sizes, segments, locals, stores, history>>

\* Mutant of SendCommit: write_index advances by the payload only.
SendCommitPayload(t) ==
  /\ Return(t, "store_write")
  /\ write_index' = Advance(idx[t], msg[t].size)
  /\ log' = Append(log, msg[t])
  /\ traffic' = traffic + Total(msg[t])
  /\ UNCHANGED <<read_index, sizes, data, segments, stores, received>>

SendCommit(t) ==
  /\ Return(t, "store_write")
  /\ write_index' = Advance(idx[t], Total(msg[t]))
  /\ log' = Append(log, msg[t])
  /\ traffic' = traffic + Total(msg[t])
  /\ UNCHANGED <<read_index, sizes, data, segments, stores, received>>

-----------------------------------------------------------------------------
(* Receive and ReadFromRingBuffer. *)

ReceiveBegin(t) ==
  /\ Goto(t, "idle", "load_write")
  /\ t \in Readers \cap segments
  /\ Len(received[t]) < ReceiveBound
  /\ idx' = [idx EXCEPT ![t] = read_index]
  /\ UNCHANGED <<indices, sizes, data, segments, pos, msg, body, stores, history>>

ReceiveEmpty(t) ==
  /\ Return(t, "load_write")
  /\ idx[t] = write_index
  /\ UNCHANGED <<indices, sizes, data, segments, stores, history>>

\* Mutant of ReceiveLocate: the position is the index itself.
ReceiveLocateUnwrapped(t) ==
  /\ Goto(t, "load_write", "read_header")
  /\ idx[t] # write_index
  /\ pos' = [pos EXCEPT ![t] = idx[t]]
  /\ UNCHANGED <<indices, sizes, data, segments, idx, msg, body, stores, history>>

\* An index other than zero was published by a Send, which found buffer_size set.
ReceiveLocate(t) ==
  /\ Goto(t, "load_write", "read_header")
  /\ idx[t] # write_index
  /\ pos' = [pos EXCEPT ![t] = idx[t] % buffer_size]
  /\ UNCHANGED <<indices, sizes, data, segments, idx, msg, body, stores, history>>

\* The header is copied out and judged: no magic number, another topic's message,
\* a message larger than the caller's buffer, or one to hand out.
ReceiveHeader(t) ==
  /\ pc[t] = "read_header"
  /\ pos[t] + HeaderSize <= Mapped
  /\ \E h \in HeadersFound(t) :
       \/ /\ h = NoMsg
          /\ Goto(t, "read_header", "skip_header")
          /\ UNCHANGED locals
       \/ /\ h # NoMsg /\ h.topic # TopicOf[t]
          /\ Goto(t, "read_header", "skip_message")
          /\ msg' = [msg EXCEPT ![t] = h]
          /\ UNCHANGED <<idx, pos, body>>
       \/ /\ h # NoMsg /\ h.topic = TopicOf[t]
          /\ \E capacity \in Capacities : ~Fits(capacity, h)
          /\ Return(t, "read_header")
       \/ /\ h # NoMsg /\ h.topic = TopicOf[t]
          /\ \E capacity \in Capacities : Fits(capacity, h)
          /\ Goto(t, "read_header", "read_data")
          /\ msg' = [msg EXCEPT ![t] = h]
          /\ UNCHANGED <<idx, pos, body>>
  /\ UNCHANGED <<indices, sizes, data, segments, stores, history>>

ReceiveData(t) ==
  /\ Goto(t, "read_data", "store_read")
  /\ pos[t] + Total(msg[t]) <= Mapped
  /\ body' = [body EXCEPT ![t] = IF raced[t] = {} THEN PayloadAt(pos[t], msg[t]) ELSE Torn]
  /\ UNCHANGED <<indices, sizes, data, segments, idx, pos, msg, stores, history>>

ReceiveOverrun(t) ==
  /\ \/ /\ Goto(t, "read_header", "fault")
        /\ pos[t] + HeaderSize > Mapped
     \/ /\ Goto(t, "read_data", "fault")
        /\ pos[t] + Total(msg[t]) > Mapped
  /\ UNCHANGED <<indices, sizes, data, segments, locals, stores, history>>

\* What the application gets: the message, if its header and payload are one message's.
HandedOut(t) ==
  IF msg[t] \in Message /\ body[t] = Payload(msg[t]) THEN msg[t] ELSE Torn

\* Mutants of ReceiveCommit: the message is left in the ring; only its header is passed.
ReceivePeek(t) ==
  /\ Return(t, "store_read")
  /\ received' = [received EXCEPT ![t] = Append(@, HandedOut(t))]
  /\ UNCHANGED <<indices, sizes, data, segments, stores, log, traffic>>

ReceiveCommitHeader(t) ==
  /\ Return(t, "store_read")
  /\ read_index' = Advance(idx[t], HeaderSize)
  /\ received' = [received EXCEPT ![t] = Append(@, HandedOut(t))]
  /\ UNCHANGED <<write_index, sizes, data, segments, stores, log, traffic>>

\* Store the new read_index and return true.
ReceiveCommit(t) ==
  /\ Return(t, "store_read")
  /\ read_index' = Advance(idx[t], Total(msg[t]))
  /\ received' = [received EXCEPT ![t] = Append(@, HandedOut(t))]
  /\ UNCHANGED <<write_index, sizes, data, segments, stores, log, traffic>>

\* Skip what is not for this caller and return false: only the header when it has
\* no magic number, the whole message when it is another topic's.
ReceiveSkip(t) ==
  /\ \/ /\ Return(t, "skip_header")
        /\ read_index' = Advance(idx[t], HeaderSize)
     \/ /\ Return(t, "skip_message")
        /\ read_index' = Advance(idx[t], Total(msg[t]))
  /\ UNCHANGED <<write_index, sizes, data, segments, stores, history>>

-----------------------------------------------------------------------------
\* The process of a transport is killed, between any two steps, and started again:
\* its segments_ is empty and the segment stays as it was (only the destructor
\* unlinks it), with what a memcpy had written until then.
Crash(t) ==
  /\ t \in Crashable
  /\ t \in segments \/ pc[t] # "idle"
  /\ segments' = segments \ {t}
  /\ pc' = [pc EXCEPT ![t] = "idle"]
  /\ ForgetLocals(t)
  /\ stores' = [stores EXCEPT ![t] = {}]
  /\ data' = CutShort(Writing(t))
  /\ UNCHANGED <<indices, sizes, history>>
  /\ NoteMeetings

Advertise(t) ==
  AdvertiseOpen(t) \/ AdvertiseStore(t) \/ AdvertiseReturn(t)

Send(t) ==
  /\ \/ SendBegin(t) \/ SendDivideByZero(t) \/ SendNoSpace(t) \/ SendReserve(t)
     \/ SendCopyHeader(t) \/ SendCopyData(t) \/ SendOverrun(t) \/ SendCommit(t)
  /\ NoteMeetings

Receive(t) ==
  /\ \/ ReceiveBegin(t) \/ ReceiveEmpty(t) \/ ReceiveLocate(t) \/ ReceiveHeader(t)
     \/ ReceiveData(t) \/ ReceiveOverrun(t) \/ ReceiveCommit(t) \/ ReceiveSkip(t)
  /\ NoteMeetings

Next ==
  \E t \in Transports :
    Advertise(t) \/ Subscribe(t) \/ Send(t) \/ Receive(t) \/ Crash(t)

Spec == Init /\ [][Next]_vars

-----------------------------------------------------------------------------
(* Properties. *)

PcNames == {"idle", "advertise", "load_read", "copy_header", "copy_data", "store_write",
            "load_write", "read_header", "read_data", "store_read", "skip_header",
            "skip_message", "fault"}

Cells    == [msg : Message, off : Nat] \cup {ZeroCell, Unknown}
Index    == 0 .. IndexMod - 1
\* What an uninitialised or an initialised segment holds in its two size fields.
SizePair == {0, BufferSize} \X {0, MaxMessageSize}

\* All variables but raced.
BaseTypeOK ==
  /\ write_index \in Index /\ read_index \in Index
  /\ sizes \in SizePair
  /\ data \in [0 .. Mapped - 1 -> Cells]
  /\ segments \subseteq Transports
  /\ pc \in [Transports -> PcNames]
  /\ idx \in [Transports -> Index] /\ pos \in [Transports -> 0 .. BufferSize - 1]
  /\ msg \in [Transports -> Message \cup Headers \cup {NoMsg}]
  /\ DOMAIN body = Transports
  /\ stores \in [Transports -> SUBSET Fields]
  /\ log \in Seq(Message) /\ received \in [Transports -> Seq(Message \cup {Torn})]
  /\ traffic \in Nat

\* Every variable keeps its type: the indices stay 32 bits wide, a position stays inside
\* the ring, memory holds cells of messages.
TypeOK == BaseTypeOK /\ raced \in [Transports -> SUBSET Nat]

\* An accepted message nobody received yet is still whole in memory: what the check for
\* "enough space in the buffer" in WriteToRingBuffer is for.
Unread(m) == \A t \in Transports : \A i \in 1 .. Len(received[t]) : received[t][i] # m

UnreadIntact ==
  \A i \in 1 .. Len(log) : Unread(log[i]) =>
    \A k \in 0 .. Total(log[i]) - 1 :
      data[(log[i].sequence % BufferSize) + k] = Cell(log[i], k)

\* Copies into the segment never overlap another transport's copy into or out of it:
\* the data is not atomic, so an overlap would be a data race.
RaceFree ==
  \A t, u \in Transports : t # u => Writing(t) \cap (Writing(u) \cup Reading(u)) = {}

\* No call ends in a fault: no copy runs past the mapping, no index is divided by zero.
NoFault == \A t \in Transports : pc[t] # "fault"

\* Each receiver gets exactly the accepted messages, whole, once and in the order in which
\* Send accepted them: no loss, no duplicate, no reordering, no torn payload.
DeliveredInOrder ==
  \A t \in Readers :
    /\ Len(received[t]) <= Len(log)
    /\ \A i \in 1 .. Len(received[t]) : received[t][i] = log[i]

\* Nobody waits for anybody: once begun, a call of a live transport returns (or faults)
\* under fair scheduling of its own thread alone, whoever else crashes in mid-call.
CallsFair ==
  \A t \in Transports : WF_vars(pc[t] # "idle" /\ (Advertise(t) \/ Send(t) \/ Receive(t)))

FairCallsSpec == Spec /\ CallsFair

NonBlocking == \A t \in Transports : pc[t] # "idle" ~> pc[t] \in {"idle", "fault"}

\* However many transports write over each other's messages, mix up each other's headers and
\* reset each other's indices: a memcpy starts inside the ring, and is no longer than a message
\* that Send accepts, a header, or what the caller's buffer takes, whatever header.size says.
CopiesNear ==
  \A t \in Transports :
    /\ pos[t] < BufferSize
    /\ \E n \in {0} \cup {s \in Sizes : HeaderSize + s <= MaxMessageSize} :
         Writing(t) \subseteq pos[t] .. pos[t] + HeaderSize + n - 1
    /\ \E n \in {0} \cup Capacities :
         Reading(t) \subseteq pos[t] .. pos[t] + HeaderSize + n - 1

\* Why these hold.  Nothing is published before buffer_size is set, so that no
\* position is computed with a buffer_size of zero but in Send's first step.
SizedInv ==
  /\ buffer_size = 0 => write_index = 0 /\ read_index = 0 /\ \A t \in Transports : idx[t] = 0
  /\ \A t \in Transports :
       pc[t] \in {"copy_header", "copy_data", "store_write", "read_header", "read_data",
                  "store_read", "skip_header", "skip_message"} => buffer_size # 0

\* The messages Send does not refuse.
Sendable == {m \in Message : Total(m) <= MaxMessageSize}

\* A call holds a message where it goes on with one; a Receive what it found as a header, and
\* on the way to the payload it fits the caller's buffer.
CallInv ==
  \A t \in Transports :
    /\ pc[t] \in {"load_read", "copy_header", "copy_data", "store_write"} => msg[t] \in Sendable
    /\ pc[t] \in {"read_data", "store_read", "skip_message"} => msg[t] \in Message \cup Headers
    /\ pc[t] \in {"read_data", "store_read"} =>
         \E capacity \in Capacities : Fits(capacity, msg[t])

RingInv == TypeOK /\ SizedInv /\ CallInv
=============================================================================
