--------------------------- MODULE ShmRing_proofs ---------------------------
(***************************************************************************)
(* Proofs about ShmRing: whatever number of transports shares a segment,   *)
(* whoever of them writes, reads, advertises late or dies, no position     *)
(* leaves the ring and no copy is longer than its caller asked for.        *)
(***************************************************************************)
EXTENDS ShmRing, TLAPS

\* The arithmetic of the indices and positions.
LEMMA IndexArithmetic ==
  /\ \A i, n \in Nat : Advance(i, n) \in Index
  /\ \A i \in Nat : i % BufferSize \in 0 .. BufferSize - 1
BY RingAssumption DEF Advance, Index

\* How long a message is.
LEMMA TotalType == \A m \in Message : Total(m) \in Nat /\ Total(m) >= HeaderSize
<1> SUFFICES ASSUME NEW m \in Message PROVE Total(m) \in Nat /\ Total(m) >= HeaderSize
  OBVIOUS
<1>1. m.size \in Sizes
  BY DEF Message
<1>2. m.size \in Nat /\ HeaderSize \in Nat
  BY <1>1, RingAssumption
<1> QED BY <1>2 DEF Total

\* A freshly created segment.
LEMMA RingInit == Init => RingInv
<1> SUFFICES ASSUME Init PROVE RingInv
  OBVIOUS
<1>1. TypeOK
  BY RingAssumption DEF Init, TypeOK, BaseTypeOK, Index, sizes, SizePair, Cells, PcNames, Mapped
<1>2. SizedInv /\ CallInv
  BY DEF Init, SizedInv, CallInv
<1> QED BY <1>1, <1>2 DEF RingInv

-----------------------------------------------------------------------------
(* Memory. *)

\* A copy leaves cells of messages.
LEMMA CopyType ==
  ASSUME TypeOK, NEW m \in Message, NEW p \in Nat, NEW from \in Nat, NEW to \in Nat,
         NEW met, data' = Copied(p, m, from, to, met)
  PROVE  data' \in [0 .. Mapped - 1 -> Cells]
<1>1. \A c \in 0 .. Mapped - 1 : c - p \in from .. to - 1 => Cell(m, c - p) \in Cells
  BY DEF Cell, Cells
<1>2. Unknown \in Cells /\ data \in [0 .. Mapped - 1 -> Cells]
  BY DEF Cells, TypeOK, BaseTypeOK
<1> QED BY <1>1, <1>2 DEF Copied

-----------------------------------------------------------------------------
(* Calls.  The parts of the invariant that are about one transport's locals *)
(* hold of the others as before.                                            *)

\* What was copied out of memory is t's matter, too.
BodyBecomes(t, b) ==
  /\ DOMAIN body' = Transports /\ body'[t] = b
  /\ \A u \in Transports \ {t} : body'[u] = body[u]

\* What a call that goes to a step holds there.
MayHold(to, m) ==
  /\ to \in {"load_read", "copy_header", "copy_data", "store_write"} => m \in Sendable
  /\ to \in {"read_data", "store_read", "skip_message"} => m \in Message \cup Headers
  /\ to \in {"read_data", "store_read"} => \E capacity \in Capacities : Fits(capacity, m)

\* Steps that go on with a position in the ring.
Placed == {"copy_header", "copy_data", "store_write", "read_header", "read_data",
           "store_read", "skip_header", "skip_message"}

\* A memcpy meets another's in cells that have a number.
LEMMA MeetingType ==
  ASSUME raced \in [Transports -> SUBSET Nat], pos' \in [Transports -> 0 .. BufferSize - 1],
         raced' = raced \/ NoteMeetings
  PROVE  raced' \in [Transports -> SUBSET Nat]
<1>1. \A u \in Transports : Writing(u)' \subseteq Nat /\ Reading(u)' \subseteq Nat
  BY RingAssumption DEF Writing, Reading
<1>2. \A u \in Transports : Meeting(u)' \subseteq Nat
  BY <1>1 DEF Meeting
<1> QED BY <1>2 DEF NoteMeetings

\* What a step of t has to see to.
LEMMA AnyStep ==
  ASSUME RingInv, NEW t \in Transports,
         write_index' \in Index, read_index' \in Index, sizes' \in SizePair,
         buffer_size' = 0 => buffer_size = 0 /\ write_index' = 0 /\ read_index' = 0,
         data' \in [0 .. Mapped - 1 -> Cells], raced' = raced \/ NoteMeetings,
         received' \in [Transports -> Seq(Message \cup {Torn})],
         log' \in Seq(Message), traffic' \in Nat,
         segments' \subseteq Transports, stores' \in [Transports -> SUBSET Fields],
         NEW to \in PcNames, pc' = [pc EXCEPT ![t] = to],
         NEW i \in Index, idx' = [idx EXCEPT ![t] = i],
         NEW p \in 0 .. BufferSize - 1, pos' = [pos EXCEPT ![t] = p],
         NEW m \in Message \cup Headers \cup {NoMsg}, msg' = [msg EXCEPT ![t] = m],
         NEW b, BodyBecomes(t, b),
         buffer_size' = 0 => i = 0,
         to \in Placed => buffer_size # 0,
         MayHold(to, m)
  PROVE  RingInv'
<1> USE DEF RingInv
<1>1. TypeOK'
  <2>1. pos' \in [Transports -> 0 .. BufferSize - 1]
    BY DEF TypeOK, BaseTypeOK
  <2>2. raced' \in [Transports -> SUBSET Nat]
    BY <2>1, MeetingType DEF TypeOK, BaseTypeOK
  <2> QED BY <2>1, <2>2 DEF TypeOK, BaseTypeOK, BodyBecomes
<1>2. SizedInv'
  BY DEF SizedInv, TypeOK, BaseTypeOK, Placed
<1>3. CallInv'
  BY DEF CallInv, TypeOK, BaseTypeOK, MayHold
<1> QED BY <1>1, <1>2, <1>3

\* A step of t that writes neither the indices nor what was handed out.
LEMMA QuietStep ==
  ASSUME RingInv, NEW t \in Transports, UNCHANGED <<indices, sizes, history>>,
         data' \in [0 .. Mapped - 1 -> Cells], raced' = raced \/ NoteMeetings,
         segments' \subseteq Transports, stores' \in [Transports -> SUBSET Fields],
         NEW to \in PcNames, pc' = [pc EXCEPT ![t] = to],
         NEW i \in Index, idx' = [idx EXCEPT ![t] = i],
         NEW p \in 0 .. BufferSize - 1, pos' = [pos EXCEPT ![t] = p],
         NEW m \in Message \cup Headers \cup {NoMsg}, msg' = [msg EXCEPT ![t] = m],
         NEW b, BodyBecomes(t, b),
         buffer_size = 0 => i = 0,
         to \in Placed => buffer_size # 0,
         MayHold(to, m)
  PROVE  RingInv'
<1>1. /\ write_index' \in Index /\ read_index' \in Index /\ sizes' \in SizePair
      /\ log' \in Seq(Message) /\ traffic' \in Nat
      /\ received' \in [Transports -> Seq(Message \cup {Torn})]
  BY DEF RingInv, TypeOK, BaseTypeOK, indices, sizes, history
<1>2. buffer_size' = buffer_size /\ (buffer_size = 0 => write_index' = 0 /\ read_index' = 0)
  BY DEF RingInv, SizedInv, indices, sizes
<1> QED BY <1>1, <1>2, AnyStep

\* What a transport's locals are before its step.
LEMMA Before ==
  ASSUME RingInv, NEW t \in Transports
  PROVE  /\ idx[t] \in Index /\ pos[t] \in 0 .. BufferSize - 1
         /\ msg[t] \in Message \cup Headers \cup {NoMsg}
         /\ pc[t] \in PcNames /\ (buffer_size = 0 => idx[t] = 0)
         /\ 0 \in Index /\ 0 \in 0 .. BufferSize - 1
         /\ buffer_size \in {0, BufferSize} /\ write_index \in Index /\ read_index \in Index
         /\ max_message_size \in {0, MaxMessageSize}
BY RingAssumption DEF RingInv, TypeOK, BaseTypeOK, SizedInv, Index, sizes, SizePair

\* What the invariant says of memory and of the rest, by name.
LEMMA Kept ==
  ASSUME RingInv
  PROVE  /\ segments \subseteq Transports /\ stores \in [Transports -> SUBSET Fields]
         /\ pc \in [Transports -> PcNames] /\ data \in [0 .. Mapped - 1 -> Cells]
         /\ sizes \in SizePair /\ log \in Seq(Message) /\ traffic \in Nat
         /\ received \in [Transports -> Seq(Message \cup {Torn})]
         /\ {"idle", "advertise", "load_read", "copy_header", "copy_data", "store_write",
             "load_write", "read_header", "read_data", "store_read", "skip_header",
             "skip_message", "fault"} = PcNames
BY DEF RingInv, TypeOK, BaseTypeOK, PcNames

\* A copy cut short leaves cells, too.
LEMMA CutShortType == ASSUME TypeOK, NEW cells PROVE CutShort(cells) \in [0 .. Mapped - 1 -> Cells]
BY DEF CutShort, TypeOK, BaseTypeOK, Cells

\* A step that leaves the locals alone.
LEMMA LocalsKept ==
  ASSUME RingInv, UNCHANGED locals
  PROVE  \A t \in Transports :
           /\ idx' = [idx EXCEPT ![t] = idx[t]] /\ pos' = [pos EXCEPT ![t] = pos[t]]
           /\ msg' = [msg EXCEPT ![t] = msg[t]] /\ BodyBecomes(t, body[t])
BY DEF RingInv, TypeOK, BaseTypeOK, locals, BodyBecomes

-----------------------------------------------------------------------------
(* One lemma per action. *)

\* A call that returns, or dies with its process.
LEMMA ReturnStep ==
  ASSUME RingInv, NEW t \in Transports, pc' = [pc EXCEPT ![t] = "idle"], ForgetLocals(t),
         UNCHANGED <<indices, sizes, history>>,
         data' \in [0 .. Mapped - 1 -> Cells], raced' = raced \/ NoteMeetings,
         segments' \subseteq Transports, stores' \in [Transports -> SUBSET Fields]
  PROVE  RingInv'
<1>1. "idle" \in PcNames /\ "idle" \notin Placed /\ MayHold("idle", NoMsg)
  BY DEF PcNames, Placed, MayHold
<1>2. BodyBecomes(t, <<>>)
  BY DEF ForgetLocals, BodyBecomes, RingInv, TypeOK, BaseTypeOK
<1> QED BY <1>1, <1>2, Before, QuietStep DEF ForgetLocals

\* A step that leaves the locals as they are.
LEMMA MoveStep ==
  ASSUME RingInv, NEW t \in Transports, UNCHANGED <<indices, sizes, locals, history>>,
         data' \in [0 .. Mapped - 1 -> Cells], raced' = raced \/ NoteMeetings,
         segments' \subseteq Transports, stores' \in [Transports -> SUBSET Fields],
         NEW to \in {"idle", "advertise", "fault", "skip_header", "copy_data", "store_write"},
         pc' = [pc EXCEPT ![t] = to],
         to \in Placed => pc[t] \in Placed,
         to \in {"copy_data", "store_write"} => pc[t] \in {"copy_header", "copy_data"}
  PROVE  RingInv'
<1>1. to \in PcNames
  BY DEF PcNames
<1>2. to \in Placed => buffer_size # 0
  BY DEF RingInv, SizedInv, Placed
<1> DEFINE i == idx[t]  p == pos[t]  m == msg[t]  b == body[t]
<1>3. MayHold(to, m)
  BY DEF RingInv, CallInv, MayHold
<1>4. UNCHANGED <<indices, sizes, history>>
  OBVIOUS
<1>5. /\ i \in Index /\ p \in 0 .. BufferSize - 1 /\ m \in Message \cup Headers \cup {NoMsg}
      /\ (buffer_size = 0 => i = 0)
      /\ idx' = [idx EXCEPT ![t] = i] /\ pos' = [pos EXCEPT ![t] = p]
      /\ msg' = [msg EXCEPT ![t] = m] /\ BodyBecomes(t, b)
  BY LocalsKept, Before
<1> HIDE DEF i, p, m, b
<1> QED BY <1>1, <1>2, <1>3, <1>4, <1>5, QuietStep

\* Advertise and Subscribe.
LEMMA AdvertiseInv ==
  ASSUME RingInv, NEW t \in Transports, Advertise(t) \/ Subscribe(t) PROVE RingInv'
<1>1. CASE AdvertiseOpen(t)
  BY <1>1, Kept, MoveStep DEF AdvertiseOpen, Goto, locals, Placed
<1>2. CASE AdvertiseStore(t)
  <2>1. pc' = [pc EXCEPT ![t] = pc[t]] /\ pc[t] = "advertise" /\ pc[t] \in PcNames
    BY <1>2, Kept DEF AdvertiseStore
  <2>2. /\ stores' \in [Transports -> SUBSET Fields] /\ segments' \subseteq Transports
        /\ UNCHANGED <<data, locals, raced, history>>
    BY <1>2, Kept DEF AdvertiseStore, locals
  <2>3. write_index' \in {0, write_index} /\ read_index' \in {0, read_index}
        /\ buffer_size' \in {buffer_size, BufferSize}
        /\ max_message_size' \in {max_message_size, MaxMessageSize}
    BY <1>2 DEF AdvertiseStore
  <2>4. write_index' \in Index /\ read_index' \in Index /\ sizes' \in SizePair
    BY <2>3, Before DEF sizes, SizePair
  <2>5. buffer_size' = 0 => buffer_size = 0 /\ write_index' = 0 /\ read_index' = 0
    BY <2>3, RingAssumption DEF RingInv, SizedInv
  <2>6. /\ data' \in [0 .. Mapped - 1 -> Cells] /\ log' \in Seq(Message) /\ traffic' \in Nat
        /\ received' \in [Transports -> Seq(Message \cup {Torn})]
    BY <2>2, Kept DEF history
  <2>7. buffer_size' = 0 => idx[t] = 0
    BY <2>5, Before
  <2>8. /\ idx' = [idx EXCEPT ![t] = idx[t]] /\ pos' = [pos EXCEPT ![t] = pos[t]]
        /\ msg' = [msg EXCEPT ![t] = msg[t]] /\ BodyBecomes(t, body[t])
    BY <2>2, LocalsKept
  <2>9. "advertise" \notin Placed /\ MayHold("advertise", msg[t])
    BY DEF Placed, MayHold
  <2> QED BY <2>1, <2>2, <2>4, <2>5, <2>6, <2>7, <2>8, <2>9, Before, AnyStep
<1>3. CASE AdvertiseReturn(t)
  BY <1>3, Kept, MoveStep DEF AdvertiseReturn, Goto, Placed
<1>4. CASE Subscribe(t)
  <2>1. pc' = [pc EXCEPT ![t] = "idle"] /\ "idle" \notin Placed
    BY <1>4, Kept DEF Subscribe, Placed
  <2>2. /\ UNCHANGED <<indices, sizes, data, locals, stores, raced, history>>
        /\ segments' \subseteq Transports
    BY <1>4, Kept DEF Subscribe
  <2> QED BY <2>1, <2>2, Kept, MoveStep
<1> QED BY <1>1, <1>2, <1>3, <1>4 DEF Advertise

\* The process of a transport dies.
LEMMA CrashInv == ASSUME RingInv, NEW t \in Transports, Crash(t) PROVE RingInv'
<1>1. segments' \subseteq Transports /\ stores' \in [Transports -> SUBSET Fields]
  BY Kept DEF Crash
<1>2. data' \in [0 .. Mapped - 1 -> Cells]
  BY CutShortType DEF Crash, RingInv
<1> QED BY <1>1, <1>2, ReturnStep DEF Crash

\* Send, up to the copies.
LEMMA ReserveInv ==
  ASSUME RingInv, NEW t \in Transports, NoteMeetings,
         SendBegin(t) \/ SendDivideByZero(t) \/ SendNoSpace(t) \/ SendReserve(t) \/ SendOverrun(t)
  PROVE  RingInv'
<1>1. CASE SendBegin(t)
  <2>1. PICK s \in Sizes :
          LET m == [sender |-> t, topic |-> HeaderTopic[TopicOf[t]],
                    sequence |-> write_index, size |-> s]
          IN  msg' = [msg EXCEPT ![t] = m] /\ Total(m) <= max_message_size
    BY <1>1 DEF SendBegin
  <2> DEFINE m == [sender |-> t, topic |-> HeaderTopic[TopicOf[t]],
                   sequence |-> write_index, size |-> s]
  <2>2. m \in Sendable /\ m \in Message
    <3>1. m \in Message
      BY Before DEF Message, Index
    <3>2. Total(m) <= max_message_size /\ Total(m) \in Nat
      BY <2>1, <3>1, TotalType
    <3> HIDE DEF m
    <3> QED BY <3>1, <3>2, Before, RingAssumption DEF Sendable
  <2>3. buffer_size = 0 => write_index = 0
    BY DEF RingInv, SizedInv
  <2>4. /\ pos' = [pos EXCEPT ![t] = pos[t]] /\ BodyBecomes(t, body[t])
        /\ idx' = [idx EXCEPT ![t] = write_index] /\ pc' = [pc EXCEPT ![t] = "load_read"]
        /\ UNCHANGED <<indices, sizes, data, segments, stores, history>>
    BY <1>1 DEF SendBegin, Goto, RingInv, TypeOK, BaseTypeOK, BodyBecomes
  <2>5. msg' = [msg EXCEPT ![t] = m]
    BY <2>1
  <2> HIDE DEF m
  <2>6. "load_read" \notin Placed /\ MayHold("load_read", m)
    BY <2>2 DEF Placed, MayHold
  <2> QED BY <2>2, <2>3, <2>4, <2>5, <2>6, Kept, Before, QuietStep
<1>2. CASE SendDivideByZero(t)
  BY <1>2, Kept, MoveStep DEF SendDivideByZero, Goto, Placed
<1>3. CASE SendNoSpace(t)
  BY <1>3, Kept, ReturnStep DEF SendNoSpace, Return, Goto
<1>4. CASE SendReserve(t)
  <2>1. /\ idx' = [idx EXCEPT ![t] = idx[t]] /\ msg' = [msg EXCEPT ![t] = msg[t]]
        /\ BodyBecomes(t, body[t])
        /\ pc[t] = "load_read" /\ pc' = [pc EXCEPT ![t] = "copy_header"] /\ buffer_size # 0
        /\ UNCHANGED <<indices, sizes, data, segments, stores, history>>
    BY <1>4 DEF SendReserve, Goto, RingInv, TypeOK, BaseTypeOK, BodyBecomes
  <2>2. MayHold("copy_header", msg[t])
    BY <2>1 DEF RingInv, CallInv, MayHold
  <2>3. idx[t] \in Nat /\ buffer_size = BufferSize
    BY <2>1, Before DEF Index
  <2>4. idx[t] % buffer_size \in 0 .. BufferSize - 1
    BY <2>3, IndexArithmetic
  <2>5. pos' = [pos EXCEPT ![t] = idx[t] % buffer_size]
    BY <1>4 DEF SendReserve
  <2> QED BY <2>1, <2>2, <2>4, <2>5, Kept, Before, QuietStep
<1>5. CASE SendOverrun(t)
  <2>1. data' \in [0 .. Mapped - 1 -> Cells]
    BY <1>5, CutShortType DEF SendOverrun, RingInv
  <2> QED BY <1>5, <2>1, Kept, MoveStep DEF SendOverrun, Goto, Placed
<1> QED BY <1>1, <1>2, <1>3, <1>4, <1>5

\* Send: the copies, and the store that publishes them.
LEMMA CopyInv ==
  ASSUME RingInv, NEW t \in Transports, NoteMeetings,
         SendCopyHeader(t) \/ SendCopyData(t) \/ SendCommit(t)
  PROVE  RingInv'
<1> USE RingAssumption
<1>1. /\ pc[t] \in {"copy_header", "copy_data", "store_write"}
      /\ msg[t] \in Sendable /\ msg[t] \in Message /\ buffer_size # 0
  BY DEF SendCopyHeader, SendCopyData, SendCommit, Return, Goto, RingInv, CallInv, SizedInv,
         Sendable
<1>2. Total(msg[t]) \in Nat /\ pos[t] \in Nat /\ HeaderSize \in Nat /\ idx[t] \in Nat
  BY <1>1, TotalType, Before DEF Index
<1>3. CASE SendCopyHeader(t)
  <2>1. data' \in [0 .. Mapped - 1 -> Cells]
    BY <1>1, <1>2, <1>3, CopyType DEF SendCopyHeader, RingInv
  <2> QED BY <1>3, <2>1, Kept, MoveStep DEF SendCopyHeader, Goto, Placed
<1>4. CASE SendCopyData(t)
  <2>1. data' \in [0 .. Mapped - 1 -> Cells]
    BY <1>1, <1>2, <1>4, CopyType DEF SendCopyData, RingInv
  <2> QED BY <1>4, <2>1, Kept, MoveStep DEF SendCopyData, Goto, Placed
<1>5. CASE SendCommit(t)
  <2>1. write_index' \in Index
    BY <1>2, <1>5, IndexArithmetic DEF SendCommit
  <2>2. log' \in Seq(Message) /\ traffic' \in Nat
    BY <1>1, <1>2, <1>5, Kept DEF SendCommit
  <2>3. /\ UNCHANGED <<read_index, buffer_size, sizes, data, segments, stores, received>>
        /\ pc' = [pc EXCEPT ![t] = "idle"] /\ ForgetLocals(t) /\ BodyBecomes(t, <<>>)
    BY <1>5
       DEF SendCommit, Return, Goto, sizes, ForgetLocals, BodyBecomes, RingInv, TypeOK, BaseTypeOK
  <2>4. "idle" \notin Placed /\ MayHold("idle", NoMsg)
    BY DEF Placed, MayHold
  <2> QED BY <1>1, <2>1, <2>2, <2>3, <2>4, Kept, Before, AnyStep DEF ForgetLocals
<1> QED BY <1>3, <1>4, <1>5

\* Receive, up to the judgement of the header.
LEMMA LocateInv ==
  ASSUME RingInv, NEW t \in Transports, NoteMeetings,
         ReceiveBegin(t) \/ ReceiveEmpty(t) \/ ReceiveLocate(t) \/ ReceiveOverrun(t)
  PROVE  RingInv'
<1>1. CASE ReceiveBegin(t)
  <2>1. /\ pos' = [pos EXCEPT ![t] = pos[t]] /\ BodyBecomes(t, body[t])
        /\ msg' = [msg EXCEPT ![t] = msg[t]]
        /\ idx' = [idx EXCEPT ![t] = read_index] /\ pc' = [pc EXCEPT ![t] = "load_write"]
        /\ UNCHANGED <<indices, sizes, data, segments, stores, history>>
    BY <1>1 DEF ReceiveBegin, Goto, RingInv, TypeOK, BaseTypeOK, BodyBecomes
  <2>2. buffer_size = 0 => read_index = 0
    BY DEF RingInv, SizedInv
  <2>3. "load_write" \notin Placed /\ MayHold("load_write", msg[t])
    BY DEF Placed, MayHold
  <2> QED BY <2>1, <2>2, <2>3, Kept, Before, QuietStep
<1>2. CASE ReceiveEmpty(t)
  BY <1>2, Kept, ReturnStep DEF ReceiveEmpty, Return, Goto
<1>3. CASE ReceiveLocate(t)
  <2>1. /\ idx' = [idx EXCEPT ![t] = idx[t]] /\ msg' = [msg EXCEPT ![t] = msg[t]]
        /\ BodyBecomes(t, body[t])
        /\ pc' = [pc EXCEPT ![t] = "read_header"]
        /\ pos' = [pos EXCEPT ![t] = idx[t] % buffer_size]
        /\ UNCHANGED <<indices, sizes, data, segments, stores, history>>
    BY <1>3 DEF ReceiveLocate, Goto, RingInv, TypeOK, BaseTypeOK, BodyBecomes
  <2>2. buffer_size # 0
    BY <1>3 DEF ReceiveLocate, RingInv, SizedInv
  <2>3. idx[t] \in Nat /\ buffer_size = BufferSize
    BY <2>2, Before DEF Index
  <2>4. idx[t] % buffer_size \in 0 .. BufferSize - 1
    BY <2>3, IndexArithmetic
  <2>5. MayHold("read_header", msg[t])
    BY DEF MayHold
  <2> QED BY <2>1, <2>2, <2>4, <2>5, Kept, Before, QuietStep
<1>4. CASE ReceiveOverrun(t)
  BY <1>4, Kept, MoveStep DEF ReceiveOverrun, Goto, Placed
<1> QED BY <1>1, <1>2, <1>3, <1>4

\* What a Receive finds as a header is one message's, or any.
LEMMA FoundType ==
  ASSUME TypeOK, NEW t \in Transports, pos[t] + HeaderSize <= Mapped, NEW h \in HeadersFound(t)
  PROVE  h = NoMsg \/ h \in Message \cup Headers
<1>1. pos[t] \in 0 .. Mapped - 1 /\ pos[t] + 0 = pos[t] /\ 0 \in 0 .. HeaderSize - 1
  BY RingAssumption DEF TypeOK, BaseTypeOK, Mapped
<1>2. CASE IsHeader(pos[t])
  <2>1. data[pos[t]] = Cell(data[pos[t]].msg, 0) /\ data[pos[t]] \in Cells
    BY <1>1, <1>2 DEF IsHeader, TypeOK, BaseTypeOK
  <2>2. data[pos[t]].off = 0
    BY <2>1 DEF Cell
  <2>3. data[pos[t]].msg \in Message
    BY <2>1, <2>2 DEF Cells, ZeroCell, Unknown
  <2> QED BY <1>2, <2>3 DEF HeadersFound
<1>3. CASE ~IsHeader(pos[t])
  BY <1>3 DEF HeadersFound
<1> QED BY <1>2, <1>3

\* The judgement: what goes on to the payload fits the caller's buffer.
LEMMA HeaderStepInv ==
  ASSUME RingInv, NEW t \in Transports, NoteMeetings, ReceiveHeader(t) PROVE RingInv'
<1>1. /\ pc[t] = "read_header" /\ pos[t] + HeaderSize <= Mapped
      /\ UNCHANGED <<indices, sizes, data, segments, stores, history>>
  BY DEF ReceiveHeader
<1>2. buffer_size # 0
  BY <1>1 DEF RingInv, SizedInv
<1>3. PICK h \in HeadersFound(t) :
        \/ pc' = [pc EXCEPT ![t] = "skip_header"] /\ UNCHANGED locals
        \/ pc' = [pc EXCEPT ![t] = "idle"] /\ ForgetLocals(t)
        \/ /\ h # NoMsg /\ msg' = [msg EXCEPT ![t] = h] /\ UNCHANGED <<idx, pos, body>>
           /\ \/ pc' = [pc EXCEPT ![t] = "skip_message"]
              \/ /\ \E capacity \in Capacities : Fits(capacity, h)
                 /\ pc' = [pc EXCEPT ![t] = "read_data"]
  BY DEF ReceiveHeader, Return, Goto
<1>4. CASE pc' = [pc EXCEPT ![t] = "skip_header"] /\ UNCHANGED locals
  BY <1>1, <1>4, Kept, MoveStep DEF Placed
<1>5. CASE pc' = [pc EXCEPT ![t] = "idle"] /\ ForgetLocals(t)
  BY <1>1, <1>5, Kept, ReturnStep
<1>6. CASE /\ h # NoMsg /\ msg' = [msg EXCEPT ![t] = h] /\ UNCHANGED <<idx, pos, body>>
           /\ \/ pc' = [pc EXCEPT ![t] = "skip_message"]
              \/ /\ \E capacity \in Capacities : Fits(capacity, h)
                 /\ pc' = [pc EXCEPT ![t] = "read_data"]
  <2>1. h \in Message \cup Headers
    BY <1>1, <1>6, FoundType DEF RingInv
  <2>2. /\ idx' = [idx EXCEPT ![t] = idx[t]] /\ pos' = [pos EXCEPT ![t] = pos[t]]
        /\ BodyBecomes(t, body[t]) /\ msg' = [msg EXCEPT ![t] = h]
    BY <1>6 DEF RingInv, TypeOK, BaseTypeOK, BodyBecomes
  <2>3. PICK to \in {"skip_message", "read_data"} :
          /\ pc' = [pc EXCEPT ![t] = to] /\ to \in PcNames
          /\ to = "read_data" => \E capacity \in Capacities : Fits(capacity, h)
    BY <1>6 DEF PcNames
  <2>4. MayHold(to, h)
    BY <2>1, <2>3 DEF MayHold
  <2> QED BY <1>1, <1>2, <2>1, <2>2, <2>3, <2>4, Kept, Before, QuietStep
<1> QED BY <1>3, <1>4, <1>5, <1>6

\* The copy of the payload into the caller's buffer.
LEMMA DataInv ==
  ASSUME RingInv, NEW t \in Transports, NoteMeetings, ReceiveData(t) PROVE RingInv'
<1> DEFINE b == IF raced[t] = {} THEN PayloadAt(pos[t], msg[t]) ELSE Torn
<1>1. /\ pc[t] = "read_data" /\ pc' = [pc EXCEPT ![t] = "store_read"]
      /\ BodyBecomes(t, b)
      /\ UNCHANGED <<indices, sizes, data, segments, stores, history>>
  BY DEF ReceiveData, Goto, BodyBecomes, RingInv, TypeOK, BaseTypeOK
<1>2. /\ idx' = [idx EXCEPT ![t] = idx[t]] /\ pos' = [pos EXCEPT ![t] = pos[t]]
      /\ msg' = [msg EXCEPT ![t] = msg[t]]
  BY DEF ReceiveData, RingInv, TypeOK, BaseTypeOK
<1>3. buffer_size # 0 /\ MayHold("store_read", msg[t])
  BY <1>1 DEF RingInv, CallInv, SizedInv, MayHold
<1> HIDE DEF b
<1> QED BY <1>1, <1>2, <1>3, Kept, Before, QuietStep

\* The store that hands the space back.
LEMMA HandOutInv ==
  ASSUME RingInv, NEW t \in Transports, NoteMeetings, ReceiveCommit(t) \/ ReceiveSkip(t)
  PROVE  RingInv'
<1> USE RingAssumption
<1>1. /\ UNCHANGED <<write_index, buffer_size, sizes, data, segments, stores, log, traffic>>
      /\ pc' = [pc EXCEPT ![t] = "idle"] /\ ForgetLocals(t) /\ BodyBecomes(t, <<>>)
      /\ pc[t] \in {"store_read", "skip_header", "skip_message"}
  BY DEF ReceiveCommit, ReceiveSkip, Return, Goto, sizes, history, ForgetLocals, BodyBecomes,
         RingInv, TypeOK, BaseTypeOK
<1>2. buffer_size # 0
  BY <1>1 DEF RingInv, SizedInv
<1>3. idx[t] \in Nat /\ HeaderSize \in Nat
  BY Before DEF Index
<1>4. pc[t] # "skip_header" => Total(msg[t]) \in Nat
  <2> SUFFICES ASSUME pc[t] # "skip_header" PROVE Total(msg[t]) \in Nat
    OBVIOUS
  <2>1. msg[t] \in Message \cup Headers
    BY <1>1 DEF RingInv, CallInv
  <2>2. msg[t].size \in Nat
    BY <2>1 DEF Message, Headers
  <2> QED BY <2>2 DEF Total
<1>5. read_index' \in Index
  BY <1>1, <1>3, <1>4, IndexArithmetic DEF ReceiveCommit, ReceiveSkip, Return, Goto
<1>6. received' \in [Transports -> Seq(Message \cup {Torn})]
  <2>1. CASE ReceiveSkip(t)
    BY <2>1, Kept DEF ReceiveSkip, history
  <2>2. CASE ReceiveCommit(t)
    <3>1. HandedOut(t) \in Message \cup {Torn}
      BY DEF HandedOut
    <3>2. received' = [received EXCEPT ![t] = Append(received[t], HandedOut(t))]
      BY <2>2 DEF ReceiveCommit
    <3> QED BY <3>1, <3>2, Kept
  <2> QED BY <2>1, <2>2
<1>7. "idle" \notin Placed /\ MayHold("idle", NoMsg)
  BY DEF Placed, MayHold
<1> QED BY <1>1, <1>2, <1>5, <1>6, <1>7, Kept, Before, AnyStep DEF ForgetLocals

-----------------------------------------------------------------------------
\* Every step keeps RingInv.
LEMMA RingStep == RingInv /\ [Next]_vars => RingInv'
<1> SUFFICES ASSUME RingInv, [Next]_vars PROVE RingInv'
  OBVIOUS
<1>1. CASE UNCHANGED vars
  BY <1>1 DEF vars, indices, sizes, locals, history, RingInv, TypeOK, BaseTypeOK, SizedInv, CallInv
<1>2. ASSUME NEW t \in Transports,
             Advertise(t) \/ Subscribe(t) \/ Send(t) \/ Receive(t) \/ Crash(t)
      PROVE  RingInv'
  BY <1>2, AdvertiseInv, CrashInv, ReserveInv, CopyInv, LocateInv, HeaderStepInv, DataInv,
     HandOutInv DEF Send, Receive
<1> QED BY <1>1, <1>2 DEF Next

\* The inductive invariant of a segment shared by any transports: no position leaves the
\* ring, no index is used before the ring has a size, and no Receive goes on to a payload
\* that the caller's buffer does not take.
THEOREM RingInvariant == Spec => []RingInv
<1> QED BY RingInit, RingStep, PTL DEF Spec

-----------------------------------------------------------------------------
(* Where copies go. *)

\* What is copied from a position is no longer than Send accepts, or the caller's buffer takes.
LEMMA CopiesBounded ==
  ASSUME RingInv, NEW t \in Transports
  PROVE  /\ pos[t] \in 0 .. BufferSize - 1
         /\ pc[t] \in {"copy_header", "copy_data"} =>
              \E s \in Sizes : HeaderSize + s <= MaxMessageSize /\ Total(msg[t]) = HeaderSize + s
         /\ pc[t] = "read_data" =>
              \E c \in Capacities : Total(msg[t]) \in Nat /\ Total(msg[t]) <= HeaderSize + c
<1> USE RingAssumption
<1>1. pos[t] \in 0 .. BufferSize - 1
  BY Before
<1>2. ASSUME pc[t] \in {"copy_header", "copy_data"}
      PROVE  \E s \in Sizes : HeaderSize + s <= MaxMessageSize /\ Total(msg[t]) = HeaderSize + s
  <2>1. msg[t] \in Message /\ Total(msg[t]) <= MaxMessageSize
    BY <1>2 DEF RingInv, CallInv, Sendable
  <2>2. msg[t].size \in Sizes
    BY <2>1 DEF Message
  <2> QED BY <2>1, <2>2 DEF Total
<1>3. ASSUME pc[t] = "read_data"
      PROVE  \E c \in Capacities : Total(msg[t]) \in Nat /\ Total(msg[t]) <= HeaderSize + c
  <2>1. msg[t] \in Message \cup Headers /\ \E c \in Capacities : c >= msg[t].size
    BY <1>3 DEF RingInv, CallInv, Fits
  <2>2. msg[t].size \in Nat
    BY <2>1 DEF Message, Headers
  <2> QED BY <2>1, <2>2 DEF Total
<1> QED BY <1>1, <1>2, <1>3

\* Whatever a memcpy finds in the ring and whoever shares it, in whatever order its indices
\* are moved and reset, no memcpy of WriteToRingBuffer or ReadFromRingBuffer goes further.
THEOREM CopiesStayNear == Spec => []CopiesNear
<1>1. RingInv => CopiesNear
  <2> SUFFICES ASSUME RingInv, NEW t \in Transports
               PROVE  /\ pos[t] < BufferSize
                      /\ \E n \in {0} \cup {s \in Sizes : HeaderSize + s <= MaxMessageSize} :
                           Writing(t) \subseteq pos[t] .. pos[t] + HeaderSize + n - 1
                      /\ \E n \in {0} \cup Capacities :
                           Reading(t) \subseteq pos[t] .. pos[t] + HeaderSize + n - 1
    BY DEF CopiesNear
  <2> USE RingAssumption
  <2>1. pos[t] \in 0 .. BufferSize - 1
    BY CopiesBounded
  <2>2. \E n \in {0} \cup {s \in Sizes : HeaderSize + s <= MaxMessageSize} :
          Writing(t) \subseteq pos[t] .. pos[t] + HeaderSize + n - 1
    <3>1. CASE pc[t] = "copy_data"
      <4>1. PICK s \in Sizes : HeaderSize + s <= MaxMessageSize /\ Total(msg[t]) = HeaderSize + s
        BY <3>1, CopiesBounded
      <4>2. Writing(t) \subseteq pos[t] .. pos[t] + HeaderSize + s - 1
        BY <2>1, <3>1, <4>1 DEF Writing
      <4> QED BY <4>1, <4>2
    <3>2. CASE pc[t] # "copy_data"
      <4>1. Writing(t) \subseteq pos[t] .. pos[t] + HeaderSize + 0 - 1
        BY <2>1, <3>2 DEF Writing
      <4> QED BY <4>1
    <3> QED BY <3>1, <3>2
  <2>3. \E n \in {0} \cup Capacities : Reading(t) \subseteq pos[t] .. pos[t] + HeaderSize + n - 1
    <3>1. CASE pc[t] = "read_data"
      <4>1. PICK c \in Capacities : Total(msg[t]) \in Nat /\ Total(msg[t]) <= HeaderSize + c
        BY <3>1, CopiesBounded
      <4>2. Reading(t) \subseteq pos[t] .. pos[t] + HeaderSize + c - 1
        BY <2>1, <3>1, <4>1 DEF Reading
      <4> QED BY <4>1, <4>2
    <3>2. CASE pc[t] # "read_data"
      <4>1. Reading(t) \subseteq pos[t] .. pos[t] + HeaderSize + 0 - 1
        BY <2>1, <3>2 DEF Reading
      <4> QED BY <4>1
    <3> QED BY <3>1, <3>2
  <2>4. pos[t] < BufferSize
    BY <2>1
  <2> QED BY <2>2, <2>3, <2>4
<1> QED BY <1>1, RingInvariant, PTL

\* So where what the applications send, and the buffers they receive into, are no longer
\* with a header than what is mapped past the ring's last byte, no memcpy of Send or Receive
\* faults, however many transports share the segment and whatever they find as a header.
THEOREM MappingSuffices ==
  ASSUME HeaderSize <= Slack + 1,
         \A s \in Sizes : HeaderSize + s <= MaxMessageSize => HeaderSize + s <= Slack + 1,
         \A c \in Capacities : HeaderSize + c <= Slack + 1
  PROVE  Spec => [][\A t \in Transports : ~SendOverrun(t) /\ ~ReceiveOverrun(t)]_vars
<1>1. RingInv => \A t \in Transports : ~SendOverrun(t) /\ ~ReceiveOverrun(t)
  <2> SUFFICES ASSUME RingInv, NEW t \in Transports, SendOverrun(t) \/ ReceiveOverrun(t)
               PROVE  FALSE
    OBVIOUS
  <2> USE RingAssumption
  <2>1. \/ /\ pc[t] \in {"copy_header", "read_header"}
           /\ pos[t] + HeaderSize > Mapped
        \/ /\ pc[t] \in {"copy_data", "read_data"}
           /\ pos[t] + Total(msg[t]) > Mapped
    BY DEF SendOverrun, ReceiveOverrun, Goto
  <2>2. pos[t] \in 0 .. BufferSize - 1
    BY CopiesBounded
  <2>3. pc[t] \in {"copy_data", "read_data"} =>
          Total(msg[t]) \in Int /\ Total(msg[t]) <= Slack + 1
    BY CopiesBounded
  <2> QED BY <2>1, <2>2, <2>3 DEF Mapped
<1> QED BY <1>1, RingInvariant, PTL DEF Spec
=============================================================================
