# tiny_dds: specifications, model checks and proofs

tiny_dds is a small C++ data distribution service: participants create topics,
publishers and subscribers; those create data writers and readers; writers and
readers move data through a transport, UDP sockets or shared memory. This
directory holds TLA+ modules translated from its source, the TLC configurations
that check them and the TLAPS proofs about them. Line numbers below are those of
the files under `src/` (the library's own code is `src/src` and `src/include`).

## 1. The system

| Component | State | Operations | Talks to |
|---|---|---|---|
| `SharedMemoryTransport`, the ring | per segment, shared by processes: `write_index`, `read_index` (atomic, 32 bit), `buffer_size`, `max_message_size`, `data`; per transport: `segments_` under `mutex_` | `Advertise`, `Subscribe`, `Send`, `Receive` | the same segment mapped by other transports |
| `SharedMemoryTransport`, the segments | shared memory objects and their names, sizes and mappings | `CreateOrOpenSegment` (`shm_open`, `ftruncate`, `mmap`), `CloseSegment` (`munmap`, `shm_unlink`), the destructor | the kernel, and through it every process |
| `UdpTransport` | `udp_sockets_` under `mutex_`; sockets and ports of the host | `Advertise` = `CreateSocket`, `Subscribe` = `ConnectToSocket`, `Send`, `Receive`, the destructor | the kernel, other transports' sockets |
| `TransportManager` | a map of transports per kind, under `mutex_` | `CreateTransport`, `Advertise`, `Subscribe`, `Send`, `Receive`, `GetTransport` | transports |
| `DomainParticipantImpl`, `PublisherImpl`, `SubscriberImpl`, `TopicImpl`, `DataWriterImpl`, `DataReaderImpl` | a mutex each; the participant's `topics_`, `publishers_`, `subscribers_`, `transport_type_`; the factories' maps of writers and readers | `Create*`, `SetTransportType`, `Write`, `Read`, `Take`, getters, destructors | each other, by shared pointers; a `TransportManager` of its own in every call |
| YAML configuration, `AutoConfigLoader` | a `Config`; maps of participants, topics, publishers, subscribers | load, validate, `CreateEntities`, getters | participants |
| Protobuf serialization, messages | none | serialize, parse | the protobuf library |

The application supplies all threads; the library starts none. Concurrency is
between the application's threads (guarded by the objects' mutexes) and between
processes that map one segment or use one host's ports (guarded by nothing but
two atomic indices and the kernel).

What is hard, and what therefore has to be stated:

* **The ring** is lock-free. A `Send` computes free space from an index the reader
  moves, a `Receive` reads what the writer wrote before it moved its index. Correct
  means: exactly once, in order, whole, no overlapping copies, no access outside the
  mapping, nobody waits for anybody, and a killed process does no harm.
* **The segments** outlive processes and are created, resized and unlinked by each of
  them. Correct means: those who use a topic share one object, large enough for each,
  and the last one leaves nothing behind.
* **UDP** calls fail half-way and datagrams vanish. Correct means: no descriptor is
  lost, nothing arrives twice or out of order, what can arrive does.
* **Entities** check and then act, and call each other. Correct means: the check still
  holds when it is acted on, calls return, what is released is destroyed.
* **Configuration** is loaded again and again into the same maps, and a load may stop
  half-way through creating entities. Correct means: what endpoints refer to is found and is
  their participant's, what was loaded stays there, what is handed out together belongs
  together.

The hazards, each at its line, are in `PROJECT.json`.

## 2. Modules

| Module | Models | Used by |
|---|---|---|
| `TopicChannel` | the abstract promise of a topic between one writer and one reader | `SpscRing` (refinement) |
| `AtMostOnce` | the abstract promise that is left when processes are killed, segments replaced and datagrams lost | `SharedTopics`, `UdpTransport` (refinements) |
| `ParticipantCalls` | the abstract promise of participants: each call takes effect at once | `Entities` (refinement) |
| `ShmRing` | the ring, access by access, with any number of transports | `SpscRing`, `MCShmRing`, `ShmRing_proofs` |
| `SpscRing` | `ShmRing` with one writer and one reader, its inductive invariant and its refinement mapping | `MCSpscRing`, `SpscRing_proofs` |
| `ShmSegments` | shared memory objects, system call by system call | `SharedTopics`, `MCShmSegments`, `ShmSegments_proofs` |
| `SharedTopics` | topics over shared memory from end to end: `ShmSegments` with a ring inside each object | `MCSharedTopics`, `SharedTopics_proofs` |
| `UdpTransport` | UDP transports and the sockets of their hosts | `MCUdpTransport`, `UdpTransport_proofs` |
| `Entities` | `src/src/core` and `TransportManager`, with the application's threads | `MCEntities`, `Entities_proofs` |
| `AutoConfig` | what `config.cc` accepts, and `AutoConfigLoader` | `MCAutoConfig`, `AutoConfig_proofs` |
| `MC*` | values of the constants for TLC | the `.cfg` files |
| `*_proofs` | theorems and their proofs | |

Operators whose comment begins with "Mutant of" are deliberately wrong variants of
the definition below them, one for every checked property; no specification uses them.

### ShmRing

A transport's own `mutex_` admits one call at a time, so a transport has one program
counter `pc[t]`. Each action is one access to the shared segment or one copy into or
out of it:

| Code (`shared_memory_transport.cc`) | Actions |
|---|---|
| `Advertise` 51-78 | `AdvertiseOpen`, four `AdvertiseStore` in any order, `AdvertiseReturn` |
| `Subscribe` 80-100 | `Subscribe` |
| `Send`, `WriteToRingBuffer` 102-123, 202-267 | `SendBegin` (checks, load of `write_index`), `SendReserve` or `SendNoSpace` or `SendDivideByZero` (position, load of `read_index`, space), `SendCopyHeader`, `SendCopyData`, `SendCommit` (store of `write_index`), `SendOverrun` |
| `Receive`, `ReadFromRingBuffer` 125-141, 269-328 | `ReceiveBegin` (load of `read_index`), `ReceiveEmpty` or `ReceiveLocate`, `ReceiveHeader` (copy and four outcomes), `ReceiveData`, `ReceiveCommit`, `ReceiveSkip`, `ReceiveOverrun` |
| a killed process | `Crash` |

What is abstracted, and why it is sound:

* Memory is counted in cells; a cell holds which message was copied there and at which
  offset. `HeaderSize`, `BufferSize`, `MaxMessageSize` and `IndexMod` (2^32 in the
  code) are constants. A message is identified by its sender and the `write_index` it
  was sent at.
* A `memcpy` is not atomic: it lasts as long as `pc` is at its step and takes effect when that step
  is left. `raced` collects its cells that another transport's `memcpy` meets meanwhile; what is
  left there, or where a copy was cut short, is `Unknown`.
* A `Receive` that copies a header out while another copies over it, or where anything but one whole
  header or untouched memory lies, may find any header (`HeadersFound`): none, or payload bytes
  that equal the magic number, its own topic or another one, any size (`AnySize`), since the
  code compares four bytes and the name and believes the rest. Data copied out of such a place is
  `Torn`. With one writer and one reader none of this happens (`RaceFree`, `NothingMet`).
* The position is computed together with the load of the other index; `buffer_size`
  is written by an `Advertise` only. Locals are forgotten when a call returns.
* The four stores of `Advertise` are relaxed or plain and are seen in any order.
* A copy that leaves the mapping is a fault. `Slack` is what is mapped past the ring: the
  padding of the struct and the rest of the last page.
* `received` grows with the store of `read_index`. A process killed between that store
  and its application's use of the message has lost the message; the history counts
  it as received.
* Early returns that change nothing (too large, no such topic, a topic that is in
  `segments_` already) are not steps.
* `BufferSize` is the same for all transports of a segment.

### ShmSegments

One action per system call of `CreateOrOpenSegment` and `CloseSegment`; `linked` is
what a name refers to, `size` an object's size, `segments` each transport's
`segments_`. The kernel frees an object no name and no mapping refers to, and its
identity may then be used again. `Mmap` has no failing branch: the code tests for
`nullptr` (line 174) and `mmap` returns `MAP_FAILED`. `AccessFaults` is the first
access to such a segment, or past the end of an object made smaller. Two history
variables remember what a property has to except: `unlinked`, the names some destructor
has unlinked, and `abandoned`, the names a killed or faulted process or a failed
`ftruncate` has left behind and nobody has unlinked since.

### SharedTopics

`SharedTopics` extends `ShmSegments`: the system calls of a transport are its steps, together with
what they do to the rings (`TopicOpen`, `TopicInitRing`, `TopicKept`, `TopicCrash`); the stores of an
`Advertise` (`TopicStore`) and the calls on a ring (`Send`, `ReceiveBegin`, `ReceiveEnd`) leave the objects
alone. Each topic has one transport that advertises it and another one that subscribes; either
may be killed, destroyed and started again at any step, so that the two may be on different
objects of one name, one after the other.

A ring is the sequence of the messages between its two indices. That a `Send` or a `Receive` may be
taken for so little is what `SpscRing` shows: with one writer and one reader the ring is a
`TopicChannel`. What `SpscRing` leaves out is an `Advertise` while the ring is in use, and so that
is here. It sets the indices to 0 one by one, seen in either order (`:69`, `:70`); `away` says which of
them are not 0. Between the two stores, and for good if the writer is killed between them, the
indices do not belong together: the ring is `torn`. So it is when a `Receive` that has loaded an index
before one of those stores (`stale`) stores its `read_index` after them. The code notices none of
this and goes on through old memory (`:284`-`:327`): `ReceiveStray` may return what lies there, also a
message that was handed out before (`strays`), and stores an index that goes with no other. What a
`Send` puts into such a ring is `dropped`, as is what a reset or a freed object has taken. A ring is
torn until an `Advertise` has set both indices to 0 again, or its object is freed.

`OnceInOrder`, `ImplementsAtMostOnce` and `Delivered` are about what comes out of rings that are not
torn. `StraysNeedRestart` says when a ring can be: only after a transport of the topic was killed or
destroyed or a system call failed. A pair of transports that runs undisturbed never gets there,
however its calls are interleaved, and a writer that is restarted under a running reader may.
`RingLimit` counts messages and stands for the bytes of `buffer_size_`. Transports have one
`buffer_size_` and topics different segment names (`TopicsAssumption`): what else can happen is
in `ShmSegments` and `ShmRing`.

What is left of the promise of `TopicChannel` is `AtMostOnce`, here with one stream and one receiver
for each topic: `sent` is the number of accepted messages, `taken` says which message was handed out
when (`HandedOut`). Kills, restarts, resets, replaced objects and what comes out
of torn rings are stutters of it.

### UdpTransport

`OpenSocket`, `ConfigureFails`, `ConfigurePublisher`, `BindSocket`, `BindFails` and
`StoreSocket` are the stages of `CreateSocket` and `ConnectToSocket`, between which other
processes act. The kernel is external: a port of a host belongs to one socket; an
unbound socket that sends is given an ephemeral port; a datagram to 0.0.0.0 goes to
the sender's own host; a datagram that finds no socket or a full one is dropped without
an error. Loopback does not lose or reorder datagrams. `CloseSocket` is private and has
no caller. The hash is abstracted to `PortOf`, a function of domain and topic.

Here all datagrams are one stream of `AtMostOnce`, and the pairs of a transport and a topic are its
receivers: they are apart because a `Receive` of one topic may be handed a datagram of another one,
whose hash agrees, and still no datagram may come out of two of them.

### Entities

A method that takes a mutex, does one thing and gives it back is a step taken while the
mutex is free (`Free`); `CreateTopic`, `SetTransportType` and `Read` are two steps, and
`owner` says who holds what in between. The constructor of a writer or reader is run
outside the factory's mutex (`ConstructEndpoint`), then `CreateTransport` locks the
manager's `std::mutex` and `GetTransport` locks it again (`transport_manager.cc:40`,
`:103`). That is undefined behaviour; `RelockOutcomes` says which of its outcomes a run
admits: the thread hangs (glibc), an exception ends the call, or nothing is locked (a
program without the threads library). After the last, `CreateDataWriter` dereferences
the topic it has moved from (`publisher_impl.cc:29`, `:34`) and the process ends. Since no
`CreateDataWriter` ever returns a writer, `Write` has no action. `Read` and `Take` ask a
fresh `TransportManager`, which has no transport, and return no data.

`ParticipantCalls` says what all this amounts to for the application: calls that take effect at once.
The variables of its name are those of `Entities`; threads, mutexes and half-done calls are not in it.
A two-step call takes effect in its second step, so that what its first step has checked must still
be true there.

Participants are taken as given: `DomainParticipant::Create` has no state to share. A
participant is released while no thread is in a call of it.

### AutoConfig

A document is a sequence of participants; `Missing` stands for a field that is absent or
is not the scalar the parser asks for, `Malformed` for a scalar whose conversion throws,
`Empty` for the empty string. The predicates `ParseTopicConfig`, `ParsePublisherConfig`,
`ParseDomainParticipantConfig`, `LoadFromYamlNode` and `ValidateConfig` say when the
functions of those names return true, in the order in which the code reads the fields;
`Accepted` is what gets as far as `CreateEntities`. The settings of QoS and transport are
left out but for the conversions that may fail: they are stored and nothing reads them. (A scalar
where the map `qos` is expected makes yaml-cpp throw, so that the code rejects the document; the model
accepts it, and so has more loads that succeed than the code.)

The loader's four maps are functions from names and pairs of names. A participant is
identified by the number of participants made before it, and a topic, publisher or
subscriber by the participant that made it. `CreateEntities` is one step per entity:

| Code (`auto_config.cc`) | Actions |
|---|---|
| `LoadFromFile`, `LoadFromString` 12-42 | `LoadRejected`, `LoadBegins` |
| participants 106-116 | `CreateParticipant` |
| topics 118-127 | `CreateTopic`, `CreateTopicFails` (`DomainParticipantImpl::CreateTopic` returned a null pointer) |
| publishers 129-147, subscribers 149-167 | `CreatePublisher`, `CreateSubscriber`, each with its look-ups (`Associate`) |
| the loops; `return true` 170 | `NextLoop`, `LoadReturns` |
| the getters 52-103 | `GetParticipant`, `GetTopic`, `GetPublisher`, `GetSubscriber` |

`DomainParticipant::Create`, `CreatePublisher` and `CreateSubscriber` return no null pointer.
A loader has no mutex and is used by one thread. `loaded` and `last` are history: the documents
for which a load returned true, and the last of them until another load begins.

## 3. Runs

`pass` runs find no error; each `violation` run exhibits a disagreement between the code
and what its documentation, comments or tests say, quoted in `PROJECT.json`.

| Run (cfg) | Instance | Properties | Result |
|---|---|---|---|
| `SpscRing` | writer, reader killed at any step; ring of 7, messages of 3 or 4, 22 cells of traffic | `IInv`, `DeliveredInOrder`, `UnreadIntact`, `RaceFree`, `NoFault`, `IndicesAdvance`, `RefusalsExact`, `ImplementsChannel`, `DeliversAll` | pass |
| `ShmRingShared` | two transports of two topics on one segment, both advertise and write, one of them also reads and is killed at any step; headers mixed up of several messages, of any size; `read_index` wraps | `RingInv`, `CopiesNear`, `NonBlocking` | pass |
| `Entities` | two threads, a publisher, a subscriber, two names, every relock outcome | `EInv`, `TopicIdentity`, `TransportAgreed`, `ImplementsCalls`, `NoCallBlocksAnother` | pass |
| `Udp` | two transports, one host, three topics, two of them on one port, the third on one that the kernel may also give out, failing system calls | `UdpInv`, `NoDescriptorLeak`, `AtMostOnceInOrder`, `OnlyByCollision`, `ReachesSubscriber` | pass |
| `SharedTopics` | a writer and a polling reader of a topic, both killed and destroyed at any step, failing system calls | `TopicsInv`, `SharedUnlessUnlinked`, `MappingsBacked`, `NoSegmentLeft`, `OnceInOrder`, `StraysNeedRestart`, `ImplementsAtMostOnce`, `Delivered` | pass |
| `AutoConfig` | 37 documents, three loads by one loader | `TInv`, `ReferencesResolve`, `LoadedIsThere`, `LastLoadIsTogether` | pass |
| `RingOverrun` | one cell mapped past the ring | `NoFault` | a message that starts in the last cells leaves the mapping |
| `RingTwoWriters` | two writers of a topic | `RaceFree` | both copy to the same cells |
| `EntitiesHang` | glibc's mutex | `CreationReturns` | `CreateDataReader` never returns |
| `EntitiesLeak` | a participant is released | `ReleasedIsDestroyed` | it is never destroyed |
| `UdpTwoHosts` | two hosts | `ReachesSubscriber` | nothing leaves the host |
| `SegmentsUnlinked` | one of three transports destroyed | `SharedByName` | two objects of one name |

### Known limits of the code outside these runs

Each follows from a line or two, without any interleaving, so no run is spent on it:

* `checksum` is stored as 0 and never compared (`:237`): a payload that was torn, as two writers
  can tear it, is handed out.
* Once `write_index` has wrapped around 2^32 and `read_index` has not, `available_space` is
  `read_index - write_index` (`shared_memory_transport.cc:224`) and `Send` overwrites unread
  messages. The delivery properties are stated, and proved, below 2^32.
* `Advertise` stores 0 in the indices of a segment others may be using (`:69`): what was unread is
  lost. `SharedTopics` counts these messages as `dropped`. If it falls into a `Receive`, or the writer is
  killed before `:70`, old messages may be handed out again (`strays`).
* `Subscribe` before `Advertise` of one topic by one transport leaves the ring
  uninitialised (`:56`), and `Advertise` returns true.
* A topic name of 64 characters or more is cut off in the header (`:244`) and compared
  whole (`:304`): its messages are skipped.
* Every `Advertise` and `Subscribe` truncates the object to its own size (`:166`): a transport
  with a smaller buffer shrinks it under the others. `MappingsBacked` is for equal sizes.
* `mmap` failing is not noticed (`:174`).
* Topics whose names differ only in replaced characters share a segment (`:152`): they share
  its space, and a reader consumes the other's messages.
* `UdpTransport::Subscribe` of a topic the transport advertised returns true without a bound
  socket (`udp_transport.cc:200`); topics whose hashes agree share a port (`:293`); a
  datagram longer than the caller's buffer is cut off (`:118`).
* A configured transport has no effect: `CreateEntities` never calls `SetTransportType`
  (`auto_config.cc:108`, against `src/README.md:134`). `LOCAL_ONLY` (`:130`) does not exist.
* A participant whose name was loaded before is replaced (`auto_config.cc:116`) while topics
  and publishers that only the earlier document names stay under its name; and a load that
  returns false leaves what it has made. The getters then join a participant and another
  one's topics; `LastLoadIsTogether` is about what the last successful load names.

### Bounds

* `TrafficBound`, `ReceiveBound` end the traffic of a ring. 22 cells on a ring of 7 is three
  times around; 3 and 4 do not divide 7, so that messages start at every cell, including
  the last, and the ring is full to the cell. `IndexMod` is larger than the traffic where the
  wrap of the indices is not the question (`SpscAssumption`) and small where it is.
* `ShmRingShared`: a ring of 4 and messages of 3 cells, so that a message started behind another
  runs past the end; no cell mapped past the ring, so that copies leave it; indices modulo 5, which the
  ring does not divide; 6 cells of traffic, which are two messages. `read_index` wraps, since a reader
  skips what it takes for messages; for `write_index` to wrap, a message must end past the ring, which
  takes `Slack = 2` and four times the states. `AnySize` has a size that no message has, and
  `Capacities` a buffer that is too small. The reader stops after one message (`ReceiveBound`), of
  however many it skips. The invariants are proved for all values.
* `FdLimit`, `QueueLimit`, `SendBound`: two descriptors per process, two datagrams per
  socket, two datagrams in all: enough for a full buffer, a pair out of order or handed
  out twice, a third socket that cannot be opened. Three topics on two
  ports: two that collide and one that does not, so that what comes out of a socket may be another
  topic's or may not. The kernel gives out the latter port only, so that it may be taken when its
  topic subscribes, and a publisher's socket of any topic may be handed that topic's datagrams and
  no others. `SYMMETRY` exchanges the two transports, which are alike on one host, and the two
  topics that collide. `ImplementsAtMostOnce` is proved for UDP and not run.
* `ReaderBound`: two readers.
* `Objects`: three, so that a name can be linked, unlinked and linked anew twice while old
  mappings last (four in `SegmentsUnlinked`, with three transports). `RingLimit` and
  `SendBound` are two: a ring can be full, and two messages can lie in one object or in two, where
  they could change their order. One topic: two topics never share an object, which is a part
  of the invariant that is proved (`OneTopicEach`).

`CHECK_DEADLOCK FALSE` is set where the system may really stop: the bounds are
reached, a process has faulted, every thread hangs, or there is nothing left to do. In
`SpscRing` the reader can always poll, and deadlock is checked.

* `AutoConfig`: one or two participants with up to two topics, a publisher and a subscriber,
  whose names, types and references repeat, clash or are missing; three loads (`LoadBound`),
  so that one may fail, or repeat names, between two that succeed.

### Fairness

* `PollingSpec`: weak fairness of the reader's `Subscribe` and `Receive`, and strong fairness
  of a header that is followed by its data, that is: an application that subscribes and
  calls `Receive` in a loop, with a buffer that has room for the message again and again.
  No fairness of the writer. `DeliversAll` is for a reader that is not killed for ever.
* `SharedTopics!PollingSpec`: weak fairness of the reader's subscribing, of each step of its calls
  and of `ReceiveBegin`, and strong fairness of `ReceiveOldest`, that is: its application subscribes,
  polls with a buffer that takes the message again and again, and is started again after a fault. No fairness of the writer. `Delivered` supposes that from some time on the reader is not
  killed or destroyed and its system calls succeed (`Befalls`), and promises what is in an object
  the reader has, or finds under the name (`WithinReach`); a ring that an `Advertise`
  resets, or that is torn, loses what was in it (`dropped`).
* `FairCallsSpec`: a call that has begun goes on (the scheduler runs every thread); no call
  need begin. Killed processes owe nothing.
* `Entities!FairSpec`: strong fairness of each thread's steps within a call. `absl::Mutex`
  hands a mutex to its waiters in turn, so a thread that finds it free again and again
  gets it.

## 4. Proofs

`tlapm` checks every proof with no open leaf. They hold for all values of the constants
that satisfy the named assumptions of the modules.

**SpscRing_proofs** (assumptions `RingAssumption`, `SpscAssumption`: one transport
advertises and sends, another subscribes and receives, of one topic; sizes and header
are arbitrary; traffic stays below 2^32; only the reader is killed). `SpscInvariant`
proves the inductive invariant `IInv`. Neither in-order delivery nor the absence of
overlapping copies is inductive: both need to know where the messages lie.
`IInv` says that accepted messages lie end to end in the index stream up to `write_index`
(`ChainInv`), that the reader has taken a prefix and `read_index` is where it ends
(`PrefixInv`), that unread messages are in memory cell by cell (`MemoryInv`), and what
each side has established at each step of its call (`WriterInv`, `ReaderInv`). The key
lemma, `DistinctCells`, is arithmetic: two offsets less than a ring apart never fall on
one cell, although copies run on past the end of the ring. From `IInv` follow
`InOrder`, `Intact`, `NoDataRace`, `IndicesOnlyAdvance`, `TypeCorrect`, the refinement
`RefinesChannel` (safety of `TopicChannel`), and `ReceiveNeverFaults`: however little is mapped past the ring,
`Receive` copies nothing from outside the mapping, since a `Send` has copied it in there. `Send` itself
does not look at where a message starts. `NoOverrun` says what is safe all the same: messages
no longer than what is mapped from the ring's last cell on. The default ring of 2^20 bytes ends 4080
bytes before a page does, which is enough for payloads of up to 3929 bytes; `RingOverrun` is what
happens to longer ones, which `max_message_size` admits. `RefusalsAreExact` is about the two refusals: a
`Receive` finds nothing only when all that was accepted has been handed out, a `Send` finds no space only
when the message would fill the ring, at the step that loads the other side's index.

**Entities_proofs** (`EntitiesAssumption`, `NoTopicAssumption`). `EntitiesInvariant` proves
`EInv`: a thread between the two halves of a method holds the mutex it took
(`HoldsItsMutex`), so what it checked is still true when it acts (`ChecksStillHold`).
`OneTopicPerName` and `OneTransportType` follow. `TransportAgreed` alone is not
inductive: `SetTransportTypeStore` preserves it only because the participant it is about
to change still has no publisher or subscriber. `CallsTakeEffectAtOnce` is the refinement of
`ParticipantCalls`: every step is one atomic call or a stutter. It needs `EInv` at the second halves:
`CreateTopic` registers a name that still has no topic, `SetTransportType` stores a type while there
is still no publisher or subscriber.

**AutoConfig_proofs** (`ConfigAssumption`: what a document may be). `ConfigInvariant` proves
`CInv`, and `Resolves` from it `ReferencesResolve`. That is not inductive: the endpoints' turn
comes after the loop over the topics, which must have put all of them into the map as
this participant's (`TopicsMade`), and the document must still be the one the parser has
compared the names of (`DocAccepted`). `LoadInvariant` proves `LInv`, which adds what the loops
have passed (`PassedIsThere`); with `Stay`, that no step takes an entry out of a map, it
gives `LoadedStaysThere`. `TogetherInvariant` proves `TInv`, which adds whose the entities are: those made
so far are the current participant's (`OwnInProgress`), and since the loops write under the name of
the participant they are at only (`OthersStay`), the participants they have passed stay
together, if no name repeats (`PassedIsTogether`); `LastIsTogether` follows.

**ShmRing_proofs** (`RingAssumption`: any transports, any of them writing, reading, advertising or
dying at any step, any sizes, any headers found, indices that wrap). `RingInvariant` proves `RingInv`: no
position leaves the ring, and `SizedInv` says why only the first step of a `Send` can divide by a
`buffer_size` of zero: no index but 0 is ever stored before the ring has its size. `CallInv` says what a
call has checked of what it copies: a `Send` the size it was called with, a `Receive` the size
in the header it has found, whatever that header is, against the caller's buffer (`:310`). So
`CopiesStayNear` bounds every copy, whoever shares the ring and however headers are torn: it starts
inside the ring and is as long as a header, a message that `Send` accepts, or what the caller's buffer
takes. `MappingSuffices` says what follows for the mapping: where messages, buffers and headers are no
longer than what is mapped from the last cell on, no copy of `Send` or `Receive` faults, for any number
of writers and readers. Which payload a reader of a segment with several writers gets, nothing here says.

**ShmSegments_proofs** (`SegmentsAssumption`). `SegmentsInvariant` proves `SegInv`: a call in progress opens a topic
the transport has no segment of (`CallInv`), a name no destructor has unlinked refers to what was opened
under it, by segments and by calls (`LinkedInv`), and whoever has passed `ftruncate` finds the object of
its size (`SizeInv`). `SharedUntilUnlinked` and `NothingLeft` follow;
`AlwaysBacked` needs the assumption that all transports have one `buffer_size_`, without which
the code breaks it (`:166`).

**SharedTopics_proofs** (`SegmentsAssumption`, `TopicsAssumption`). Every step is one of `ShmSegments` or
leaves its variables alone, so `SegInv` carries over. `TopicsInvariant` proves `TopicsInv`, and `ReceivedOnceInOrder` from it `OnceInOrder`. The order of what
was received is not inductive: the reader may close one object and find another one under the
name. What must be known is that everything unread, where the reader is or where it would
get to, is later than all it has got (`AheadInv`), that the object under the name holds later
messages than the one the reader is still on (`LaterInv`), and that no object serves two topics
(`OneTopicEach`). `TopicsImplementAtMostOnce` is the refinement of `AtMostOnce`. `StraysOnlyAfterRestart`
proves `StraysNeedRestart`. Its invariant is `KeptInv`: while nothing has befallen a topic, a ring whose
indices have moved is one whose writer has the segment or is unlinking it (`WriterKeeps`), and a
writer that has it does not advertise again (`:55`); so no `Advertise` finds an index other than 0.

**UdpTransport_proofs** (`UdpAssumption`). `UdpInvariant` proves `UdpInv`: what is in `udp_sockets_` or in
a call is an open descriptor, bound to its topic's port once it should be (`StoredInv`, `InCallInv`), a
host's port belongs to one socket (`PortInv`), a datagram lies in one buffer once and not in one
when it was handed out (`QueueInv`, `ReceivedInv`), and what is in the buffer of a topic's socket is later
than all that was received of the topic, also by the sockets before it (`AheadInv`). `DescriptorsKept` and `HandedOutOnceInOrder` follow; `SubscriberReached` supposes
that all transports are on one host (`OneHost`). `UdpTwoHosts` is what happens without it.
`DatagramsImplementAtMostOnce` is the refinement of `AtMostOnce`. `TopicsCrossByCollision` is about ports:
out of a subscriber's socket comes a datagram of another topic only if the hash gives both one port,
even where the kernel gives out the same ports; out of a publisher's socket, which is bound to
no topic's port, only one whose port the kernel gives out. That descriptors are closed and used
again by other sockets makes no difference: a buffer holds datagrams for the port of its socket
only (`AddressInv`), and a subscriber's stored socket is bound to its topic's port (`StoredInv`).

Only model-checked: the liveness properties `DeliversAll`, `NonBlocking`, `NoCallBlocksAnother` and
`Delivered` (liveness under fairness is out of the prover's reach), and the violations. Every invariant
that a passing run checks is a theorem. No module uses `RECURSIVE`; nothing proved here needs induction
over data.

## 5. Not modelled

* YAML syntax: a library.
* Protobuf serialization: stateless calls of a library, used only by an example.
* Callbacks of readers (`SetDataCallback`): stored, never called.
* `DataWriter::Write`: no writer is ever returned (see Entities).
* QoS, addresses, ports and `LOCAL_ONLY` of the documentation: parsed or mentioned, read by
  nothing.
* What two readers of one ring see, and what a reader sees of a segment that several transports
  write: no document or test says what they should, and no property claims anything of deliveries
  there.
* Which old messages come out of a torn ring: only that some may (`strays`).
* A writer that is killed within a `Send` and started again, access by access. In `SpscRing` a writer may
  stop for good at any step, since it has no fairness; one that is started again advertises first, and
  what that does to the ring is in `SharedTopics`.
* The content of a segment that is opened again with another buffer size.

## 6. Plan

Done: the ring with its abstract channel, the segments, topics over both, UDP, entities,
configuration; for each of them an inductive invariant and the safety properties proved; for the
ring, the topics, UDP and the entities an abstract specification and the proof that it is implemented.

Left:

1. A writer and a reader composed with the transports and the managers as they were meant to be
   kept, against `TopicChannel`, to say what the fresh manager of each call costs
   (`data_reader_impl.cc:44`). As the code is, no writer is returned and no run gets there.
2. Transports of different `buffer_size_` on one object: which of `ShmRing`'s properties survive.
3. `SharedTopics` with several readers of a topic, should the code say what they are to see.
