---------------------------- MODULE UdpTransport ----------------------------
(***************************************************************************)
(* UdpTransport objects (src/transport/udp_transport.cc), each in a        *)
(* process of its own, and the sockets of their hosts.                     *)
(*                                                                         *)
(* A transport's mutex_ lets it run one call at a time.  Creating a socket *)
(* is several system calls, any of which may fail; what other processes do *)
(* meanwhile decides whether the port is still free at the bind.  The      *)
(* sockets themselves are external: what the kernel does with a datagram   *)
(* addressed to 0.0.0.0 and with an unbound socket that sends.             *)
(***************************************************************************)
EXTENDS Naturals, Sequences, FiniteSets

CONSTANTS
  Transports,    \* the transports
  HostOf,        \* the host each of them runs on
  DomainOf,      \* its domain_id_
  Topics,        \* topic names
  PortOf,        \* the port that domain and topic name hash to
  Ephemeral,     \* the ports the kernel gives to an unbound socket that sends
  Unbound,       \* the port of a socket that has none
  FdLimit,       \* bound: descriptors a process may have open
  QueueLimit,    \* bound: datagrams a socket's receive buffer takes
  SendBound,     \* bound: datagrams sent
  NoCall         \* a transport that is in no call

Ports == {PortOf[c] : c \in DOMAIN PortOf} \cup Ephemeral

ASSUME UdpAssumption ==
  /\ DOMAIN HostOf = Transports /\ DOMAIN DomainOf = Transports
  /\ DOMAIN PortOf = {DomainOf[t] : t \in Transports} \X Topics
  /\ Unbound \notin Ports
  /\ FdLimit \in Nat /\ QueueLimit \in Nat /\ SendBound \in Nat

VARIABLES
  udp_sockets,  \* of each transport: a record per topic
  open,         \* descriptors: <<transport, number>>
  port, queue,  \* the port a descriptor is bound to and the datagrams in its buffer
  pc, call,     \* per transport: the step it is at, the call it is in
  sent,         \* history: the number of datagrams accepted by Send
  received,     \* what Receive handed out, per transport and topic
  unheard       \* history: accepted while a subscriber of the topic had room, got by none

kernel  == <<open, port, queue>>
history == <<sent, received, unheard>>
vars    == <<udp_sockets, kernel, pc, call, history>>

Descriptors == Transports \X (1 .. FdLimit)
Datagrams   == [from : Transports, topic : Topics, no : Nat]

\* Mutants of GenerateUdpPort: no port; a hash that is not the same for every transport.
GenerateUdpPortUnset(t, topic) == Unbound

GenerateUdpPortOwn(t, topic) ==
  IF t = CHOOSE u \in Transports : TRUE THEN PortOf[<<DomainOf[t], topic>>]
  ELSE CHOOSE p \in Ports : p # PortOf[<<DomainOf[t], topic>>]

GenerateUdpPort(t, topic) == PortOf[<<DomainOf[t], topic>>]

\* Sockets of a host, bound to a port: at most one.
BoundTo(host, p) == {d \in open : HostOf[d[1]] = host /\ port[d] = p}

Init ==
  /\ udp_sockets = [t \in Transports |-> {}]
  /\ open = {}
  /\ port = [d \in Descriptors |-> Unbound]
  /\ queue = [d \in Descriptors |-> <<>>]
  /\ pc = [t \in Transports |-> "idle"]
  /\ call = [t \in Transports |-> NoCall]
  /\ sent = 0
  /\ received = [t \in Transports |-> <<>>]
  /\ unheard = {}

Goto(t, from, to) == pc[t] = from /\ pc' = [pc EXCEPT ![t] = to]

Return(t, from) ==
  /\ Goto(t, from, "idle")
  /\ call' = [call EXCEPT ![t] = NoCall]

\* The kernel forgets a closed descriptor's port and datagrams.
Close(ds) ==
  /\ open' = open \ ds
  /\ port' = [d \in Descriptors |-> IF d \in ds THEN Unbound ELSE port[d]]
  /\ queue' = [d \in Descriptors |-> IF d \in ds THEN <<>> ELSE queue[d]]

-----------------------------------------------------------------------------
(* Advertise is CreateSocket, Subscribe is ConnectToSocket. *)

Knows(t, topic) == \E s \in udp_sockets[t] : s.topic = topic

\* socket() and the options; the descriptor is the lowest one not in use.  (For a topic
\* that has a socket either call returns true, whatever it was made for.)
OpenSocket(t, topic, publisher) ==
  /\ ~Knows(t, topic)
  /\ \E n \in 1 .. FdLimit :
       /\ <<t, n>> \notin open /\ \A k \in 1 .. n - 1 : <<t, k>> \in open
       /\ open' = open \cup {<<t, n>>}
       /\ call' = [call EXCEPT ![t] = [topic |-> topic, publisher |-> publisher,
                                       fd |-> <<t, n>>]]
  /\ Goto(t, "idle", "configure")
  /\ UNCHANGED <<udp_sockets, port, queue, history>>

\* setsockopt or fcntl fails.
ConfigureFails(t) ==
  /\ Return(t, "configure")
  /\ Close({call[t].fd})
  /\ UNCHANGED <<udp_sockets, history>>

ConfigurePublisher(t) ==
  /\ Goto(t, "configure", "store") /\ call[t].publisher
  /\ UNCHANGED <<udp_sockets, kernel, call, history>>

\* Mutant of BindSocket: the bind is forgotten.
BindForgotten(t) ==
  /\ Goto(t, "configure", "store") /\ ~call[t].publisher
  /\ UNCHANGED <<udp_sockets, kernel, call, history>>

BindSocket(t) ==
  /\ Goto(t, "configure", "store") /\ ~call[t].publisher
  /\ BoundTo(HostOf[t], GenerateUdpPort(t, call[t].topic)) = {}
  /\ port' = [port EXCEPT ![call[t].fd] = GenerateUdpPort(t, call[t].topic)]
  /\ UNCHANGED <<udp_sockets, open, queue, call, history>>

\* Mutant of BindFails: the early return forgets to close.
BindFailsOpen(t) ==
  /\ Return(t, "configure") /\ ~call[t].publisher
  /\ BoundTo(HostOf[t], GenerateUdpPort(t, call[t].topic)) # {}
  /\ UNCHANGED <<udp_sockets, kernel, history>>

\* The port is taken.
BindFails(t) ==
  /\ Return(t, "configure") /\ ~call[t].publisher
  /\ BoundTo(HostOf[t], GenerateUdpPort(t, call[t].topic)) # {}
  /\ Close({call[t].fd})
  /\ UNCHANGED <<udp_sockets, history>>

StoreSocket(t) ==
  /\ Return(t, "store")
  /\ udp_sockets' =
       [udp_sockets EXCEPT ![t] = @ \cup
          {[topic |-> call[t].topic, socket_fd |-> call[t].fd,
            port |-> GenerateUdpPort(t, call[t].topic), is_publisher |-> call[t].publisher]}]
  /\ UNCHANGED <<kernel, history>>

-----------------------------------------------------------------------------
(* Send and Receive. *)

\* The port a socket has once it has sent.
PortsAfterSend(d) ==
  IF port[d] # Unbound THEN {port[d]}
  ELSE {p \in Ephemeral : BoundTo(HostOf[d[1]], p) = {}}

Subscribed(d, topic) ==
  \E s \in udp_sockets[d[1]] : s.socket_fd = d /\ s.topic = topic /\ ~s.is_publisher

Room(d) == Len(queue[d]) < QueueLimit

\* Some subscriber of the topic, on whatever host, could take a datagram of transport t.
Audience(t, topic) ==
  \E d \in open : /\ Subscribed(d, topic) /\ Room(d)
                 /\ DomainOf[d[1]] = DomainOf[t]

\* sendto accepts the datagram.  Addressed to 0.0.0.0 it goes to the sender's own host,
\* to the socket bound to the port if its buffer has room, and else nowhere.
Send(t) ==
  /\ pc[t] = "idle" /\ sent < SendBound
  /\ \E s \in udp_sockets[t] : \E p \in PortsAfterSend(s.socket_fd) :
       LET m == [from |-> t, topic |-> s.topic, no |-> sent]
           bound == BoundTo(HostOf[t], s.port) \cup IF p = s.port THEN {s.socket_fd} ELSE {}
           to == {d \in bound : Room(d)}
       IN  /\ port' = [port EXCEPT ![s.socket_fd] = p]
           /\ queue' = [d \in Descriptors |->
                          IF d \in to THEN Append(queue[d], m) ELSE queue[d]]
           /\ unheard' = IF Audience(t, s.topic) /\ \A d \in to : ~Subscribed(d, s.topic)
                         THEN unheard \cup {m} ELSE unheard
  /\ sent' = sent + 1
  /\ UNCHANGED <<udp_sockets, open, pc, call, received>>

\* What Receive returns, with the kind of socket it came from.
Message(s, m) == [topic |-> s.topic, publisher |-> s.is_publisher, msg |-> m]

\* Mutant of Receive: the datagram stays in the buffer.
ReceivePeek(t) ==
  /\ pc[t] = "idle" /\ Len(received[t]) < SendBound + 1
  /\ \E s \in udp_sockets[t] :
       LET d == s.socket_fd
       IN  /\ queue[d] # <<>>
           /\ received' = [received EXCEPT ![t] = Append(@, Message(s, Head(queue[d])))]
  /\ UNCHANGED <<udp_sockets, kernel, pc, call, sent, unheard>>

\* recvfrom hands out the oldest datagram, or what of it the caller's buffer takes, and
\* Receive returns true.  (With an empty buffer it returns false and changes nothing.)
Receive(t) ==
  /\ pc[t] = "idle"
  /\ \E s \in udp_sockets[t] :
       LET d == s.socket_fd
       IN  /\ queue[d] # <<>>
           /\ queue' = [queue EXCEPT ![d] = Tail(@)]
           /\ received' = [received EXCEPT ![t] = Append(@, Message(s, Head(queue[d])))]
  /\ UNCHANGED <<udp_sockets, open, port, pc, call, sent, unheard>>

-----------------------------------------------------------------------------
\* The destructor closes every socket; so does the kernel when the process is killed, at
\* any step.
Destroy(t) ==
  /\ \E d \in open : d[1] = t
  /\ pc' = [pc EXCEPT ![t] = "idle"]
  /\ call' = [call EXCEPT ![t] = NoCall]
  /\ udp_sockets' = [udp_sockets EXCEPT ![t] = {}]
  /\ Close({d \in open : d[1] = t})
  /\ UNCHANGED <<sent, received, unheard>>

Next ==
  \E t \in Transports :
    \/ \E topic \in Topics, publisher \in BOOLEAN : OpenSocket(t, topic, publisher)
    \/ ConfigureFails(t) \/ ConfigurePublisher(t) \/ BindSocket(t) \/ BindFails(t)
    \/ StoreSocket(t) \/ Send(t) \/ Receive(t) \/ Destroy(t)

Spec == Init /\ [][Next]_vars

-----------------------------------------------------------------------------
(* Properties. *)

Sockets  == [topic : Topics, socket_fd : Descriptors, port : Ports, is_publisher : BOOLEAN]
Calls    == [topic : Topics, publisher : BOOLEAN, fd : Descriptors]
Messages == [topic : Topics, publisher : BOOLEAN, msg : Datagrams]

\* Every variable keeps its type.
TypeOK ==
  /\ udp_sockets \in [Transports -> SUBSET Sockets]
  /\ open \subseteq Descriptors
  /\ port \in [Descriptors -> Ports \cup {Unbound}]
  /\ queue \in [Descriptors -> Seq(Datagrams)]
  /\ pc \in [Transports -> {"idle", "configure", "store"}]
  /\ call \in [Transports -> Calls \cup {NoCall}]
  /\ \A t \in Transports : pc[t] # "idle" => call[t] \in Calls
  /\ sent \in Nat /\ unheard \subseteq Datagrams
  /\ received \in [Transports -> Seq(Messages)]

\* Every open descriptor is in udp_sockets_, for one topic, or in the hands of the call
\* that opened it: the early returns of CreateSocket and ConnectToSocket leak none.
NoDescriptorLeak ==
  /\ \A d \in open :
       \/ \E s \in udp_sockets[d[1]] : s.socket_fd = d
       \/ pc[d[1]] # "idle" /\ call[d[1]].fd = d
  /\ \A t \in Transports : \A s1, s2 \in udp_sockets[t] :
       /\ s1.socket_fd \in open
       /\ s1.topic = s2.topic \/ s1.socket_fd = s2.socket_fd => s1 = s2

\* No datagram is handed out twice, to one receiver or to several, and each receiver gets
\* those of one sender in the order they were sent.
AtMostOnceInOrder ==
  \A t, u \in Transports : \A i \in 1 .. Len(received[t]), j \in 1 .. Len(received[u]) :
    LET m == received[t][i].msg
        n == received[u][j].msg
    IN  /\ <<t, i>> # <<u, j>> => m # n
        /\ t = u /\ i < j /\ m.from = n.from /\ received[t][i].topic = received[t][j].topic
             => m.no < n.no

\* All datagrams are one stream, since topics may share a port; a receiver is a topic's
\* socket of a transport.
HandedOut(t, topic) ==
  {[at |-> i, no |-> received[t][i].msg.no + 1] :
     i \in {k \in 1 .. Len(received[t]) : received[t][k].topic = topic}}

Lossy == INSTANCE AtMostOnce WITH
           Streams <- {"datagrams"}, Receivers <- Transports \X Topics,
           StreamOf <- [r \in Transports \X Topics |-> "datagrams"],
           sent  <- [s \in {"datagrams"} |-> sent],
           taken <- [r \in Transports \X Topics |-> HandedOut(r[1], r[2])]

\* The network, the restarts and the ports that collide make a topic lose datagrams and
\* nothing else: what the receivers of all topics are handed, they are handed once, in the
\* order of the Sends, and somebody did send it.
ImplementsAtMostOnce == Lossy!Spec

\* From a socket that Subscribe made, Receive hands out datagrams of the socket's topic and
\* domain, or of those that hash to the same port: nothing else, whatever ports the kernel
\* gives to sockets that send, and whatever sockets are closed and opened under the same
\* descriptor meanwhile.  From a socket that Advertise made it may hand out datagrams too:
\* those that hash to the port the kernel has given to this socket.
OnlyByCollision ==
  \A t \in Transports : \A i \in 1 .. Len(received[t]) :
    LET x       == received[t][i]
        address == GenerateUdpPort(x.msg.from, x.msg.topic)
    IN  /\ ~x.publisher => address = GenerateUdpPort(t, x.topic)
        /\ x.publisher => address \in Ephemeral

\* A datagram that Send accepted goes to a subscriber of its topic and domain if there is
\* one with room for it.
ReachesSubscriber == unheard = {}

-----------------------------------------------------------------------------
(* The inductive invariant. *)

OwnFd(t, fd) == fd \in open /\ fd[1] = t

\* A subscriber's socket is bound to the port of its topic, a publisher's to one the kernel
\* has given it, if to any.
StoredInv(t) ==
  \A s \in udp_sockets[t] :
    /\ OwnFd(t, s.socket_fd)
    /\ s.port = GenerateUdpPort(t, s.topic)
    /\ ~s.is_publisher => port[s.socket_fd] = s.port
    /\ s.is_publisher => port[s.socket_fd] \in Ephemeral \cup {Unbound}

\* A call has a descriptor and a topic that no socket has.
InCallInv(t) ==
  pc[t] # "idle" =>
    /\ OwnFd(t, call[t].fd)
    /\ \A s \in udp_sockets[t] : s.topic # call[t].topic /\ s.socket_fd # call[t].fd
    /\ pc[t] = "store" /\ ~call[t].publisher =>
         port[call[t].fd] = GenerateUdpPort(t, call[t].topic)
    /\ pc[t] = "configure" \/ call[t].publisher => port[call[t].fd] = Unbound

SocketInv == \A t \in Transports : StoredInv(t) /\ InCallInv(t)

\* No two sockets of a host have the same port; a closed one has none.
PortInv ==
  /\ \A d, e \in open : HostOf[d[1]] = HostOf[e[1]] /\ port[d] = port[e] =>
       d = e \/ port[d] = Unbound
  /\ \A d \in Descriptors \ open : port[d] = Unbound /\ queue[d] = <<>>

\* A datagram is in one buffer once, and a buffer holds them as they were sent.
QueueInv ==
  \A d, e \in Descriptors : \A i \in 1 .. Len(queue[d]), j \in 1 .. Len(queue[e]) :
    /\ queue[d][i].no < sent
    /\ queue[d][i].no = queue[e][j].no => d = e /\ i = j
    /\ d = e /\ i < j => queue[d][i].no < queue[d][j].no

\* What was handed out is in no buffer, and was handed out once.
ReceivedInv ==
  \A t, u \in Transports : \A i \in 1 .. Len(received[t]), j \in 1 .. Len(received[u]) :
    /\ received[t][i].msg.no < sent
    /\ \A d \in Descriptors : \A k \in 1 .. Len(queue[d]) : queue[d][k].no # received[t][i].msg.no
    /\ received[t][i].msg.no = received[u][j].msg.no => t = u /\ i = j
    /\ t = u /\ i < j /\ received[t][i].topic = received[t][j].topic =>
         received[t][i].msg.no < received[t][j].msg.no

\* What is in the buffer of a topic's socket is later than what was handed out of the topic.
Ahead(d, x) == \A k \in 1 .. Len(queue[d]) : x.msg.no < queue[d][k].no

AheadInv ==
  \A t \in Transports : \A i \in 1 .. Len(received[t]) :
    /\ \A s \in udp_sockets[t] :
            s.topic = received[t][i].topic => Ahead(s.socket_fd, received[t][i])
    /\ pc[t] # "idle" /\ call[t].topic = received[t][i].topic => Ahead(call[t].fd, received[t][i])

\* What is in a buffer was sent to the socket's port.
AddressInv ==
  \A d \in Descriptors : \A k \in 1 .. Len(queue[d]) :
    GenerateUdpPort(queue[d][k].from, queue[d][k].topic) = port[d]

OneHost == \A t, u \in Transports : HostOf[t] = HostOf[u]

UdpInv ==
  /\ TypeOK /\ NoDescriptorLeak /\ SocketInv /\ PortInv /\ QueueInv /\ ReceivedInv /\ AheadInv
  /\ AddressInv /\ OnlyByCollision
  /\ OneHost => ReachesSubscriber
=============================================================================
