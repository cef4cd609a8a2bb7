------------------------ MODULE UdpTransport_proofs ------------------------
(***************************************************************************)
(* Proofs about UdpTransport, for any number of transports, topics, hosts  *)
(* and descriptors and any assignment of ports.                            *)
(***************************************************************************)
EXTENDS UdpTransport, TLAPS

-----------------------------------------------------------------------------
(* Sequences and ports. *)

\* What Append makes of a sequence.
LEMMA AppendElements ==
  ASSUME NEW S, NEW q \in Seq(S), NEW x \in S
  PROVE  /\ Append(q, x) \in Seq(S) /\ Len(q) \in Nat /\ Len(Append(q, x)) = Len(q) + 1
         /\ \A i \in 1 .. Len(q) : Append(q, x)[i] = q[i]
         /\ Append(q, x)[Len(q) + 1] = x
OBVIOUS

\* What Head and Tail make of a sequence that is not empty.
LEMMA TailElements ==
  ASSUME NEW S, NEW q \in Seq(S), q # <<>>
  PROVE  /\ Tail(q) \in Seq(S) /\ Head(q) \in S /\ Head(q) = q[1] /\ 1 \in 1 .. Len(q)
         /\ \A i \in 1 .. Len(Tail(q)) :
              i \in Nat /\ i + 1 \in 1 .. Len(q) /\ Tail(q)[i] = q[i + 1]
OBVIOUS

\* The elements of a sequence are at its indices.
LEMMA Elements ==
  ASSUME NEW S, NEW q \in Seq(S)
  PROVE  Len(q) \in Nat /\ \A i \in 1 .. Len(q) : q[i] \in S /\ i \in Nat
OBVIOUS

\* What is in a buffer, and what was handed out, are datagrams.
LEMMA QueuedAreDatagrams ==
  ASSUME TypeOK, NEW d \in Descriptors
  PROVE  Len(queue[d]) \in Nat /\ \A k \in 1 .. Len(queue[d]) : queue[d][k] \in Datagrams
BY Elements DEF TypeOK

\* What was handed out was a datagram of a topic.
LEMMA ReceivedAreDatagrams ==
  ASSUME TypeOK, NEW t \in Transports
  PROVE  /\ Len(received[t]) \in Nat
         /\ \A i \in 1 .. Len(received[t]) :
              received[t][i].topic \in Topics /\ received[t][i].msg \in Datagrams
<1>1. received[t] \in Seq(Messages)
  BY DEF TypeOK
<1>2. \A i \in 1 .. Len(received[t]) : received[t][i] \in Messages
  BY <1>1, Elements
<1>3. Len(received[t]) \in Nat
  BY <1>1
<1> QED BY <1>2, <1>3 DEF Messages

\* A topic has a port.
LEMMA TopicsHavePorts ==
  ASSUME NEW t \in Transports, NEW topic \in Topics
  PROVE  GenerateUdpPort(t, topic) \in Ports /\ GenerateUdpPort(t, topic) # Unbound
<1> DEFINE c == <<DomainOf[t], topic>>
<1>1. c \in DOMAIN PortOf
  BY UdpAssumption
<1>2. PortOf[c] \in Ports
  BY <1>1 DEF Ports
<1> QED BY <1>2, UdpAssumption DEF GenerateUdpPort

-----------------------------------------------------------------------------
(* Steps that open and close sockets. *)

\* What a step that hands nothing out and puts nothing into a buffer keeps.
LEMMA BuffersKept ==
  ASSUME TypeOK, QueueInv, ReceivedInv, UNCHANGED history,
         \A d \in Descriptors : queue'[d] \in {queue[d], <<>>}
  PROVE  QueueInv' /\ ReceivedInv'
<1>1. QueueInv'
  BY DEF QueueInv, history
<1>2. \A d \in Descriptors : \A k \in 1 .. Len(queue'[d]) :
        k \in 1 .. Len(queue[d]) /\ queue'[d][k] = queue[d][k]
  OBVIOUS
<1>3. ReceivedInv'
  BY SMTT(20), <1>2 DEF ReceivedInv, history
<1> QED BY <1>1, <1>3

\* What a step that hands nothing out keeps if it empties buffers or leaves them, and the
\* port they have, alone.
LEMMA AddressesKept ==
  ASSUME AddressInv, OnlyByCollision, UNCHANGED history,
         \A d \in Descriptors :
           Len(queue'[d]) = 0 \/ (queue'[d] = queue[d] /\ port'[d] = port[d])
  PROVE  AddressInv' /\ OnlyByCollision'
<1>1. AddressInv'
  BY DEF AddressInv, GenerateUdpPort
<1>2. OnlyByCollision'
  BY DEF OnlyByCollision, GenerateUdpPort, history
<1> QED BY <1>1, <1>2

\* A socket that has no port has been sent nothing.
LEMMA NothingQueued ==
  ASSUME TypeOK, AddressInv, NEW d \in Descriptors, port[d] = Unbound
  PROVE  Len(queue[d]) = 0
<1>1. Len(queue[d]) \in Nat /\ \A k \in 1 .. Len(queue[d]) : queue[d][k] \in Datagrams
  BY QueuedAreDatagrams
<1>2. SUFFICES ASSUME NEW k \in 1 .. Len(queue[d]) PROVE FALSE
  <2>1. ~(1 \in 1 .. Len(queue[d]))
    BY <1>2
  <2> QED BY <1>1, <2>1
<1>3. queue[d][k].from \in Transports /\ queue[d][k].topic \in Topics
  BY <1>1 DEF Datagrams
<1> QED BY <1>3, TopicsHavePorts DEF AddressInv

\* At the start there is no socket.
LEMMA InitUdpInv == Init => UdpInv
<1> SUFFICES ASSUME Init PROVE UdpInv
  OBVIOUS
<1> USE DEF Init
<1>1. TypeOK
  <2>1. <<>> \in Seq(Datagrams) /\ <<>> \in Seq(Messages)
    OBVIOUS
  <2> QED BY <2>1 DEF TypeOK
<1>2. NoDescriptorLeak /\ SocketInv
  BY DEF NoDescriptorLeak, SocketInv, StoredInv, InCallInv
<1>3. PortInv /\ QueueInv
  BY DEF PortInv, QueueInv
<1>4. ReceivedInv /\ AheadInv /\ ReachesSubscriber
  BY DEF ReceivedInv, AheadInv, ReachesSubscriber
<1>5. AddressInv /\ OnlyByCollision
  BY DEF AddressInv, OnlyByCollision
<1> QED BY <1>1, <1>2, <1>3, <1>4, <1>5 DEF UdpInv

\* The new descriptor has neither a port nor datagrams.
LEMMA OpenSocketUdpInv ==
  ASSUME UdpInv, NEW t \in Transports, NEW topic \in Topics, NEW publisher \in BOOLEAN,
         OpenSocket(t, topic, publisher)
  PROVE  UdpInv'
<1> USE DEF UdpInv
<1>1. PICK n \in 1 .. FdLimit :
        /\ <<t, n>> \notin open /\ open' = open \cup {<<t, n>>}
        /\ call' = [call EXCEPT ![t] = [topic |-> topic, publisher |-> publisher,
                                        fd |-> <<t, n>>]]
  BY DEF OpenSocket
<1> DEFINE fd == <<t, n>>
<1>2. /\ UNCHANGED <<udp_sockets, port, queue, history>>
      /\ pc[t] = "idle" /\ pc' = [pc EXCEPT ![t] = "configure"] /\ ~Knows(t, topic)
  BY DEF OpenSocket, Goto
<1>3. fd \in Descriptors /\ fd[1] = t
  BY DEF Descriptors
<1>4. call'[t] \in Calls /\ call'[t].topic = topic /\ call'[t].fd = fd
  BY <1>1, <1>3 DEF TypeOK, Calls
<1> HIDE DEF fd
<1>5. /\ pc'[t] = "configure"
      /\ \A u \in Transports \ {t} : pc'[u] = pc[u] /\ call'[u] = call[u]
  BY <1>1, <1>2 DEF TypeOK
<1>6. open' = open \cup {fd} /\ fd \notin open /\ port[fd] = Unbound /\ queue[fd] = <<>>
  BY <1>1, <1>3 DEF PortInv, fd
<1>7. TypeOK'
  <2>1. call' \in [Transports -> Calls \cup {NoCall}]
    BY <1>1, <1>4 DEF TypeOK
  <2> QED BY <1>2, <1>3, <1>4, <1>5, <1>6, <2>1 DEF TypeOK, history
<1>8. NoDescriptorLeak'
  <2>1. \A d \in open' :
          \/ \E s \in udp_sockets'[d[1]] : s.socket_fd = d
          \/ pc'[d[1]] # "idle" /\ call'[d[1]].fd = d
    <3>1. \A d \in open : d[1] \in Transports
      BY DEF TypeOK, Descriptors
    <3> QED BY <3>1, <1>2, <1>3, <1>4, <1>5, <1>6 DEF NoDescriptorLeak
  <2> QED BY <1>2, <1>6, <2>1 DEF NoDescriptorLeak
<1>9. SocketInv'
  BY <1>2, <1>3, <1>4, <1>5, <1>6 DEF SocketInv, StoredInv, InCallInv, OwnFd, Knows
<1>10. PortInv'
  BY <1>2, <1>6 DEF PortInv
<1>11. QueueInv' /\ ReceivedInv'
  BY <1>2, BuffersKept
<1>12. AheadInv'
  <2> SUFFICES ASSUME NEW u \in Transports, NEW i \in 1 .. Len(received[u])
               PROVE  /\ \A s \in udp_sockets'[u] : s.topic = received[u][i].topic =>
                           \A k \in 1 .. Len(queue'[s.socket_fd]) :
                             received[u][i].msg.no < queue'[s.socket_fd][k].no
                      /\ pc'[u] # "idle" /\ call'[u].topic = received[u][i].topic =>
                           \A k \in 1 .. Len(queue'[call'[u].fd]) :
                             received[u][i].msg.no < queue'[call'[u].fd][k].no
    BY <1>2 DEF AheadInv, Ahead, history
  <2> DEFINE x == received[u][i]
  <2>0. /\ \A s \in udp_sockets[u] : s.topic = x.topic => Ahead(s.socket_fd, x)
        /\ pc[u] # "idle" /\ call[u].topic = x.topic => Ahead(call[u].fd, x)
    BY DEF AheadInv
  <2> HIDE DEF x
  <2>1. Len(queue[fd]) = 0
    BY <1>6
  <2> QED BY <2>0, <2>1, <1>2, <1>4, <1>5 DEF Ahead, x
<1>13. AddressInv' /\ OnlyByCollision'
  BY <1>2, AddressesKept
<1> QED BY <1>2, <1>7, <1>8, <1>9, <1>10, <1>11, <1>12, <1>13 DEF ReachesSubscriber, history

\* Transport t closes descriptors with the records it has of them, and its call ends.
Closes(t, kept, closed) ==
  /\ closed \subseteq Descriptors /\ Close(closed)
  /\ \A d \in closed : d[1] = t
  /\ kept \subseteq udp_sockets[t] /\ \A s \in kept : s.socket_fd \notin closed
  /\ \A d \in open \ closed : d[1] = t => \E s \in kept : s.socket_fd = d
  /\ udp_sockets' = [udp_sockets EXCEPT ![t] = kept]
  /\ pc' = [pc EXCEPT ![t] = "idle"] /\ call' = [call EXCEPT ![t] = NoCall]
  /\ UNCHANGED history

\* Closing descriptors keeps the invariant.
LEMMA ClosingUdpInv ==
  ASSUME UdpInv, NEW t \in Transports, NEW kept, NEW closed, Closes(t, kept, closed)
  PROVE  UdpInv'
<1> USE DEF UdpInv, Closes
<1>1. /\ pc'[t] = "idle" /\ udp_sockets'[t] = kept
      /\ \A u \in Transports \ {t} :
           pc'[u] = pc[u] /\ call'[u] = call[u] /\ udp_sockets'[u] = udp_sockets[u]
  BY DEF TypeOK
<1>2. /\ open' = open \ closed
      /\ \A d \in Descriptors :
           /\ port'[d] = IF d \in closed THEN Unbound ELSE port[d]
           /\ queue'[d] = IF d \in closed THEN <<>> ELSE queue[d]
  BY DEF Close
<1>3. TypeOK'
  <2>1. <<>> \in Seq(Datagrams)
    OBVIOUS
  <2>2. /\ port' \in [Descriptors -> Ports \cup {Unbound}]
        /\ queue' \in [Descriptors -> Seq(Datagrams)]
    BY <2>1 DEF TypeOK, Close
  <2>3. udp_sockets' \in [Transports -> SUBSET Sockets]
    BY DEF TypeOK
  <2> QED BY <1>1, <1>2, <2>2, <2>3 DEF TypeOK, history
<1>4. \A u \in Transports \ {t} : \A d \in Descriptors :
        OwnFd(u, d) => OwnFd(u, d)' /\ d \notin closed
  BY <1>2 DEF OwnFd
<1>5. \A s \in kept :
        s.socket_fd \in Descriptors /\ (OwnFd(t, s.socket_fd) => OwnFd(t, s.socket_fd)')
  BY <1>2 DEF OwnFd, TypeOK, Sockets
<1>6. NoDescriptorLeak'
  <2>1. \A d \in open' :
          \/ \E s \in udp_sockets'[d[1]] : s.socket_fd = d
          \/ pc'[d[1]] # "idle" /\ call'[d[1]].fd = d
    BY <1>1, <1>2 DEF NoDescriptorLeak, TypeOK, Descriptors
  <2>2. \A u \in Transports : \A s1, s2 \in udp_sockets'[u] :
          /\ s1.socket_fd \in open'
          /\ s1.topic = s2.topic \/ s1.socket_fd = s2.socket_fd => s1 = s2
    BY <1>1, <1>2 DEF NoDescriptorLeak, SocketInv, StoredInv, OwnFd
  <2> QED BY <2>1, <2>2 DEF NoDescriptorLeak
<1>7. SocketInv'
  <2> SUFFICES ASSUME NEW u \in Transports PROVE (StoredInv(u) /\ InCallInv(u))'
    BY DEF SocketInv
  <2>0. StoredInv(u) /\ InCallInv(u)
    BY DEF SocketInv
  <2>1. CASE u = t
    BY <2>0, <2>1, <1>1, <1>2, <1>5 DEF StoredInv, InCallInv
  <2>2. CASE u # t
    <3>1. StoredInv(u)'
      BY <2>0, <2>2, <1>1, <1>2, <1>4 DEF StoredInv, TypeOK, Sockets
    <3>2. InCallInv(u)'
      BY <2>0, <2>2, <1>1, <1>2, <1>4 DEF InCallInv, TypeOK, Calls
    <3> QED BY <3>1, <3>2
  <2> QED BY <2>1, <2>2
<1>8. PortInv'
  BY <1>2 DEF PortInv, TypeOK
<1>9. QueueInv' /\ ReceivedInv'
  BY <1>2, BuffersKept
<1>10. AheadInv'
  <2> SUFFICES ASSUME NEW u \in Transports, NEW i \in 1 .. Len(received[u])
               PROVE  /\ \A s \in udp_sockets'[u] : s.topic = received[u][i].topic =>
                           \A k \in 1 .. Len(queue'[s.socket_fd]) :
                             received[u][i].msg.no < queue'[s.socket_fd][k].no
                      /\ pc'[u] # "idle" /\ call'[u].topic = received[u][i].topic =>
                           \A k \in 1 .. Len(queue'[call'[u].fd]) :
                             received[u][i].msg.no < queue'[call'[u].fd][k].no
    BY DEF AheadInv, Ahead, history
  <2> DEFINE x == received[u][i]
  <2>0. /\ \A s \in udp_sockets[u] : s.topic = x.topic => Ahead(s.socket_fd, x)
        /\ pc[u] # "idle" /\ call[u].topic = x.topic => Ahead(call[u].fd, x)
    BY DEF AheadInv
  <2> HIDE DEF x
  <2>1. /\ \A s \in udp_sockets[u] : s.socket_fd \in Descriptors
        /\ pc[u] # "idle" => call[u].fd \in Descriptors
    BY DEF TypeOK, Sockets, Calls
  <2>2. \A d \in Descriptors : \A k \in 1 .. Len(queue'[d]) :
          k \in 1 .. Len(queue[d]) /\ queue'[d][k] = queue[d][k]
    BY <1>2
  <2>3. udp_sockets'[u] \subseteq udp_sockets[u]
    BY <1>1
  <2>4. pc'[u] # "idle" => pc[u] # "idle" /\ call'[u] = call[u]
    BY <1>1
  <2> HIDE DEF UdpInv, Closes
  <2>5. \A d \in Descriptors : Ahead(d, x) =>
          \A k \in 1 .. Len(queue'[d]) : x.msg.no < queue'[d][k].no
    BY <2>2 DEF Ahead
  <2>6. \A s \in udp_sockets'[u] : s.topic = x.topic =>
          \A k \in 1 .. Len(queue'[s.socket_fd]) : x.msg.no < queue'[s.socket_fd][k].no
    BY <2>0, <2>1, <2>3, <2>5
  <2>7. pc'[u] # "idle" /\ call'[u].topic = x.topic =>
          \A k \in 1 .. Len(queue'[call'[u].fd]) : x.msg.no < queue'[call'[u].fd][k].no
    BY <2>0, <2>1, <2>4, <2>5
  <2> QED BY <2>6, <2>7 DEF x
<1>11. AddressInv' /\ OnlyByCollision'
  <2>1. \A d \in Descriptors :
          Len(queue'[d]) = 0 \/ (queue'[d] = queue[d] /\ port'[d] = port[d])
    BY <1>2
  <2> QED BY <2>1, AddressesKept
<1> QED BY <1>3, <1>6, <1>7, <1>8, <1>9, <1>10, <1>11 DEF ReachesSubscriber, history

\* The early returns close the descriptor of the call.
LEMMA EarlyReturnUdpInv ==
  ASSUME UdpInv, NEW t \in Transports, ConfigureFails(t) \/ BindFails(t)
  PROVE  UdpInv'
<1> USE DEF UdpInv
<1>1. /\ pc[t] # "idle" /\ pc' = [pc EXCEPT ![t] = "idle"]
      /\ call' = [call EXCEPT ![t] = NoCall] /\ Close({call[t].fd})
      /\ UNCHANGED <<udp_sockets, history>>
  BY DEF ConfigureFails, BindFails, Return, Goto
<1>2. call[t].fd \in Descriptors /\ call[t].fd[1] = t
  BY <1>1 DEF TypeOK, Calls, SocketInv, InCallInv, OwnFd
<1>3. \A s \in udp_sockets[t] : s.socket_fd # call[t].fd
  BY <1>1 DEF SocketInv, InCallInv
<1>4. \A d \in open \ {call[t].fd} : d[1] = t => \E s \in udp_sockets[t] : s.socket_fd = d
  BY DEF NoDescriptorLeak
<1>5. udp_sockets' = [udp_sockets EXCEPT ![t] = udp_sockets[t]]
  BY <1>1 DEF TypeOK
<1>6. Closes(t, udp_sockets[t], {call[t].fd})
  BY <1>1, <1>2, <1>3, <1>4, <1>5 DEF Closes
<1> QED BY <1>6, ClosingUdpInv

\* The destructor and the end of a process close all.
LEMMA DestroyUdpInv ==
  ASSUME UdpInv, NEW t \in Transports, Destroy(t)
  PROVE  UdpInv'
<1>1. open \subseteq Descriptors
  BY DEF UdpInv, TypeOK
<1>2. Closes(t, {}, {d \in open : d[1] = t})
  BY <1>1 DEF Destroy, Closes, history
<1> QED BY <1>2, ClosingUdpInv

\* The options of a publisher's socket are set; a subscriber's socket gets the port, which
\* no socket of the host has.
LEMMA ConfiguredUdpInv ==
  ASSUME UdpInv, NEW t \in Transports, ConfigurePublisher(t) \/ BindSocket(t)
  PROVE  UdpInv'
<1> USE DEF UdpInv
<1> DEFINE fd == call[t].fd
           p  == IF call[t].publisher THEN port[fd] ELSE GenerateUdpPort(t, call[t].topic)
<1>1. /\ pc[t] = "configure" /\ pc' = [pc EXCEPT ![t] = "store"]
      /\ UNCHANGED <<udp_sockets, open, queue, call, history>>
      /\ port' = [port EXCEPT ![fd] = p]
      /\ ~call[t].publisher => BoundTo(HostOf[t], p) = {}
  <2>1. CASE ConfigurePublisher(t)
    BY <2>1 DEF ConfigurePublisher, Goto, kernel, TypeOK
  <2>2. CASE BindSocket(t)
    BY <2>2 DEF BindSocket, Goto
  <2> QED BY <2>1, <2>2
<1>2. /\ fd \in Descriptors /\ fd \in open /\ fd[1] = t /\ call[t].topic \in Topics
      /\ \A s \in udp_sockets[t] : s.socket_fd # fd
      /\ call[t].publisher \in BOOLEAN
  BY <1>1 DEF TypeOK, Calls, SocketInv, InCallInv, OwnFd
<1>3. p \in Ports \cup {Unbound} /\ (~call[t].publisher => p # Unbound)
  BY <1>2, TopicsHavePorts DEF TypeOK
<1> HIDE DEF fd
<1>4. /\ port'[fd] = p
      /\ \A d \in Descriptors \ {fd} : port'[d] = port[d]
      /\ \A u \in Transports \ {t} : pc'[u] = pc[u]
      /\ pc'[t] = "store" /\ pc'[t] # "idle"
  BY <1>1, <1>2 DEF TypeOK
<1>5. TypeOK'
  BY <1>1, <1>2, <1>3, <1>4 DEF TypeOK, history
<1>6. NoDescriptorLeak'
  BY <1>1, <1>4 DEF NoDescriptorLeak, TypeOK, Descriptors
<1>7. SocketInv'
  <2> SUFFICES ASSUME NEW u \in Transports PROVE (StoredInv(u) /\ InCallInv(u))'
    BY DEF SocketInv
  <2>0. StoredInv(u) /\ InCallInv(u)
    BY DEF SocketInv
  <2>1. \A s \in udp_sockets[u] : s.socket_fd \in Descriptors \ {fd}
    BY <2>0, <1>2 DEF StoredInv, OwnFd, TypeOK, Sockets
  <2>2. StoredInv(u)'
    BY <2>0, <2>1, <1>1, <1>4 DEF StoredInv, OwnFd
  <2>3. CASE u = t
    <3>1. InCallInv(t)'
      BY <2>0, <2>3, <1>1, <1>4 DEF InCallInv, OwnFd, fd
    <3> QED BY <2>2, <2>3, <3>1
  <2>4. CASE u # t
    <3>1. pc[u] # "idle" => call[u].fd \in Descriptors \ {fd}
      BY <2>0, <2>4, <1>2 DEF InCallInv, OwnFd, TypeOK, Calls
    <3>2. InCallInv(u)'
      BY <2>0, <2>4, <3>1, <1>1, <1>4 DEF InCallInv, OwnFd
    <3> QED BY <2>2, <3>2
  <2> QED BY <2>3, <2>4
<1>8. PortInv'
  <2>1. \A d \in open : HostOf[d[1]] = HostOf[t] /\ port[d] = p =>
          d = fd \/ p = Unbound \/ call[t].publisher
    BY <1>1 DEF BoundTo
  <2>2. CASE call[t].publisher
    BY <1>1, <1>2, <1>4, <2>2 DEF PortInv, TypeOK
  <2>3. CASE ~call[t].publisher
    BY <1>1, <1>2, <1>4, <2>1, <2>3 DEF PortInv, TypeOK
  <2> QED BY <2>2, <2>3
<1>9. QueueInv' /\ ReceivedInv'
  BY <1>1, BuffersKept
<1>10. AheadInv'
  BY <1>1, <1>4 DEF AheadInv, Ahead, history
<1>11. AddressInv' /\ OnlyByCollision'
  <2>1. Len(queue'[fd]) = 0
    <3>1. port[fd] = Unbound
      BY <1>1 DEF SocketInv, InCallInv, fd
    <3> QED BY <1>1, <1>2, <3>1, NothingQueued
  <2>2. \A d \in Descriptors \ {fd} : queue'[d] = queue[d] /\ port'[d] = port[d]
    BY <1>1, <1>4
  <2> QED BY <2>1, <2>2, <1>1, AddressesKept
<1> QED BY <1>1, <1>5, <1>6, <1>7, <1>8, <1>9, <1>10, <1>11 DEF ReachesSubscriber, history

\* The descriptor passes from the call to udp_sockets_.
LEMMA StoreSocketUdpInv ==
  ASSUME UdpInv, NEW t \in Transports, StoreSocket(t)
  PROVE  UdpInv'
<1> USE DEF UdpInv
<1> DEFINE new == [topic |-> call[t].topic, socket_fd |-> call[t].fd,
                   port |-> GenerateUdpPort(t, call[t].topic),
                   is_publisher |-> call[t].publisher]
<1>1. /\ pc[t] = "store" /\ pc' = [pc EXCEPT ![t] = "idle"]
      /\ call' = [call EXCEPT ![t] = NoCall]
      /\ UNCHANGED <<open, port, queue, history>>
      /\ udp_sockets' = [udp_sockets EXCEPT ![t] = udp_sockets[t] \cup {new}]
  BY DEF StoreSocket, Return, Goto, kernel
<1>2. call[t] \in Calls /\ InCallInv(t)
  BY <1>1 DEF TypeOK, SocketInv
<1>3. new \in Sockets
  BY <1>2, TopicsHavePorts DEF Calls, Sockets
<1>4. /\ new.topic = call[t].topic /\ new.socket_fd = call[t].fd
      /\ new.port = GenerateUdpPort(t, new.topic) /\ new.is_publisher = call[t].publisher
  OBVIOUS
<1> HIDE DEF new
<1>5. /\ pc'[t] = "idle" /\ udp_sockets'[t] = udp_sockets[t] \cup {new}
      /\ \A u \in Transports \ {t} :
           pc'[u] = pc[u] /\ call'[u] = call[u] /\ udp_sockets'[u] = udp_sockets[u]
  BY <1>1 DEF TypeOK
<1>6. TypeOK'
  <2>1. udp_sockets' \in [Transports -> SUBSET Sockets]
    BY <1>1, <1>3 DEF TypeOK
  <2> QED BY <1>1, <1>5, <2>1 DEF TypeOK, history
<1>7. \A s \in udp_sockets[t] : s.topic # new.topic /\ s.socket_fd # new.socket_fd
  BY <1>1, <1>2, <1>4 DEF InCallInv
<1>8. NoDescriptorLeak'
  <2>1. \A d \in open :
          \/ \E s \in udp_sockets'[d[1]] : s.socket_fd = d
          \/ pc'[d[1]] # "idle" /\ call'[d[1]].fd = d
    <3>1. \A d \in open : d[1] \in Transports
      BY DEF TypeOK, Descriptors
    <3> QED BY <3>1, <1>4, <1>5 DEF NoDescriptorLeak
  <2>2. new.socket_fd \in open
    BY <1>1, <1>2, <1>4 DEF InCallInv, OwnFd
  <2>3. \A u \in Transports : \A s1, s2 \in udp_sockets'[u] :
          /\ s1.socket_fd \in open
          /\ s1.topic = s2.topic \/ s1.socket_fd = s2.socket_fd => s1 = s2
    BY <1>5, <1>7, <2>2 DEF NoDescriptorLeak
  <2> QED BY <1>1, <2>1, <2>3 DEF NoDescriptorLeak
<1>9. SocketInv'
  <2> SUFFICES ASSUME NEW u \in Transports PROVE (StoredInv(u) /\ InCallInv(u))'
    BY DEF SocketInv
  <2>0. StoredInv(u) /\ InCallInv(u)
    BY DEF SocketInv
  <2>1. CASE u = t
    <3>1. /\ OwnFd(t, new.socket_fd)
          /\ ~new.is_publisher => port[new.socket_fd] = new.port
          /\ new.is_publisher => port[new.socket_fd] = Unbound
      BY <1>1, <1>2, <1>4 DEF InCallInv
    <3>2. StoredInv(t)'
      BY <2>0, <2>1, <3>1, <1>1, <1>4, <1>5 DEF StoredInv, OwnFd
    <3> QED BY <2>1, <3>2, <1>5 DEF InCallInv
  <2>2. CASE u # t
    BY <2>0, <2>2, <1>1, <1>5 DEF StoredInv, InCallInv, OwnFd
  <2> QED BY <2>1, <2>2
<1>10. PortInv'
  BY <1>1 DEF PortInv
<1>11. QueueInv' /\ ReceivedInv'
  BY <1>1, BuffersKept
<1>12. AheadInv'
  <2> SUFFICES ASSUME NEW u \in Transports, NEW i \in 1 .. Len(received[u])
               PROVE  /\ \A s \in udp_sockets'[u] : s.topic = received[u][i].topic =>
                           Ahead(s.socket_fd, received[u][i])
                      /\ pc'[u] # "idle" /\ call'[u].topic = received[u][i].topic =>
                           Ahead(call'[u].fd, received[u][i])
    BY <1>1 DEF AheadInv, Ahead, history
  <2>1. /\ \A s \in udp_sockets[u] :
             s.topic = received[u][i].topic => Ahead(s.socket_fd, received[u][i])
        /\ pc[u] # "idle" /\ call[u].topic = received[u][i].topic =>
             Ahead(call[u].fd, received[u][i])
    BY DEF AheadInv
  <2> QED BY <2>1, <1>1, <1>4, <1>5
<1>13. AddressInv' /\ OnlyByCollision'
  BY <1>1, AddressesKept
<1> QED BY <1>1, <1>6, <1>8, <1>9, <1>10, <1>11, <1>12, <1>13 DEF ReachesSubscriber, history

-----------------------------------------------------------------------------
(* Send and Receive. *)

\* A datagram goes into one buffer at most, and is later than all that were accepted before.
LEMMA SendUdpInv ==
  ASSUME UdpInv, NEW t \in Transports, Send(t)
  PROVE  UdpInv'
<1> USE DEF UdpInv
<1>0. PICK s \in udp_sockets[t] : \E p \in PortsAfterSend(s.socket_fd) :
        LET m == [from |-> t, topic |-> s.topic, no |-> sent]
            bound == BoundTo(HostOf[t], s.port) \cup IF p = s.port THEN {s.socket_fd} ELSE {}
            to == {d \in bound : Room(d)}
        IN  /\ port' = [port EXCEPT ![s.socket_fd] = p]
            /\ queue' = [d \in Descriptors |->
                           IF d \in to THEN Append(queue[d], m) ELSE queue[d]]
            /\ unheard' = IF Audience(t, s.topic) /\ \A d \in to : ~Subscribed(d, s.topic)
                          THEN unheard \cup {m} ELSE unheard
  BY DEF Send
<1> DEFINE fd == s.socket_fd
           m  == [from |-> t, topic |-> s.topic, no |-> sent]
<1>1. PICK p \in PortsAfterSend(fd) :
        LET bound == BoundTo(HostOf[t], s.port) \cup IF p = s.port THEN {fd} ELSE {}
            to == {d \in bound : Room(d)}
        IN  /\ port' = [port EXCEPT ![fd] = p]
            /\ queue' = [d \in Descriptors |->
                           IF d \in to THEN Append(queue[d], m) ELSE queue[d]]
            /\ unheard' = IF Audience(t, s.topic) /\ \A d \in to : ~Subscribed(d, s.topic)
                          THEN unheard \cup {m} ELSE unheard
  BY <1>0
<1> DEFINE bound == BoundTo(HostOf[t], s.port) \cup IF p = s.port THEN {fd} ELSE {}
           to == {d \in bound : Room(d)}
<1>2. /\ pc[t] = "idle" /\ sent' = sent + 1
      /\ UNCHANGED <<udp_sockets, open, pc, call, received>>
  BY DEF Send
<1>3. /\ fd \in Descriptors /\ fd \in open /\ fd[1] = t /\ s.topic \in Topics
      /\ s.port = GenerateUdpPort(t, s.topic) /\ s.port \in Ports /\ s.port # Unbound
  BY TopicsHavePorts DEF TypeOK, Sockets, SocketInv, StoredInv, OwnFd
<1>4. m \in Datagrams /\ m.no = sent /\ sent \in Nat
  BY <1>3 DEF Datagrams, TypeOK
<1>5. \A d \in Descriptors : queue'[d] = IF d \in to THEN Append(queue[d], m) ELSE queue[d]
  BY <1>1
<1>6. unheard' \in {unheard, unheard \cup {m}}
  BY <1>1
<1> HIDE DEF m
<1>7. /\ p \in Ports \cup {Unbound}
      /\ port[fd] # Unbound => p = port[fd]
      /\ port[fd] = Unbound => p # Unbound /\ BoundTo(HostOf[t], p) = {}
  BY <1>3, UdpAssumption DEF PortsAfterSend, TypeOK, Ports
<1>8. port'[fd] = p /\ \A d \in Descriptors \ {fd} : port'[d] = port[d]
  BY <1>1, <1>3 DEF TypeOK
<1>9. \A d, e \in to : d \in Descriptors /\ d = e
  <2>1. \A d, e \in BoundTo(HostOf[t], s.port) : d = e
    BY <1>3 DEF BoundTo, PortInv
  <2>2. p = s.port => fd \in BoundTo(HostOf[t], s.port) \/ BoundTo(HostOf[t], s.port) = {}
    BY <1>3, <1>7 DEF BoundTo
  <2>3. bound \subseteq Descriptors
    BY <1>3 DEF BoundTo, TypeOK
  <2> QED BY <2>1, <2>2, <2>3
<1>10. \A d \in Descriptors : \A k \in 1 .. Len(queue'[d]) :
         \/ k \in 1 .. Len(queue[d]) /\ queue'[d][k] = queue[d][k]
         \/ d \in to /\ queue'[d][k].no = sent /\ k = Len(queue[d]) + 1
  <2> SUFFICES ASSUME NEW d \in Descriptors, NEW k \in 1 .. Len(queue'[d])
               PROVE  \/ k \in 1 .. Len(queue[d]) /\ queue'[d][k] = queue[d][k]
                      \/ d \in to /\ queue'[d][k].no = sent /\ k = Len(queue[d]) + 1
    OBVIOUS
  <2>1. queue[d] \in Seq(Datagrams)
    BY DEF TypeOK
  <2>2. CASE d \in to
    <3>1. queue'[d] = Append(queue[d], m)
      BY <1>5, <2>2
    <3> HIDE DEF to
    <3> QED BY <2>1, <2>2, <3>1, <1>4, AppendElements
  <2>3. CASE d \notin to
    BY <1>5, <2>3
  <2> QED BY <2>2, <2>3
<1>11. TypeOK'
  <2>1. queue' \in [Descriptors -> Seq(Datagrams)]
    <3> DEFINE q(d) == IF d \in to THEN Append(queue[d], m) ELSE queue[d]
    <3>1. \A d \in Descriptors : q(d) \in Seq(Datagrams)
      BY <1>4, AppendElements DEF TypeOK
    <3>2. queue' = [d \in Descriptors |-> q(d)]
      BY <1>1 DEF m
    <3> HIDE DEF q
    <3> QED BY <3>1, <3>2
  <2>2. port' \in [Descriptors -> Ports \cup {Unbound}]
    BY <1>1, <1>3, <1>7 DEF TypeOK
  <2>3. sent' \in Nat /\ unheard' \subseteq Datagrams
    BY <1>2, <1>4, <1>6 DEF TypeOK
  <2> QED BY <1>2, <2>1, <2>2, <2>3 DEF TypeOK
<1>12. NoDescriptorLeak'
  BY <1>2 DEF NoDescriptorLeak
<1>13. SocketInv'
  <2>1. /\ \A d \in Descriptors : port[d] # Unbound => port'[d] = port[d]
        /\ \A d \in Descriptors : port'[d] \in {port[d]} \cup Ephemeral
        /\ \A d \in Descriptors \ {fd} : port'[d] = port[d]
    <3>1. p \in {port[fd]} \cup Ephemeral
      BY DEF PortsAfterSend
    <3> QED BY <3>1, <1>7, <1>8
  <2> SUFFICES ASSUME NEW u \in Transports PROVE (StoredInv(u) /\ InCallInv(u))'
    BY DEF SocketInv
  <2>0. StoredInv(u) /\ InCallInv(u)
    BY DEF SocketInv
  <2>2. StoredInv(u)'
    <3>1. \A s2 \in udp_sockets[u] :
            s2.socket_fd \in Descriptors /\ s2.topic \in Topics /\ s2.port # Unbound
      BY <2>0, TopicsHavePorts DEF StoredInv, TypeOK, Sockets
    <3> QED BY <2>0, <2>1, <3>1, <1>2 DEF StoredInv, OwnFd
  <2>3. InCallInv(u)'
    <3>1. pc[u] # "idle" =>
            /\ call[u].fd \in Descriptors /\ call[u].topic \in Topics /\ call[u].fd # fd
            /\ pc[u] \in {"configure", "store"}
      BY <2>0, <1>2, <1>3 DEF TypeOK, Calls, InCallInv, OwnFd
    <3> QED BY <2>0, <2>1, <3>1, <1>2, TopicsHavePorts DEF InCallInv, OwnFd
  <2> QED BY <2>2, <2>3
<1>14. PortInv'
  <2>1. port[fd] = Unbound => \A d \in open : HostOf[d[1]] = HostOf[t] => port[d] # p
    BY <1>7 DEF BoundTo
  <2>2. \A d \in Descriptors \ open : port'[d] = Unbound /\ queue'[d] = <<>>
    <3>1. \A d \in Descriptors \ open : d \notin to
      BY <1>3 DEF BoundTo
    <3> QED BY <3>1, <1>3, <1>5, <1>8 DEF PortInv
  <2>3. \A d, e \in open : HostOf[d[1]] = HostOf[e[1]] /\ port'[d] = port'[e] =>
          d = e \/ port'[d] = Unbound
    <3>1. open \subseteq Descriptors
      BY DEF TypeOK
    <3>2. \A d, e \in open : HostOf[d[1]] = HostOf[e[1]] /\ port[d] = port[e] =>
            d = e \/ port[d] = Unbound
      BY DEF PortInv
    <3>3. CASE port[fd] # Unbound
      BY <3>1, <3>2, <3>3, <1>7, <1>8
    <3>4. CASE port[fd] = Unbound
      BY <2>1, <3>1, <3>2, <3>4, <1>3, <1>8
    <3> QED BY <3>3, <3>4
  <2> QED BY <1>2, <2>2, <2>3 DEF PortInv
<1> HIDE DEF to
<1>15. QueueInv'
  <2>1. \A d \in Descriptors : \A k \in 1 .. Len(queue[d]) : queue[d][k].no \in Nat
    BY QueuedAreDatagrams DEF Datagrams
  <2>2. \A d \in Descriptors : Len(queue[d]) \in Nat
    BY QueuedAreDatagrams
  <2> SUFFICES ASSUME NEW d \in Descriptors, NEW e \in Descriptors,
                      NEW i \in 1 .. Len(queue'[d]), NEW j \in 1 .. Len(queue'[e])
               PROVE  /\ queue'[d][i].no < sent + 1
                      /\ queue'[d][i].no = queue'[e][j].no => d = e /\ i = j
                      /\ d = e /\ i < j => queue'[d][i].no < queue'[d][j].no
    BY <1>2 DEF QueueInv
  <2>3. \/ i \in 1 .. Len(queue[d]) /\ queue'[d][i] = queue[d][i]
        \/ d \in to /\ queue'[d][i].no = sent /\ i = Len(queue[d]) + 1
    BY <1>10
  <2>4. \/ j \in 1 .. Len(queue[e]) /\ queue'[e][j] = queue[e][j]
        \/ e \in to /\ queue'[e][j].no = sent /\ j = Len(queue[e]) + 1
    BY <1>10
  <2>5. CASE /\ i \in 1 .. Len(queue[d]) /\ queue'[d][i] = queue[d][i]
             /\ j \in 1 .. Len(queue[e]) /\ queue'[e][j] = queue[e][j]
    <3>1. /\ queue[d][i].no < sent
          /\ queue[d][i].no = queue[e][j].no => d = e /\ i = j
          /\ d = e /\ i < j => queue[d][i].no < queue[d][j].no
      BY <2>5 DEF QueueInv
    <3> HIDE DEF UdpInv
    <3> QED BY <2>1, <2>5, <3>1, <1>4
  <2>6. CASE /\ i \in 1 .. Len(queue[d]) /\ queue'[d][i] = queue[d][i]
             /\ e \in to /\ queue'[e][j].no = sent /\ j = Len(queue[e]) + 1
    <3>1. queue[d][i].no < sent
      BY <2>6 DEF QueueInv
    <3> QED BY SMTT(20), <2>1, <2>6, <3>1, <1>4
  <2>7. CASE /\ d \in to /\ queue'[d][i].no = sent /\ i = Len(queue[d]) + 1
             /\ j \in 1 .. Len(queue[e]) /\ queue'[e][j] = queue[e][j]
    <3>1. queue[e][j].no < sent
      BY <2>7 DEF QueueInv
    <3> QED BY <2>1, <2>2, <2>7, <3>1, <1>4
  <2>8. CASE /\ d \in to /\ queue'[d][i].no = sent /\ i = Len(queue[d]) + 1
             /\ e \in to /\ queue'[e][j].no = sent /\ j = Len(queue[e]) + 1
    BY <2>2, <2>8, <1>4, <1>9
  <2> QED BY <2>3, <2>4, <2>5, <2>6, <2>7, <2>8
<1>16. \A u \in Transports : \A i \in 1 .. Len(received[u]) :
         received[u][i].msg.no \in Nat /\ received[u][i].msg.no < sent
  BY ReceivedAreDatagrams DEF Datagrams, ReceivedInv
<1>17. ReceivedInv'
  <2>1. \A u \in Transports : \A i \in 1 .. Len(received[u]) :
          /\ received[u][i].msg.no < sent + 1
          /\ \A d \in Descriptors : \A k \in 1 .. Len(queue'[d]) :
               queue'[d][k].no # received[u][i].msg.no
    <3> SUFFICES ASSUME NEW u \in Transports, NEW i \in 1 .. Len(received[u])
                 PROVE  /\ received[u][i].msg.no < sent + 1
                        /\ \A d \in Descriptors : \A k \in 1 .. Len(queue'[d]) :
                             queue'[d][k].no # received[u][i].msg.no
      OBVIOUS
    <3>1. \A d \in Descriptors : \A k \in 1 .. Len(queue[d]) :
            queue[d][k].no # received[u][i].msg.no
      BY DEF ReceivedInv
    <3>2. received[u][i].msg.no \in Nat /\ received[u][i].msg.no < sent
      BY <1>16
    <3> QED BY SMTT(20), <3>1, <3>2, <1>4, <1>10
  <2> QED BY SMTT(20), <1>2, <2>1 DEF ReceivedInv
<1>18. AheadInv'
  <2> SUFFICES ASSUME NEW u \in Transports, NEW i \in 1 .. Len(received[u])
               PROVE  /\ \A s2 \in udp_sockets[u] : s2.topic = received[u][i].topic =>
                           \A k \in 1 .. Len(queue'[s2.socket_fd]) :
                             received[u][i].msg.no < queue'[s2.socket_fd][k].no
                      /\ pc[u] # "idle" /\ call[u].topic = received[u][i].topic =>
                           \A k \in 1 .. Len(queue'[call[u].fd]) :
                             received[u][i].msg.no < queue'[call[u].fd][k].no
    BY <1>2 DEF AheadInv, Ahead
  <2> DEFINE x == received[u][i]
  <2>0. /\ \A s2 \in udp_sockets[u] : s2.topic = x.topic => Ahead(s2.socket_fd, x)
        /\ pc[u] # "idle" /\ call[u].topic = x.topic => Ahead(call[u].fd, x)
        /\ x.msg.no < sent
    BY <1>16 DEF AheadInv
  <2> HIDE DEF x
  <2>1. /\ \A s2 \in udp_sockets[u] : s2.socket_fd \in Descriptors
        /\ pc[u] # "idle" => call[u].fd \in Descriptors
    BY DEF TypeOK, Sockets, Calls
  <2>2. \A d \in Descriptors :
          Ahead(d, x) => \A k \in 1 .. Len(queue'[d]) : x.msg.no < queue'[d][k].no
    BY <2>0, <1>10 DEF Ahead
  <2> QED BY <2>0, <2>1, <2>2 DEF x
<1>19. OneHost => ReachesSubscriber'
  <2> SUFFICES ASSUME OneHost, Audience(t, s.topic), \A d \in to : ~Subscribed(d, s.topic)
               PROVE  FALSE
    BY <1>1 DEF ReachesSubscriber, m, to
  <2>1. PICK d \in open : /\ Subscribed(d, s.topic) /\ Room(d)
                          /\ DomainOf[d[1]] = DomainOf[t]
    BY DEF Audience
  <2>2. d \in Descriptors /\ d[1] \in Transports
    BY DEF TypeOK, Descriptors
  <2>3. port[d] = GenerateUdpPort(d[1], s.topic)
    BY <2>1, <2>2 DEF Subscribed, SocketInv, StoredInv
  <2>4. port[d] = s.port
    BY <2>1, <2>3, <1>3 DEF GenerateUdpPort
  <2>5. d \in BoundTo(HostOf[t], s.port)
    BY <2>2, <2>4 DEF BoundTo, OneHost
  <2>6. d \in to
    BY <2>1, <2>5 DEF to
  <2> QED BY <2>1, <2>6
<1>20. AddressInv'
  <2> SUFFICES ASSUME NEW d \in Descriptors, NEW k \in 1 .. Len(queue'[d])
               PROVE  GenerateUdpPort(queue'[d][k].from, queue'[d][k].topic) = port'[d]
    BY DEF AddressInv, GenerateUdpPort
  <2>1. CASE k \in 1 .. Len(queue[d]) /\ queue'[d][k] = queue[d][k]
    <3>1. port[d] # Unbound
      BY <2>1, NothingQueued
    <3>2. port'[d] = port[d]
      BY <3>1, <1>7, <1>8
    <3> QED BY <2>1, <3>2 DEF AddressInv
  <2>2. CASE d \in to /\ k = Len(queue[d]) + 1
    <3>1. queue'[d][k] = m
      <4>1. queue[d] \in Seq(Datagrams)
        BY DEF TypeOK
      <4>2. queue'[d] = Append(queue[d], m)
        BY <1>5, <2>2
      <4> QED BY <4>1, <4>2, <2>2, <1>4, AppendElements
    <3>2. port'[d] = s.port
      BY <2>2, <1>3, <1>7, <1>8 DEF to, BoundTo
    <3> QED BY <3>1, <3>2, <1>3 DEF m
  <2> QED BY <2>1, <2>2, <1>10
<1>21. OnlyByCollision'
  BY <1>2 DEF OnlyByCollision, GenerateUdpPort
<1> QED BY <1>11, <1>12, <1>13, <1>14, <1>15, <1>17, <1>18, <1>19, <1>20, <1>21

\* A datagram leaves its buffer when it is handed out, the oldest first.
LEMMA ReceiveUdpInv ==
  ASSUME UdpInv, NEW t \in Transports, Receive(t)
  PROVE  UdpInv'
<1> USE DEF UdpInv
<1>1. PICK s \in udp_sockets[t] :
        /\ queue[s.socket_fd] # <<>>
        /\ queue' = [queue EXCEPT ![s.socket_fd] = Tail(@)]
        /\ received' = [received EXCEPT ![t] = Append(@, Message(s, Head(queue[s.socket_fd])))]
  BY DEF Receive
<1> DEFINE fd == s.socket_fd
           x  == Message(s, Head(queue[fd]))
           n  == Len(received[t]) + 1
<1>2. pc[t] = "idle" /\ UNCHANGED <<udp_sockets, open, port, pc, call, sent, unheard>>
  BY DEF Receive
<1>3. fd \in Descriptors /\ fd \in open /\ s.topic \in Topics
  BY DEF TypeOK, Sockets, SocketInv, StoredInv, OwnFd
<1>4. queue[fd] \in Seq(Datagrams) /\ received[t] \in Seq(Messages)
  BY <1>3 DEF TypeOK
<1>5. /\ Tail(queue[fd]) \in Seq(Datagrams) /\ Head(queue[fd]) \in Datagrams
      /\ Head(queue[fd]) = queue[fd][1] /\ 1 \in 1 .. Len(queue[fd])
      /\ \A k \in 1 .. Len(Tail(queue[fd])) :
           k \in Nat /\ k + 1 \in 1 .. Len(queue[fd]) /\ Tail(queue[fd])[k] = queue[fd][k + 1]
  BY <1>1, <1>4, TailElements
<1>6. /\ x \in Messages /\ x.msg = queue[fd][1]
      /\ x.topic = s.topic /\ x.publisher = s.is_publisher
  <2>1. s.is_publisher \in BOOLEAN
    BY DEF TypeOK, Sockets
  <2> QED BY <1>3, <1>5, <2>1 DEF Message, Messages
<1>7. received' = [received EXCEPT ![t] = Append(received[t], x)]
  BY <1>1
<1>8. queue' = [queue EXCEPT ![fd] = Tail(queue[fd])]
  BY <1>1
<1> HIDE DEF x, fd
<1>9. /\ Append(received[t], x) \in Seq(Messages)
      /\ Len(received[t]) \in Nat /\ Len(Append(received[t], x)) = n
      /\ \A i \in 1 .. Len(received[t]) : Append(received[t], x)[i] = received[t][i]
      /\ Append(received[t], x)[n] = x
  BY <1>4, <1>6, AppendElements
<1>10. /\ queue'[fd] = Tail(queue[fd])
       /\ \A d \in Descriptors \ {fd} : queue'[d] = queue[d]
       /\ received'[t] = Append(received[t], x)
       /\ \A u \in Transports \ {t} : received'[u] = received[u]
  BY <1>3, <1>7, <1>8 DEF TypeOK
<1> HIDE DEF n
<1>11. TypeOK'
  <2>1. queue' \in [Descriptors -> Seq(Datagrams)]
    BY <1>3, <1>5, <1>8 DEF TypeOK
  <2>2. received' \in [Transports -> Seq(Messages)]
    BY <1>7, <1>9 DEF TypeOK
  <2> QED BY <1>2, <2>1, <2>2 DEF TypeOK
<1>12. NoDescriptorLeak'
  BY <1>2 DEF NoDescriptorLeak
<1>13. SocketInv'
  BY <1>2 DEF SocketInv, StoredInv, InCallInv, OwnFd
<1>14. PortInv'
  BY <1>2, <1>3, <1>10 DEF PortInv
\* What is in a buffer was there, one place further back if it is this buffer.
<1>15. \A d \in Descriptors : \A k \in 1 .. Len(queue'[d]) :
         \/ d # fd /\ k \in 1 .. Len(queue[d]) /\ queue'[d][k] = queue[d][k]
         \/ /\ d = fd /\ k \in Nat /\ k + 1 \in 1 .. Len(queue[d])
            /\ queue'[d][k] = queue[d][k + 1]
  BY <1>5, <1>10
<1>16. QueueInv'
  <2> SUFFICES ASSUME NEW d \in Descriptors, NEW e \in Descriptors,
                      NEW i \in 1 .. Len(queue'[d]), NEW j \in 1 .. Len(queue'[e])
               PROVE  /\ queue'[d][i].no < sent
                      /\ queue'[d][i].no = queue'[e][j].no => d = e /\ i = j
                      /\ d = e /\ i < j => queue'[d][i].no < queue'[d][j].no
    BY <1>2 DEF QueueInv
  <2>1. \A a, b \in Descriptors : \A k \in 1 .. Len(queue[a]), l \in 1 .. Len(queue[b]) :
          /\ queue[a][k].no < sent
          /\ queue[a][k].no = queue[b][l].no => a = b /\ k = l
          /\ a = b /\ k < l => queue[a][k].no < queue[a][l].no
    BY DEF QueueInv
  <2>2. CASE d # fd /\ e # fd
    <3>1. /\ i \in 1 .. Len(queue[d]) /\ queue'[d][i] = queue[d][i]
          /\ j \in 1 .. Len(queue[e]) /\ queue'[e][j] = queue[e][j]
      BY <2>2, <1>15
    <3> QED BY <2>1, <3>1
  <2>3. CASE d = fd /\ e # fd
    <3>1. /\ i + 1 \in 1 .. Len(queue[d]) /\ queue'[d][i] = queue[d][i + 1]
          /\ j \in 1 .. Len(queue[e]) /\ queue'[e][j] = queue[e][j]
      BY <2>3, <1>15
    <3>2. queue[d][i + 1].no < sent /\ queue[d][i + 1].no # queue[e][j].no
      BY <2>1, <2>3, <3>1
    <3> QED BY <2>3, <3>1, <3>2
  <2>4. CASE d # fd /\ e = fd
    <3>1. /\ i \in 1 .. Len(queue[d]) /\ queue'[d][i] = queue[d][i]
          /\ j + 1 \in 1 .. Len(queue[e]) /\ queue'[e][j] = queue[e][j + 1]
      BY <2>4, <1>15
    <3>2. queue[d][i].no < sent /\ queue[d][i].no # queue[e][j + 1].no
      BY <2>1, <2>4, <3>1
    <3> QED BY <2>4, <3>1, <3>2
  <2>5. CASE d = fd /\ e = fd
    <3>1. /\ i \in Nat /\ i + 1 \in 1 .. Len(queue[fd]) /\ queue'[fd][i] = queue[fd][i + 1]
          /\ j \in Nat /\ j + 1 \in 1 .. Len(queue[fd]) /\ queue'[fd][j] = queue[fd][j + 1]
      BY <2>5, <1>15
    <3>2. /\ queue[fd][i + 1].no < sent
          /\ queue[fd][i + 1].no = queue[fd][j + 1].no => i + 1 = j + 1
          /\ i + 1 < j + 1 => queue[fd][i + 1].no < queue[fd][j + 1].no
      BY <2>1, <3>1, <1>3
    <3> QED BY <2>5, <3>1, <3>2
  <2> QED BY <2>2, <2>3, <2>4, <2>5
\* What was handed out was so before, or is the datagram that was the first of the buffer.
<1>17. \A u \in Transports : \A i \in 1 .. Len(received'[u]) :
         \/ i \in 1 .. Len(received[u]) /\ received'[u][i] = received[u][i]
         \/ u = t /\ i = n /\ received'[u][i] = x
  <2>1. n = Len(received[t]) + 1
    BY DEF n
  <2> QED BY <2>1, <1>9, <1>10
<1>18. /\ x.msg.no < sent
       /\ \A d \in Descriptors : \A k \in 1 .. Len(queue'[d]) : queue'[d][k].no # x.msg.no
       /\ \A u \in Transports : \A i \in 1 .. Len(received[u]) :
            received[u][i].msg.no # x.msg.no
       /\ \A i \in 1 .. Len(received[t]) :
            received[t][i].topic = s.topic => received[t][i].msg.no < x.msg.no
       /\ \A k \in 1 .. Len(queue'[fd]) : x.msg.no < queue'[fd][k].no
  <2>1. x.msg.no < sent
    BY <1>3, <1>5, <1>6 DEF QueueInv
  <2>2. \A d \in Descriptors : \A k \in 1 .. Len(queue'[d]) : queue'[d][k].no # x.msg.no
    <3> SUFFICES ASSUME NEW d \in Descriptors, NEW k \in 1 .. Len(queue'[d])
                 PROVE  queue'[d][k].no # queue[fd][1].no
      BY <1>6
    <3>1. CASE d # fd
      <4>1. k \in 1 .. Len(queue[d]) /\ queue'[d][k] = queue[d][k]
        BY <3>1, <1>15
      <4> QED BY <3>1, <4>1, <1>3, <1>5 DEF QueueInv
    <3>2. CASE d = fd
      <4>1. k \in Nat \ {0} /\ k + 1 \in 1 .. Len(queue[fd]) /\ queue'[d][k] = queue[fd][k + 1]
        BY <3>2, <1>15
      <4>2. queue[fd][k + 1].no = queue[fd][1].no => k + 1 = 1
        BY <4>1, <1>3, <1>5 DEF QueueInv
      <4> QED BY <4>1, <4>2
    <3> QED BY <3>1, <3>2
  <2>3. \A u \in Transports : \A i \in 1 .. Len(received[u]) :
          received[u][i].msg.no # x.msg.no
    BY <1>3, <1>5, <1>6 DEF ReceivedInv
  <2>4. \A i \in 1 .. Len(received[t]) :
          received[t][i].topic = s.topic => received[t][i].msg.no < x.msg.no
    BY <1>5, <1>6 DEF AheadInv, Ahead, fd
  <2>5. \A k \in 1 .. Len(queue'[fd]) : x.msg.no < queue'[fd][k].no
    <3> SUFFICES ASSUME NEW k \in 1 .. Len(queue'[fd])
                 PROVE  queue[fd][1].no < queue'[fd][k].no
      BY <1>6
    <3>1. /\ k \in Nat \ {0} /\ k + 1 \in 1 .. Len(queue[fd]) /\ 1 < k + 1
          /\ queue'[fd][k] = queue[fd][k + 1]
      BY <1>3, <1>15
    <3> QED BY <3>1, <1>3, <1>5 DEF QueueInv
  <2> QED BY <2>1, <2>2, <2>3, <2>4, <2>5
<1>19. ReceivedInv'
  <2> SUFFICES ASSUME NEW u \in Transports, NEW v \in Transports,
                      NEW i \in 1 .. Len(received'[u]), NEW j \in 1 .. Len(received'[v])
               PROVE  /\ received'[u][i].msg.no < sent
                      /\ \A d \in Descriptors : \A k \in 1 .. Len(queue'[d]) :
                           queue'[d][k].no # received'[u][i].msg.no
                      /\ received'[u][i].msg.no = received'[v][j].msg.no => u = v /\ i = j
                      /\ u = v /\ i < j /\ received'[u][i].topic = received'[u][j].topic =>
                           received'[u][i].msg.no < received'[u][j].msg.no
    BY <1>2 DEF ReceivedInv
  <2>1. \/ i \in 1 .. Len(received[u]) /\ received'[u][i] = received[u][i]
        \/ u = t /\ i = n /\ received'[u][i] = x
    BY <1>17
  <2>2. \/ j \in 1 .. Len(received[v]) /\ received'[v][j] = received[v][j]
        \/ v = t /\ j = n /\ received'[v][j] = x
    BY <1>17
  <2>3. /\ received'[u][i].msg.no < sent
        /\ \A d \in Descriptors : \A k \in 1 .. Len(queue'[d]) :
             queue'[d][k].no # received'[u][i].msg.no
    <3>1. CASE i \in 1 .. Len(received[u]) /\ received'[u][i] = received[u][i]
      <4>1. /\ received[u][i].msg.no < sent
            /\ \A d \in Descriptors : \A k \in 1 .. Len(queue[d]) :
                 queue[d][k].no # received[u][i].msg.no
        BY <3>1 DEF ReceivedInv
      <4> QED BY <3>1, <4>1, <1>15
    <3>2. CASE received'[u][i] = x
      BY <3>2, <1>18
    <3> QED BY <2>1, <3>1, <3>2
  <2>4. received'[u][i].msg.no = received'[v][j].msg.no => u = v /\ i = j
    <3>1. CASE u = t /\ i = n /\ received'[u][i] = x
      BY <2>2, <3>1, <1>18
    <3>2. CASE v = t /\ j = n /\ received'[v][j] = x
      BY <2>1, <3>2, <1>18
    <3>3. CASE /\ i \in 1 .. Len(received[u]) /\ received'[u][i] = received[u][i]
               /\ j \in 1 .. Len(received[v]) /\ received'[v][j] = received[v][j]
      BY <3>3 DEF ReceivedInv
    <3> QED BY <2>1, <2>2, <3>1, <3>2, <3>3
  <2>5. ASSUME u = v, i < j, received'[u][i].topic = received'[u][j].topic
        PROVE  received'[u][i].msg.no < received'[u][j].msg.no
    <3>1. CASE j = n /\ u = t /\ received'[u][j] = x
      <4>1. i \in 1 .. Len(received[t]) /\ received'[t][i] = received[t][i]
        BY <2>1, <2>5, <3>1, <1>9 DEF n
      <4> QED BY <2>5, <3>1, <4>1, <1>6, <1>18
    <3>2. CASE j \in 1 .. Len(received[u]) /\ received'[u][j] = received[u][j]
      <4>1. i \in 1 .. Len(received[u]) /\ received'[u][i] = received[u][i]
        BY <2>1, <2>5, <3>2, <1>9 DEF n
      <4> QED BY <2>5, <3>2, <4>1 DEF ReceivedInv
    <3> QED BY <2>2, <2>5, <3>1, <3>2
  <2> QED BY <2>3, <2>4, <2>5
<1>20. AheadInv'
  <2> SUFFICES ASSUME NEW u \in Transports, NEW i \in 1 .. Len(received'[u])
               PROVE  /\ \A s2 \in udp_sockets[u] : s2.topic = received'[u][i].topic =>
                           \A k \in 1 .. Len(queue'[s2.socket_fd]) :
                             received'[u][i].msg.no < queue'[s2.socket_fd][k].no
                      /\ pc[u] # "idle" /\ call[u].topic = received'[u][i].topic =>
                           \A k \in 1 .. Len(queue'[call[u].fd]) :
                             received'[u][i].msg.no < queue'[call[u].fd][k].no
    BY <1>2 DEF AheadInv, Ahead
  <2>1. /\ \A s2 \in udp_sockets[u] : s2.socket_fd \in Descriptors
        /\ pc[u] # "idle" => call[u].fd \in Descriptors
    BY DEF TypeOK, Sockets, Calls
  <2>2. CASE i \in 1 .. Len(received[u]) /\ received'[u][i] = received[u][i]
    <3> DEFINE y == received[u][i]
    <3>1. /\ \A s2 \in udp_sockets[u] : s2.topic = y.topic => Ahead(s2.socket_fd, y)
          /\ pc[u] # "idle" /\ call[u].topic = y.topic => Ahead(call[u].fd, y)
      BY <2>2 DEF AheadInv
    <3> HIDE DEF y
    <3>2. \A d \in Descriptors :
            Ahead(d, y) => \A k \in 1 .. Len(queue'[d]) : y.msg.no < queue'[d][k].no
      BY <1>15 DEF Ahead
    <3> HIDE DEF UdpInv
    <3> QED BY <2>1, <2>2, <3>1, <3>2 DEF y
  <2>3. CASE u = t /\ received'[u][i] = x
    <3>1. \A s2 \in udp_sockets[t] : s2.topic = s.topic => s2.socket_fd = fd
      BY DEF NoDescriptorLeak, fd
    <3> QED BY <2>3, <3>1, <1>2, <1>6, <1>18
  <2> QED BY <2>2, <2>3, <1>17
<1>21. AddressInv'
  <2> SUFFICES ASSUME NEW d \in Descriptors, NEW k \in 1 .. Len(queue'[d])
               PROVE  GenerateUdpPort(queue'[d][k].from, queue'[d][k].topic) = port[d]
    BY <1>2 DEF AddressInv, GenerateUdpPort
  <2> QED BY <1>15 DEF AddressInv
<1>22. OnlyByCollision'
  <2> SUFFICES ASSUME NEW u \in Transports, NEW i \in 1 .. Len(received'[u])
               PROVE  LET y       == received'[u][i]
                          address == GenerateUdpPort(y.msg.from, y.msg.topic)
                      IN  /\ ~y.publisher => address = GenerateUdpPort(u, y.topic)
                          /\ y.publisher => address \in Ephemeral
    BY DEF OnlyByCollision, GenerateUdpPort
  <2>1. CASE i \in 1 .. Len(received[u]) /\ received'[u][i] = received[u][i]
    BY <2>1 DEF OnlyByCollision
  <2>2. CASE u = t /\ received'[u][i] = x
    <3>1. GenerateUdpPort(x.msg.from, x.msg.topic) = port[fd]
      BY <1>3, <1>5, <1>6 DEF AddressInv
    <3>2. /\ ~s.is_publisher => port[fd] = GenerateUdpPort(t, s.topic)
          /\ s.is_publisher => port[fd] \in Ephemeral \cup {Unbound}
      BY DEF SocketInv, StoredInv, fd
    <3>3. port[fd] # Unbound
      BY <1>3, <1>5, NothingQueued
    <3> QED BY <2>2, <3>1, <3>2, <3>3, <1>6
  <2> QED BY <2>1, <2>2, <1>17
<1> QED BY <1>2, <1>11, <1>12, <1>13, <1>14, <1>16, <1>19, <1>20, <1>21, <1>22
        DEF ReachesSubscriber

-----------------------------------------------------------------------------
(* The theorems. *)

\* Every step keeps the invariant.
LEMMA NextUdpInv == UdpInv /\ [Next]_vars => UdpInv'
<1> SUFFICES ASSUME UdpInv, [Next]_vars PROVE UdpInv'
  OBVIOUS
<1>1. CASE UNCHANGED vars
  <2>1. UNCHANGED <<udp_sockets, open, port, queue, pc, call, sent, received, unheard>>
    BY <1>1 DEF vars, kernel, history
  <2>2. TypeOK'
    BY <2>1 DEF UdpInv, TypeOK
  <2>6. NoDescriptorLeak' /\ PortInv'
    BY <2>1 DEF UdpInv, NoDescriptorLeak, PortInv
  <2>3. QueueInv' /\ ReceivedInv'
    BY <2>1, BuffersKept DEF UdpInv, history
  <2>4. SocketInv'
    BY <2>1 DEF UdpInv, SocketInv, StoredInv, InCallInv, OwnFd
  <2>5. AheadInv' /\ (ReachesSubscriber' <=> ReachesSubscriber)
    BY <2>1 DEF UdpInv, AheadInv, Ahead, ReachesSubscriber
  <2>7. AddressInv' /\ OnlyByCollision'
    BY <2>1, AddressesKept DEF UdpInv, history
  <2> QED BY <2>2, <2>3, <2>4, <2>5, <2>6, <2>7 DEF UdpInv
<1>2. ASSUME NEW t \in Transports, NEW topic \in Topics, NEW publisher \in BOOLEAN,
             OpenSocket(t, topic, publisher)
      PROVE  UdpInv'
  BY <1>2, OpenSocketUdpInv
<1>3. ASSUME NEW t \in Transports,
             \/ ConfigureFails(t) \/ ConfigurePublisher(t) \/ BindSocket(t) \/ BindFails(t)
             \/ StoreSocket(t) \/ Send(t) \/ Receive(t) \/ Destroy(t)
      PROVE  UdpInv'
  BY <1>3, EarlyReturnUdpInv, ConfiguredUdpInv, StoreSocketUdpInv, SendUdpInv, ReceiveUdpInv,
     DestroyUdpInv
<1> QED BY <1>1, <1>2, <1>3 DEF Next

\* The invariant holds in every reachable state.
THEOREM UdpInvariant == Spec => []UdpInv
BY InitUdpInv, NextUdpInv, PTL DEF Spec

\* Whichever system call fails and whenever a process ends, no early return of CreateSocket
\* or ConnectToSocket forgets a descriptor, and none is used for two topics.
THEOREM DescriptorsKept == Spec => []NoDescriptorLeak
<1>1. UdpInv => NoDescriptorLeak
  BY DEF UdpInv
<1> QED BY <1>1, UdpInvariant, PTL

\* What recvfrom hands out it hands out once, and the datagrams of a sender in their order.
THEOREM HandedOutOnceInOrder == Spec => []AtMostOnceInOrder
<1>1. UdpInv => AtMostOnceInOrder
  BY DEF UdpInv, ReceivedInv, AtMostOnceInOrder
<1> QED BY <1>1, UdpInvariant, PTL

\* From a socket that Subscribe made, Receive hands out a datagram of another topic or domain
\* only if GenerateUdpPort gives both one port; from a socket that Advertise made, only if the
\* kernel gave the datagram's port out: for any assignment of ports, whatever sockets are
\* closed and descriptors used again.
THEOREM TopicsCrossByCollision == Spec => []OnlyByCollision
<1>1. UdpInv => OnlyByCollision
  BY DEF UdpInv
<1> QED BY <1>1, UdpInvariant, PTL

\* On one host an accepted datagram goes to a subscriber of its topic and domain that has
\* room, however ports collide.
THEOREM SubscriberReached == ASSUME OneHost PROVE Spec => []ReachesSubscriber
<1>1. UdpInv => ReachesSubscriber
  BY DEF UdpInv
<1> QED BY <1>1, UdpInvariant, PTL

-----------------------------------------------------------------------------
(* The refinement of AtMostOnce. *)

\* What Receive hands out to AtMostOnce: a datagram that was sent, that nobody was handed
\* before, and that is later than all the topic's socket handed out.
LEMMA ReceiveIsDeliver ==
  ASSUME UdpInv, UdpInv', NEW t \in Transports, Receive(t)
  PROVE  \E r \in Transports \X Topics :
           \E x \in HandedOut(r[1], r[2])' : Lossy!Deliver(r, x)
<1>1. PICK s \in udp_sockets[t] :
        /\ queue[s.socket_fd] # <<>>
        /\ received' = [received EXCEPT ![t] = Append(@, Message(s, Head(queue[s.socket_fd])))]
  BY DEF Receive
<1> DEFINE topic == s.topic
           m     == Head(queue[s.socket_fd])
           entry == Message(s, m)
           n     == Len(received[t]) + 1
           x     == [at |-> n, no |-> m.no + 1]
           r     == <<t, topic>>
<1>2. s.socket_fd \in Descriptors /\ topic \in Topics
  BY DEF UdpInv, TypeOK, Sockets
<1>3. m \in Datagrams
  BY <1>1, <1>2, TailElements DEF UdpInv, TypeOK
<1>4. received[t] \in Seq(Messages) /\ DOMAIN received = Transports
  BY DEF UdpInv, TypeOK
<1>5. entry \in Messages /\ entry.topic = topic /\ entry.msg = m
  <2>1. s.is_publisher \in BOOLEAN
    BY DEF UdpInv, TypeOK, Sockets
  <2> QED BY <1>2, <1>3, <2>1 DEF Message, Messages
<1>6. received' = [received EXCEPT ![t] = Append(received[t], entry)] /\ sent' = sent
  BY <1>1 DEF Receive
<1> HIDE DEF entry, m, topic
<1>7. /\ received'[t] = Append(received[t], entry)
      /\ \A u \in Transports \ {t} : received'[u] = received[u]
  BY <1>4, <1>6
<1>8. /\ Len(received[t]) \in Nat /\ Len(received'[t]) = n /\ received'[t][n] = entry
      /\ \A i \in 1 .. Len(received[t]) : received'[t][i] = received[t][i]
  BY <1>4, <1>5, <1>7, AppendElements
<1>9. m.no \in Nat /\ sent \in Nat
  BY <1>3 DEF Datagrams, UdpInv, TypeOK
<1>10. /\ n \in 1 .. Len(received'[t]) /\ \A i \in 1 .. Len(received[t]) : i < n
       /\ \A i \in 1 .. Len(received'[t]) : i = n \/ i \in 1 .. Len(received[t])
       /\ \A i \in 1 .. Len(received[t]) : i \in 1 .. Len(received'[t]) /\ i # n
  BY <1>8
<1> HIDE DEF n
<1>11. ReceivedInv'
  BY DEF UdpInv
<1>12. m.no < sent
  BY <1>5, <1>6, <1>8, <1>10, <1>11 DEF ReceivedInv
<1>13. \A i \in 1 .. Len(received[t]) : received[t][i].topic = topic =>
         received[t][i].msg.no \in Nat /\ received[t][i].msg.no < m.no
  <2> SUFFICES ASSUME NEW i \in 1 .. Len(received[t]), received[t][i].topic = topic
               PROVE  received[t][i].msg.no \in Nat /\ received[t][i].msg.no < m.no
    OBVIOUS
  <2>1. received[t][i].msg \in Datagrams
    BY ReceivedAreDatagrams DEF UdpInv
  <2>2. received'[t][i].msg.no < received'[t][n].msg.no
    BY <1>5, <1>8, <1>10, <1>11 DEF ReceivedInv
  <2> QED BY <1>5, <1>8, <2>1, <2>2 DEF Datagrams
<1>14. \A u \in Transports \ {t} : \A i \in 1 .. Len(received[u]) :
         received[u][i].msg.no \in Nat /\ received[u][i].msg.no # m.no
  <2> SUFFICES ASSUME NEW u \in Transports \ {t}, NEW i \in 1 .. Len(received[u])
               PROVE  received[u][i].msg.no \in Nat /\ received[u][i].msg.no # m.no
    OBVIOUS
  <2>1. received[u][i].msg \in Datagrams
    BY ReceivedAreDatagrams DEF UdpInv
  <2>2. received'[u][i].msg.no # received'[t][n].msg.no
    BY <1>7, <1>10, <1>11 DEF ReceivedInv
  <2> QED BY <1>5, <1>7, <1>8, <2>1, <2>2 DEF Datagrams
<1>15. \A i \in 1 .. Len(received[t]) :
         received[t][i].msg.no \in Nat /\ received[t][i].msg.no # m.no
  <2> SUFFICES ASSUME NEW i \in 1 .. Len(received[t])
               PROVE  received[t][i].msg.no \in Nat /\ received[t][i].msg.no # m.no
    OBVIOUS
  <2>1. received[t][i].msg \in Datagrams
    BY ReceivedAreDatagrams DEF UdpInv
  <2>2. received'[t][i].msg.no # received'[t][n].msg.no
    BY <1>10, <1>11 DEF ReceivedInv
  <2> QED BY <1>5, <1>8, <2>1, <2>2 DEF Datagrams
<1>16. HandedOut(t, topic)' = HandedOut(t, topic) \cup {x}
  <2>1. \A i \in 1 .. Len(received[t]) :
          [at |-> i, no |-> received'[t][i].msg.no + 1] =
            [at |-> i, no |-> received[t][i].msg.no + 1]
    BY <1>8
  <2>2. [at |-> n, no |-> received'[t][n].msg.no + 1] = x /\ received'[t][n].topic = topic
    BY <1>5, <1>8
  <2> HIDE DEF x
  <2> QED BY <1>8, <1>10, <2>1, <2>2 DEF HandedOut
<1>17. \A u \in Transports, tp \in Topics : <<u, tp>> # r =>
         HandedOut(u, tp)' = HandedOut(u, tp)
  <2> SUFFICES ASSUME NEW u \in Transports, NEW tp \in Topics, <<u, tp>> # r
               PROVE  HandedOut(u, tp)' = HandedOut(u, tp)
    OBVIOUS
  <2>1. CASE u # t
    BY <2>1, <1>7 DEF HandedOut
  <2>2. CASE u = t
    <3>1. tp # topic
      BY <2>2
    <3>2. {k \in 1 .. Len(received'[t]) : received'[t][k].topic = tp} =
            {k \in 1 .. Len(received[t]) : received[t][k].topic = tp}
      BY <1>5, <1>8, <1>10, <3>1
    <3> QED BY <2>2, <1>8, <3>2 DEF HandedOut
  <2> QED BY <2>1, <2>2
<1>18. r \in Transports \X Topics /\ r[1] = t /\ r[2] = topic
  BY <1>2
<1>19. x.no \in 1 .. sent
  BY <1>9, <1>12
<1>20. \A earlier \in HandedOut(t, topic) : earlier.at < x.at /\ earlier.no < x.no
  BY <1>9, <1>10, <1>13 DEF HandedOut
<1>21. \A u \in Transports, tp \in Topics : \A other \in HandedOut(u, tp) : other.no # x.no
  BY <1>9, <1>14, <1>15 DEF HandedOut
<1> HIDE DEF x, r
<1>22. [q \in Transports \X Topics |-> HandedOut(q[1], q[2])'] =
         [[q \in Transports \X Topics |-> HandedOut(q[1], q[2])] EXCEPT
            ![r] = HandedOut(t, topic) \cup {x}]
  <2>1. \A q \in Transports \X Topics :
          q[1] \in Transports /\ q[2] \in Topics /\ q = <<q[1], q[2]>>
    OBVIOUS
  <2> QED BY <2>1, <1>16, <1>17, <1>18
<1>23. x \in HandedOut(r[1], r[2])'
  BY <1>16, <1>18
<1>24. Lossy!Deliver(r, x)
  <2>1. \A q \in Transports \X Topics : q[1] \in Transports /\ q[2] \in Topics
    OBVIOUS
  <2>2. [q \in Transports \X Topics |-> "datagrams"][r] = "datagrams"
    BY <1>18
  <2> QED BY <1>6, <1>18, <1>19, <1>20, <1>21, <1>22, <2>1, <2>2 DEF Lossy!Deliver
<1> QED BY <1>18, <1>23, <1>24

\* Every other step hands nothing out, and only Send accepts a datagram.
LEMMA StepImplementsAtMostOnce ==
  UdpInv /\ UdpInv' /\ [Next]_vars => [Lossy!Next]_(Lossy!topics)
<1> SUFFICES ASSUME UdpInv, UdpInv', [Next]_vars PROVE Lossy!Next \/ UNCHANGED Lossy!topics
  OBVIOUS
<1>1. CASE UNCHANGED <<sent, received>>
  BY <1>1 DEF Lossy!topics, HandedOut
<1>2. ASSUME NEW t \in Transports, Send(t) PROVE Lossy!Next
  <2>1. sent' = sent + 1 /\ received' = received
    BY <1>2 DEF Send
  <2>2. [s \in {"datagrams"} |-> sent'] =
          [[s \in {"datagrams"} |-> sent] EXCEPT !["datagrams"] = @ + 1]
    BY <2>1
  <2>3. \A t2 \in Transports, tp \in Topics : HandedOut(t2, tp)' = HandedOut(t2, tp)
    BY <2>1 DEF HandedOut
  <2>4. Lossy!Accept("datagrams")
    BY <2>2, <2>3 DEF Lossy!Accept
  <2> QED BY <2>4 DEF Lossy!Next
<1>3. ASSUME NEW t \in Transports, Receive(t) PROVE Lossy!Next
  <2>1. PICK r \in Transports \X Topics :
          \E x \in HandedOut(r[1], r[2])' : Lossy!Deliver(r, x)
    BY <1>3, ReceiveIsDeliver
  <2> QED BY <2>1 DEF Lossy!Next
<1>4. ASSUME NEW t \in Transports, NEW topic \in Topics, NEW publisher \in BOOLEAN,
             OpenSocket(t, topic, publisher)
      PROVE  UNCHANGED <<sent, received>>
  BY <1>4 DEF OpenSocket, history
<1>5. ASSUME NEW t \in Transports,
             \/ ConfigureFails(t) \/ ConfigurePublisher(t) \/ BindSocket(t) \/ BindFails(t)
             \/ StoreSocket(t) \/ Destroy(t)
      PROVE  UNCHANGED <<sent, received>>
  BY <1>5 DEF ConfigureFails, ConfigurePublisher, BindSocket, BindFails, StoreSocket, Destroy,
              history
<1> QED BY <1>1, <1>2, <1>3, <1>4, <1>5 DEF Next, vars, history

\* Whatever ports collide, whatever the network loses and whoever is restarted, UDP topics
\* implement AtMostOnce (UdpTransport's Send and Receive).
THEOREM DatagramsImplementAtMostOnce == Spec => ImplementsAtMostOnce
<1>1. Init => Lossy!Init
  BY DEF Init, Lossy!Init, HandedOut
<1>2. UdpInv /\ UdpInv' /\ [Next]_vars => [Lossy!Next]_(Lossy!topics)
  BY StepImplementsAtMostOnce
<1> QED BY <1>1, <1>2, UdpInvariant, PTL DEF Spec, Lossy!Spec, ImplementsAtMostOnce
=============================================================================
