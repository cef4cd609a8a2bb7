\* One host; three topics, two of which hash to the same port; the kernel may give out the
\* third one's port.
SPECIFICATION Spec
CONSTANTS
  A = a
  B = b
  T1 = topic1
  T2 = topic2
  T3 = topic3
  Host1 = host1
  Host2 = host2
  Port1 = port1
  Port2 = port2
  Domain = domain
  Transports <- Two
  HostOf <- SameHost
  DomainOf <- OneDomain
  Topics <- ThreeTopics
  PortOf <- TwoCollide
  Ephemeral = {port1, port2}
  Unbound = unbound
  FdLimit = 2
  QueueLimit = 2
  SendBound = 2
  NoCall = NoCall
SYMMETRY Symmetry
INVARIANTS UdpInv NoDescriptorLeak AtMostOnceInOrder OnlyByCollision ReachesSubscriber
CHECK_DEADLOCK FALSE
