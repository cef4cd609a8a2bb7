\* Publisher and subscriber on two hosts.
SPECIFICATION Spec
CONSTANTS
  A = a
  B = b
  T1 = topic1
  T2 = topic2
  T3 = topic3
  Host1 = host1
  Host2 = host2
  Port1 = port1
  Port2 = port2
  Domain = domain
  Transports <- Two
  HostOf <- TwoHosts
  DomainOf <- OneDomain
  Topics <- OneTopic
  PortOf <- OnePort
  Ephemeral = {port2}
  Unbound = unbound
  FdLimit = 2
  QueueLimit = 2
  SendBound = 2
  NoCall = NoCall
INVARIANTS ReachesSubscriber
CHECK_DEADLOCK FALSE
