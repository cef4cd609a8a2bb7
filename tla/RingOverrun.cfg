\* The mapping ends one cell after the ring, as the struct's padding has it.
SPECIFICATION Spec
CONSTANTS
  TheWriter = w1
  TheReader = r1
  T = topic
  Transports <- MCTransports
  Writers <- MCWriters
  Readers <- MCReaders
  Crashable <- MCNobody
  TopicOf <- MCTopicOf
  HeaderTopic <- MCHeaderTopic
  BufferSize = 7
  HeaderSize = 2
  MaxMessageSize = 4
  Slack = 1
  IndexMod = 32
  Sizes = {1, 2}
  Capacities = {2}
  TrafficBound = 22
  ReceiveBound = 10
  AnySize = {0, 1, 2}
  NoMsg = NoMsg
  Torn = Torn
INVARIANTS NoFault
CHECK_DEADLOCK FALSE
