\* Two transports advertise the topic and send on it.
SPECIFICATION Spec
CONSTANTS
  A = a
  B = b
  TopicA = topicA
  TopicB = topicB
  Transports <- Both
  Writers <- Both
  Readers <- None
  Crashable <- None
  TopicOf <- SameTopic
  HeaderTopic <- Short
  BufferSize = 7
  HeaderSize = 2
  MaxMessageSize = 4
  Slack = 3
  IndexMod = 32
  Sizes = {1}
  Capacities = {1}
  TrafficBound = 8
  ReceiveBound = 1
  AnySize = {0, 1, 2}
  NoMsg = NoMsg
  Torn = Torn
INVARIANTS RaceFree
CHECK_DEADLOCK FALSE
