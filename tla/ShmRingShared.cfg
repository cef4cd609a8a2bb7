\* A advertises and writes topic A; B, whose topic name falls on the same segment name,
\* advertises, writes and reads topic B, and may be killed at any step and started again.
SPECIFICATION FairCallsSpec
CONSTANTS
  A = a
  B = b
  TopicA = topicA
  TopicB = topicB
  Transports <- Both
  Writers <- Both
  Readers <- JustB
  Crashable <- JustB
  TopicOf <- OwnTopic
  HeaderTopic <- Short
  BufferSize = 4
  HeaderSize = 2
  MaxMessageSize = 3
  Slack = 0
  IndexMod = 5
  Sizes = {1}
  Capacities = {0, 1}
  TrafficBound = 6
  ReceiveBound = 1
  AnySize = {1, 2}
  NoMsg = NoMsg
  Torn = Torn
INVARIANTS RingInv CopiesNear
PROPERTIES NonBlocking
CHECK_DEADLOCK FALSE
