\* One writer, one reader that may be killed at any step and keeps polling; the mapping
\* is long enough for the longest message that starts in the last cell.
SPECIFICATION PollingSpec
CONSTANTS
  TheWriter = w1
  TheReader = r1
  T = topic
  Transports <- MCTransports
  Writers <- MCWriters
  Readers <- MCReaders
  Crashable <- MCReaders
  TopicOf <- MCTopicOf
  HeaderTopic <- MCHeaderTopic
  BufferSize = 7
  HeaderSize = 2
  MaxMessageSize = 4
  Slack = 3
  IndexMod = 32
  Sizes = {1, 2}
  Capacities = {1, 2}
  TrafficBound = 22
  ReceiveBound = 10
  AnySize = {0, 1, 2}
  NoMsg = NoMsg
  Torn = Torn
INVARIANTS IInv DeliveredInOrder UnreadIntact RaceFree NoFault
PROPERTIES IndicesAdvance RefusalsExact ImplementsChannel DeliversAll
