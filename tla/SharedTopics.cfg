\* The writer and the reader are killed and destroyed at any step; ftruncate and mmap may fail.
SPECIFICATION PollingSpec
CONSTANTS
  A = a
  B = b
  T1 = topic1
  N1 = name1
  Transports <- Both
  Topics <- Topic1
  Names = {name1}
  ShmName <- OwnName
  TotalSize <- SameSize
  Objects = {1, 2, 3}
  NoObject = 0
  Crashable <- Both
  Destroyable <- Both
  FtruncateFails = TRUE
  MmapFails = TRUE
  NoCall = NoCall
  WriterOf <- JustA
  ReaderOf <- OnlyB
  RingLimit = 2
  SendBound = 2
INVARIANTS TopicsInv SharedUnlessUnlinked MappingsBacked NoSegmentLeft OnceInOrder StraysNeedRestart
CHECK_DEADLOCK FALSE
PROPERTIES ImplementsAtMostOnce Delivered
