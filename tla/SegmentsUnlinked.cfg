\* One transport of three is destroyed.
SPECIFICATION Spec
CONSTANTS
  A = a
  B = b
  C = c
  T1 = topic1
  N1 = name1
  Transports <- Three
  Topics <- OneTopic
  Names = {name1}
  ShmName <- OwnName
  TotalSize <- SameSize
  Objects = {1, 2, 3, 4}
  NoObject = NoObject
  Crashable <- None
  Destroyable <- JustA
  FtruncateFails = FALSE
  MmapFails = FALSE
  NoCall = NoCall
INVARIANTS SharedByName
CHECK_DEADLOCK FALSE
