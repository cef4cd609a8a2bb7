\* Publisher and subscriber; every outcome of the second lock.
SPECIFICATION FairSpec
CONSTANTS
  P = p
  Threads = {t1, t2}
  Participants <- MCParticipants
  Publishers = {pub}
  Subscribers = {sub}
  ParticipantOf <- MCParticipantOf
  Names = {n1, n2}
  TypeNames = {typeA, typeB}
  RelockOutcomes = {"hang", "throw", "proceed"}
  ReaderBound = 2
  NoTopic = NoTopic
  NoCall = NoCall
INVARIANTS EInv TopicIdentity TransportAgreed
PROPERTIES ImplementsCalls NoCallBlocksAnother
CHECK_DEADLOCK FALSE
