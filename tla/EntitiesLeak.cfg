\* A participant with a publisher is released.
SPECIFICATION Spec
CONSTANTS
  P = p
  Threads = {t1, t2}
  Participants <- MCParticipants
  Publishers = {pub}
  Subscribers = {sub}
  ParticipantOf <- MCParticipantOf
  Names = {n1}
  TypeNames = {typeA, typeB}
  RelockOutcomes = {"hang"}
  ReaderBound = 2
  NoTopic = NoTopic
  NoCall = NoCall
INVARIANTS ReleasedIsDestroyed
CHECK_DEADLOCK FALSE
