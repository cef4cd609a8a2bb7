\* The mutex of glibc: locking it twice never returns.
SPECIFICATION FairSpec
CONSTANTS
  P = p
  Threads = {t1, t2}
  Participants <- MCParticipants
  Publishers = {pub}
  Subscribers = {sub}
  ParticipantOf <- MCParticipantOf
  Names = {n1}
  TypeNames = {typeA, typeB}
  RelockOutcomes = {"hang"}
  ReaderBound = 2
  NoTopic = NoTopic
  NoCall = NoCall
PROPERTIES CreationReturns
CHECK_DEADLOCK FALSE
