\* Two sessions, the system's object and another, two seqnos; one type of
\* data to support, a timeout of less than a tick.
SPECIFICATION GatewaySpec
CONSTANTS
  system = system
  object = object
  SessionIds = {1, 2}
  Objects <- MCObjects
  SystemObject = system
  MaxSeqno = 1
  SeqnoModulus = 12
  MaxBuffers = 1
  LateSessions = FALSE
  SupportTypes = {TOP_OF_BOOK}
  SUPPORTS = {TOP_OF_BOOK}
  Timeout = 0
  Messages <- MCMessages
INVARIANTS
  SnapshotNeedsSession
PROPERTIES
  SessionsInOrder
  SilenceIsWhatIsNotParsed
CHECK_DEADLOCK FALSE
