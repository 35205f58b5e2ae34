\* Two sessions one after the other, four seqnos that do not wrap, a ring of 2.
SPECIFICATION SubscriberSpec
CONSTANTS
  SeqnoModulus = 24
  MaxBuffers = 2
  SessionIds = {1, 2}
  Objects = {system, object}
  SystemObject = system
  MaxSeqno = 3
  LateSessions = FALSE
INVARIANTS
  TypeOK
  CoversFirst
  NewestIncluded
PROPERTIES
  ImplementsRecovery
  SnapshotsForward
  ReadyNeverBack
  EventuallyCovered
