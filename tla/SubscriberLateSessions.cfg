\* As Subscriber.cfg, but datagrams of the first session still arrive after
\* those of the second.
SPECIFICATION SubscriberSpec
CONSTANTS
  SeqnoModulus = 24
  MaxBuffers = 2
  SessionIds = {1, 2}
  Objects = {system, object}
  SystemObject = system
  MaxSeqno = 3
  LateSessions = TRUE
PROPERTIES
  ReplaysDropped
