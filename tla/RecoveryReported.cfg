\* Two sessions, an object besides the system's, four seqnos.
SPECIFICATION Spec
CONSTANTS
  SessionIds = {1, 2}
  Objects = {system, object}
  SystemObject = system
  MaxSeqno = 3
PROPERTIES
  ReportedNeverBack
