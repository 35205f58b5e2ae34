\* One session, one symbol, six seqnos.
SPECIFICATION MBPSpec
CONSTANTS
  SessionIds = {1}
  Objects = {system, symbol}
  SystemObject = system
  Symbol = symbol
  MaxSeqno = 5
INVARIANTS
  BookIntact
PROPERTIES
  NotReadyRecovers
