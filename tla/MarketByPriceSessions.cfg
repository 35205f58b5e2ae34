\* Two sessions, one symbol, three seqnos.
SPECIFICATION MBPSpec
CONSTANTS
  SessionIds = {1, 2}
  Objects = {system, symbol}
  SystemObject = system
  Symbol = symbol
  MaxSeqno = 2
INVARIANTS
  BookIntact
