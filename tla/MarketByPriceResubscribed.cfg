\* The instance of MarketByPrice.cfg.
SPECIFICATION MBPSpec
CONSTANTS
  SessionIds = {1}
  Objects = {system, symbol}
  SystemObject = system
  Symbol = symbol
  MaxSeqno = 5
PROPERTIES
  Resubscribed
