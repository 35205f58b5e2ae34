\* Two types are passed on, one is masked; a timeout of two ticks.
SPECIFICATION Spec
CONSTANTS
  SupportTypes = {REFERENCE_DATA, TOP_OF_BOOK, MARKET_BY_PRICE}
  SUPPORTS = {REFERENCE_DATA, TOP_OF_BOOK}
  Timeout = 2
INVARIANTS
  TypeOK
  ToldReadyIsWatched
PROPERTIES
  ReconnectReported
  IncrementalFollows
  SilenceReported
  SupportsConverge
CHECK_DEADLOCK FALSE
