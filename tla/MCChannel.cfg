\* A ring of 3, seqnos wrap at 18 within the log, up to 2 fragments.
SPECIFICATION ChannelSpec
CONSTANTS
  SeqnoModulus = 18
  MaxBuffers = 3
  SessionIds = {1}
  MaxFragment = 1
  FragmentMax <- MCFragmentMax
  Session = 1
  Base = 15
  MaxMessages = 5
  MaxDelay = 2
  MaxLost = 2
INVARIANTS
  LagBounded
  NothingGivenUp
  WaitBounded
PROPERTIES
  AllHandedOver
  WaitEnds
CHECK_DEADLOCK FALSE
