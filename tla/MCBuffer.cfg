\* One publisher session, a ring of 4, seqnos wrap at 24, up to 3 fragments.
SPECIFICATION Spec
CONSTANTS
  SeqnoModulus = 24
  MaxBuffers = 4
  SessionIds = {1}
  MaxFragment = 2
  FragmentMax <- MCFragmentMax
INVARIANTS
  TypeOK
  IntactDelivery
  WindowConsistent
  NothingHeldBack
  AssertsHold
PROPERTIES
  CompleteSuffixKept
  ImplementsMessageStream
