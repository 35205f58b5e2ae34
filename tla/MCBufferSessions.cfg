\* Two publisher sessions, a ring of 2, seqnos wrap at 12.
SPECIFICATION Spec
CONSTANTS
  SeqnoModulus = 12
  MaxBuffers = 2
  SessionIds = {1, 2}
  MaxFragment = 1
  FragmentMax <- MCFragmentMax
INVARIANTS
  OverflowAssert
