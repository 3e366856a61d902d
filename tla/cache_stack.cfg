\* Three words compete for a cache of two entries over a database with
\* transactions; a fourth is not cached, as the terms of a split store.
SPECIFICATION Spec
CONSTANTS
  w1 = w1
  w2 = w2
  w3 = w3
  w4 = w4
  None = None
  Word = {w1, w2, w3, w4}
  Count = {0, 1}
  Day = {0}
  Shared <- NothingShared
  Cacheable = {w1, w2, w3}
  MaxSize = 2
  ChunkSize = 2
  Transactional = TRUE
  Drops = {w1, w2, w3}
SYMMETRY Symmetry
INVARIANTS ListMatchesIndex CommittedUntilFlushed
PROPERTIES ImplementsStore
