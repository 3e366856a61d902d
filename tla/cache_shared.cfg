\* A private hash file over a shared one, with a cache of one entry: writes reach
\* the file at once.
SPECIFICATION Spec
CONSTANTS
  w1 = w1
  w2 = w2
  w3 = w3
  w4 = w4
  None = None
  Word = {w1, w2, w3}
  Count = {0, 1}
  Day = {0, 1}
  Shared <- OneShared
  Cacheable = {w1, w2, w3}
  MaxSize = 1
  ChunkSize = 2
  Transactional = FALSE
  Drops = {}
INVARIANTS Coherent
PROPERTIES ImplementsStore TouchStaysShared
