\* Up to two commands are cut off between two store calls.
SPECIFICATION Spec
CONSTANTS
  m1 = m1
  m2 = m2
  m3 = m3
  t1 = t1
  t2 = t2
  Term = {t1, t2}
  TokenCount <- MCTokenCount
  Message = {m1, m2}
  MaxClassify = 2
  JunkCounts = {}
  SweepsDigests = FALSE
  MaxInterrupts = 2
INVARIANTS OneClass DigestBounded TotalDriftBounded TermDriftBounded
