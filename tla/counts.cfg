\* Commands run to their end, with purges between them.
SPECIFICATION FairSpec
CONSTANTS
  m1 = m1
  m2 = m2
  m3 = m3
  t1 = t1
  t2 = t2
  Term = {t1, t2}
  TokenCount <- MCTokenCount
  Message = {m1, m2}
  MaxClassify = 3
  JunkCounts = {1, 2}
  SweepsDigests = FALSE
  MaxInterrupts = 0
INVARIANTS NeverOverCounted
PROPERTIES ImplementsLedger CommandAchieved CommandsEnd
