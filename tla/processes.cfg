\* Two processes, either of which may be run by the other's exec command.
SPECIFICATION FairSpec
CONSTANTS
  p1 = p1
  p2 = p2
  w1 = w1
  w2 = w2
  Absent = Absent
  Proc = {p1, p2}
  Word = {w1, w2}
  MaxCalls = 2
  MaxTrouble = 2
  MaxCount = 2
INVARIANTS CacheFresh
PROPERTIES OneTroubleLosesNothing LockComesFree
