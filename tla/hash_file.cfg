\* More codes than slots, all of which collide at the end of the file or wrap
\* around it: the file fills up and is swept.
SPECIFICATION Spec
CONSTANTS
  None = None
  NoFile = NoFile
  Key = {1, 3, 6}
  KeyRange = 8
  LongRange = 8
  Slots = 2
  Count = {0, 1}
  Day = {0, 1}
  Today = 1
  Cleaners <- CleanupOnes
INVARIANTS EveryRecordFound
PROPERTIES ImplementsStore KeptUntilSwept SweepExact
