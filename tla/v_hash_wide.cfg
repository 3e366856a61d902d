\* A code is wider than the bytes it is stored in, as on x86_64.
SPECIFICATION Spec
CONSTANTS
  None = None
  NoFile = NoFile
  Key = {2, 11}
  KeyRange = 8
  LongRange = 16
  Slots = 3
  Count = {0, 1}
  Day = {0}
  Today = 0
  Cleaners <- PurgeEmptied
PROPERTIES ReadsWhatWasWritten
