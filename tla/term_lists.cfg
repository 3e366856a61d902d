\* Databases of at most three records, exported, imported and purged.
SPECIFICATION Spec
CONSTANTS
  None = None
  Name <- MCName
  CountName = 0
  KeyOf <- MCKeyOf
  Slots = 3
  Today = 1
  MaxSize = 2
  FlushEvery = 2
  Files <- MCFiles
  Patterns <- MCPatterns
  MaxCount = 3
INVARIANTS ExportExact ImportInOrder ImportAdds
  PurgeTermsExact
