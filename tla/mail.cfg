SPECIFICATION MailSpec
CONSTANTS
  MaxFile = 5
  Padding = 2
  Infinity = 999
  Box <- MCBox
INVARIANTS
  NothingLost
  DigestKeptByReaders
  PrefixesFresh
  PartsKeepEveryLine
