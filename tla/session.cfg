SPECIFICATION Spec
CONSTANTS
  Unquotable = {"both-quotes"}
  DbTypes <- MCDbTypes
  Dirs <- MCDirs
  StartDirs <- MCStartDirs
  StartConfigs <- MCStartConfigs
  Called <- MCCalled
  Numbers <- MCNumbers
  Thresholds <- MCThresholds
  Chars <- MCChars
  FieldNames <- MCFieldNames
  HeaderWays <- MCHeaderWays
  TypedDirs <- MCTypedDirs
  CaseNames <- MCCaseNames
  ExtraNames <- MCExtraNames
  MaxArgs = 2
  MaxRuns = 2
  MaxOptions = 2
  MaxFiles = 2
  MaxMessages = 2
INVARIANTS
  SettingsComeBack
  QuietRunsChangeNothing
  OptionsInForce
  SweptInTime
PROPERTY
  DatabaseFoundAgain
