SPECIFICATION TextSpec
CONSTANTS
  Messages <- MCMessages
  Configs <- MCConfigs
  MaxTagLength = 9
  MaxTermsPerMessage = 7
  MinTermLength = 1
  MaxTermLength = 6
  MinPhraseTerms = 1
  MaxPhraseTerms = 2
  MinPhraseChars = 4
  MaxPhraseChars = 6
  MaxStart = 3
  NonAsciiReplacement = 122
INVARIANTS
  WordsAreRuns
  PhrasesExact
  FirstTermsCounted
  DecodesWhatWasEncoded
PROPERTIES
  ReadsLikeOneString
