SPECIFICATION Spec
CONSTANTS
  Sources <- MCSources
  Later <- MCLater
  Characters <- MCCharacters
  Strings <- MCStrings
  Page = 2
  MaxAhead = 1
  MaxTokens = 1
  MaxInputs = 2
INVARIANTS
  ReadsRight
  MarksRight
  TextsLive
