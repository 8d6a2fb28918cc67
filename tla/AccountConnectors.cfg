CONSTANTS
  a = a
  b = b
  Item = {a, b}
  Episode = {b}
  MaxEdits = 1
  MaxCalls = 2
  Full = 2
  Parent <- ParentOf
  MaxNewPlays = 2
  Calls <- AllCalls
  Reader <- AllReaders
  MaxRow = 4
  PageSize = 2
  MaxPages = 3
  MaxRecords = 4
  MaxChanges = 2
  MaxSwaps = 1
  none = none
  Unset = none
  Settings <- Configured
  MaxTimeout = 2
  MaxAttempts = 3
  MaxDelay = 2
  MaxBytes = 1
  DefaultTimeout = 1
  DefaultAttempts = 2
  DefaultDelay = 1
  RetryAfter = {0, 9}
  BaseDelay = 1
SPECIFICATION EitherSpec
CHECK_DEADLOCK FALSE
INVARIANTS
  ReadsAreWhole
  EndsInTime
PROPERTIES
  SuccessIsReal
  OthersChangesSurvive
  ImplementsAccountImport
  EveryReadEnds
  ImplementsProviderCall
