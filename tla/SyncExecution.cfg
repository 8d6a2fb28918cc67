SPECIFICATION FairSpec
CONSTANTS
  MaxAttempts = 2
  Features <- MCFeatures
  Importers <- MCImporters
  Requests <- FollowedRequests
CHECK_DEADLOCK FALSE
INVARIANTS
  OneAttemptWrites
  RecordsTellTheTruth
  NoSilentLoss
PROPERTIES
  VerdictIsFinal
  ImplementsConfirmedWrite
  EveryCallerLearns
