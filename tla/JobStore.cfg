CONSTANTS
  c1 = c1
  c2 = c2
  c3 = c3
  r1 = r1
  Call = {c1, c2, c3}
  MayAbandon = {c1}
  SlowHolders = FALSE
  Updater = {c1}
  Reader = {r1}
  KeyOf <- NewKeys
  FirstKey = "old"
SPECIFICATION FairSpec
CHECK_DEADLOCK FALSE
INVARIANTS
  ResultsAreDurable
  NoOrphanClaim
PROPERTIES
  VerdictStays
  PendingNeverDeleted
  EveryCallEnds
