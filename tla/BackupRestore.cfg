CONSTANTS
  film = film
  season = season
  fan = fan
  old = old
  new = new
  Attempt <- TwoJobs
  member = member
  Item = {film, season, fan}
  Values <- ItemValues
  Features <- ThreeFeatures
  Importable = {1, 2}
  MaxEdits = 1
  j1 = j1
  j2 = j2
  k1 = k1
  k2 = k2
  Job <- TwoJobs
  Cleaner <- TwoRuns
  JobRetention = TRUE
  BackupRetention = TRUE
  t1 = t1
  Tenant = {t1, t2}
  Requests = {c1, c2, c3}
  Interval = 2
  MaxTime = 6
SPECIFICATION BackupsSpec
SYMMETRY Interchangeable
CHECK_DEADLOCK FALSE
INVARIANTS
  RestoreIsProtected
  RestoreRecordsTellTheTruth
  ReferencedBackupsStay
  AtMostHourly
PROPERTIES
  ReplacedRecordsAreArchived
  DamageBlocksDeletion
