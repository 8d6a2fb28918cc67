CONSTANTS
  Item = {season, episode}
  Alike = {}
  Identified = {}
  Subject = {{season, episode}}
  Bangumi = {"target"}
  Feature = {"watched"}
  Policy = {"manual"}
  Mode = {"one-way"}
  Size = 2
  Total = 3
  MaxTime = 0
  MaxEdits = 0
SPECIFICATION Spec
CHECK_DEADLOCK FALSE
INVARIANTS
  ManualLeavesDifferencesAlone
