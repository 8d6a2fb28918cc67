CONSTANTS
  film = film
  season = season
  Item = {film, season}
  Alike = {}
  Identified = {}
  Subject = {}
  Bangumi = {}
  Feature = {"ratings", "watchlist", "watched"}
  Policy = {"manual", "source-wins", "target-wins", "newest-wins"}
  Mode = {"one-way", "two-way"}
  Size = 2
  Total = 3
  MaxTime = 1
  MaxEdits = 1
SPECIFICATION EitherSpec
CHECK_DEADLOCK FALSE
INVARIANTS
  NothingLeftToDo
  NewestNeverRegresses
  ManualLeavesDifferencesAlone
  
