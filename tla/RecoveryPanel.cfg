CONSTANTS
  f1 = f1
  f2 = f2
  bad = bad
  ratings = ratings
  target = target
  j1 = j1
  j2 = j2
  l1 = l1
  l2 = l2
  d1 = d1
  Nothing = Nothing
  Slot = {ratings}
  Side = {target}
  Forms = {f1, f2, bad}
  Malformed = {bad}
  Jobs = {j1, j2}
  Loads = {l1, l2}
  Details = {d1}
  s1 = s1
  c1 = c1
  c2 = c2
  Settings = {s1, bad}
  MalformedSettings = {bad}
  Conflicts = {c1, c2}
  MaxRequests = 4
  MaxEdits = 3
SPECIFICATION EitherSpec
SYMMETRY Interchangeable
CHECK_DEADLOCK FALSE
INVARIANTS
  StoredOutcomesAreShown
PROPERTIES
  RestoredFromPreview
  WhatIsShownIsWritten
