CONSTANTS
  a = a
  Request = {q1}
  Key = {a}
  MaxRequests = 2
  MaxSyncs = 1
  RateLimit = 1
  Window = 2
  MaxTime = 3
  d1 = d1
  d2 = d2
  p1 = p1
  p2 = p2
  Device = {d1}
  Poller = {p1}
  Capacities = {3}
  Lifetimes = {8}
  Intervals = {4}
  Interval = 1
  MaxInterval = 2
  ExternalTtl = 4
  TombstoneTtl = 4
  Timeout = 2
  MaxDeviceTime = 8
SPECIFICATION EitherSpec
SYMMETRY Interchangeable
CHECK_DEADLOCK FALSE
PROPERTIES
  GrantedIntervalEnforced
