CONSTANTS
  i1 = i1
  i2 = i2
  Attempt <- ThreeAttempts
  Instance <- TwoInstances
  Capacity = 1
  Ttl = 1
  MaxTime = 2
  PowerFailures = 1
  MaxAttempts = 2
  MaxTokens = 2
  MaxFlows = 3
  MaxOpen = 2
  MaxOdds = 1
SPECIFICATION EitherSpec
CHECK_DEADLOCK FALSE
SYMMETRY Interchangeable
INVARIANTS
  OneTime
