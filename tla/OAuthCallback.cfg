CONSTANTS
  MaxAttempts = 2
  MaxTokens = 2
  MaxFlows = 3
  MaxOpen = 2
  MaxOdds = 1
SPECIFICATION Spec
CHECK_DEADLOCK FALSE
PROPERTIES
  ApprovalIsRelayed
