CONSTANTS
  Keys = {"k"}
  Limits <- MCLimits
  Costs = {1}
  Window = 3
  Grain = 3
  SpendTTL = 2
  MaxTime = 6
  MaxSpend = 1
  MaxOpen = 1
  MaxQueue = 1
  MaxForgotten = 2
SPECIFICATION Spec
INVARIANT RetryAfterIsEnough
PROPERTIES RpmHolds SpendIsRecent
CHECK_DEADLOCK FALSE
