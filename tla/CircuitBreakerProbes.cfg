\* The instance of CircuitBreaker.cfg, for what the docstring says of the count.
CONSTANTS
  Backends = {b1, b2}
  Settings <- MCSettings
  MinBackoff = 1
  MaxBackoff = 3
  DefaultThreshold = 3
  DefaultBackoff = 2
  ProbeEnabled = TRUE
  MaxFailures = 4

SPECIFICATION Spec

INVARIANT OnlyGenuineCount
