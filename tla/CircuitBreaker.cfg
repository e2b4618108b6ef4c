\* Two backends, failures up to 4 in a row, backoffs 1, 2 and the cap 3.
CONSTANTS
  Backends = {b1, b2}
  Settings <- MCSettings
  MinBackoff = 1
  MaxBackoff = 3
  DefaultThreshold = 3
  DefaultBackoff = 2
  ProbeEnabled = TRUE
  MaxFailures = 4

SPECIFICATION Spec

INVARIANTS
  TypeOK
  EscalationIsPaced
  CountIsExact

PROPERTIES
  TripIsEarned
  OpenCircuitExpires
