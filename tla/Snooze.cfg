\* All admin requests go to the worker; two backends, one spare name.
CONSTANTS
  b1 = b1
  b2 = b2
  Providers = {b1, b2}
  Names = {"p", "q", "r"}
  Doors = {"worker"}
  Durations = {1, 2}
  MaxEnds = 2

SPECIFICATION SnoozeSpec

INVARIANTS
  HoldsAreKept
  NothingIsRevived

