CONSTANTS
  Keys = {k1, k2}
  TTLs = {0, 1}
  MemCapacity = 1
  MaxEntries = 1
  MaxTime = 3
  MaxQueue = 4
  MaxFetches = 1
SYMMETRY Sym
SPECIFICATION Spec
INVARIANTS TypeOK ReplayWithinTTL TableIsBounded
CHECK_DEADLOCK FALSE
