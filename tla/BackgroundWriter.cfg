\* Three rows of the event loop, one of them bad, and one of another thread;
\* batches of two.
CONSTANTS
  r1 = r1
  r2 = r2
  r3 = r3
  r4 = r4
  Rows = {r1, r2, r3, r4}
  OnLoop = {r1, r2, r3}
  Bad = {r2}
  BatchSize = 2
  ConnectMayFail = TRUE
  MaxQueue = 2

SPECIFICATION Spec

INVARIANTS
  TypeOK
  SentinelDrains

PROPERTIES
  EveryRowHasOneFate
  RowsSettle

CHECK_DEADLOCK FALSE
