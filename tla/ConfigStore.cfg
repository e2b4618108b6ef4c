\* One PUT from the dashboard, one narrow edit, one restore and one crash, with
\* three backup slots.
CONSTANTS
  Puts = {p1}
  Patches = {e1}
  Keep = 3
  MaxRestores = 1
  MaxCrashes = 1
  p1 = p1
  e1 = e1

SPECIFICATION Spec

INVARIANTS
  TypeOK
  CrashKeepsTheLastSave
  BackupsAreHistory

PROPERTY WorkerFollowsSaves

CHECK_DEADLOCK FALSE
