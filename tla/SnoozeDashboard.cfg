\* The dashboard calls the supervisor: does its snooze reach the router?
CONSTANTS
  b1 = b1
  Providers = {b1}
  Names = {"p", "q"}
  Doors = {"worker", "supervisor"}
  Durations = {1}
  MaxEnds = 1

SPECIFICATION SnoozeSpec

INVARIANT NoTrafficUntilUnsnoozed

