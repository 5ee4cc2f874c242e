\* Days of two seconds: runs of usage_report killed before they touch the time
\* stamp, or the catch-up, one report of which fails; and a log that atop breaks off.
SPECIFICATION Spec
CONSTANTS
  Atop = Atop   Pmon = Pmon   Kinds <- AtopOnly
  SecondsPerDay = 2   MaxDays = 3   LastTick <- Until
  KillAt = {"read", "write"}   MaxFaults = 1
  None = None
INVARIANTS NothingLost
PROPERTIES EveryDayReported NeverShrinks
CHECK_DEADLOCK FALSE
