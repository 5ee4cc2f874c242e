\* A launch that finds the log of an earlier one, and three signals.
SPECIFICATION Spec
CONSTANTS
  l1 = l1   l2 = l2   Launches <- Two   Earlier <- One
  Keep = 1   Cap = 2   Burst = 1
  MaxOut = 5   MaxSignals = 3
  Gone = Gone
INVARIANTS NamedFileBounded
PROPERTIES TakenDown WatchdogEnds
\* A launch ends.
CHECK_DEADLOCK FALSE
