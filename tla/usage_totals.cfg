\* Two days of three seconds, processes that come and go, and a table of one row.
SPECIFICATION Spec
CONSTANTS
  p = p   q = q
  Pids <- MCPids
  Programs <- MCPrograms
  Rss <- MCRss
  HZ = 1   NCPU = 1
  SecondsPerDay = 3   MaxClock = 4
  MaxStarts = 2
  Begins = {0, 2, 4}
  MibKb = 2   Top = 1   MaxSiblings = 0   Closing = {"Content"}
  None = None
SYMMETRY Alike
INVARIANTS NothingInvented SteadyIsExact BoxIsNotOverbooked MemoryAgrees RamTableIsFair
CHECK_DEADLOCK FALSE
