\* One process at a time, run again and again, up to three faults of any kind.
SPECIFICATION FairSpec
CONSTANTS
  repo = repo   svc = svc   code = code   unit = unit   alias = alias   memory_dir = memory_dir
  Entries <- MCEntries
  Files <- MCFiles
  Projects = {memory_dir}
  Target <- MCTarget
  InDir <- MCInDir
  Links = {alias}
  Tracked = {code, alias}
  Watched = {unit}
  Bridged <- MCEntries
  Resurrected = {svc}
  Plan <- MCPlan
  MaxFaults = 3
INVARIANTS
  NoEntryLost NoDanglingBridge JournalClosed
  DropOnlyWhenClean ReferencesResolve CompleteMeansDone
PROPERTIES
  Implements Settles
