\* One documented statement, checked alone.
SPECIFICATION Spec
CONSTANTS
  repo = repo   svc = svc   code = code   unit = unit   alias = alias   memory_dir = memory_dir
  Entries <- MCEntries
  Files <- MCFiles
  Projects = {memory_dir}
  Target <- MCTarget
  InDir <- MCInDir
  Links = {alias}
  Tracked = {code, alias}
  Watched <- MCFiles
  Bridged <- MCEntries
  Resurrected = {svc}
  Plan <- MCPlan
  MaxFaults = 3
INVARIANT Resumable
