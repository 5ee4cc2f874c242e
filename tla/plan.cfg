\* Every manifest, and up to two runs.
SPECIFICATION Spec
CONSTANTS
  note = note   memo = memo   own = own   wrapper = wrapper   inner = inner   text = text   out = out   up = up
  in_archive = in_archive   in_src = in_src   own_repo = own_repo
  Keys <- MCKeys
  KeyOrder <- MCKeyOrder
  Parent <- MCParent
  Loose = {note, memo}
  Buckets <- MCBuckets
  Places <- MCPlaces
  BucketOf <- MCBucketOf
  OwnRepo = own_repo
  LiesIn <- MCLiesIn
  NamesKey <- MCNamesKey
  Links = {out, up}
  Relative = {out, up}
  Tracked = {text, out}
  MaxRuns = 2
\* The migrations end.
CHECK_DEADLOCK FALSE
INVARIANTS MovesSucceed ResumesClean NothingMislaid ReferencesFollow PlanIsAsAssumed
