\* Sweeps, each with its check, checks alone, an undo, a user who acts at any moment, a kill.
SPECIFICATION CheckSpec
CONSTANTS
  a = a   b = b   note = note   tree = tree
  Names <- MCNames
  NameOrder <- MCNameOrder
  Items <- MCItems
  Origin <- MCOrigin
  Dirs = {tree}
  Big = {}
  Rivals = {b}
  Bridges = {a}
  Sticky = {note}
  Sweepers = {1}
  MaxSuffix = 0
  UserActs = "always"
  Overlap = "never"
  MaxCrashes = 1
  Buckets <- MCBuckets
  GitOnly <- MCGitOnly
  Broad = {"src"}
  WarnSize = 2
  XdgAtHome = {"DESKTOP"}
  CodeRoots <- MCCodeRoots
  Checker = TRUE
  Old = {tree}
INVARIANTS JournalComplete
PROPERTIES NagPersists NagCeases PromiseKept DirectoriesSurvive
