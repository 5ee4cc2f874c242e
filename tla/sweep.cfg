\* One run at a time, and a user who waits for it to end.
SPECIFICATION FairSpec
CONSTANTS
  a = a   b = b   note = note   paper = paper   tree = tree
  Names <- MCNames
  NameOrder <- MCNameOrder
  Items <- MCItems
  Origin <- MCOrigin
  Dirs = {tree}
  Big = {}
  Rivals = {b}
  Bridges = {b}
  Sticky = {tree}
  Sweepers = {1}
  MaxSuffix = 2
  UserActs = "between"
  Overlap = "never"
  MaxCrashes = 0
INVARIANTS UndoBackwards
PROPERTIES FilesSurvive NothingBuried UndoThorough StraysFiled
