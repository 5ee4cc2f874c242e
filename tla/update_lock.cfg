\* The timer and two shells.
SPECIFICATION FairSpec
CONSTANTS
  Timer = Timer   s1 = s1   s2 = s2
  Runs <- MCRuns
  MaxKills = 3
INVARIANTS ExclusiveUntilIntruded
PROPERTIES KeepsUpdating
