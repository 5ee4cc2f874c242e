\* The timer and two shells: two updates at once.
SPECIFICATION Spec
CONSTANTS
  Timer = Timer   s1 = s1   s2 = s2
  Runs <- MCRuns
  MaxKills = 0
INVARIANTS MutualExclusion
