\* The monitor in either of its two loops, with the hourly maintenance and the
\* one of system start behind it.
SPECIFICATION GuardSpec
CONSTANTS
  Units = {"timer", "startup"}
  Installers <- MCInstallers
  MaxEvents = 2
  MaxFaults = 1
  MaxTrouble = 1
PROPERTIES Restored EndsHonestly TroubleIsForgotten
