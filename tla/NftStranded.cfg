CONSTANTS
  ReinstallAfter = 3
  Fallible = {"create"}
  MaxFaults = 1
  MaxFlushes = 1
  MaxCrashes = 0
SPECIFICATION FairSpec
PROPERTIES
  NeverTotalOnlyForever
