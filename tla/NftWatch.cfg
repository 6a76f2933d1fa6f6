CONSTANTS
  ReinstallAfter = 3
  Fallible = {"read", "check", "destroy", "create", "publish"}
  MaxFaults = 5
  MaxFlushes = 2
  MaxCrashes = 2
SPECIFICATION FairSpec
INVARIANTS
  
  NoDeltaAcrossReinstall
PROPERTIES
  SplitRecovers
