CONSTANTS
  Root = Root
  Daemon = Daemon
  alice = alice
  User = {alice}
  System = System
  Garbage = Garbage
  r1 = r1
  r2 = r2
  a1 = a1
  Session = {r1, r2, a1}
  AccountOf <- Accounts
  Settings <- GoodAndBad
  Drafts <- EmptyOrGarbage
  Environments <- Variables
  Burst = 2
  MaxSets = 2
  MaxResets = 1
  MaxEdits = 1
  MaxKills = 1
  MaxStops = 1
SPECIFICATION FairSpec
INVARIANTS
  FilesKeepWhatWasSet
  OutOfTuneOnlyByOverride
PROPERTIES
  OnlyEditorsRepair
  ComesBack
CHECK_DEADLOCK FALSE
