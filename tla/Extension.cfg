CONSTANTS
  first = first
  second = second
  Slot = {first, second}
  MaxTraffic = 2
  MaxToggles = 2
  MaxChanges = 1
  MaxFailures = 1
SPECIFICATION EFairSpec
INVARIANTS
  NothingTornDownIsUsed
  OneTimerWhileEnabled
  LabelFollowsModel
PROPERTIES
  ShownCatchesUp
