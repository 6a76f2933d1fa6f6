CONSTANTS
  eth = eth
  Iface = {eth}
  HourLen = 2
  RawRet = 3
  HourlyRet = 5
  RollupEvery = 2
  RetainEvery = 3
  GapLimit = 2
  Sleeps <- OnePoll
  MaxSuspend = 0
  MaxClock = 6
  MaxWrites = 2
  RollupMayFail = TRUE
  ClockMayStepBack = TRUE
  DayLen = 4
SPECIFICATION ISpec
INVARIANTS
  ImportReplacesItsDays
