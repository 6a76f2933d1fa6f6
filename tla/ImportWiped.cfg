CONSTANTS
  eth = eth
  Iface = {eth}
  HourLen = 2
  RawRet = 3
  HourlyRet = 5
  RollupEvery = 2
  RetainEvery = 3
  GapLimit = 2
  Sleeps <- OnePoll
  MaxSuspend = 0
  MaxClock = 5
  MaxWrites = 2
  RollupMayFail = FALSE
  ClockMayStepBack = FALSE
  DayLen = 4
SPECIFICATION ISpec
PROPERTIES
  ImportPreserved
