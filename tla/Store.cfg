CONSTANTS
  eth = eth
  wlan = wlan
  Iface = {eth, wlan}
  HourLen = 2
  RawRet = 4
  HourlyRet = 5
  RollupEvery = 2
  RetainEvery = 2
  GapLimit = 2
  Sleeps <- SleepAndGap
  MaxSuspend = 1
  MaxClock = 8
  MaxWrites = 2
  RollupMayFail = FALSE
  ClockMayStepBack = FALSE
  DayLen = 4
  DaysPerWeek = 2
  DaysPerMonth = 3
  HourSpan = 2
  DaySpan = 8
  WeekSpan = 8
  MonthSpan = 12
  ProcRet = 1
  MaxDrains = 1
SPECIFICATION TSpec
SYMMETRY IfaceSymmetry
INVARIANTS
  NeverTwice
  PendingNotCounted
  NeverLost
  TablesKeepTheirWindows
  LiveTotalsExact
  ShowTrailsToday
  RowsAreComplete
  BudgetBarIsTheWindow
  AppsOfTheWindow
PROPERTIES
  ImplementsLedger
