CONSTANTS
  session = session
  byHand = byHand
  headless = headless
  Agent = {session, byHand, headless}
  Silent = {headless}
  WindowLen = 2
  RawRet = 1
  Limit = 5
  Traffic = {2, 4, 5}
  MaxClock = 2
  MaxUsed = 6
  MaxCrashes = 1
  MaxDeaths = 1
  MaxUnmarked = 1
SPECIFICATION FairSpec
INVARIANTS
  CrossingsRecorded
  NoFalseAlarm
  EightyBeforeHundred
  NotifiedOnce
PROPERTIES
  CrossingIsNotified
