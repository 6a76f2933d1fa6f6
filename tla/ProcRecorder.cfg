CONSTANTS
  eth = eth
  tether = tether
  curl = curl
  sshd = sshd
  wget = wget
  Iface = {eth, tether}
  Pid = {1, 2}
  Comm = {curl, sshd, wget}
  ReopenEvery = 1
  FlushEvery = 0
  ScratchLimit = 1
  MaxFrames = 2
  MaxChanges = 1
  MaxRefusals = 1
  MaxExecs = 1
  MaxDeaths = 1
SPECIFICATION MCSpec
INVARIANTS
  EveryByteOnce
  AppsExact
PROPERTIES
  BytesReachTable
  CapturesWhatIsThere
