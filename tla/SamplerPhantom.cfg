CONSTANTS
  eth = eth
  wlan = wlan
  U32 = 8
  U64 = 64
  MiB = 2
  BytesPerMbit = 1
  Iface = {wlan}
  Dir = {"rx"}
  Width <- WlanWidth
  MaxB <- WlanFast
  FlowSizes <- FastFlows
  InitCounter <- WlanStarts
  MaxBytes = 12
  MaxFlaps = 1
  MaxLapses = 0
SPECIFICATION Spec
INVARIANTS
  NoPhantomTraffic
