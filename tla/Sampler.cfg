CONSTANTS
  eth = eth
  wlan = wlan
  U32 = 8
  U64 = 64
  MiB = 2
  BytesPerMbit = 1
  Iface = {eth, wlan}
  Dir = {"rx"}
  Width <- BothWidths
  MaxB <- BothSlow
  FlowSizes <- Flows
  InitCounter <- Starts
  MaxBytes = 10
  MaxFlaps = 2
  MaxLapses = 1
SPECIFICATION Spec
INVARIANTS
  TypeOK
  BaselineExplainsReading
  PhantomBounded
  MeasurableIsRecorded
  LossIsCounted
