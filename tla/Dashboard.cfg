CONSTANTS
  Snapshots <- MixedSnapshots
  SustainSamples = 2
  BwSatPercent = 85
  PkgPowerPercent = 85
  ThrottleFreqPercent = 90
  SwapRise = 3
  BwFloor = 13
  PkgFloor = 13
  None = None
  MaxFrames = 5
  HistMaxLen = 3
  AvgWindow = 2
  PowerScale = "auto"
  CpuRef = 30
  CpuPowerFloor = 20
  NetRateFloor = 10
SPECIFICATION DashSpec
INVARIANT EnergyOverTime
INVARIANT PercentsAgree
INVARIANT ChartTrue
PROPERTY KeepsPromise
PROPERTY ShowsContext
CHECK_DEADLOCK FALSE
