CONSTANTS
  SubsampleCounts = {1, 3}
  None = None
  MaxClock = 3
  MaxJoules = 3
  MaxShown = 3
SPECIFICATION Spec
INVARIANT TypeOK
INVARIANT BytesNeverInvented
INVARIANT BytesReportedOnce
INVARIANT FramesTile
INVARIANT SubsamplesComplete
