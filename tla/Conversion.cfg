CONSTANTS
  Names <- TheNames
  Channels <- TheChannels
  Tables <- TheTables
  Null = Null
  MaxCores = 2
  Interval = 2
  Counts = {1, 2}
  Few <- TheFew
  Readings <- TheReadings
SPECIFICATION ConvSpec
INVARIANT SharesClosest
INVARIANT ViewsAgree
INVARIANT FrameIsMean
INVARIANT BarFits
