CONSTANTS
  Main = Main
  Loop = Loop
  Threads <- TheThreads
  Refs = {r1, r2}
  Handlers = {h1}
  None = None
  MaxSnapshots = 3
SPECIFICATION FairSpec
INVARIANT FrameNotOlder
PROPERTY ScrapesGoForward
PROPERTY KeepsWarm
PROPERTY ScrapeAnswered
CHECK_DEADLOCK FALSE
