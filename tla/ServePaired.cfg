CONSTANTS
  Main = Main
  Loop = Loop
  Threads <- TheThreads
  Refs = {r1, r2, r3}
  Handlers = {h1, h2}
  None = None
  MaxSnapshots = 2
SYMMETRY Symmetric
SPECIFICATION Spec
INVARIANT FramePaired
CHECK_DEADLOCK FALSE
