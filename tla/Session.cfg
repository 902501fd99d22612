CONSTANTS
  User = User
  Worker = Worker
  Main = User
  Threads <- TheThreads
  Refs = {r1, r2, r3}
  None = None
  MaxSnapshots = 2
  MaxAlerts = 2
  MaxRecords = 2
SPECIFICATION SessionSpec
INVARIANT NoFault
INVARIANT NothingLeaks
INVARIANT ClosedHoldsNothing
INVARIANT SmcFollowsSampler
INVARIANT StreamComplete
INVARIANT SamplesComplete
PROPERTY CallsSerial
PROPERTY StoppedIsFinal
PROPERTY StopReturns
CHECK_DEADLOCK FALSE
