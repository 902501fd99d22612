CONSTANTS
  MaxPollers = 2
  MaxQueue = 2
  MaxCount = 2
  None = None
SPECIFICATION Spec
INVARIANT OldPollerLeaves
CHECK_DEADLOCK FALSE
