CONSTANTS
  MaxPollers = 2
  MaxQueue = 2
  MaxCount = 2
  None = None
SPECIFICATION FairSpec
INVARIANT PauseQuiets
INVARIANT AlwaysPolled
PROPERTY QuitEndsAll
PROPERTY TableFills
CHECK_DEADLOCK FALSE
