CONSTANTS
  Terminals = {109, 200}
  TableWidth = 74
  GridMinWidth = 96
  Frame = 4
  SparkMin = 8
  SparkMax = 24
  Shapes <- TheShapes
  FirstShape <- ZeroShape
  MaxFrames = 2
  MaxEvents = 2
  Texts = {"", "z", "(", "()"}
  Blank = ""
  Edits <- TheEdits
  Invalid = {"("}
  ConfigPattern = "config"
  MaxKeys = 5
SPECIFICATION BothSpec
INVARIANT SettledIsCurrent
INVARIANT SparksInOrder
INVARIANT FilterAgrees
PROPERTY FormHolds
CHECK_DEADLOCK FALSE
