CONSTANTS
  Texts = {"", "z", "(", "()"}
  Blank = ""
  Edits <- TheEdits
  Invalid = {"("}
  ConfigPattern = "config"
  MaxKeys = 6
SPECIFICATION EditorSpec
INVARIANT CancelRestores
CHECK_DEADLOCK FALSE
