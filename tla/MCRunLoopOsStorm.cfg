SPECIFICATION OsSpec
CONSTANTS
  WordBase = 16
  Data = {}
  Source <- MCSource
  CompleteValue <- MCSource
  PriorityValue = {0}
  PendingWord = {}
  Int <- MCInt
  Delegated <- MCInt
  Input = {a}
  MaxTyped = 1
  MaxNotify = 1
  MaxSoftware = 1
PROPERTY SoftwareTaken
