SPECIFICATION OsSpec
CONSTANTS
  WordBase = 16
  Data = {}
  Source <- MCSource
  CompleteValue <- MCSource
  PriorityValue = {0}
  PendingWord = {}
  Int <- MCInt
  Delegated <- MCInt
  Input = {a}
  MaxTyped = 2
  MaxNotify = 3
  MaxSoftware = 1
INVARIANTS
  NoSpuriousClaim
  CompletionShown
PROPERTIES
  HandlerNotReentered
  RequestCompletes
  ByteReceived
  SoftwareTakenWhileQuiet
