SPECIFICATION LoopSpec
CONSTANTS
  WordBase = 16
  Data = {0, 8}
  Source <- MCSource
  CompleteValue = {1, 10}
  PriorityValue = {0}
  PendingWord = {0}
  Int <- MCInt
  Delegated <- MCDelegated
  Input = {a}
  MaxTyped = 1
  MaxNotify = 2
INVARIANTS
  LoopTypeOK
  ExternalStaysPosted
  NotifyAccounted
CHECK_DEADLOCK FALSE
