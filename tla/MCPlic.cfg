SPECIFICATION PlicSpec
CONSTANTS
  Source <- MCSource
  CompleteValue <- MCCompleteValue
  PriorityValue = {0, 1}
  PendingWord = {0, 2}
INVARIANTS
  PlicTypeOK
  PendingExact
  ClaimOutstanding
