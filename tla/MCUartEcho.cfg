SPECIFICATION EchoSpec
CONSTANTS
  Input <- MCInput
  Value <- MCValue
  Offset <- MCOffset
  StoreOffset = {}
  MaxTyped = 3
  MaxEofReads = 0
  MaxPrinted = 4
INVARIANTS
  CheckedLoad
  EchoesInOrder
PROPERTY EveryByteEchoed
