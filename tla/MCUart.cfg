SPECIFICATION Spec
CONSTANTS
  Input <- MCInput
  Value <- MCValue
  Offset <- MCOffset
  StoreOffset <- MCStoreOffset
  MaxTyped = 3
  MaxEofReads = 2
  MaxPrinted = 1
INVARIANTS
  TypeOK
  InOrder
  SleepsOnlyWhenFull
  FirstInterruptHasByte
PROPERTY PortSpec
