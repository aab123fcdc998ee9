SPECIFICATION Spec
CONSTANTS
  Input <- MCInput
  Value <- MCValue
  Offset <- MCOffset
  StoreOffset <- MCStoreOffset
  MaxTyped = 1
  MaxEofReads = 1
  MaxPrinted = 0
INVARIANT RxMeansNewData
