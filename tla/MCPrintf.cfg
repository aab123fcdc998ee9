SPECIFICATION Spec
CONSTANTS
  NtoaSize = 12
  PtrWidth = 3
  CharMod = 4
  ShortMod = 16
  IntMod = 4096
  Counts = {0, 1, 3, 4095}
  Words = {0, 5, 18, 2600}
  Stars <- StarsDef
  Strings <- StringsDef
  Figures = {0, 1, 3}
  MaxNumber = 13
  MaxFormat = 6
INVARIANTS
  TextBounded
  NumberReadsBack
  FieldFilled
CHECK_DEADLOCK FALSE
