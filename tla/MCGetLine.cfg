SPECIFICATION Spec
CONSTANTS
  HeapSize = 160
  Base = 16
  Digit = {0, 1, 2}
  Modulus = 64
  MaxInput = 12
  MaxLine = 4
INVARIANTS
  LineReturned
  AcceptedIsTyped
  AlgorithmsAgree
CHECK_DEADLOCK FALSE
