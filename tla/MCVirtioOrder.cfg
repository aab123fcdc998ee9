SPECIFICATION Spec
CONSTANTS
  Sector = {s, t}
  Image = {s}
  Value = {v, w}
  Blank = blank
  Chain <- MCTwoChains
  MaxInFlight = 2
  IndexMod = 8
  MaxRequest = 4
  MaxReset = 0
INVARIANT InOrder
CHECK_DEADLOCK FALSE
