SPECIFICATION Spec
CONSTANTS
  Sector = {s, t}
  Image = {s}
  Value = {v}
  Blank = blank
  Chain <- MCOneChain
  MaxInFlight = 1
  IndexMod = 8
  MaxRequest = 9
  MaxReset = 1
INVARIANTS
  TypeOK
  AccessSucceeds
  UsedInFlight
PROPERTIES
  PortSpec
  EveryRequestCarried
CHECK_DEADLOCK FALSE
