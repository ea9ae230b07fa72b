SPECIFICATION Spec
CONSTANTS
  Sessions = {harvest, s1}
  Swallowers = {harvest}
  Keys = {k1}
  Contents = {v1}
  None = none
  MaxRows = 2
INVARIANT EveryWriteLedgered
CHECK_DEADLOCK FALSE
