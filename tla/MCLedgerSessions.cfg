SPECIFICATION Spec
CONSTANTS
  Sessions = {s1, s2}
  Swallowers = {}
  Keys = {k1}
  Contents = {v1}
  None = none
  MaxRows = 3
SYMMETRY Symmetry
INVARIANTS TypeOK ChainVerifies EveryWriteLedgered OneLineage
PROPERTY HistoryGrows
CHECK_DEADLOCK FALSE
