SPECIFICATION HarvestSpec
CONSTANTS
  bls = bls
  qwi = qwi
  garbled = garbled
  key = key
  Sessions = {h1}
  Swallowers = {h1}
  Keys = {key}
  Contents = {bls, qwi, garbled}
  Plan <- TwoTasks
  ReadsFrom <- Reads
  Unreadable = {garbled}
  None = none
  MaxRows = 5
INVARIANT TasksIndependent
CHECK_DEADLOCK FALSE
