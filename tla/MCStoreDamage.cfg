SPECIFICATION DamagedSpec
CONSTANTS
  Requests = {r1, r2}
  Probes = {p1}
  Employers = {e1}
  SignalIds = {s1}
  Operator = operator
  None = none
  MaxCrashes = 1
INVARIANT HealthSeesDamage
PROPERTIES DamageNotExtended LockReturns
CHECK_DEADLOCK FALSE
