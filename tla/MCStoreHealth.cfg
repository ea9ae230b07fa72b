SPECIFICATION Spec
CONSTANTS
  Requests = {r1}
  Probes = {p1}
  Employers = {e1}
  SignalIds = {s1}
  Operator = operator
  None = none
  MaxCrashes = 0
INVARIANT HealthHonest
CHECK_DEADLOCK FALSE
