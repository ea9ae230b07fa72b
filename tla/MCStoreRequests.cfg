SPECIFICATION Spec
CONSTANTS
  Requests = {r1, r2, r3, r4}
  Probes = {}
  Employers = {e1, e2}
  SignalIds = {s1}
  Operator = operator
  None = none
  MaxCrashes = 1
SYMMETRY Symmetry
VIEW View
CONSTRAINT FewRequests
INVARIANTS TypeOK CommittedVerifies NothingAfterRevocation AnsweredIsDurable
PROPERTY RequestsAtomic
CHECK_DEADLOCK FALSE
