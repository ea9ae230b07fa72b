SPECIFICATION Spec
CONSTANTS
  Employers = {e1, e2}
  SignalIds = {s1, s2, s3}
  TransitionIds = {t1, t2}
  Operator = operator
  None = none
  macomb = macomb
  wayne = wayne
  Markets = {macomb, wayne}
  SignalForms <- CapacityForms
  Offers <- CapacityOffers
  MaxHeadcount = 2
  YearDays = 3
  SignalDays = 2
  CredentialDays = 1
  SignalCap = 2
  LastDay = 1
SYMMETRY Symmetry
INVARIANTS TypeOK CapacityRespected
PROPERTY KeepsPromise
