SPECIFICATION Spec
CONSTANTS
  Employers = {e1, e2}
  SignalIds = {s1, s2}
  TransitionIds = {t1}
  Operator = operator
  None = none
  macomb = macomb
  wayne = wayne
  Markets = {macomb, wayne}
  SignalForms <- TermsForms
  Offers <- TermsOffers
  MaxHeadcount = 1
  YearDays = 3
  SignalDays = 2
  CredentialDays = 2
  SignalCap = 2
  LastDay = 2
SYMMETRY Symmetry
INVARIANTS BindingOffer StartedAfterOffer
PROPERTIES DecisionsFinal LockoutFinal WithdrawnSignalsGainNothing
