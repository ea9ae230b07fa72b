SPECIFICATION Spec
CONSTANTS
  Clients = {c1, c2}
  Interval = 1
  Limits <- TwoLimits
  Retention = 5
  MaxWait = 2
  MinCooldown = 3
  RetryAfters = {0, 5}
  MaxLag = 1
  MaxTime = 7
SYMMETRY Symmetry
INVARIANTS TypeOK SpacedReservations QuotaKept CooldownDrains
