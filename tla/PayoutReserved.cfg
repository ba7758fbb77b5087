SPECIFICATION Spec
CONSTANTS
  s1 = s1
  s2 = s2
  u1 = u1
  u2 = u2
  Owner <- OneSeller
  Sagas = {s1}
  Users = {u1}
  Workers = {w1}
  Callers = {c1}
  Amounts = {2}
  EarnedAtStart = 4
  PayoutMinimum = 1
  MinInterval = 0
  PendingSla = 0
  SubmittedSla = 0
  MaxPayoutAge = 1
  MaxPayoutAttempts = 2
  RateNum = 1
  RateDen = 2
  HasProbe = TRUE
  MaxFaults = 0
  MaxEdits = 0
INVARIANTS
  ReservedNotHandedOver
