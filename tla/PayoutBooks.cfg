SPECIFICATION Spec
CONSTANTS
  s1 = s1
  s2 = s2
  u1 = u1
  u2 = u2
  Owner <- OneSeller
  Sagas = {s1, s2}
  Users = {u1}
  Workers = {w1}
  Callers = {c1}
  Amounts = {1, 2}
  EarnedAtStart = 3
  PayoutMinimum = 1
  MinInterval = 1
  PendingSla = 0
  SubmittedSla = 0
  MaxPayoutAge = 0
  MaxPayoutAttempts = 2
  RateNum = 1
  RateDen = 2
  HasProbe = FALSE
  MaxFaults = 0
  MaxEdits = 1
INVARIANTS
  TypeOK
  BooksMatchState
  ReserveBacksOpenPayouts
  RailGetsSealedAmount
SYMMETRY SagaSymmetry
