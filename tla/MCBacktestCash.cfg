SPECIFICATION BacktestsSpec
CONSTANTS
  Users = {u1}
  JobIds = {j1, j2}
  Requests = {r1, r2}
  Workers = {w1, w2}
  MaxStalls = 1
  MaxCrashes = 1
  Codes = {c1, c2}
  Capital = 10
  Targets = {0, 100}
  MaxBars = 2
  FeeUnit = 20
  MinFee = 2
  TaxUnit = 20


CHECK_DEADLOCK FALSE
INVARIANT CashCovered
