SPECIFICATION BacktestsSpec
CONSTANTS
  Users = {u1}
  JobIds = {j1, j2}
  Requests = {r1, r2}
  Workers = {w1, w2}
  MaxStalls = 1
  MaxCrashes = 1
  Codes = {c1, c2}
  Capital = 10
  Targets = {0, 100}
  MaxBars = 3
  FeeUnit = 20
  MinFee = 1
  TaxUnit = 20
INVARIANTS OneActiveFullA
PROPERTIES ContractKept JobsEnd OnNextBar
CHECK_DEADLOCK FALSE
