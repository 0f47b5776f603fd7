CONSTANTS
  c1 = c1
  o1 = o1
  o2 = o2
  o3 = o3
  m1 = m1
  Codes = {c1}
  OrderIds = {o1, o2, o3}
  Matchers = {m1}
  Prices = {1, 2}
  Quantities = {1, 2}
  InitialCash = 6
  FeeUnit = 2
  MinFee = 1
  TaxUnit = 4
  MaxDay = 3
  SpansMidnight = TRUE
SPECIFICATION Spec
SYMMETRY OrderSymmetry
INVARIANT SharesReserved
CHECK_DEADLOCK FALSE
