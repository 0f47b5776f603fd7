CONSTANTS
  c1 = c1
  o1 = o1
  o2 = o2
  o3 = o3
  m1 = m1
  Codes = {c1}
  OrderIds = {o1, o2, o3}
  Matchers = {m1}
  Prices = {1, 2}
  Quantities = {1, 2}
  InitialCash = 6
  FeeUnit = 2
  MinFee = 1
  TaxUnit = 4
  MaxDay = 3
  SpansMidnight = FALSE
  w1 = w1
  w2 = w2
  Days = {1, 2}
  Ranges <- MCRanges
  Imports <- MCImports
  Writers = {w1, w2}
  MaxRuns = 2
  MaxUpsets = 1
SPECIFICATION MarketSpec
SYMMETRY MarketSymmetry
INVARIANTS OrdersBacked BooksBalance NoOvernightFill CertifiedRows
PROPERTY ReadyIsLoadable
CHECK_DEADLOCK FALSE
