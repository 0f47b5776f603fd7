SPECIFICATION OperationsSpec
CONSTANTS
  Workers = {w1, w2}
  Ttl = 6
  Renew = 2
  Latency = 1
  MaxFaults = 2
  Alarms = {a1}
  Requests = {p1}
  Jobs = {p2}
  Tokens = {t1, t2, t3}
  MaxNoteFaults = 2
  Codes = {c1}
  OrderIds = {o1, o2}
  Matchers = {m1}
  Prices = {1, 2}
  Quantities = {1, 2}
  InitialCash = 6
  FeeUnit = 2
  MinFee = 1
  TaxUnit = 4
  MaxDay = 3
  SpansMidnight = TRUE
  Kinds = {k1}
  FeedRequests = {r1}
  Sources = 2
  Hanging = {1, 2}
  PoolSize = 2
  MaxHangs = 1
  MaxQueue = 1
  Instruments <- TwoInstruments
  Allocations <- OneDecision
  Submitted <- TwoChoices
  Markets <- ThreeMarkets
  Slip = 1
  OverrideFeeUnit = 20
  OverrideMinFee = 1
  OverrideTaxUnit = 20
  MaxAttempts = 2
  MaxOverrideFaults = 1
INVARIANT OneScheduler
PROPERTIES SchedulerRunsAgain AlarmsDelivered OvernightOrdersEnd QuotesGoOn OverridesSettled
CHECK_DEADLOCK FALSE
