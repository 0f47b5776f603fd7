SPECIFICATION ConversationsSpec
CONSTANTS
  Keys = {key}
  Callers = {c1, c2}
  MaxEvidence = 2
  MaxClaims = 3
  MaxStalls = 2
  MaxCrashes = 1
  Requests = {r1, r2, r3}
  Earlier = s0
  Processes = {p1, p2}
  Stored = {s1, s2}
  Fresh = {s3}
  Calls = {1, 2, 3}
  MaxChoices = 4
  Ids = {i1}
  Engines = {"graph", "single"}
  Questions = {q1, q2, q3}
  Concurrency = 2
  MaxRevisions = 2
  MaxFaults = 2
  Letters = {"a", "b"}
  Flags <- MCFlags
  MaxText = 5
  Topics = {"indices"}
  MaxSockets = 2
  MaxTickets = 2
  MaxAttempts = 2
  MaxChanges = 4
  Codes = {k1, k2}
  Forecasts <- SomeForecasts
  Industries = {"bank"}
  Markets <- SomeMarkets
  Holdings <- SomeHoldings
  Assets = {200, 168, 163, 150}
  Capital = 200
  Instruments = {k1}
  LastDay = 2
  ChunkSize = 1
  b2 = b2
  Builders = {b1, b2}
  Backtests = {t1}
  MaxUpdates = 1
  Records <- SomeRecords
  First <- FirstDays
  FiltersOf <- Releases
INVARIANTS DecisionSound OneAuditChain ShownIsSafe TopicsRestored UniverseAgreed
PROPERTIES RepeatedRequestsEndRun EarlierTurnsKnown LastChoiceShown OutcomesKept
CHECK_DEADLOCK FALSE
