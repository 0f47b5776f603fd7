SPECIFICATION AccountsSpec
CONSTANTS
  s1 = s1
  t2 = t2
  w2 = w2
  Sessions = {s1}
  Turns = {t1, t2}
  SessionOf <- OneSession
  Versions = {v1}
  Removers = {w1, w2}
  MaxRevision = 2
  MaxCrashes = 1
  Grants = {g1}
  Purposes = {"reset_totp", "override_decision"}
  MaxFailures = 2
  LockTime = 2
  GrantTime = 1
  MaxTime = 3
  MaxVersion = 1
  MaxSecrets = 2
  x1 = x1
  x2 = x2
  StrategyIds = {x1, x2}
  Pages = {p1}
  Calls = {q1}
  Sources = {"a"}
  Catalog <- TwoTypes
  Drafts <- OneDraft
  Changes <- SomeChanges
  MaxValue = 2
  MaxRevisions = 3
  MaxSandboxes = 1
  CandidateSets <- BothValues
  MaxCombinations = 2
CHECK_DEADLOCK FALSE
INVARIANT NoLostEdit
