SPECIFICATION ResearchSpec
CONSTANTS
  Schedulers = {s1}
  Admins = {a1}
  SimDays = 2
  ShadowDays = 1
  MinSample = 2
  LastDay = 3
  MaxFaults = 1
  Training = {1}
  Inference = {2}
  Workers = {w1, w2}
  MaxAttempts = 2
  MaxJobFaults = 2
INVARIANTS PredictedBeforeKnown
PROPERTIES PromotedByTheBook MissedEndsProgram OneModelPerJob OpsJobsEnd
CHECK_DEADLOCK FALSE
