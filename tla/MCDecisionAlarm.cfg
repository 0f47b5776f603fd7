SPECIFICATION FairSpec
CONSTANTS
  Keys = {k1}
  Callers = {c1, c2}
  MaxEvidence = 2
  MaxClaims = 3
  MaxStalls = 0
  MaxCrashes = 1

PROPERTY SevereDisagreementNotified
CHECK_DEADLOCK FALSE
