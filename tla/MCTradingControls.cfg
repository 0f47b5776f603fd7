SPECIFICATION FairSpec
CONSTANTS
  Grants = {g1, g2}
  MaxActivations = 1
  o1 = o1
  o2 = o2
  Orders <- TwoOrders
  Alike <- Twins
  Bridges = {b1, b2}
  MaxFaults = 2
INVARIANTS AtMostOnce StoppedNeverSent EffectsPaidOnce
CHECK_DEADLOCK FALSE
PROPERTIES SentOrdersFound
