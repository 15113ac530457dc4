\* Two requests at a time: what survives every interleaving.
CONSTANTS
  t1 = t1
  t2 = t2
  starter = starter
  growth = growth
  Threads = {t1, t2}
  Plans = {starter, growth}
  QuotaStarter = 1
  QuotaGrowth = 3
  Quota <- MCQuota
  WarnPercent = 60
  SignupPlan = starter
  LastMonth = 2
  MaxRecorded = 38
  MaxPurchases = 1
  MaxRestarts = 1
  MaxRaised = 0
  None = None
SYMMETRY ThreadSymmetry
SPECIFICATION Spec
INVARIANTS TypeOK UsageWasRecorded OverrunIsBounded
PROPERTIES VerifyingKeepsEntitlement
