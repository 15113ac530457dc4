\* Two verifications admitted side by side on a paid plan.
CONSTANTS
  t1 = t1
  t2 = t2
  starter = starter
  growth = growth
  Threads = {t1, t2}
  Plans = {starter, growth}
  QuotaStarter = 1
  QuotaGrowth = 2
  Quota <- MCQuota
  WarnPercent = 80
  SignupPlan = starter
  LastMonth = 1
  MaxRecorded = 4
  MaxPurchases = 1
  MaxRestarts = 0
  MaxRaised = 0
  None = None
SPECIFICATION Spec
INVARIANTS BlocksAtQuota
