\* One request at a time, two months, an upgrade, a restart.
CONSTANTS
  t1 = t1
  t2 = t2
  starter = starter
  growth = growth
  Threads = {t1}
  Plans = {starter, growth}
  QuotaStarter = 2
  QuotaGrowth = 5
  Quota <- MCQuota
  WarnPercent = 80
  SignupPlan = starter
  LastMonth = 2
  MaxRecorded = 20
  MaxPurchases = 2
  MaxRestarts = 1
  MaxRaised = 1
  None = None
SPECIFICATION FairSpec
INVARIANTS MeteredExactly WarnedAtMostOnce
PROPERTIES RefinesMeter NewMonthReopens
