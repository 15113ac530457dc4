\* An account that is in use while its renewal is being confirmed.
CONSTANTS
  p1 = p1
  p2 = p2
  starter = starter
  growth = growth
  Payments = {p1, p2}
  Plans = {starter, growth}
  Polls = {t1}
  Hooks = {w1}
  Quota <- MCQuota
  WarnPercent = 80
  PlanOf <- MCPlanOf
  SignupPlan = starter
  Today = 1
  CallbackStatuses = {"SUCCESSFUL", "FAILED"}
  MaxFailedAudits = 1
  None = None
SPECIFICATION Spec
PROPERTIES FreshCycleOnSuccess
