\* Two polls of one payment in flight at once.
CONSTANTS
  p1 = p1
  p2 = p2
  starter = starter
  growth = growth
  Payments = {p1}
  Plans = {starter, growth}
  Polls = {t1, t2}
  Hooks = {}
  Quota <- MCQuota
  WarnPercent = 80
  PlanOf <- MCPlanOf
  SignupPlan = starter
  Today = 1
  CallbackStatuses = {"SUCCESSFUL", "FAILED"}
  MaxFailedAudits = 1
  None = None
SPECIFICATION Spec
INVARIANTS SettlesExactlyOnce
