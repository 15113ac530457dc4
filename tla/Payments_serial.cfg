\* A server that handles one request at a time, poll or webhook.  PENDING
\* callbacks are left out: each of them adds an entry of its own, so that with
\* them one payment has several however few requests overlap.
CONSTANTS
  p1 = p1
  p2 = p2
  starter = starter
  growth = growth
  Payments = {p1}
  Plans = {starter, growth}
  Polls = {t1}
  Hooks = {t1}
  Quota <- MCQuota
  WarnPercent = 80
  PlanOf <- MCPlanOf
  SignupPlan = starter
  Today = 1
  CallbackStatuses = {"SUCCESSFUL", "FAILED"}
  MaxFailedAudits = 1
  None = None
SPECIFICATION FairSpec
INVARIANTS SettlesExactlyOnce
PROPERTIES EveryPaymentSettles
