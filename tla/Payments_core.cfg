\* Concurrent polls and a webhook, callbacks of every status, two overlapping
\* checkouts: what survives every interleaving.
CONSTANTS
  p1 = p1
  p2 = p2
  starter = starter
  growth = growth
  Payments = {p1, p2}
  Plans = {starter, growth}
  Polls = {t1}
  Hooks = {w1}
  Quota <- MCQuota
  WarnPercent = 80
  PlanOf <- MCPlanOf
  SignupPlan = starter
  Today = 1
  CallbackStatuses = {"PENDING", "SUCCESSFUL", "FAILED"}
  MaxFailedAudits = 1
  None = None
SPECIFICATION Spec
INVARIANTS TypeOK AgreesWithProvider InFlightIsTrue AuditExplainsStatus
           CompletedIsExplained EntitlementIsPaidFor
PROPERTIES TerminalIsFinal RefinesLedger
