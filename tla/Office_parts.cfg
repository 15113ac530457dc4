\* Two requests of everything in Directory; three threads behind the rate limiter;
\* two profile updates and a webhook; two institutions and one verification, whose
\* figures are read by one reader; four audit entries; two managers to mail.
CONSTANTS
  Tasks = {t1, t2}
  Invites = {i1}
  Emails = {e1, e2}
  Phones = {f1, f2}
  BranchNames = {b1, b2}
  Mfis = {m1, m2}
  PlanNames = {"starter", "growth"}
  PlanOf <- MCPlanOf
  Unlimited = Unlimited
  Nothing = Nothing
  Workers = {w1, w2, w3}
  MaxEvents = 2
  Window = 3
  MaxWait = 1
  LastInstant = 8
  MaxReboots = 1
  NotWaiting = NotWaiting
  Patches = {u1, u2}
  Webhooks = {h1}
  Connections = 2
  PrefKeys = {"quota", "weekly"}
  Defaults <- MCDefaults
  Free = Free
  Institutions = {n1, n2}
  Cases = {v1}
  Readers = {r1}
  Lookback = 1
  LastDate = 2
  Absent = Absent
  Entries = {x1, x2, x3, x4}
  Browsers = {o1}
  PageSize = 2
  MaxTransactions = 4
  Unwritten = Unwritten
  Recipients = {n1, n2}
  Documents <- MCDocuments
  ThisYear = 2026
  Words = {"caption", "speckle", "digits", "luc", "xavier", "kamga", "111", "222", "M"}
SPECIFICATION Spec
SYMMETRY Interchangeable
\* Records are used up, and the event loop can really hang.
CHECK_DEADLOCK FALSE
INVARIANTS
  TypeOK
  InviteMakesOneAccount
  LimitsOverrunBounded
  WindowHolds
  TogglesKept
  FiguresAgree
  NothingSkipped
  MailsAccountedFor
  FieldsRight
