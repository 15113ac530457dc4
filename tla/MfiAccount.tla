----------------------------- MODULE MfiAccount -----------------------------
(***************************************************************************)
(* The subscription columns of one mfi_accounts row and the pure updates   *)
(* the services make to an in-memory copy of it.  Which copy, and when it  *)
(* is written back, is for the modules that extend this one.               *)
(***************************************************************************)
EXTENDS Naturals, OrmSession

CONSTANTS
  Plans,     \* the plans an account may be on
  Quota,     \* Quota[plan]: verifications allowed per billing month
  WarnPercent  \* settings.quota_warning_ratio, 80 by default

ASSUME QuotaAssumption == Quota \in [Plans -> Nat] /\ WarnPercent \in Nat \ {0}

MfiStatus == {"PENDING", "ACTIVE", "SUSPENDED"}

\* Months are numbered from 1; the roll-over test compares (year, month) only,
\* so a billing_cycle_start is the number of its month, and 0 stands for NULL.
NoCycle == 0
Month == Nat \ {NoCycle}

AccountRow ==
  [status: MfiStatus, plan: Plans, usage: Nat, cycle: Nat, warned: BOOLEAN]

\* (Mutant: sign-up hands out an active account, as it did before the pay gate.)
SignedUpActive(plan) ==
  [status |-> "ACTIVE", plan |-> plan, usage |-> 0, cycle |-> NoCycle,
   warned |-> FALSE]

\* The row a completed sign-up leaves behind: a plan is chosen, nothing is paid.
SignedUp(plan) ==
  [status |-> "PENDING", plan |-> plan, usage |-> 0, cycle |-> NoCycle,
   warned |-> FALSE]

\* Put the MFI on the paid plan and start a fresh billing cycle.  The warning
\* flag is not among the assigned columns.
Activate(a, plan, today) ==
  [a EXCEPT !.plan = plan, !.status = "ACTIVE", !.cycle = today, !.usage = 0]

\* Reset usage when the billing month has rolled over.
NeedsRoll(a, today) == a.cycle # today

\* (Mutant: the cycle restarts and the usage is left as it was.)
RollPeriodKeepsUsage(a, today) ==
  IF NeedsRoll(a, today) THEN [a EXCEPT !.cycle = today, !.warned = FALSE] ELSE a

\* (Mutant: the usage restarts and the cycle is left as it was.)
RollPeriodKeepsCycle(a, today) ==
  IF NeedsRoll(a, today) THEN [a EXCEPT !.usage = 0, !.warned = FALSE] ELSE a

RollPeriod(a, today) ==
  IF NeedsRoll(a, today)
    THEN [a EXCEPT !.usage = 0, !.cycle = today, !.warned = FALSE]
    ELSE a

\* (Mutants: the counter counts down, as a remaining allowance would; a
\* verification is charged by the handler and by the commit.)
RecordUsageDown(a) == [a EXCEPT !.usage = @ - 1]

RecordUsageTwice(a) == [a EXCEPT !.usage = @ + 2]

RecordUsage(a) == [a EXCEPT !.usage = @ + 1]

\* (Mutant: off by one.)
ExhaustedBeyond(a) == a.usage > Quota[a.plan]

\* QuotaStatus.exhausted (used >= limit) and QuotaStatus.warning: the ratio
\* used / limit reaches the setting, and is 0.0 for a plan without allowance.
Exhausted(a) == a.usage >= Quota[a.plan]

Warning(a) ==
  Quota[a.plan] # 0 /\ 100 * a.usage >= WarnPercent * Quota[a.plan]

=============================================================================
