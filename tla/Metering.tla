------------------------------ MODULE Metering ------------------------------
(***************************************************************************)
(* Quota metering of one MFI: POST /verify from admission to the warning   *)
(* mail, with month ends, paid activations and admin actions in between.   *)
(*                                                                         *)
(* The handler commits up to three times and each time writes back its own *)
(* copy of the account row, loaded once by authentication: after the       *)
(* roll-over, with the verification (the pipeline runs before it, for      *)
(* seconds), and after the mail.  The handlers are threadpool functions,   *)
(* so an MFI's agents and its API clients run them side by side.           *)
(***************************************************************************)
EXTENDS MfiAccount, StaleCounter

CONSTANTS
  Threads,         \* requests the server handles at once
  SignupPlan,
  LastMonth,       \* bound: the months 1..LastMonth
  MaxRecorded,     \* bound: verifications admitted while fewer are recorded
  MaxPurchases,    \* bound: successful payments
  MaxRestarts,     \* bound
  MaxRaised,       \* bound: mails the server took although the send raised
  None

Months == 1..LastMonth

ASSUME MeteringAssumption ==
  /\ SignupPlan \in Plans
  /\ LastMonth \in Nat \ {0}
  /\ IsFiniteSet(Threads) /\ Threads # {}

VARIABLES
  account,     \* the committed mfi_accounts row
  today,       \* the month date.today() is in
  pc,          \* pc[t]: where thread t is in its request
  session,     \* session[t]: the row as last loaded or flushed, and the copy
  recorded,    \* verification rows committed for the MFI
  period,      \* history: the latest month a billing period began for
  opened,      \* history: how many verifications there were when it began
  mails,       \* mails[m]: quota warnings sent for period m
  purchases,
  restarts,
  raised       \* sends that raised although the server took the mail

vars == <<account, today, pc, session, recorded, period, opened, mails,
          purchases, restarts, raised>>

counts == <<recorded, period, opened, mails, purchases, restarts, raised>>

Session == [loaded: AccountRow, mine: AccountRow]

TypeOK ==
  /\ account \in AccountRow
  /\ today \in Months
  /\ pc \in [Threads -> {"idle", "rolling", "verifying", "warning", "flagging",
                         "confirming"}]
  /\ session \in [Threads -> Session \cup {None}]
  /\ \A t \in Threads : pc[t] # "idle" => session[t] \in Session
  /\ recorded \in Nat /\ period \in Nat /\ opened \in Nat
  /\ mails \in [Months -> Nat]
  /\ purchases \in Nat /\ restarts \in Nat /\ raised \in Nat

Init ==
  /\ account = SignedUp(SignupPlan)
  /\ today = 1
  /\ pc = [t \in Threads |-> "idle"]
  /\ session = [t \in Threads |-> None]
  /\ recorded = 0 /\ period = NoCycle /\ opened = 0
  /\ mails = [m \in Months |-> 0]
  /\ purchases = 0 /\ restarts = 0 /\ raised = 0

-----------------------------------------------------------------------------
Move(t, label, s) ==
  /\ pc' = [pc EXCEPT ![t] = label]
  /\ session' = [session EXCEPT ![t] = s]

Return(t) == Move(t, "idle", None)

\* A copy without changes still to flush.
Clean(row) == [loaded |-> row, mine |-> row]

Commit(t, row) == account' = Flush(account, session[t].loaded, row)

\* (Mutant: the quota is enforced on the row as loaded, before it is rolled.)
SubmitEnforceFirst(t) ==
  /\ pc[t] = "idle"
  /\ account.status = "ACTIVE"
  /\ recorded < MaxRecorded
  /\ ~Exhausted(account)
  /\ IF NeedsRoll(account, today)
       THEN Move(t, "rolling", [loaded |-> account, mine |-> RollPeriod(account, today)])
       ELSE Move(t, "verifying", Clean(account))
  /\ UNCHANGED <<account, today, counts>>

\* get_metered_principal: an inactive or exhausted account is refused, which
\* changes nothing and is no step here.
Submit(t) ==
  /\ pc[t] = "idle"
  /\ account.status = "ACTIVE"
  /\ recorded < MaxRecorded
  /\ IF NeedsRoll(account, today)
       THEN Move(t, "rolling", [loaded |-> account, mine |-> RollPeriod(account, today)])
       ELSE ~Exhausted(account) /\ Move(t, "verifying", Clean(account))
  /\ UNCHANGED <<account, today, counts>>

\* The roll-over is committed, then the quota enforced on the rolled copy.  The
\* first for a month begins its period; one from an older copy begins none.
Roll(t) ==
  /\ pc[t] = "rolling"
  /\ LET mine == session[t].mine IN
       /\ Commit(t, mine)
       /\ IF Exhausted(mine) THEN Return(t) ELSE Move(t, "verifying", Clean(mine))
       /\ period' = IF mine.cycle > period THEN mine.cycle ELSE period
       /\ opened' = IF mine.cycle > period THEN recorded ELSE opened
  /\ UNCHANGED <<today, recorded, mails, purchases, restarts, raised>>

\* A duplicate client ID, an unreadable upload or an error in the pipeline
\* ends the request before it recorded anything.
Abandon(t) ==
  /\ pc[t] = "verifying"
  /\ Return(t)
  /\ UNCHANGED <<account, today, counts>>

\* record_usage commits the verification and one unit of usage together; the
\* warning is due from 80% and not at 100%, unless the copy has it flagged.
Record(t) ==
  /\ pc[t] = "verifying"
  /\ LET mine == RecordUsage(session[t].mine) IN
       /\ Commit(t, mine)
       /\ IF mine.warned \/ ~Warning(mine) \/ Exhausted(mine)
            THEN Return(t)
            ELSE Move(t, "warning", Clean(mine))
  /\ recorded' = recorded + 1
  /\ UNCHANGED <<today, period, opened, mails, purchases, restarts, raised>>

SendWarning(t) ==
  /\ pc[t] = "warning"
  /\ Move(t, "flagging", session[t])
  /\ mails' = [mails EXCEPT ![session[t].mine.cycle] = @ + 1]
  /\ UNCHANGED <<account, today, recorded, period, opened, purchases, restarts,
                 raised>>

\* The server took the mail and the send raised nevertheless: its answer was
\* lost, or closing the connection failed.  The flag is not set.
WarningRaised(t) ==
  /\ pc[t] = "warning"
  /\ raised < MaxRaised
  /\ Return(t)
  /\ mails' = [mails EXCEPT ![session[t].mine.cycle] = @ + 1]
  /\ raised' = raised + 1
  /\ UNCHANGED <<account, today, recorded, period, opened, purchases, restarts>>

\* The MFI does not want the mail, or sending it failed before the server
\* took it.
SkipWarning(t) ==
  /\ pc[t] = "warning"
  /\ Return(t)
  /\ UNCHANGED <<account, today, counts>>

\* (Mutant: the flag is set on the copy and never committed.)
FlagWarnedUncommitted(t) ==
  /\ pc[t] = "flagging"
  /\ Return(t)
  /\ UNCHANGED <<account, today, counts>>

FlagWarned(t) ==
  /\ pc[t] = "flagging"
  /\ Commit(t, [session[t].mine EXCEPT !.warned = TRUE])
  /\ Return(t)
  /\ UNCHANGED <<today, counts>>

-----------------------------------------------------------------------------
(* What else writes the row: a settlement by poll or webhook (Payments), in *)
(* a request with a copy of its own; an admin; and the passing of time.    *)

ConfirmBegin(t) ==
  /\ pc[t] = "idle"
  /\ purchases < MaxPurchases
  /\ Move(t, "confirming", Clean(account))
  /\ UNCHANGED <<account, today, counts>>

ConfirmCommit(t) ==
  /\ pc[t] = "confirming"
  /\ \E plan \in Plans : Commit(t, Activate(session[t].mine, plan, today))
  /\ Return(t)
  /\ period' = today /\ opened' = recorded
  /\ purchases' = purchases + 1
  /\ UNCHANGED <<today, recorded, mails, restarts, raised>>

AdminSetStatus ==
  /\ \E s \in {"ACTIVE", "SUSPENDED"} : account' = [account EXCEPT !.status = s]
  /\ UNCHANGED <<today, pc, session, counts>>

NextMonth ==
  /\ today < LastMonth
  /\ today' = today + 1
  /\ UNCHANGED <<account, pc, session, counts>>

WorkerRestart ==
  /\ restarts < MaxRestarts
  /\ restarts' = restarts + 1
  /\ pc' = [t \in Threads |-> "idle"]
  /\ session' = [t \in Threads |-> None]
  /\ UNCHANGED <<account, today, recorded, period, opened, mails, purchases, raised>>

-----------------------------------------------------------------------------
\* The rest of a request that is under way.
Proceed(t) ==
  \/ Roll(t)
  \/ Abandon(t)
  \/ Record(t)
  \/ SendWarning(t)
  \/ WarningRaised(t)
  \/ SkipWarning(t)
  \/ FlagWarned(t)
  \/ ConfirmCommit(t)

Next ==
  \/ \E t \in Threads : Submit(t) \/ ConfirmBegin(t) \/ Proceed(t)
  \/ AdminSetStatus
  \/ NextMonth
  \/ WorkerRestart

Spec == Init /\ [][Next]_vars

\* A request that was admitted ends, and an MFI that needs a new period keeps
\* submitting until it gets one.
Fairness ==
  \A t \in Threads :
    /\ WF_vars(Proceed(t))
    /\ SF_vars(Submit(t) /\ pc'[t] = "rolling")

FairSpec == Spec /\ Fairness

-----------------------------------------------------------------------------
(* Whatever the interleaving.                                              *)

\* The counter never claims more verifications than were ever recorded: a
\* stale copy may lose units or carry them into another month, not invent one.
UsageWasRecorded == account.usage <= recorded

\* No interleaving drives the counter beyond the largest allowance, although
\* every increment is written from a copy that may be long out of date.
UsageWithinSomeQuota == \E plan \in Plans : account.usage <= Quota[plan]

Served == recorded - opened

\* From one reset of the counter to the next, fewer verifications are served
\* than there are ways for the threads to have seen the counter of an account
\* on that plan; BetweenResets[plan] is the most that leaves.
BetweenResets ==
  [plan \in Plans |-> Cardinality(Profiles(Threads, Quota[plan])) - 1]

\* A roll-over whose account was loaded before another one was committed resets
\* the counter again, in the middle of the period, or takes the row back to a
\* month that is over, so that every thread may roll it once more.
ResetsPerPeriod == Cardinality(Threads) * Cardinality(Threads)

\* More is served in a period than the plan allows, as threads count from copies
\* that are behind (BlocksAtQuota fails), but not without bound: a stale copy
\* sets the counter back, and there are only so many to be behind, and only so
\* many stale roll-overs to set it to zero.
OverrunIsBounded ==
  /\ UsageWithinSomeQuota
  /\ \A plan \in Plans :
       (\A other \in Plans : Quota[other] <= Quota[plan]) =>
         Served <= ResetsPerPeriod * BetweenResets[plan]

\* The commits of a verification leave status and plan as they are: one that
\* is under way does not undo a suspension or an upgrade it has not seen.
VerifyingKeepsEntitlement ==
  [][\A t \in Threads :
       pc[t] \in {"rolling", "verifying", "flagging"} /\ pc'[t] # pc[t] =>
         account'.status = account.status /\ account'.plan = account.plan]_vars

-----------------------------------------------------------------------------
(* For requests one at a time; the runs show which of these concurrency    *)
(* breaks.                                                                 *)

\* The counter is the number of verifications recorded in the period.
MeteredExactly == account.usage = Served

\* "Blocks at 100% of the quota".
BlocksAtQuota == Served <= Quota[account.plan]

\* The rows implement the promise.
Meter == INSTANCE QuotaMeter WITH
  plan <- account.plan, period <- account.cycle, served <- Served

RefinesMeter == Meter!Spec

\* "Fires a single time each billing period": a period's mail is not sent
\* again, save once for each restart that came between a mail and its flag and
\* for each send that raised when the server had the mail.
WarnedAtMostOnce == \A m \in Months : mails[m] <= 1 + restarts + raised

\* An account whose month is over gets its new period, used up or not, as long
\* as it stays active.
NewMonthReopens ==
  (account.status = "ACTIVE" /\ account.cycle # today)
    ~> (account.cycle = today \/ account.status # "ACTIVE")

=============================================================================
