------------------------------ MODULE Payments ------------------------------
(***************************************************************************)
(* Subscription payments by mobile money: checkout, the poll of            *)
(* GET /payments/{id}, the provider's webhook, and what a success does to  *)
(* the MFI's account row.                                                  *)
(*                                                                         *)
(* Every request works on copies of the rows it read (OrmSession) and      *)
(* talks to the provider while other requests commit.  Polls run in the    *)
(* threadpool, so several are in flight at once: the dashboard starts one  *)
(* every three seconds and a provider call may take thirty.  The webhook   *)
(* handler runs on the event loop, one at a time per worker process.       *)
(* One MFI is modelled: no row of a payment touches another MFI's account. *)
(***************************************************************************)
EXTENDS MfiAccount

CONSTANTS
  Payments,          \* the checkouts made, one fresh external_reference each
  Polls,             \* threads that may serve GET /payments/{id}
  Hooks,             \* worker processes, each serving one webhook at a time;
                     \* a member of both serves either, one request at a time
  PlanOf,            \* PlanOf[p]: the plan the manager picked in checkout p
  SignupPlan,        \* the plan chosen at sign-up
  Today,             \* the month, number of it: fixed here, moves in Metering
  CallbackStatuses,  \* the statuses the provider calls back with
  MaxFailedAudits,   \* bound: repeated PENDING callbacks each add an entry
  None

Requests == Polls \cup Hooks

ASSUME PaymentsAssumption ==
  /\ PlanOf \in [Payments -> Plans]
  /\ SignupPlan \in Plans
  /\ Today \in Month
  /\ CallbackStatuses \subseteq {"PENDING", "SUCCESSFUL", "FAILED"}

VARIABLES
  payments,    \* payments[p]: the committed row, None while there is none
  account,     \* the committed mfi_accounts row
  trail,       \* trail[p]: how many audit entries of each kind p has
  adminLog,    \* the admin actions the audit log records for the account
  checkout,    \* checkout[p]: where the subscribe request of p is
  pc,          \* pc[r]: where request r is
  ctx,         \* ctx[r]: what request r has read, None when idle
  collection,  \* external: collection[p] at the provider
  callbacks    \* external: callbacks sent; delivered late, twice or never

vars == <<payments, account, trail, adminLog, checkout, pc, ctx, collection,
          callbacks>>
external == <<collection, callbacks>>

PaymentStatus == {"PENDING", "SUCCESSFUL", "FAILED"}
Terminal == {"SUCCESSFUL", "FAILED"}
PaymentRow == [status: PaymentStatus, completed: BOOLEAN]

ASSUME NoneAssumption == None \notin PaymentRow \cup AccountRow

NewPayment == [status |-> "PENDING", completed |-> FALSE]

Context == [payment: Payments, row: PaymentRow \cup {None},
            account: AccountRow \cup {None}, status: PaymentStatus]
Callback == [payment: Payments, status: PaymentStatus]

\* (Mutant: an answer that is not a success is taken for a failure.)
ProviderStatusDefaultFailed(p) ==
  IF collection[p] = "collected" THEN "SUCCESSFUL" ELSE "FAILED"

\* Campay's status strings; a collection nobody answered yet is PENDING.
ProviderStatus(p) ==
  CASE collection[p] = "collected" -> "SUCCESSFUL"
    [] collection[p] = "declined" -> "FAILED"
    [] OTHER -> "PENDING"

TypeOK ==
  /\ payments \in [Payments -> PaymentRow \cup {None}]
  /\ account \in AccountRow
  /\ trail \in [Payments -> [initiated: Nat, succeeded: Nat, failed: Nat]]
  /\ adminLog \subseteq {"mfi.suspended", "mfi.reactivated"}
  /\ checkout \in [Payments -> {"new", "collecting", "over"}]
  /\ pc \in [Requests -> {"idle", "authed", "asking", "loading", "settling"}]
  /\ ctx \in [Requests -> Context \cup {None}]
  /\ \A r \in Requests : pc[r] # "idle" => ctx[r] \in Context
  /\ collection \in [Payments -> {"none", "open", "collected", "declined"}]
  /\ callbacks \subseteq Callback

Init ==
  /\ payments = [p \in Payments |-> None]
  /\ account = SignedUp(SignupPlan)
  /\ trail = [p \in Payments |-> [initiated |-> 0, succeeded |-> 0, failed |-> 0]]
  /\ adminLog = {}
  /\ checkout = [p \in Payments |-> "new"]
  /\ pc = [r \in Requests |-> "idle"]
  /\ ctx = [r \in Requests |-> None]
  /\ collection = [p \in Payments |-> "none"]
  /\ callbacks = {}

-----------------------------------------------------------------------------
(* The provider (external): it opens a collection when it receives our     *)
(* POST /collect/, which may outlive the request that sent it; the payer   *)
(* confirms or declines once; callbacks tell the status, at any time.      *)

CampayCollect(p) ==
  /\ checkout[p] # "new"
  /\ collection[p] = "none"
  /\ collection' = [collection EXCEPT ![p] = "open"]
  /\ UNCHANGED <<payments, account, trail, adminLog, checkout, pc, ctx, callbacks>>

CampayResolve(p) ==
  /\ collection[p] = "open"
  /\ \E outcome \in {"collected", "declined"} :
       collection' = [collection EXCEPT ![p] = outcome]
  /\ UNCHANGED <<payments, account, trail, adminLog, checkout, pc, ctx, callbacks>>

CampayCallback(p) ==
  /\ collection[p] # "none"
  /\ ProviderStatus(p) \in CallbackStatuses
  /\ callbacks' = callbacks \cup {[payment |-> p, status |-> ProviderStatus(p)]}
  /\ UNCHANGED <<payments, account, trail, adminLog, checkout, pc, ctx, collection>>

-----------------------------------------------------------------------------
(* POST /payments/subscribe.  The row is inserted and flushed, then the    *)
(* provider is called, then the transaction commits: nobody sees the row   *)
(* before the commit, and an error or a restart in between rolls it back.  *)

SubscribeBegin(p) ==
  /\ checkout[p] = "new"
  /\ checkout' = [checkout EXCEPT ![p] = "collecting"]
  /\ UNCHANGED <<payments, account, trail, adminLog, pc, ctx, external>>

SubscribeCommit(p) ==
  /\ checkout[p] = "collecting"
  /\ collection[p] # "none"
  /\ checkout' = [checkout EXCEPT ![p] = "over"]
  /\ payments' = [payments EXCEPT ![p] = NewPayment]
  /\ trail' = [trail EXCEPT ![p].initiated = @ + 1]
  /\ UNCHANGED <<account, adminLog, pc, ctx, external>>

SubscribeFail(p) ==
  /\ checkout[p] = "collecting"
  /\ checkout' = [checkout EXCEPT ![p] = "over"]
  /\ UNCHANGED <<payments, account, trail, adminLog, pc, ctx, external>>

-----------------------------------------------------------------------------
(* The requests that settle.                                               *)

Enter(r, label, context) ==
  /\ pc' = [pc EXCEPT ![r] = label]
  /\ ctx' = [ctx EXCEPT ![r] = context]

Return(r) == Enter(r, "idle", None)

\* Authentication loads the caller's account, before the payment is looked up.
PollBegin(r, p) ==
  /\ pc[r] = "idle"
  /\ payments[p] # None
  /\ Enter(r, "authed", [payment |-> p, row |-> None, account |-> account,
                         status |-> "PENDING"])
  /\ UNCHANGED <<payments, account, trail, adminLog, checkout, external>>

\* (Mutant: the poll does not check that the payment is still pending.)
PollReadUnchecked(r) ==
  /\ pc[r] = "authed"
  /\ Enter(r, "asking", [ctx[r] EXCEPT !.row = payments[ctx[r].payment]])
  /\ UNCHANGED <<payments, account, trail, adminLog, checkout, external>>

\* A payment that is already terminal is returned as it is.
PollRead(r) ==
  /\ pc[r] = "authed"
  /\ LET row == payments[ctx[r].payment] IN
       IF row.status # "PENDING"
         THEN Return(r)
         ELSE Enter(r, "asking", [ctx[r] EXCEPT !.row = row])
  /\ UNCHANGED <<payments, account, trail, adminLog, checkout, external>>

\* (Mutant: whatever the provider answers is settled, PENDING included.)
PollAnswerAnything(r) ==
  /\ pc[r] = "asking"
  /\ Enter(r, "settling",
           [ctx[r] EXCEPT !.status = ProviderStatus(ctx[r].payment)])
  /\ UNCHANGED <<payments, account, trail, adminLog, checkout, external>>

\* (Mutant: the poll reports the answer and leaves settling to the webhook.)
PollAnswerOnly(r) ==
  /\ pc[r] = "asking"
  /\ Return(r)
  /\ UNCHANGED <<payments, account, trail, adminLog, checkout, external>>

\* provider.get_status: an answer that is not final ends the poll.
PollAnswer(r) ==
  /\ pc[r] = "asking"
  /\ LET status == ProviderStatus(ctx[r].payment) IN
       IF status = "PENDING"
         THEN Return(r)
         ELSE Enter(r, "settling", [ctx[r] EXCEPT !.status = status])
  /\ UNCHANGED <<payments, account, trail, adminLog, checkout, external>>

\* The call times out or answers with an error: the request ends with a 500.
PollError(r) ==
  /\ pc[r] = "asking"
  /\ Return(r)
  /\ UNCHANGED <<payments, account, trail, adminLog, checkout, external>>

\* A callback is applied to a pending payment only: one for an unknown or an
\* already settled payment is acknowledged and changes nothing.
HookRead(h, m) ==
  /\ pc[h] = "idle"
  /\ payments[m.payment] # None
  /\ payments[m.payment].status = "PENDING"
  /\ m.status = "PENDING" => trail[m.payment].failed < MaxFailedAudits
  /\ Enter(h, IF m.status = "SUCCESSFUL" THEN "loading" ELSE "settling",
           [payment |-> m.payment, row |-> payments[m.payment],
            account |-> None, status |-> m.status])
  /\ UNCHANGED <<payments, account, trail, adminLog, checkout, external>>

\* _activate_subscription reads the account in the webhook's own session; in
\* a poll the same call finds the copy that authentication loaded.
HookLoad(h) ==
  /\ pc[h] = "loading"
  /\ Enter(h, "settling", [ctx[h] EXCEPT !.account = account])
  /\ UNCHANGED <<payments, account, trail, adminLog, checkout, external>>

\* _settle and the commit: payment, account and audit entry in one transaction.
Settle(r) ==
  /\ pc[r] = "settling"
  /\ LET c == ctx[r]
         p == c.payment
     IN /\ payments' = [payments EXCEPT ![p] =
             Flush(@, c.row, [status |-> c.status, completed |-> TRUE])]
        /\ IF c.status = "SUCCESSFUL"
             THEN /\ account' = Flush(account, c.account,
                                      Activate(c.account, PlanOf[p], Today))
                  /\ trail' = [trail EXCEPT ![p].succeeded = @ + 1]
             ELSE /\ trail' = [trail EXCEPT ![p].failed = @ + 1]
                  /\ UNCHANGED account
  /\ Return(r)
  /\ UNCHANGED <<adminLog, checkout, external>>

-----------------------------------------------------------------------------
(* What else writes the account row while payments are in flight.          *)

\* PATCH /admin/mfis/{id}/status
AdminSetStatus ==
  /\ \E s \in {"ACTIVE", "SUSPENDED"} :
       /\ account' = [account EXCEPT !.status = s]
       /\ adminLog' = adminLog \cup
            {IF s = "SUSPENDED" THEN "mfi.suspended" ELSE "mfi.reactivated"}
  /\ UNCHANGED <<payments, trail, checkout, pc, ctx, external>>

\* One verification from admission to record_usage, in one step: Metering
\* takes it apart.
MeteredUse ==
  /\ account.status = "ACTIVE"
  /\ LET rolled == RollPeriod(account, Today) IN
       /\ ~Exhausted(rolled)
       /\ account' = RecordUsage(rolled)
  /\ UNCHANGED <<payments, trail, adminLog, checkout, pc, ctx, external>>

\* The process dies and the container restarts: open transactions roll back.
WorkerRestart ==
  /\ pc' = [r \in Requests |-> "idle"]
  /\ ctx' = [r \in Requests |-> None]
  /\ checkout' = [p \in Payments |->
                    IF checkout[p] = "collecting" THEN "over" ELSE checkout[p]]
  /\ UNCHANGED <<payments, account, trail, adminLog, external>>

-----------------------------------------------------------------------------
Provider(p) == CampayCollect(p) \/ CampayResolve(p) \/ CampayCallback(p)

Subscribe(p) == SubscribeBegin(p) \/ SubscribeCommit(p) \/ SubscribeFail(p)

Poll(r) ==
  \/ \E p \in Payments : PollBegin(r, p)
  \/ PollRead(r)
  \/ PollAnswer(r)
  \/ PollError(r)
  \/ Settle(r)

Webhook(h) ==
  \/ \E m \in callbacks : HookRead(h, m)
  \/ HookLoad(h)
  \/ Settle(h)

Next ==
  \/ \E p \in Payments : Provider(p) \/ Subscribe(p)
  \/ \E r \in Polls : Poll(r)
  \/ \E h \in Hooks : Webhook(h)
  \/ AdminSetStatus
  \/ MeteredUse
  \/ WorkerRestart

Spec == Init /\ [][Next]_vars

\* Assumed: somebody keeps asking about a recorded payment (the dashboard does,
\* every three seconds, until it is settled or its view is left), a request
\* about it that is started again and again gets through at last, whatever
\* errors and restarts cut it short before, and the provider decides every
\* collection.  Nothing is assumed of callbacks, the admin or checkouts.
About(r, p) == pc[r] # "idle" /\ ctx[r].payment = p

Fairness ==
  \A p \in Payments :
    /\ WF_vars(CampayResolve(p))
    /\ SF_vars(\E r \in Polls : PollBegin(r, p))
    /\ \A r \in Requests :
         /\ SF_vars(About(r, p) /\ PollRead(r))
         /\ SF_vars(About(r, p) /\ PollAnswer(r) /\ pc'[r] = "settling")
         /\ SF_vars(About(r, p) /\ HookLoad(r))
         /\ SF_vars(About(r, p) /\ Settle(r))

FairSpec == Spec /\ Fairness

-----------------------------------------------------------------------------
(* What the payment records mean.                                          *)

\* Status s is no lie about p's collection; PENDING claims nothing.
TrueOf(s, p) ==
  /\ s = "SUCCESSFUL" => collection[p] = "collected"
  /\ s = "FAILED" => collection[p] = "declined"

\* A recorded status is the provider's: SUCCESSFUL only if the money was
\* collected, FAILED only if it was declined, whichever callback or poll wrote
\* it and however late it did.
AgreesWithProvider ==
  \A p \in Payments : payments[p] # None => TrueOf(payments[p].status, p)

\* What is still on its way cannot spoil that: a row is visible only once its
\* checkout is over and the collection exists, a callback delivered at any
\* later time is still true, and a request in flight is about a visible row it
\* read while PENDING and carries a status the provider stands by.
InFlightIsTrue ==
  /\ \A p \in Payments :
       payments[p] # None => checkout[p] = "over" /\ collection[p] # "none"
  /\ \A m \in callbacks : TrueOf(m.status, m.payment)
  /\ \A r \in Requests : pc[r] # "idle" =>
       LET c == ctx[r] IN
         /\ payments[c.payment] # None
         /\ TrueOf(c.status, c.payment)
         /\ pc[r] # "authed" => c.row # None /\ c.row.status = "PENDING"
         /\ pc[r] \in {"authed", "asking"} => c.account # None
         /\ pc[r] = "settling" /\ c.status = "SUCCESSFUL" => c.account # None

\* A settled payment never moves again: not by a late PENDING callback, a
\* duplicate, or a poll that read the row while it was still pending.
TerminalIsFinal ==
  [][\A p \in Payments :
       payments[p] # None /\ payments[p].status \in Terminal =>
         payments'[p] # None /\ payments'[p].status = payments[p].status]_vars

\* The provider called back about p before it had decided.
CalledBackEarly(p) == [payment |-> p, status |-> "PENDING"] \in callbacks

\* The audit log and the row tell the same story: a success is audited exactly
\* when the row says SUCCESSFUL, a FAILED row has its failure entry, and a
\* failure entry on any other row is the doing of a PENDING callback.
AuditExplainsStatus ==
  \A p \in Payments :
    /\ trail[p].succeeded > 0 <=>
         payments[p] # None /\ payments[p].status = "SUCCESSFUL"
    /\ payments[p] # None /\ payments[p].status = "FAILED" => trail[p].failed > 0
    /\ trail[p].failed > 0 =>
         payments[p] # None /\ (payments[p].status = "FAILED" \/ CalledBackEarly(p))

\* completed_at is "when the collection reached a terminal state": a settled row
\* has it, and a row that has it while PENDING got it from a PENDING callback,
\* which _settle stamps and audits as a failure; no poll and no other callback,
\* however they overlap, can leave such a row.
CompletedIsExplained ==
  \A p \in Payments : payments[p] # None =>
    /\ payments[p].status \in Terminal => payments[p].completed
    /\ payments[p].completed =>
         \/ payments[p].status \in Terminal
         \/ CalledBackEarly(p) /\ trail[p].failed > 0

\* Verifications and a plan are paid for: an account is ACTIVE only after a
\* successful payment or an admin's reactivation, and on another plan than
\* the one picked at sign-up only after a successful payment for that plan.
EntitlementIsPaidFor ==
  LET paid == {p \in Payments : payments[p] # None
                                  /\ payments[p].status = "SUCCESSFUL"}
  IN /\ account.status = "ACTIVE" => paid # {} \/ "mfi.reactivated" \in adminLog
     /\ account.plan # SignupPlan => \E p \in paid : PlanOf[p] = account.plan

\* The rows implement the ledger's promise.
Ledger == INSTANCE PaymentLedger WITH
  ledger <- [p \in Payments |->
               IF payments[p] = None THEN "absent" ELSE payments[p].status],
  outcome <- [p \in Payments |->
                IF collection[p] \in {"none", "open"}
                  THEN "undecided" ELSE collection[p]]

RefinesLedger == Ledger!Spec

\* "A payment settles exactly once no matter how many webhooks or polls
\* arrive": one settlement entry per payment.
SettlesExactlyOnce ==
  \A p \in Payments : trail[p].succeeded + trail[p].failed <= 1

\* On success the MFI is set to the paid plan and a fresh billing cycle starts
\* with its usage reset: right after the settlement's commit the row says so.
FreshCycleOnSuccess ==
  [][\A p \in Payments :
       trail'[p].succeeded > trail[p].succeeded =>
         /\ account'.plan = PlanOf[p]
         /\ account'.cycle = Today
         /\ account'.usage = 0]_vars

\* A recorded payment is settled in the end, although callbacks may be lost,
\* provider calls fail and the process restarts.
EveryPaymentSettles ==
  \A p \in Payments :
    (payments[p] # None) ~> (payments[p] # None /\ payments[p].status \in Terminal)

=============================================================================
