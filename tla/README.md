# KYC-API: specifications and proofs

TLA+ models of the KYC verification service in `app/` (FastAPI, SQLAlchemy,
PostgreSQL), model-checked with TLC and proved about with TLAPS. Every
definition that models code is listed in `PROJECT.json` (`map`) with the lines
it stands for. Paths below are relative to the root of the repository.

## 1. The system

A microfinance institution (MFI) signs up, pays for a plan by mobile money, and
then submits clients for verification: images of an ID document and a selfie
run through a machine-learning pipeline that verifies, rejects, or leaves the
client to a manager's review. Each plan allows so many verifications a month.

### 1.1 How it runs, and where that is hard

* `uvicorn` serves the API with one event loop per process. Ordinary (`def`)
  handlers run in a threadpool, so requests of one MFI run side by side; the
  payment webhook is the one `async def` handler and runs on the loop itself.
* Each request has one session (`app/db/session.py`), `autoflush=False` and
  `expire_on_commit=False`. A row is read once and kept; a flush writes only
  the columns whose value differs from the loaded one. Nothing is locked with
  `FOR UPDATE`, no row carries a version, the isolation level is PostgreSQL's
  default, READ COMMITTED. **Stale copies are therefore the system's
  characteristic difficulty**, and `OrmSession` is the module everything
  else is built on: it says what such a flush does to the stored row.
* Some handlers call the outside while their transaction is open: the payment
  provider (up to 30 s), the pipeline (seconds), SMTP.
* A process may die at any point and is restarted by the container runtime;
  open transactions roll back, requests are gone. There is no job queue and no
  reconciliation: whatever is to happen must be asked for by a later request.

### 1.2 Components

| Component | State | Operations | Correct when | Modelled |
|---|---|---|---|---|
| Payments: `services/payments.py`, `payment_provider.py`, `routes/payments.py` | `payments` rows, audit entries; the account row | subscribe, poll, webhook, settle, activate | rows tell what the provider decided; settled once and for all; an activation is backed by a payment | `Payments`, `PaymentLedger` |
| Account and billing period: `models/mfi.py`, `services/subscription.py` | status, plan, usage, cycle, warning flag | activate, roll period, record usage, quota tests | (used by the two around it) | `MfiAccount` |
| Metering: `routes/verify.py`, `deps.py`, `services/notifications.py` | the account row | admission, roll-over, usage, warning mail | no more served than the plan allows; usage exact; one warning per period; a new month reopens | `Metering`, `QuotaMeter` |
| Pipeline: `pipeline/orchestrator.py`, `decision.py` | none | the stages in order, with early exits | VERIFIED is earned at every stage | `Pipeline` |
| Verification records: `routes/verify.py`, `services/duplicate_store.py` | verification, embedding, duplicate flag | client-ID check, duplicate search, persist | an ID points at one person; a face is enrolled once; only VERIFIED is enrolled | `Verifications` |
| Manual review: `routes/reviews.py` | the same rows, audit entries | decide | only PENDING is decided, once, and audited | `Verifications` |
| Session: `db/session.py` | identity map | load, flush, commit, roll back | a commit writes this request's changes and no others | `OrmSession` |
| Login, PINs, 2FA: `routes/auth.py`, `core/security.py` | the `users` row, reset links, tokens | login in one or two steps, forgot/reset/change PIN, enrol, deploy script | guessing is bounded; a lock stands; a link that was used is not used again, but by requests that overlap; a second factor asked for was confirmed | `Access` |
| Agents, branches, API keys: `routes/agents.py`, `branches.py`, `api_keys.py` | rows | create, update, revoke | plan limits hold; a revoked key stays revoked | `Directory`, `ApiKeys`, `Access` |
| Onboarding: `routes/onboarding.py` | invites, the rows they make | start, expire, complete | an invite makes one account with its manager | `Directory` |
| Partner API: `routes/partner.py`, `services/rate_limit.py` | a deque per key | allow, verify | at most N in any window; judged like the dashboard's | `RateLimiter`, `Pipeline` |
| Account profile: `routes/account.py` | the account row | change address, name, toggles | a partial update is preserved | `EventLoop`, `Directory` |
| One process: event loop, threadpool, connections | who runs, who waits | schedule, flush, commit, time out | every request ends | `EventLoop` |
| Platform admin: `routes/admin.py`, `services/admin.py` | account status | suspend, reactivate, broadcast, dashboards | status changes take effect; figures agree | `Payments`, `Metering`, `Figures`, `AuditTrail`, `Mailing` |
| Digest and broadcast: `services/notifications.py` | mails, audit entries | send loops | who is to get a mail gets it; each audited | `Mailing` |
| Statistics, reports, monitoring: `services/stats.py`, `reporting.py`, ... | none, but for report snapshots | queries | parts fit their totals; a report stands | `Figures` |
| Audit log: `services/audit.py` | entries | record, page through | what a change does is recorded with it; paging misses nothing | `Payments`, `Verifications`, `AuditTrail` |
| Document reading: `pipeline/stages/ocr.py` | none | labels, values, MRZ, merge | a field is what the document says | `OcrFields` |
| Image stages | none | scores | | thresholds only (`Pipeline`) |
| Dashboard: `KYC-Frontend/` | signals | poll a payment, toggle settings | the view ends on the final status | not modelled (section 7) |
| PDF layout, encryption, images, deployment | | | | not modelled (section 7) |

Interactions. A settlement (`_settle`) and a verification (`record_usage`) write
the same account row from copies of different age; so do the admin and the
profile route. Verifications and reviews share the verification rows. The
duplicate search of one submission reads what others committed. The webhook and
the dashboard's polls race to settle one payment. A settlement on the event loop
and a profile update share the lock of the account row. A deploy's seed script,
an admin and a manager write the users row that somebody is logging in with.

## 2. The modules

```
OrmSession            what a flush writes (pure)
  MfiAccount          the account row and its updates (pure)
    Payments          implements PaymentLedger
      PaymentsProofs, MCPayments
    Metering          implements QuotaMeter (one request at a time)
      MeteringProofs, MCMetering
  Access, ApiKeys     a staff account; the keys of an MFI
    MCAccess, AccessProofs
StaleCounter          counting from old copies (pure), used by Metering and Access
  StaleCounterProofs  used by MeteringProofs and AccessProofs
Verifications         uses Pipeline (pure)
  VerificationsProofs, MCVerifications
EventLoop             one process
  MCEventLoop
Directory             invites, accounts, staff, branches
  DirectoryProofs
OcrFields             what is extracted from a document
  OcrProofs
RateLimiter           the partner route's throttle
Figures, AuditTrail, Mailing
MCOffice              EventLoop and the six from Directory on, side by side
  OfficeProofs        about the other five and, with DirectoryProofs and
                      OcrProofs, about MCOffice
```

**OrmSession.** `Flush(stored, loaded, mine)`: columns the copy changed
overwrite, the others keep what is stored.

**StaleCounter.** The usage of an account and the failure count of a login are read,
worked on for seconds and written back as the copy plus one. `Profile` is how many
users have seen each value of such a counter, `Profiles` all there can be: C(n + u, u)
for `u` users and the values 0 to `n`.

**Payments.** One MFI, a set of checkouts, requests in `Polls` (threads) and
`Hooks` (processes, each one webhook at a time); an element of both is a server
that does one thing at a time. A subscribe request is `SubscribeBegin` (row
inserted, uncommitted), the provider opening a collection (`CampayCollect`),
and `SubscribeCommit` or `SubscribeFail`. A poll is `PollBegin` (authentication
loads the account), `PollRead` (the payment, ended if settled), `PollAnswer` or
`PollError`, and `Settle`. A webhook is `HookRead`, `HookLoad` (only a success
reads the account) and `Settle`, whose one transaction writes payment, account
and audit entry. Callbacks form a set from which delivery never removes: they
may be late, repeated, out of order or never arrive. A callback's signature is
taken to be genuine: others are ignored by the code and change nothing.

**Metering.** Threads carry a `session` (row as loaded, copy) through
`Submit`, `Roll`, `Record`, `SendWarning`, `FlagWarned`, one action per commit or
outside effect. A mail goes out and its flag is committed, or goes out although the
send raised (`WarningRaised`), or does not go out (`SkipWarning`).
`ConfirmBegin`/`ConfirmCommit` is a settlement seen from here.
`NextMonth` may happen between any two steps. `recorded` counts verification
rows. `period` and `opened` are history: the month of the billing period and how many
rows there were when it began. A period begins with the first roll-over committed for
its month, and again with a paid activation ("a fresh billing cycle starts"); a second
roll-over for the same month, or a late one for the month before, begins none.

**Verifications.** Submissions go `CheckClientId`, `RunStages`, `Persist` (or
`Abort`); managers `OpenReview`, possibly `LoadFlags`, `DecideReview`. The last
two are apart because SQLAlchemy loads the flags of a record when the handler
first touches them. `checked` and `indexed` are history variables: what was
committed when a submission's client ID was checked and its face searched.

**Pipeline.** `RunVerification(capture, duplicate)`: the stages' scores as
percent, the document's readability and expiry, and what the duplicate search
would find, to verdict, reason, enrolment and flag.

`PartnerVerify` is what the partner API makes of the same
run, over an empty index and with nothing stored.

**Access.** One `users` row, a request being a `Begin` action that loads it (and
makes the checks) and an action that writes, after the slow PIN hash or the mail:
`BeginLogin` and `LoginWrongPin` or `LoginRightPin`; `BeginForgotPin`,
`BeginResetPin`, `BeginChangePin`, `BeginUpdateAgent`, `BeginResetAgentPin`,
`BeginSetup`, `BeginEnable`, `BeginDisable` with their `Commit`s. `LoginVerify`
writes nothing and is one action, as is `SeedAdmin` (the deploy script). PINs are
compared, never computed: a login guesses right or wrong. Tokens are stored
nowhere, so of those issued only the latest expiry is kept. `wrong`, `uses`,
`raced` (who was under way with a link at its first use), `confirmed` and
`overlapped` are history.

**ApiKeys.** Keys of one MFI; a caller stamps `last_used_at` on the row it loaded
while the manager revokes it.

**Directory.** Invites, accounts, staff and branches. `Begin` looks, `Commit`
inserts; the unique columns of `users` and `mfi_accounts` are guards of the
`Commit`s, the plan limits are not. `granted` is history: the most the plans an
account has been on allowed.

**RateLimiter.** `ReadClock`, then `Allow` under the lock. `MaxWait` bounds the time
between the two. `admitted` is history: when calls were let in.

**EventLoop.** A `PATCH /account` goes through authentication (a thread, a
connection), its handler (scheduled by the loop), the flush (the row's lock) and the
commit in the teardown (scheduled by the loop again); a webhook holds the loop
from its start to the end of its settlement. `latest` is history: the
preferences, had each toggle changed its key only.

**Figures.** A payload is a sequence of named queries (`Queries`), each of which
sees what is committed when it runs; verifications are dated when their
transaction starts and seen when it commits. Those submitted with an API key have no
agent and are in no count by agent.

**AuditTrail.** Entries stamped by their transaction's start, seen from its commit;
a reader pages by offset, and the order of equal stamps is any.

**Mailing.** A loop reads accounts once and then sends; the broadcast commits its
entries at the end.

**OcrFields.** Front, back and machine-readable zone of a document, to the result:
which line a value is taken from, what fills a gap, what confidence wins. Text is
reduced to tokens, a name to its words and hyphens, a date to its year.

**Abstract specifications.** `PaymentLedger`: a payment appears PENDING and
leaves PENDING once, for the outcome the provider reached. `QuotaMeter`: within
a period no more is served than the plan allows, and the count restarts only
with a new month or a payment.

Definitions marked `(Mutant: ...)` are deliberate mistakes. No specification
uses them; `PROJECT.json` pairs each property with one that it must catch.

## 3. The runs

| Run | Instance | Shows |
|---|---|---|
| `payments_core` | 2 checkouts (renewal, upgrade), 1 poll thread, 1 webhook worker, all callback statuses | records agree with the provider, settled is final, status is audited, completion and failure entries are explained, entitlement is paid for or given by an admin, `PaymentLedger` is implemented |
| `payments_serial` | 1 checkout, a server doing one request at a time, terminal callbacks | settles exactly once; every payment settles |
| `payments_twice` (fails) | 1 checkout, 2 poll threads | a payment is settled twice |
| `payments_freshcycle` (fails) | as `payments_core` | a success that leaves the usage as it was |
| `metering_concurrent` | 2 threads, 2 months, quotas 1 and 3, 1 purchase, 1 restart | the counter is bounded, and so is what a billing period serves beyond the allowance; verifying leaves status and plan alone |
| `metering_serial` | 1 thread, 2 months, quotas 2 and 5, 2 purchases, 1 restart, 1 raised send | exact usage, `QuotaMeter` implemented, one warning (more only for the restart and the raised send), a new month reopens |
| `metering_quota` (fails) | 2 threads, quota 1 | more served than the plan allows |
| `verifications_races` | 3 submissions, 2 client IDs, 2 people, 2 managers | see below |
| `verifications_clientid` (fails) | 2 submissions, 1 client ID, 2 people | one ID for two people |
| `access_concurrent` | one account of each role, 2 requests, lock after 3, 2 ticks; 2 keys, 2 callers | guessing, lock, link, enrolment and revocation, as far as they hold beside each other |
| `eventloop_liveness` | 2 profile updates, 2 webhooks, 2 connections | every request ends, or the process hangs in the one way described |
| `office_parts` | see below | an invite makes one account, limits, throttle, toggles, figures, paging, mails, document fields |

`MCOffice` and `MCAccess` hold modules that share no variable. Exploring their
product would show nothing more, so the variable `scene` chooses one and the
others stay where they began.

### 3.1 Bounds, and why they suffice

* Two requests in flight are the least at which a stale copy exists and are
  enough for every race found; `payments_core` adds the second checkout so that
  a renewal overlaps an upgrade. `verifications_races` has three submissions so
  that one finds a state the two others made. The theorems of section 5 hold
  for any number.
* `MaxFailedAudits` bounds the one unbounded counter of `Payments`: each PENDING
  callback adds a failure entry. One such entry is enough to meet it together
  with every later outcome.
* `LastMonth = 2` gives one month end, at any point of any request.
  `MaxRecorded` limits how many verifications are admitted. In `metering_concurrent`
  it is 38: `OverrunIsBounded` allows two threads and an allowance of 3 at most 36 in a
  billing period (4 resets of 9 each), so the bound lies where a run could exceed it. The
  most that any state has is 16; that no run comes to 38 is what the run shows. The 20 of
  `metering_serial` are never reached (2 + 5 + 5 in the first month and 5 in the
  second at most). 0.5 million states, half a minute.
* `MaxRaised` is 1 in `metering_serial`: one send that the server took and that raised,
  next to one restart, so that both reasons for a second mail occur. It is 0 where no
  property is about mails.
* Quotas: in `metering_serial` 5 has its warning at 4 (80%), below exhaustion,
  so mails are sent; 2 reaches 100% without passing through the warning band. In
  `metering_concurrent` the allowance is 3 and the warning ratio, a setting, 60%, so that
  there is a warning at 2.
* `access_concurrent`: with two requests a lost update needs both; the lock after
  three failures is the least at which a count is lost and still counts on. All
  times are one tick, so that with two ticks a lock, link, session or challenge is
  met running and expired. One PIN is enough: a hash is salted, so every change
  is a change of the column. 1.3 million states, about a minute.
* `office_parts`: in `Directory` one invite, two e-mail addresses, phones and
  accounts, two requests, a plan of one branch and one that has no limit; in
  `RateLimiter` three threads, limit 2 within 3 instants, a wait of 1, 8 instants
  (room for two windows) and one restart; in `Figures` two institutions and one
  verification, as what it checks is said of each row, on two dates; in
  `AuditTrail` four entries and pages of two, so that a reader needs two or three; in
  `OcrFields` every combination of what `MCOffice!Fronts`, `Backs` and `Zones` list.
  0.5 million states, a minute and a half.
* Symmetry is used in runs that check no liveness: threads in
  `metering_concurrent`; submissions, IDs, people and managers in
  `verifications_races`; requests, PINs and secrets in `access_concurrent`; the names in
  `Directory` in `office_parts`. They appear in no expression but equality.
* `MCCaptures` has a clean capture, a near miss exactly on and one below the
  thresholds (liveness 60, face 59), and a spoof (29). The reasons OCR_FAILED
  and ID_EXPIRED lead to the same row as a spoof and are left to the theorems.

### 3.2 Fairness

`payments_serial` assumes (`Payments!Fairness`) that the provider decides each
collection, that somebody keeps asking about a recorded payment, and that a
request begun again and again is not cut short for ever (strong fairness,
because errors and restarts disable it in between). The dashboard polls every
three seconds (`manager.component.ts:1298`) until the payment is settled, and
stops if the manager leaves the payment's view; nothing else in the repository
polls. The property is therefore about payments somebody watches or comes back
to. Callbacks are assumed neither to arrive nor to stay away. `metering_serial`
assumes that an admitted request ends (weak fairness: the threadpool runs it,
and errors end it too) and, for `NewMonthReopens`, that the MFI goes on
submitting.

`eventloop_liveness` assumes `EventLoop!LoopFairness`. Threads are run by the
operating system, so what a request does once it holds what it needs is weakly
fair. What it waits for (the loop for `MergeToggle` and `ScheduleEnd`, a connection
for `LoadAccount`, the row for `FlushAccount`) comes and goes, and each is handed
out in the order of asking: the loop's ready queue, SQLAlchemy's pool queue and
PostgreSQL's lock queue are first in, first out. Hence strong fairness for these
four. A webhook waits on the loop itself, where nothing can take away what it has
been given. Nobody is assumed to start a request.

Two runs turn the deadlock check off: in `office_parts` records are used up, and
the event loop can really hang, which `RequestsEndOrHang` is about. In all other
systems somebody can always start another request.

## 4. What the failing runs say

1. `payments_twice`. `services/payments.py:6` promises that a payment settles
   exactly once. The PENDING check precedes the provider call and is not
   repeated: two polls settle twice (two audit entries, two activations, the
   second wiping the usage recorded in between).
2. `payments_freshcycle`. `docs/DASHBOARD-BACKEND.md:212` promises a usage
   reset. A poll activates the copy that authentication loaded; if that copy
   already has usage 0, the reset is no change and is not written.
3. `metering_quota`. `services/subscription.py:6` says blocked at 100%. Quota is
   tested at admission and usage written after the pipeline.
4. `verifications_clientid`. `routes/verify.py:136` says an ID never points at
   two people. Check and insert are apart and no constraint backs them.

Noticed while modelling, without a run: two managers may both decide one record (`routes/reviews.py:76`); a paid activation leaves
`quota_warning_sent` set, so the rest of that month has no warning
(`services/payments.py:210`); a better liveness score can worsen the verdict,
as a near miss is reviewed before the faces are compared; and the settings
`liveness_threshold` and `duplicate_threshold` (`core/config.py:58`) are read by
nothing.

Where the code and its documentation say different things, the models follow
the code:

* `models/payment.py:54`: `completed_at` is when the collection reached a terminal
  state. A PENDING callback stamps it too, and audits PAYMENT_FAILED
  (`services/payments.py:172`), while the row stays PENDING. `CompletedIsExplained` and
  `AuditExplainsStatus` say that nothing else does, and `payments_core` has such rows.
* `security.py:97`, `:103`: the tokens in mailed links are single-use. A reset link is
  tested before the PIN is hashed and marked after, without a lock: requests under way
  side by side with it each set a PIN. Nobody else can: `LinkReusedOnlyByOverlap`.
* `DASHBOARD-BACKEND.md:353`: five wrong PINs lock the account. Failures side by side
  count once, so it may take more: `GuessingIsBounded` says how many.
* `notifications.py:70`: the quota warning fires a single time each billing period. It
  is repeated after a restart between the mail and its flag, after a send that raised
  although the server took the mail (`email.py:54-66`), and by verifications side by
  side: `WarnedAtMostOnce`, one request at a time.
* `admin.py:125`: suspending locks an MFI out at once. Sessions issued before go on
  until they expire (`deps.py:78`); `Access!SignedIn` does not look at the MFI.
* `security.py:188`: a challenge is no session token. The claim that says so is not
  looked at (`deps.py:69`).
* `mfi.py:132`: a half-finished enrolment locks nobody out. True unless enrolment
  requests overlap: `EnabledIsConfirmed`.
* `account.py:64`: a partial toggle update is preserved. True of one at a time:
  `TogglesKept`.
* `DASHBOARD-BACKEND.md:300`: creating an agent enforces the plan's limit. Up to
  the creations under way: `LimitsOverrunBounded`. Managers are counted as agents.
* `admin.py:95`: each send of a broadcast is recorded. If the loop ends:
  `MailsAccountedFor`.
* `reporting.py:4`: a later export shows the numbers as they were. Its totals do, its
  rows are read anew: `ReportStands`.
* `ocr.py:93`: the pattern finds "N'GUELE". It wants two letters before the
  apostrophe.

What survives all of this is as informative. However requests interleave, a
payment row never contradicts the provider, because only changed columns are
written and a status is written only when the provider had decided it. The usage
counter loses increments but never invents one, and it loses so many at most: what
`metering_quota` shows is bounded by `OverrunIsBounded`, for a whole billing period and
although roll-overs that come late reset its counter again. (The bound is not sharp: two
requests side by side and an allowance of 3 are bounded by 36 and were seen to serve
16.) A verification under way cannot
undo a suspension, because it never assigns that column; for the same reason a
partner call cannot revive a revoked key. `TwiceEnrolledOverlapped` and
`SharedIdRaced` say that the known races are the *only* ways to the bad
state: without overlapping requests, and without a record decided twice, it
cannot happen. A lock is always time-boxed and is lifted early only by a login
that did not see it. Two completions of one invite are kept apart by nothing but
the unique address of the manager, and that is enough. The event loop hangs in
one way only, and running out of connections is not it.

## 5. What is proved

For every set of requests, payments, plans, threads, submissions and managers
(TLAPS; the run of the same property shows it on an instance first). A hypothesis
beyond the constants' assumptions is in the last column; they are discussed below.

| Module | Theorem | Establishes | If |
|---|---|---|---|
| `PaymentsProofs` | `TypeCorrect` | `TypeOK` | |
| | `RecordsAgreeWithProvider` | `AgreesWithProvider` | |
| | `CarriedStaysTrue` | `InFlightIsTrue` | |
| | `SettledIsFinal` | `TerminalIsFinal` | |
| | `LedgerRefinement` | `RefinesLedger` | |
| | `AuditTellsTheStory` | `AuditExplainsStatus` | |
| | `EntitlementIsEarned` | `EntitlementIsPaidFor` | |
| | `SettledOncePerRequest` | at most as many settlements of a payment as requests at a time | final callbacks |
| | `SettlesOnceInSeries` | `SettlesExactlyOnce` | one request, final callbacks |
| | `CompletedIsAccountedFor` | `CompletedIsExplained` | |
| `MeteringProofs` | `TypeCorrect` | `TypeOK` | |
| | `CounterIsEarned` | `UsageWasRecorded` | |
| | `CounterIsBounded` | `UsageWithinSomeQuota`, one half of `OverrunIsBounded` | |
| | `OverrunBounded` | `OverrunIsBounded` | |
| | `EntitlementIsKept` | `VerifyingKeepsEntitlement` | |
| | `MeteredExactlyInSeries` | `MeteredExactly` | one thread |
| | `BlockedAtQuotaInSeries` | `BlocksAtQuota` | one thread |
| | `MeterRefinement` | `RefinesMeter` | one thread |
| | `WarnedOnceInSeries` | `WarnedAtMostOnce` | one thread |
| `VerificationsProofs` | `VerifiedIsEarned`, `BetterFaceIsNoWorse` | facts about the pipeline, for every score | |
| | `PartnerJudgesAlike` | the partner API and the dashboard judge a capture alike, but for enrolled faces | |
| | `TypeCorrect` | `TypeOK` | |
| | `IndexHoldsVerified` | `EnrolledIsVerified` | |
| | `AuditHasEveryVerdict` | `AuditExplainsVerdict` | |
| | `MachineVerdictStands` | `MachineVerdictIsFinal` | |
| | `DoubleEnrolmentOverlapped` | `TwiceEnrolledOverlapped` | |
| | `SharedIdNeedsARace` | `SharedIdRaced` | |
| `AccessProofs` | `AccessTypeCorrect` | `AccessTypeOK` | |
| | `LockNeverOutlasts` | `LockIsTimeBoxed`, one half of `GuessingIsBounded` | |
| | `GuessingBounded` | `GuessingIsBounded` | a lock lasts |
| | `LockIsKept` | `LockLiftedOnlyByOverlap` | |
| | `KeysTypeCorrect` | `KeysTypeOK` | |
| | `RevocationStands` | `RevokedStaysRevoked` | |
| | `EnrolmentIsConfirmed` | `EnabledIsConfirmed` | |
| | `LinkReuseIsOverlap` | `LinkReusedOnlyByOverlap` | |
| | `BothKeepTheirSpecs` | `MCAccess!Spec => AccessSpec /\ KeysSpec` | |
| | `StaffTypeCorrect` | `MCAccess!TypeOK` | |
| `OcrProofs` | `OcrTypeCorrect` | `OcrTypeOK` | |
| | `BestKept` | `FieldsRight` | |
| `DirectoryProofs` | `DirectoryTypeCorrect` | `DirectoryTypeOK` | |
| | `InviteIsUsedOnce` | `InviteMakesOneAccount` | |
| | `LimitsHoldUpToOverlap` | `LimitsOverrunBounded` | |
| `OfficeProofs` | `LimiterTypeCorrect` | `LimiterTypeOK` | |
| | `ThrottleHolds` | `WindowHolds` | |
| | `LoopTypeCorrect` | `LoopTypeOK`, with the bound on connections | |
| | `TogglesAreKept` | `TogglesKept` | |
| | `MailingTypeCorrect` | `MailingTypeOK` | |
| | `MailsAreAccountedFor` | `MailsAccountedFor` | |
| | `TrailTypeCorrect` | `TrailTypeOK` | |
| | `PagingSkipsNothing` | `NothingSkipped` | |
| | `FiguresTypeCorrect` | `FiguresTypeOK` | |
| | `PayloadsAgree` | `FiguresAgree` | |
| | `PartsKeepTheirSpecs` | a run of `MCOffice` lets each part behave by its own specification | |
| | `OfficeTypeCorrect` | `MCOffice!TypeOK` | |

Assumptions: those named in the modules (`QuotaAssumption`,
`PaymentsAssumption`, `MeteringAssumption`, `CapturesAssumption`,
`NoneAssumption`, `LimiterAssumption`, `AccessAssumption`, `KeysAssumption`,
`DirectoryAssumption`, `LoopAssumption`, `TrailAssumption`, `FiguresAssumption`,
`OcrAssumption`), which TLC evaluates on each run. They say that limits and times are
numbers, that requests and threads served at once and audit entries are finitely many,
that a missing value is not a value, that a profile update is not a webhook, and that
a document is what `OcrFields!DocumentRow` says and read in this century. The documents
may have any number of lines and words.

Hypotheses. They belong to single theorems because the same module is also run
without them, and the property then fails or says something else:

* *one request*, *one thread*: the server handles requests one after the other. A
  deployment does not promise this; these theorems say that overlap is the only
  cause of what section 4 shows. `BlocksAtQuota`, refuted by `metering_quota` with two
  threads, holds for one.
* *final callbacks* (`FinalCallbacks`): the provider calls back when a collection is
  decided ("confirms out-of-band", `src/docs/DASHBOARD-BACKEND.md:210`). The route
  applies whatever status it is given, and each PENDING callback adds a failure entry:
  without the hypothesis there is no bound on how many. Only the two theorems that
  count settlements have it (`payments_core` admits such callbacks; what holds
  regardless is proved without the hypothesis).
* *a lock lasts* (`LockoutTime > 0`): `login_lockout_minutes` is 15 by default
  (`src/app/core/config.py:43`). With 0 the count would start again without a lock.

*Payments.* `AgreesWithProvider` is not inductive: a settlement may be in flight
with a wrong status, or a callback delivered late. The invariant is
`IInv == TypeOK /\ AgreesWithProvider /\ InFlightIsTrue`; `InFlightIsTrue` says
that every callback ever sent and every status a request carries is true of its
collection, and that a request in flight read its row while PENDING. A decided
collection never changes, so truths stay true. The second part makes a flush of
`status` always a change, so the flush writes it, and two settlements of one
payment write the same value: `SettledIsFinal`. `LedgerRefinement` combines
these: only `SubscribeCommit` and `Settle` change rows, only the provider's steps
change outcomes, and each is a ledger step or a stutter. The same two steps are all
that `AuditTellsTheStory` has to look at (`RowAndTrailSteps`): a row and its audit
entry are of one transaction. They are also where a stamp comes from
(`CompletedIsAccountedFor`): a settlement always has its row PENDING and so stamps it,
the stamp is never taken away, and a PENDING status in a request's hands was called
back, since an answer that is PENDING ends a poll. For `EntitlementIsEarned` the account must be earned
together with every copy of it that can still be written (`CopiesEntitled`): a
copy is earned when it is loaded, and what earns it, a paid plan or an admin's
entry, is never taken back. A payment is settled again only by a request that read
it before the first settlement, so entries and such requests together never exceed
the requests there are (`SettledInTime`): a count, by the facts about finite sets.

*Metering.* The bound on the counter is not inductive either: what a stale copy
will write must be bounded as well. `IInv` says of each session that the usage it
loaded and the usage in its copy are `Covered`: at most what is recorded, and
within some plan's quota; and that the copy of a request that is verifying has a
unit of its plan's allowance left, so that one more is still covered. Exceeding one's *own* plan is possible (`metering_quota`),
exceeding every plan is not.

How many are served beyond a plan (`OverrunBounded`) is answered in two parts, and the
invariant adds them up (`Reckoning`). Between two resets of the counter it is the
argument of `StaleCounterProofs`, which `Access` shares. A thread has *seen* its copy's count if
that is behind the stored one, and the stored one otherwise. A verification that is
recorded by a thread that has seen `k` may set the counter far back. But nobody who
had seen `k` or less then sees anything else, save that this thread sees more, and
perhaps others that had seen `k` do; and nobody comes to see `k` or less. So in the
profile of what is seen, how many have seen each value, the lowest entry that changes
is the one at `k`, and it goes down (`StepDown`). No other step moves the profile up
in this order, but for a reset, which starts the count anew. So between two resets no
profile is met twice, and there are no more verifications than profiles (`Paid`): a
count of a finite set, descending.

Resets are counted by the roll-overs that can still come. `Behind` are those under way
to a month before the period: such a one takes the row back, and every thread may then
load it and roll it again. `Wiping` are the threads that may reset the counter before
another of `Behind` is committed. With N threads, `N * |Behind| + |Wiping|` (`Ahead`) goes
down with each reset inside a period (`StaleRoll`) and is below `N * N` when the period
begins (`AheadOpens`): whoever begins it is not behind, and either the row is then of its month
or another thread is not behind either (`CycleInv`). No other step makes it grow, as
a request that loads an up-to-date row needs no roll-over. So a period has `N * N` resets
at most, its beginning included.

`EntitlementIsKept` rests on a second invariant: the copies of requests under way have status and plan as loaded (a
settlement assigns them only in the step that commits). With one thread, what it
loaded is still what is stored, but for a status an admin set meanwhile (`Agrees`), so
each commit writes what its handler computed; `SerialInv` then counts exactly, and
every commit is a step of `QuotaMeter` or changes nothing it shows. `WarnInv` adds how
often a mail of this period can have gone out without its flag.

*Verifications.* `EnrolledIsVerified` with the same said of the copies on the
managers' desks, which in addition are PENDING. `ReviewInv` says what a review has open: a
PENDING record, or one that another decision has closed in the meantime and whose
entry the log has (`Decided`). So no decision touches a record the pipeline settled by
itself, and the audit log explains every human verdict. For `DoubleEnrolmentOverlapped`
a search leaves out no enrolled face that was recorded before it, and whose a face is
never changes (`FaceInv`). A client ID is checked likewise, but a REJECTED record that did
not stand in its way may be live again: only by a decision that followed another one on
the same record (`Freed`, `IdInv`), which is the exception `SharedIdRaced` names.

*Rate limiter.* `WindowHolds` speaks of the times of admission, the deque of
clock readings. `DequeIsNewest` connects them: the deque has the stamps of the
newest admissions, in their order, each at most `MaxWait` old at admission, and
every admission whose stamp was dropped lies at least `Window - MaxWait` in the
past. `StampsAreRecent` says the same of threads that wait. As the deque is
never longer than the limit, of two admissions that many apart the earlier one
has been dropped when the later one is let in.

*Access.* A lock is written from an old copy; what bounds it is that the clock
was read with the copy and that the account was not locked by it (`SawNoLock`).
`LockIsKept` follows: a login that shortens a lock had loaded another one. How many
PINs can be tried (`GuessingBounded`) is the argument of `Metering`'s overrun: a wrong PIN
is counted from the copy of its login, so with what each request has seen of the count
(`StreakInv`) fewer wrong PINs go by without a lock than there are profiles, for any
number of requests. For two of them the number is written out, which has a proof of its own
with an account of the failures that were lost (`GuessInv`). With
`L` the limit, a count of `k` was reached with at most
`L + (L-1) + ... + (L-k+1)` wrong PINs (half of `Allowed(k)`), and a login that holds
an older count `h` has since seen at most one more wrong PIN for each step the stored count is
ahead of `h`. Of two logins at a time one holds the stored count; so a slow failure
that sets the count back to `h + 1` leaves that bound true. For
enrolment: as long as no two of its requests overlapped, the copy of the one under
way agrees with the row (`CopyIsCurrent`), since nobody else writes these columns. For
links (`LinkInv`): as a used link admits no new request, those under way with it are among
those that were when it was first used, and each leaves that set with its answer. For keys: a copy under way never changes `is_active`
to true, and a flush writes changed columns only.

*Directory.* What a request under way has seen (`TaskInv`) may have changed by
the time it commits. That two completions of one link do not both commit rests
on the founder: the manager created with the account keeps the invite's address
for ever (`InviteInv`), and the column is unique. The account's own address may
change, so its uniqueness alone would not do. For the limits (`LimitsInv`): rows
and creations under way *together* stay below the most generous plan plus the number
of requests, because a creation begins below the limit and ends by turning into a
row.

*Event loop.* Requests with a connection are never more than the pool has (`PoolInv`):
only a step that finds one free takes one. `ToggleInv`: unless two profile updates
overlapped, the stored preferences are the latest, and so is the copy of the update under
way.

*Mailing.* Who was to get the mail all along is still to do, has received it or the send
failed (`MailInv`); who received it wanted it when the list was read. The audit entries are
written at the end, of the mails sent.

*Audit trail.* Take an entry that was there at the first page, was not seen yet and shares
its stamp with no other: at least as many entries precede it as the reader has paged
through (`TrailInv`). New entries come before it and only add to that number, and a page
that misses it is full of entries before it (`PageIsAbove`); the last page is not full, so
it misses none. Again a count, by the facts about finite sets.

*Figures.* A verification moves forward only, from PENDING to the verdict the pipeline had
for it or to a human one (`CaseInv`), and a report whose period is over misses at most what
was under way when it began (`ReaderInv`). What a query has counted is related to the rows
as they are *now* (`CountedInv`): some counts can only grow, others are of a fixed set. So
two queries of one payload compare, whichever came first.

*Document reading.* What has been read is a function of the document and of the stage
(`OcrInv`), so `FieldsRight` is a fact about the functions. That a field is the surest
reading of it, and of equally sure ones the first, is a comparison of at most three
readings (`ReadIsBest`). The name is the long part: restoring its punctuation joins
tokens where the front prints a hyphen between their words. Joining two tokens leaves
the words as they are, in their order, and adds the one hyphen (`JoinKeeps`); so by
induction along the joins, for a name of any length and any number of printed
hyphens, the result is the name that was read with printed hyphens added
(`NameRestored`). `FoldLeft` and `FlattenSeq` are recursive functions of the community
modules. They are taken apart by induction over the indices (`FoldPrefixes`,
`FlattenPrefixes`), and each induction is a search for a least counterexample
(`LeastNatural`, from the library's theorem that a set of naturals that is not empty
has a least element): no theorem with an operator as a parameter is needed.

*Side by side.* `MCAccess` and `MCOffice` run parts that share no variable. A step of
theirs is a step of one part and a stutter of the others, so each part keeps its own
specification (`BothKeepTheirSpecs`, `PartsKeepTheirSpecs`), and what is proved of the
part holds in the run. `StaffTypeCorrect` and `OfficeTypeCorrect` use this.

Every invariant and every action property that a passing run checks is stated by a
theorem, as far as the last column goes. Left to TLC:

* liveness (`EveryPaymentSettles`, `NewMonthReopens`, `RequestsEndOrHang`), which is
  beyond the prover;
* `FreshCycleOnSuccess` and `OnePersonPerClientId`, which the code violates. For the
  settlements and the quota of section 4 a theorem says that overlap is the only
  cause, since *one request* is a condition on the constants. For these two it is not:
  what breaks them is any other writer between the load and the commit, and
  `SharedIdNeedsARace` names the ways for the client ID.

## 6. Plan

Written in this order: `Payments` (the money), `Metering` (what it buys),
`Verifications` with `Pipeline` (the service itself), `Access` and `ApiKeys` (who
may use it), `Directory` (who belongs to whom), `EventLoop`, `RateLimiter`, and
what reads and reports: `Figures`, `AuditTrail`, `Mailing`, `OcrFields`; then the
proofs, in the order of section 5. To come: `PaymentView`, overlapping polls in the
dashboard.

## 7. Not modelled, and why

* Image processing, anti-spoofing, embeddings, text recognition: numerical code and
  external models; their outcomes are the inputs of `Pipeline` and `OcrFields`. The
  duplicate search is taken to find a face exactly if it is of the same person.
* Averages, histograms and the drift statistic are arithmetic on the rows that
  `Figures` has; the filter by branch is left out.
* A status change by the admin is one step in `Payments` and `Metering`: the handler
  (`admin.py:129-142`) loads the row, assigns one column and commits at once. Left out is
  what two such changes can do in between: one that assigns what it has just loaded
  writes an audit entry and no status.
* Encryption, password hashing, token formats, signature checks: no state; a
  credential is valid or not.
* E-mail transport: a send happens, fails, or fails after the server took it (`Metering`,
  `Mailing`).
* Several MFIs in one module: every query is scoped to one, and no row of one is
  written by requests of another, so one stands for all. `Directory` and `Figures`
  have two, as they compare across them.
* What a client sees when the commit after its response fails: the modules
  describe the records.
* The dashboard: state of a page in a browser. Its two races are listed as hazards.
* PDF layout, image codecs, field types; the mock provider, the demo seeds,
  migrations, training scripts and deployment, but for the restart policy behind
  `WorkerRestart` and the scripts that write accounts.

## 8. Running

```
tlc -workers 2 -config Payments_core.cfg MCPayments
tlc -workers 2 -config Metering_serial.cfg MCMetering
tlc -workers 2 -config Verifications_races.cfg MCVerifications
tlc -workers 2 -config Access_concurrent.cfg MCAccess
tlc -workers 2 -config EventLoop_liveness.cfg MCEventLoop
tlc -workers 2 -config Office_parts.cfg MCOffice
tlapm PaymentsProofs.tla
```

and likewise for the other configurations and the other `*Proofs` modules. Each
`.cfg` begins with a line that says what its instance is for. The four runs of
section 4 are expected to report a violation.
