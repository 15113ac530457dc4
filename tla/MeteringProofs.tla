--------------------------- MODULE MeteringProofs ---------------------------
(***************************************************************************)
(* Proofs about Metering for any number of threads, plans and months.      *)
(*                                                                         *)
(* That the counter stays within the recorded verifications and within     *)
(* some plan's allowance is not inductive: the next commit writes a number *)
(* from a session's old copy.  Covered says the same of every copy.        *)
(***************************************************************************)
EXTENDS Metering, StaleCounterProofs, TLAPS

USE DEF counts

\* A row's usage is within n recorded verifications, and some plan allows it.
Covered(row, n) ==
  /\ row.usage <= n
  /\ \E plan \in Plans : row.usage <= Quota[plan]

\* A verification under way holds a copy with a unit of its allowance left.
SessionCovered(label, s, n) ==
  /\ Covered(s.loaded, n) /\ Covered(s.mine, n)
  /\ label = "verifying" => s.mine.usage < Quota[s.mine.plan]

IInv ==
  /\ TypeOK
  /\ Covered(account, recorded)
  /\ \A t \in Threads : pc[t] # "idle" => SessionCovered(pc[t], session[t], recorded)

-----------------------------------------------------------------------------
(* What a commit writes.                                                   *)

\* Each column of a flushed row is the stored one or the session's.
LEMMA FlushAccount ==
  ASSUME NEW stored \in AccountRow, NEW loaded \in AccountRow,
         NEW mine \in AccountRow
  PROVE  /\ Flush(stored, loaded, mine) \in AccountRow
         /\ Flush(stored, loaded, mine).usage \in {stored.usage, mine.usage}
         /\ mine.status = loaded.status =>
              Flush(stored, loaded, mine).status = stored.status
         /\ mine.plan = loaded.plan =>
              Flush(stored, loaded, mine).plan = stored.plan
<1> DEFINE f == Flush(stored, loaded, mine)
           pick(c) == IF mine[c] = loaded[c] THEN stored[c] ELSE mine[c]
<1>1. DOMAIN stored = {"status", "plan", "usage", "cycle", "warned"}
  BY DEF AccountRow
<1>2. f = [c \in {"status", "plan", "usage", "cycle", "warned"} |-> pick(c)]
  BY <1>1 DEF Flush
<1>3. f = [status |-> pick("status"), plan |-> pick("plan"),
           usage |-> pick("usage"), cycle |-> pick("cycle"),
           warned |-> pick("warned")]
  BY <1>2
<1>4. /\ pick("status") \in MfiStatus
      /\ pick("plan") \in Plans
      /\ pick("usage") \in Nat
      /\ pick("cycle") \in Nat
      /\ pick("warned") \in BOOLEAN
  BY DEF AccountRow
<1>5. QED
  BY <1>3, <1>4 DEF AccountRow

\* The updates of a copy keep it a row.  Rolling and activating clear the
\* usage, recording adds one, and only activating touches status or plan.
LEMMA CopyUpdates ==
  ASSUME NEW a \in AccountRow, NEW m \in Months, NEW plan \in Plans
  PROVE  /\ RollPeriod(a, m) \in AccountRow
         /\ RollPeriod(a, m).usage \in {0, a.usage}
         /\ RollPeriod(a, m).status = a.status
         /\ RollPeriod(a, m).plan = a.plan
         /\ RecordUsage(a) \in AccountRow
         /\ RecordUsage(a).usage = a.usage + 1
         /\ RecordUsage(a).status = a.status
         /\ RecordUsage(a).plan = a.plan
         /\ [a EXCEPT !.warned = TRUE] \in AccountRow
         /\ Activate(a, plan, m) \in AccountRow
         /\ Activate(a, plan, m).usage = 0
<1>1. m \in Nat
  BY MeteringAssumption DEF Months
<1>2. /\ RollPeriod(a, m) \in AccountRow
      /\ RollPeriod(a, m).usage \in {0, a.usage}
      /\ RollPeriod(a, m).status = a.status
      /\ RollPeriod(a, m).plan = a.plan
  BY <1>1 DEF RollPeriod, AccountRow
<1>3. /\ RecordUsage(a) \in AccountRow
      /\ RecordUsage(a).usage = a.usage + 1
      /\ RecordUsage(a).status = a.status
      /\ RecordUsage(a).plan = a.plan
  BY DEF RecordUsage, AccountRow
<1>4. [a EXCEPT !.warned = TRUE] \in AccountRow
  BY DEF AccountRow
<1>5. /\ Activate(a, plan, m) \in AccountRow
      /\ Activate(a, plan, m).usage = 0
  BY <1>1 DEF Activate, AccountRow, MfiStatus
<1>6. QED
  BY <1>2, <1>3, <1>4, <1>5

\* A commit of a covered copy leaves a covered row.
LEMMA CommitCovered ==
  ASSUME IInv, NEW t \in Threads, pc[t] # "idle",
         NEW row \in AccountRow, Commit(t, row),
         Covered(row, recorded'), recorded' \in Nat, recorded <= recorded'
  PROVE  account' \in AccountRow /\ Covered(account', recorded')
<1>1. /\ account \in AccountRow /\ session[t].loaded \in AccountRow
      /\ recorded \in Nat
  BY DEF IInv, TypeOK, Session
<1>2. account' \in AccountRow /\ account'.usage \in {account.usage, row.usage}
  BY <1>1, FlushAccount DEF Commit
<1>3. account.usage <= recorded'
  BY <1>1 DEF IInv, Covered, AccountRow
<1>4. QED
  BY <1>2, <1>3 DEF IInv, Covered

-----------------------------------------------------------------------------
(* The inductive invariant.                                                *)

\* Zero verifications are covered by any plan.
LEMMA ZeroCovered ==
  ASSUME recorded \in Nat, NEW row, row.usage = 0
  PROVE  Covered(row, recorded)
<1>1. SignupPlan \in Plans /\ Quota[SignupPlan] \in Nat
  BY MeteringAssumption, QuotaAssumption
<1>2. QED
  BY <1>1 DEF Covered

LEMMA InitIInv == Init => IInv
<1> SUFFICES ASSUME Init PROVE IInv
  OBVIOUS
<1>1. account \in AccountRow /\ account.usage = 0
  BY MeteringAssumption DEF Init, SignedUp, NoCycle, AccountRow, MfiStatus
<1>2. TypeOK
  BY <1>1, MeteringAssumption DEF Init, TypeOK, Months, NoCycle
<1>3. Covered(account, recorded)
  BY <1>1, <1>2, ZeroCovered DEF TypeOK
<1>4. QED
  BY <1>2, <1>3 DEF Init, IInv

\* A step of thread t that commits a covered row or none, loses no recorded
\* verification and leaves t idle or with a covered session.
LEMMA ThreadStep ==
  ASSUME IInv, NEW t \in Threads, NEW label, NEW s, Move(t, label, s),
         account' \in AccountRow, Covered(account', recorded'),
         \/ label = "idle" /\ s = None
         \/ /\ label \in {"rolling", "verifying", "warning", "flagging", "confirming"}
            /\ s \in Session
            /\ SessionCovered(label, s, recorded'),
         recorded' \in Nat, recorded <= recorded', period' \in Nat, opened' \in Nat,
         mails' \in [Months -> Nat], purchases' \in Nat, raised' \in Nat,
         UNCHANGED <<today, restarts>>
  PROVE  IInv'
<1> USE DEF IInv, TypeOK
<1>1. pc' = [pc EXCEPT ![t] = label] /\ session' = [session EXCEPT ![t] = s]
  BY DEF Move
<1>2. TypeOK'
  BY <1>1
<1>3. ASSUME NEW q \in Threads, pc'[q] # "idle"
      PROVE  SessionCovered(pc'[q], session'[q], recorded')
  <2>1. CASE q = t
    BY <1>1, <1>3, <2>1 DEF SessionCovered, Covered
  <2>2. CASE q # t
    <3>1. /\ pc'[q] = pc[q] /\ session'[q] = session[q]
          /\ session[q] \in Session
          /\ SessionCovered(pc[q], session[q], recorded)
      BY <1>1, <1>3, <2>2
    <3>2. QED
      BY <3>1 DEF SessionCovered, Covered, Session, AccountRow
  <2>3. QED
    BY <2>1, <2>2
<1>4. QED
  BY <1>2, <1>3

\* The first commit writes the rolled copy, the later ones what follows.
LEMMA ProceedSteps ==
  ASSUME IInv, NEW t \in Threads, Submit(t) \/ ConfirmBegin(t) \/ Proceed(t)
  PROVE  IInv'
<1> USE DEF IInv, TypeOK
<1> DEFINE old == session[t].loaded
           mine == session[t].mine
<1>1. CASE Submit(t)
  <2> DEFINE copy == RollPeriod(account, today)
  <2>1. /\ copy \in AccountRow /\ Covered(copy, recorded')
        /\ account' \in AccountRow /\ Covered(account', recorded')
    <3>1. copy \in AccountRow /\ copy.usage \in {0, account.usage}
      BY CopyUpdates, MeteringAssumption
    <3>2. Covered(copy, recorded)
      BY <3>1, ZeroCovered DEF Covered
    <3>3. QED
      BY <1>1, <3>1, <3>2 DEF Submit
  <2>2. CASE NeedsRoll(account, today)
    <3>1. SessionCovered("rolling", [loaded |-> account, mine |-> copy], recorded')
      BY <1>1, <2>1 DEF SessionCovered, Covered, Submit
    <3>2. QED
      BY <1>1, <2>1, <2>2, <3>1, ThreadStep DEF Submit, Session
  <2>3. CASE ~NeedsRoll(account, today)
    <3>1. account.usage < Quota[account.plan]
      BY <1>1, <2>3, QuotaAssumption DEF Submit, Exhausted, AccountRow
    <3>2. SessionCovered("verifying", Clean(account), recorded') /\ Clean(account) \in Session
      BY <1>1, <2>1, <3>1 DEF SessionCovered, Covered, Submit, Clean, Session
    <3>3. QED
      BY <1>1, <2>1, <2>3, <3>2, ThreadStep DEF Submit
  <2>4. QED
    BY <2>2, <2>3
<1>2. CASE Roll(t)
  <2>1. mine \in AccountRow /\ Covered(mine, recorded')
    BY <1>2 DEF Roll, SessionCovered, Covered, Session
  <2>2. account' \in AccountRow /\ Covered(account', recorded')
    BY <1>2, <2>1, CommitCovered DEF Roll
  <2>3. period' \in Nat /\ opened' \in Nat
    BY <1>2, <2>1 DEF Roll, AccountRow
  <2>4. CASE Exhausted(mine)
    BY <1>2, <2>2, <2>3, <2>4, ThreadStep DEF Roll, Return
  <2>5. CASE ~Exhausted(mine)
    <3>1. mine.usage < Quota[mine.plan]
      BY <2>1, <2>5, QuotaAssumption DEF Exhausted, AccountRow
    <3>2. SessionCovered("verifying", Clean(mine), recorded') /\ Clean(mine) \in Session
      BY <1>2, <2>1, <3>1 DEF SessionCovered, Covered, Roll, Clean, Session
    <3>3. QED
      BY <1>2, <2>2, <2>3, <2>5, <3>2, ThreadStep DEF Roll
  <2>6. QED
    BY <2>4, <2>5
<1>3. CASE Record(t)
  <2> DEFINE next == RecordUsage(mine)
  <2>1. mine \in AccountRow /\ mine.usage < Quota[mine.plan] /\ mine.usage <= recorded
    BY <1>3 DEF Record, SessionCovered, Covered, Session
  <2>2. next \in AccountRow /\ next.usage = mine.usage + 1
    BY <2>1, CopyUpdates DEF RecordUsage, AccountRow
  <2>3. recorded' = recorded + 1
    BY <1>3 DEF Record
  <2>4. Covered(next, recorded')
    <3>1. mine.plan \in Plans /\ Quota[mine.plan] \in Nat /\ mine.usage \in Nat
      BY <2>1, QuotaAssumption DEF AccountRow
    <3>2. next.usage <= Quota[mine.plan] /\ next.usage <= recorded'
      BY <2>1, <2>2, <2>3, <3>1
    <3>3. QED
      BY <3>1, <3>2 DEF Covered
  <2>5. account' \in AccountRow /\ Covered(account', recorded')
    BY <1>3, <2>2, <2>3, <2>4, CommitCovered DEF Record
  <2>6. SessionCovered("warning", Clean(next), recorded') /\ Clean(next) \in Session
    BY <2>2, <2>4 DEF SessionCovered, Covered, Clean, Session
  <2>7. QED
    BY <1>3, <2>3, <2>5, <2>6, ThreadStep DEF Record, Return
<1>4. CASE SendWarning(t) \/ WarningRaised(t)
  <2>1. session[t] \in Session /\ SessionCovered("flagging", session[t], recorded')
    BY <1>4 DEF SendWarning, WarningRaised, SessionCovered, Covered
  <2>2. account' \in AccountRow /\ Covered(account', recorded')
    BY <1>4 DEF SendWarning, WarningRaised, Covered
  <2>3. mails' \in [Months -> Nat]
    <3> DEFINE m == mine.cycle
               more(k) == IF k = m THEN mails[k] + 1 ELSE mails[k]
    <3>1. mails' = [k \in Months |-> more(k)]
      BY <1>4 DEF SendWarning, WarningRaised
    <3>2. \A k \in Months : more(k) \in Nat
      OBVIOUS
    <3> HIDE DEF more
    <3>3. QED
      BY <3>1, <3>2
  <2>4. /\ Move(t, "flagging", session[t]) \/ Move(t, "idle", None)
        /\ UNCHANGED <<today, recorded, period, opened, purchases, restarts>>
        /\ raised' \in Nat
    BY <1>4 DEF SendWarning, WarningRaised, Return
  <2>5. recorded' \in Nat /\ recorded <= recorded'
    BY <2>4
  <2>6. QED
    BY <2>1, <2>2, <2>3, <2>4, <2>5, ThreadStep
<1>5. CASE FlagWarned(t)
  <2> DEFINE next == [mine EXCEPT !.warned = TRUE]
  <2>1. mine \in AccountRow /\ Covered(mine, recorded')
    BY <1>5 DEF FlagWarned, SessionCovered, Covered, Session
  <2>2. next \in AccountRow /\ next.usage = mine.usage
    BY <2>1 DEF AccountRow
  <2>3. Covered(next, recorded')
    BY <2>1, <2>2 DEF Covered
  <2>4. account' \in AccountRow /\ Covered(account', recorded')
    BY <1>5, <2>2, <2>3, CommitCovered DEF FlagWarned
  <2>5. QED
    BY <1>5, <2>4, ThreadStep DEF FlagWarned, Return
<1>6. CASE Abandon(t) \/ SkipWarning(t)
  <2>1. account' \in AccountRow /\ Covered(account', recorded')
    BY <1>6 DEF Abandon, SkipWarning, Covered
  <2>2. QED
    BY <1>6, <2>1, ThreadStep DEF Abandon, SkipWarning, Return
<1>7. CASE ConfirmBegin(t)
  <2>1. /\ account' \in AccountRow /\ Covered(account', recorded')
        /\ Clean(account) \in Session
        /\ SessionCovered("confirming", Clean(account), recorded')
    BY <1>7 DEF ConfirmBegin, Covered, SessionCovered, Clean, Session
  <2>2. QED
    BY <1>7, <2>1, ThreadStep DEF ConfirmBegin
<1>8. CASE ConfirmCommit(t)
  <2>1. PICK plan \in Plans : Commit(t, Activate(mine, plan, today))
    BY <1>8 DEF ConfirmCommit
  <2> DEFINE next == Activate(mine, plan, today)
  <2>2. mine \in AccountRow
    BY <1>8 DEF ConfirmCommit, Session
  <2>3. next \in AccountRow /\ next.usage = 0
    BY <2>2, CopyUpdates
  <2>4. Covered(next, recorded')
    BY <1>8, <2>3, ZeroCovered DEF ConfirmCommit, Covered
  <2>5. account' \in AccountRow /\ Covered(account', recorded')
    BY <1>8, <2>1, <2>3, <2>4, CommitCovered DEF ConfirmCommit
  <2>6. period' \in Nat
    BY <1>8 DEF ConfirmCommit, Months
  <2>7. QED
    BY <1>8, <2>5, <2>6, ThreadStep DEF ConfirmCommit, Return
<1>9. QED
  BY <1>1, <1>2, <1>3, <1>4, <1>5, <1>6, <1>7, <1>8 DEF Proceed

\* Every step keeps the inductive invariant.
LEMMA NextIInv == IInv /\ [Next]_vars => IInv'
<1> SUFFICES ASSUME IInv, [Next]_vars PROVE IInv'
  OBVIOUS
<1> USE DEF IInv, TypeOK
<1>1. CASE \E t \in Threads : Submit(t) \/ ConfirmBegin(t) \/ Proceed(t)
  BY <1>1, ProceedSteps
<1>2. CASE AdminSetStatus
  <2>1. account' \in AccountRow /\ account'.usage = account.usage
    BY <1>2 DEF AdminSetStatus, AccountRow, MfiStatus
  <2>2. QED
    BY <1>2, <2>1 DEF AdminSetStatus, Covered, SessionCovered
<1>3. CASE NextMonth
  <2>1. today' \in Months
    BY <1>3, MeteringAssumption DEF NextMonth, Months
  <2>2. QED
    BY <1>3, <2>1 DEF NextMonth, Covered, SessionCovered
<1>4. CASE WorkerRestart
  BY <1>4 DEF WorkerRestart, Covered
<1>5. CASE UNCHANGED vars
  BY <1>5 DEF vars, Covered, SessionCovered
<1>6. QED
  BY <1>1, <1>2, <1>3, <1>4, <1>5 DEF Next

-----------------------------------------------------------------------------
(* The theorems.                                                           *)

LEMMA Invariance == Spec => []IInv
<1>1. QED
  BY InitIInv, NextIInv, PTL DEF Spec

\* Every variable keeps its type, whatever is under way when a month ends, a
\* payment settles or the process restarts.
THEOREM TypeCorrect == Spec => []TypeOK
<1>1. IInv => TypeOK
  BY DEF IInv
<1>2. QED
  BY Invariance, <1>1, PTL

\* However many requests write the counter from old copies, it never claims a
\* verification that was not recorded.
THEOREM CounterIsEarned == Spec => []UsageWasRecorded
<1>1. IInv => UsageWasRecorded
  BY DEF IInv, Covered, UsageWasRecorded
<1>2. QED
  BY Invariance, <1>1, PTL

\* Nor does it ever exceed what some plan allows.
THEOREM CounterIsBounded == Spec => []UsageWithinSomeQuota
<1>1. IInv => UsageWithinSomeQuota
  BY DEF IInv, Covered, UsageWithinSomeQuota
<1>2. QED
  BY Invariance, <1>1, PTL

\* What thread t does to status and plan in the commits of a verification.
LEMMA VerifyingCommits ==
  ASSUME IInv, NEW t \in Threads, Commit(t, session[t].mine)
            \/ Commit(t, RecordUsage(session[t].mine))
            \/ Commit(t, [session[t].mine EXCEPT !.warned = TRUE]),
         pc[t] # "idle",
         session[t].mine.status = session[t].loaded.status,
         session[t].mine.plan = session[t].loaded.plan
  PROVE  account'.status = account.status /\ account'.plan = account.plan
<1> DEFINE loaded == session[t].loaded
           mine == session[t].mine
<1>1. account \in AccountRow /\ loaded \in AccountRow /\ mine \in AccountRow
  BY DEF IInv, TypeOK, Session
<1> DEFINE Same(row) == /\ row \in AccountRow
                        /\ row.status = loaded.status /\ row.plan = loaded.plan
<1>2. Same(mine)
  BY <1>1
<1>3. Same(RecordUsage(mine)) /\ Same([mine EXCEPT !.warned = TRUE])
  <2>1. Same(RecordUsage(mine))
    BY <1>1 DEF RecordUsage, AccountRow
  <2>2. Same([mine EXCEPT !.warned = TRUE])
    BY <1>1 DEF AccountRow
  <2>3. QED
    BY <2>1, <2>2
<1> HIDE DEF Same
<1>4. PICK next : Commit(t, next) /\ Same(next)
  BY <1>2, <1>3
<1>5. QED
  BY <1>1, <1>4, FlushAccount DEF Commit, Same

\* While a verification is under way its copy keeps the status and plan that
\* were loaded: the session writes neither column.
Unwritten == \A t \in Threads : pc[t] # "idle" =>
  /\ session[t].mine.status = session[t].loaded.status
  /\ session[t].mine.plan = session[t].loaded.plan

LEMMA UnwrittenInvariance == Spec => []Unwritten
<1>1. Init => Unwritten
  BY DEF Init, Unwritten
<1>2. IInv /\ Unwritten /\ [Next]_vars => Unwritten'
  <2> SUFFICES ASSUME IInv, Unwritten, [Next]_vars PROVE Unwritten'
    OBVIOUS
  <2> USE DEF IInv, TypeOK
  <2>1. ASSUME NEW t \in Threads, NEW label, NEW s, Move(t, label, s),
               label = "idle" \/ /\ s.mine.status = s.loaded.status
                                 /\ s.mine.plan = s.loaded.plan
        PROVE  Unwritten'
    BY <2>1 DEF Move, Unwritten
  <2>2. ASSUME NEW t \in Threads, Submit(t) PROVE Unwritten'
    <3>1. RollPeriod(account, today).status = account.status
      BY DEF RollPeriod, AccountRow
    <3>2. RollPeriod(account, today).plan = account.plan
      BY DEF RollPeriod, AccountRow
    <3>3. QED
      BY <2>1, <2>2, <3>1, <3>2 DEF Submit, Clean
  <2>3. ASSUME NEW t \in Threads, ConfirmBegin(t) PROVE Unwritten'
    BY <2>1, <2>3 DEF ConfirmBegin, Clean
  <2>4. ASSUME NEW t \in Threads, Proceed(t) PROVE Unwritten'
    <3>1. CASE Roll(t)
      BY <2>1, <3>1 DEF Roll, Return, Clean
    <3>2. CASE Record(t)
      BY <2>1, <3>2 DEF Record, Return, Clean
    <3>3. CASE SendWarning(t)
      BY <2>1, <3>3 DEF SendWarning, Unwritten
    <3>4. CASE \/ Abandon(t) \/ WarningRaised(t) \/ SkipWarning(t)
               \/ FlagWarned(t) \/ ConfirmCommit(t)
      BY <2>1, <3>4 DEF Abandon, WarningRaised, SkipWarning, FlagWarned,
                        ConfirmCommit, Return
    <3>5. QED
      BY <2>4, <3>1, <3>2, <3>3, <3>4 DEF Proceed
  <2>5. CASE AdminSetStatus \/ NextMonth \/ WorkerRestart \/ UNCHANGED vars
    BY <2>5 DEF AdminSetStatus, NextMonth, WorkerRestart, vars, Unwritten
  <2>6. QED
    BY <2>2, <2>3, <2>4, <2>5 DEF Next
<1>3. QED
  BY <1>1, <1>2, Invariance, PTL DEF Spec

\* A verification under way undoes no suspension, reactivation or upgrade
\* committed since it was admitted.
THEOREM EntitlementIsKept == Spec => VerifyingKeepsEntitlement
<1> DEFINE Kept == \A t \in Threads :
             pc[t] \in {"rolling", "verifying", "flagging"} /\ pc'[t] # pc[t] =>
               account'.status = account.status /\ account'.plan = account.plan
<1>1. IInv /\ Unwritten /\ [Next]_vars => [Kept]_vars
  <2> SUFFICES ASSUME IInv, Unwritten, [Next]_vars, NEW t \in Threads,
                      pc[t] \in {"rolling", "verifying", "flagging"},
                      pc'[t] # pc[t]
               PROVE  /\ account'.status = account.status
                      /\ account'.plan = account.plan
    OBVIOUS
  <2> USE DEF IInv, TypeOK
  <2>1. CASE Proceed(t)
    <3>1. CASE Roll(t) \/ Record(t) \/ FlagWarned(t)
      BY <3>1, VerifyingCommits DEF Roll, Record, FlagWarned, Unwritten
    <3>2. CASE Abandon(t) \/ SkipWarning(t) \/ SendWarning(t) \/ WarningRaised(t)
      BY <3>2 DEF Abandon, SkipWarning, SendWarning, WarningRaised
    <3>3. ~ConfirmCommit(t)
      BY DEF ConfirmCommit
    <3>4. QED
      BY <2>1, <3>1, <3>2, <3>3 DEF Proceed
  <2>2. CASE \E q \in Threads : q # t /\ (Submit(q) \/ ConfirmBegin(q) \/ Proceed(q))
    BY <2>2 DEF Submit, ConfirmBegin, Proceed, Roll, Abandon, Record, SendWarning,
                WarningRaised, SkipWarning, FlagWarned, ConfirmCommit, Return, Move
  <2>3. CASE Submit(t) \/ ConfirmBegin(t)
    BY <2>3 DEF Submit, ConfirmBegin
  <2>4. CASE AdminSetStatus \/ NextMonth \/ UNCHANGED vars
    BY <2>4 DEF AdminSetStatus, NextMonth, vars
  <2>5. CASE WorkerRestart
    BY <2>5 DEF WorkerRestart
  <2>6. QED
    BY <2>1, <2>2, <2>3, <2>4, <2>5 DEF Next
<1>2. QED
  BY <1>1, Invariance, UnwrittenInvariance, PTL DEF Spec, VerifyingKeepsEntitlement

-----------------------------------------------------------------------------
(* Requests one at a time.  What a thread loaded is then still the stored  *)
(* row, but for the status an admin may have set, so its commits write     *)
(* what its handler computed.                                              *)

OneAtATime == \A t, u \in Threads : t = u

\* Rows that differ in their status at most.
Agrees(a, b) ==
  a.plan = b.plan /\ a.usage = b.usage /\ a.cycle = b.cycle /\ a.warned = b.warned

\* The session of a thread at a label, against the stored row and the month.
SessionSerial(label, s, row, now) ==
  /\ Agrees(s.loaded, row)
  /\ label # "rolling" => s.mine = s.loaded
  /\ label = "rolling" =>
       /\ s.mine.plan = row.plan /\ s.mine.usage = 0 /\ ~s.mine.warned
       /\ row.cycle < s.mine.cycle /\ s.mine.cycle <= now

SerialInv ==
  /\ opened <= recorded
  /\ account.usage = Served
  /\ account.usage <= Quota[account.plan]
  /\ account.cycle <= today /\ period = account.cycle
  /\ \A t \in Threads :
       pc[t] # "idle" => SessionSerial(pc[t], session[t], account, today)

\* A flush of a copy whose loaded row agrees with the stored one writes it.
LEMMA FlushAgrees ==
  ASSUME NEW stored \in AccountRow, NEW loaded \in AccountRow,
         NEW mine \in AccountRow, Agrees(loaded, stored)
  PROVE  Agrees(Flush(stored, loaded, mine), mine)
<1>1. \A c \in {"plan", "usage", "cycle", "warned"} :
        Flush(stored, loaded, mine)[c] =
          IF mine[c] = loaded[c] THEN stored[c] ELSE mine[c]
  BY DEF Flush, AccountRow
<1>2. QED
  BY <1>1 DEF Agrees

LEMMA CommitAgrees ==
  ASSUME IInv, SerialInv, NEW t \in Threads, pc[t] # "idle",
         NEW row \in AccountRow, Commit(t, row)
  PROVE  Agrees(account', row)
<1>1. account \in AccountRow /\ session[t].loaded \in AccountRow
  BY DEF IInv, TypeOK, Session
<1>2. Agrees(session[t].loaded, account)
  BY DEF SerialInv, SessionSerial
<1>3. QED
  BY <1>1, <1>2, FlushAgrees DEF Commit

\* With one thread, a step of it decides what holds afterwards.
LEMMA SerialMove ==
  ASSUME OneAtATime, IInv, NEW t \in Threads, NEW label, NEW s,
         Move(t, label, s),
         label = "idle" \/ SessionSerial(label, s, account', today'),
         opened' <= recorded', account'.usage = recorded' - opened',
         account'.usage <= Quota[account'.plan], account'.cycle <= today',
         period' = account'.cycle
  PROVE  SerialInv'
<1>1. \A q \in Threads : q = t /\ pc'[q] = label /\ session'[q] = s
  BY DEF OneAtATime, Move, IInv, TypeOK
<1>2. QED
  BY <1>1 DEF SerialInv, Served

\* The commits, one lemma for each of the handler's three and the payment's.
LEMMA SerialRoll ==
  ASSUME OneAtATime, IInv, SerialInv, NEW t \in Threads, Roll(t)
  PROVE  /\ SerialInv'
         /\ account'.plan = account.plan
         /\ account.cycle < account'.cycle /\ account'.cycle <= today
         /\ ~account'.warned /\ account' \in AccountRow
<1> DEFINE mine == session[t].mine
<1>1. /\ mine \in AccountRow /\ account \in AccountRow
      /\ today \in Nat /\ recorded \in Nat /\ Quota[account.plan] \in Nat
  BY MeteringAssumption, QuotaAssumption
     DEF Roll, IInv, TypeOK, Session, Months, AccountRow
<1>2. /\ mine.plan = account.plan /\ mine.usage = 0 /\ ~mine.warned
      /\ account.cycle < mine.cycle /\ mine.cycle <= today /\ period = account.cycle
  BY DEF Roll, SerialInv, SessionSerial
<1>3. Agrees(account', mine)
  BY <1>1, CommitAgrees DEF Roll
<1>4. account' \in AccountRow
  BY <1>1, FlushAccount DEF Roll, Commit, IInv, TypeOK, Session
<1>5. /\ opened' = recorded /\ recorded' = recorded /\ today' = today
      /\ period' = mine.cycle
      /\ \/ Move(t, "idle", None)
         \/ Move(t, "verifying", Clean(mine))
  BY <1>2 DEF Roll, Return
<1>6. SessionSerial("verifying", Clean(mine), account', today')
  BY <1>3 DEF SessionSerial, Clean, Agrees
<1>7. SerialInv'
  <2>1. /\ account'.usage = recorded' - opened' /\ opened' <= recorded'
        /\ account'.usage <= Quota[account'.plan] /\ account'.cycle <= today'
        /\ period' = account'.cycle
    BY <1>1, <1>2, <1>3, <1>5 DEF Agrees
  <2> HIDE DEF mine
  <2>2. QED
    BY <1>5, <1>6, <2>1, SerialMove
<1>8. QED
  BY <1>2, <1>3, <1>4, <1>7 DEF Agrees

LEMMA SerialRecord ==
  ASSUME OneAtATime, IInv, SerialInv, NEW t \in Threads, Record(t)
  PROVE  /\ SerialInv'
         /\ account.usage < Quota[account.plan]
         /\ account'.plan = account.plan /\ account'.cycle = account.cycle
         /\ account'.warned = account.warned
<1> DEFINE mine == session[t].mine
           next == RecordUsage(mine)
<1>1. /\ mine \in AccountRow /\ next \in AccountRow
      /\ next.usage = mine.usage + 1 /\ next.plan = mine.plan
      /\ next.cycle = mine.cycle /\ next.warned = mine.warned
  BY DEF Record, IInv, TypeOK, Session, RecordUsage, AccountRow
<1>2. Agrees(mine, account) /\ mine.usage < Quota[mine.plan]
  BY DEF Record, SerialInv, SessionSerial, IInv, SessionCovered
<1>3. Agrees(account', next)
  BY <1>1, CommitAgrees DEF Record
<1>4. /\ recorded \in Nat /\ opened \in Nat /\ opened <= recorded
      /\ mine.usage \in Nat /\ Quota[mine.plan] \in Nat
      /\ account.usage = recorded - opened /\ account.cycle <= today
      /\ period = account.cycle
  BY <1>1, QuotaAssumption DEF IInv, TypeOK, SerialInv, Served, AccountRow
<1>5. /\ recorded' = recorded + 1 /\ opened' = opened /\ today' = today
      /\ period' = period
      /\ \/ Move(t, "idle", None)
         \/ Move(t, "warning", Clean(next))
  BY DEF Record, Return
<1>6. SessionSerial("warning", Clean(next), account', today')
  BY <1>3 DEF SessionSerial, Clean, Agrees
<1> HIDE DEF mine, next
<1>7. /\ account'.usage = recorded' - opened' /\ opened' <= recorded'
      /\ account'.usage <= Quota[account'.plan] /\ account'.cycle <= today'
      /\ period' = account'.cycle
  BY <1>1, <1>2, <1>3, <1>4, <1>5 DEF Agrees
<1>8. SerialInv'
  BY <1>5, <1>6, <1>7, SerialMove
<1>9. QED
  BY <1>1, <1>2, <1>3, <1>8 DEF Agrees

LEMMA SerialFlag ==
  ASSUME OneAtATime, IInv, SerialInv, NEW t \in Threads, FlagWarned(t)
  PROVE  /\ SerialInv'
         /\ account'.plan = account.plan /\ account'.cycle = account.cycle
         /\ account'.warned
<1> DEFINE mine == session[t].mine
           next == [mine EXCEPT !.warned = TRUE]
<1>1. /\ mine \in AccountRow /\ next \in AccountRow
      /\ next.usage = mine.usage /\ next.plan = mine.plan
      /\ next.cycle = mine.cycle /\ next.warned
  BY DEF FlagWarned, IInv, TypeOK, Session, AccountRow
<1>2. Agrees(mine, account)
  BY DEF FlagWarned, SerialInv, SessionSerial
<1>3. Agrees(account', next)
  BY <1>1, CommitAgrees DEF FlagWarned
<1>4. /\ recorded' = recorded /\ opened' = opened /\ today' = today
      /\ period' = period /\ Move(t, "idle", None)
  BY DEF FlagWarned, Return
<1> HIDE DEF mine, next
<1>5. /\ account'.usage = recorded' - opened' /\ opened' <= recorded'
      /\ account'.usage <= Quota[account'.plan] /\ account'.cycle <= today'
      /\ period' = account'.cycle
  BY <1>1, <1>2, <1>3, <1>4 DEF Agrees, SerialInv, Served
<1>6. SerialInv'
  BY <1>4, <1>5, SerialMove
<1>7. QED
  BY <1>1, <1>2, <1>3, <1>6 DEF Agrees

LEMMA SerialConfirm ==
  ASSUME OneAtATime, IInv, SerialInv, NEW t \in Threads, ConfirmCommit(t)
  PROVE  /\ SerialInv'
         /\ account'.plan \in Plans /\ account'.cycle = today
         /\ account'.warned = account.warned
<1> DEFINE mine == session[t].mine
<1>1. mine \in AccountRow /\ today \in Months
  BY DEF ConfirmCommit, IInv, TypeOK, Session
<1>2. PICK plan \in Plans : Commit(t, Activate(mine, plan, today))
  BY DEF ConfirmCommit
<1>3. PICK next : next = Activate(mine, plan, today)
  OBVIOUS
<1>4. /\ next \in AccountRow /\ next.plan = plan /\ next.cycle = today
      /\ next.usage = 0 /\ next.warned = mine.warned
  <2>1. next \in AccountRow
    BY <1>1, <1>3, CopyUpdates
  <2>2. QED
    BY <1>1, <1>3, <2>1 DEF Activate, AccountRow
<1>5. Agrees(mine, account)
  BY DEF ConfirmCommit, SerialInv, SessionSerial
<1>6. Agrees(account', next)
  BY <1>2, <1>3, <1>4, CommitAgrees DEF ConfirmCommit
<1>7. /\ recorded' = recorded /\ opened' = recorded /\ today' = today
      /\ period' = today /\ Move(t, "idle", None) /\ recorded \in Nat
      /\ today \in Nat /\ Quota[plan] \in Nat
  BY <1>1, QuotaAssumption DEF ConfirmCommit, Return, IInv, TypeOK, Months
<1> HIDE DEF mine
<1>8. /\ account'.usage = recorded' - opened' /\ opened' <= recorded'
      /\ account'.usage <= Quota[account'.plan] /\ account'.cycle <= today'
      /\ period' = account'.cycle
  BY <1>4, <1>6, <1>7 DEF Agrees
<1>9. SerialInv'
  BY <1>7, <1>8, SerialMove
<1>10. QED
  BY <1>4, <1>5, <1>6, <1>9 DEF Agrees

\* What a step does in series: it opens a period, serves, activates, or leaves
\* the period and the count as they are.
SerialStep ==
  \/ \E t \in Threads : Roll(t) \/ Record(t) \/ FlagWarned(t) \/ ConfirmCommit(t)
  \/ /\ Agrees(account', account) /\ account' \in AccountRow
     /\ UNCHANGED <<recorded, period, opened>>
     /\ today' \in {today, today + 1}

LEMMA SerialSteps ==
  ASSUME OneAtATime, IInv, SerialInv, [Next]_vars
  PROVE  SerialInv' /\ SerialStep
<1>1. /\ account \in AccountRow /\ today \in Nat /\ today + 1 \in Nat
      /\ account.usage = recorded - opened /\ opened <= recorded
      /\ account.usage <= Quota[account.plan] /\ account.cycle <= today
      /\ period = account.cycle /\ Agrees(account, account)
  BY DEF IInv, TypeOK, SerialInv, Served, Agrees, Months
<1>2. ASSUME NEW t \in Threads,
             Roll(t) \/ Record(t) \/ FlagWarned(t) \/ ConfirmCommit(t)
      PROVE  SerialInv' /\ SerialStep
  BY <1>2, SerialRoll, SerialRecord, SerialFlag, SerialConfirm DEF SerialStep
<1>3. ASSUME NEW t \in Threads, NEW label, NEW s, Move(t, label, s),
             label = "idle" \/ SessionSerial(label, s, account, today),
             UNCHANGED <<account, today, recorded, period, opened>>
      PROVE  SerialInv' /\ SerialStep
  BY <1>1, <1>3, SerialMove DEF SerialStep
<1>4. ASSUME NEW t \in Threads, Submit(t) PROVE SerialInv' /\ SerialStep
  <2> DEFINE copy == RollPeriod(account, today)
  <2>1. CASE NeedsRoll(account, today)
    <3>1. /\ copy.plan = account.plan /\ copy.usage = 0 /\ copy.warned = FALSE
          /\ copy.cycle = today
      BY <1>1, <2>1 DEF RollPeriod, AccountRow
    <3>2. account.cycle < today
      BY <1>1, <2>1 DEF NeedsRoll, AccountRow
    <3>3. SessionSerial("rolling", [loaded |-> account, mine |-> copy], account, today)
      BY <1>1, <3>1, <3>2 DEF SessionSerial
    <3>4. QED
      BY <1>3, <1>4, <2>1, <3>3 DEF Submit
  <2>2. CASE ~NeedsRoll(account, today)
    <3>1. SessionSerial("verifying", Clean(account), account, today)
      BY <1>1 DEF SessionSerial, Clean
    <3>2. QED
      BY <1>3, <1>4, <2>2, <3>1 DEF Submit
  <2>3. QED
    BY <2>1, <2>2
<1>5. ASSUME NEW t \in Threads, ConfirmBegin(t) PROVE SerialInv' /\ SerialStep
  <2>1. SessionSerial("confirming", Clean(account), account, today)
    BY <1>1 DEF SessionSerial, Clean
  <2>2. QED
    BY <1>3, <1>5, <2>1 DEF ConfirmBegin
<1>6. ASSUME NEW t \in Threads, Abandon(t) \/ SkipWarning(t) \/ WarningRaised(t)
      PROVE  SerialInv' /\ SerialStep
  BY <1>3, <1>6 DEF Abandon, SkipWarning, WarningRaised, Return
<1>7. ASSUME NEW t \in Threads, SendWarning(t) PROVE SerialInv' /\ SerialStep
  <2>1. SessionSerial("flagging", session[t], account, today)
    BY <1>7 DEF SendWarning, SerialInv, SessionSerial
  <2>2. QED
    BY <1>3, <1>7, <2>1 DEF SendWarning
<1>8. CASE AdminSetStatus
  <2>1. Agrees(account', account) /\ account' \in AccountRow
    BY <1>1, <1>8 DEF AdminSetStatus, Agrees, AccountRow, MfiStatus
  <2>2. QED
    BY <1>1, <1>8, <2>1
       DEF AdminSetStatus, SerialInv, SerialStep, SessionSerial, Served, Agrees
<1>9. CASE NextMonth
  <2>1. /\ UNCHANGED <<account, pc, session, recorded, period, opened>>
        /\ today' = today + 1
    BY <1>9 DEF NextMonth
  <2>2. account.cycle \in Nat
    BY <1>1 DEF AccountRow
  <2>3. ASSUME NEW t \in Threads, pc'[t] # "idle"
        PROVE  SessionSerial(pc'[t], session'[t], account', today')
    <3>1. /\ SessionSerial(pc[t], session[t], account, today)
          /\ session[t].mine.cycle \in Nat
      BY <2>1, <2>3 DEF SerialInv, IInv, TypeOK, Session, AccountRow
    <3>2. QED
      BY <1>1, <2>1, <3>1 DEF SessionSerial
  <2>4. QED
    BY <1>1, <2>1, <2>2, <2>3 DEF SerialInv, SerialStep, Served
<1>10. CASE WorkerRestart
  BY <1>1, <1>10 DEF WorkerRestart, SerialInv, SerialStep, Served
<1>11. CASE UNCHANGED vars
  BY <1>1, <1>11 DEF vars, SerialInv, SerialStep, Served
<1>12. QED
  BY <1>2, <1>4, <1>5, <1>6, <1>7, <1>8, <1>9, <1>10, <1>11 DEF Next, Proceed

LEMMA InitSerial == Init => SerialInv
<1> SUFFICES ASSUME Init PROVE SerialInv
  OBVIOUS
<1>1. /\ SignupPlan \in Plans /\ Quota[SignupPlan] \in Nat
      /\ account.usage = 0 /\ account.cycle = 0 /\ account.plan = SignupPlan
  BY MeteringAssumption, QuotaAssumption DEF Init, SignedUp, NoCycle
<1>2. QED
  BY <1>1 DEF Init, SerialInv, Served, NoCycle

LEMMA SerialInvariance == ASSUME OneAtATime PROVE Spec => []SerialInv
<1>1. IInv /\ SerialInv /\ [Next]_vars => SerialInv'
  BY SerialSteps
<1>2. QED
  BY <1>1, InitSerial, Invariance, PTL DEF Spec

\* Served one request at a time, an account is charged exactly the
\* verifications recorded in its period, across month ends, payments, admin
\* actions and restarts.
THEOREM MeteredExactlyInSeries ==
  ASSUME OneAtATime
  PROVE  Spec => []MeteredExactly
<1>1. SerialInv => MeteredExactly
  BY DEF SerialInv, MeteredExactly
<1>2. QED
  BY <1>1, SerialInvariance, PTL

\* And it is blocked at 100% of its plan's quota.
THEOREM BlockedAtQuotaInSeries ==
  ASSUME OneAtATime
  PROVE  Spec => []BlocksAtQuota
<1>1. SerialInv => BlocksAtQuota
  BY DEF SerialInv, BlocksAtQuota
<1>2. QED
  BY <1>1, SerialInvariance, PTL

\* The row implements the promise of a subscription: verifications within the
\* plan's allowance, a new count with each month or payment and never otherwise.
THEOREM MeterRefinement ==
  ASSUME OneAtATime
  PROVE  Spec => RefinesMeter
<1>1. Init => Meter!Init
  BY MeteringAssumption DEF Init, SignedUp, Meter!Init, Served
<1>2. IInv /\ SerialInv /\ SerialInv' /\ [Next]_vars
        => [Meter!Next]_(Meter!vars)
  <2> SUFFICES ASSUME IInv, SerialInv, SerialInv', [Next]_vars
               PROVE  [Meter!Next]_(Meter!vars)
    OBVIOUS
  <2>1. /\ recorded \in Nat /\ opened \in Nat /\ today \in Nat
        /\ account.cycle \in Nat
    BY DEF IInv, TypeOK, AccountRow, Months
  <2>2. ASSUME NEW t \in Threads, Roll(t) PROVE Meter!NewPeriod
    <3>1. opened' = recorded /\ UNCHANGED <<today, recorded>>
      BY <2>2 DEF Roll, SerialInv, SessionSerial
    <3>2. Served' = 0
      BY <2>1, <3>1 DEF Served
    <3>3. account'.cycle \in (account.cycle + 1)..today /\ account'.plan = account.plan
      BY <2>1, <2>2, SerialRoll DEF AccountRow
    <3>4. QED
      BY <3>1, <3>2, <3>3 DEF Meter!NewPeriod
  <2>3. ASSUME NEW t \in Threads, Record(t) PROVE Meter!Serve
    <3>1. recorded' = recorded + 1 /\ UNCHANGED <<today, opened>>
      BY <2>3 DEF Record
    <3>2. Served' = Served + 1
      BY <2>1, <3>1 DEF Served
    <3>3. Served < Quota[account.plan] /\ UNCHANGED <<account.plan, account.cycle>>
      BY <2>3, SerialRecord DEF SerialInv
    <3>4. QED
      BY <3>1, <3>2, <3>3 DEF Meter!Serve
  <2>4. ASSUME NEW t \in Threads, ConfirmCommit(t) PROVE Meter!Activate
    <3>1. opened' = recorded /\ UNCHANGED <<today, recorded>>
      BY <2>4 DEF ConfirmCommit
    <3>2. Served' = 0
      BY <2>1, <3>1 DEF Served
    <3>3. QED
      BY <2>4, <3>1, <3>2, SerialConfirm DEF Meter!Activate
  <2>5. ASSUME NEW t \in Threads, FlagWarned(t) PROVE UNCHANGED Meter!vars
    <3>1. UNCHANGED <<today, recorded, opened>>
      BY <2>5 DEF FlagWarned
    <3>2. QED
      BY <2>5, <3>1, SerialFlag DEF Meter!vars, Served
  <2>6. CASE /\ Agrees(account', account) /\ UNCHANGED <<recorded, opened>>
             /\ today' \in {today, today + 1}
    <3>1. UNCHANGED <<account.plan, account.cycle, Served>>
      BY <2>6 DEF Agrees, Served
    <3>2. QED
      BY <2>6, <3>1 DEF Meter!vars, Meter!Next, Meter!NextMonth
  <2>7. QED
    BY <2>2, <2>3, <2>4, <2>5, <2>6, SerialSteps DEF SerialStep, Meter!Next
<1>3. QED
  BY <1>1, <1>2, Invariance, SerialInvariance, PTL
     DEF Spec, RefinesMeter, Meter!Spec

-----------------------------------------------------------------------------
(* The warning mail in series.  Between the mail and its flag the row does *)
(* not tell that the mail was sent: the thread's label does, and a restart *)
(* forgets it.                                                             *)

WarnInv ==
  /\ WarnedAtMostOnce
  /\ \A m \in Months : m > account.cycle => mails[m] = 0
  /\ ~account.warned /\ (\A t \in Threads : pc[t] # "flagging") =>
       \A m \in Months : m = account.cycle => mails[m] <= restarts + raised
  /\ \A t \in Threads :
       pc[t] \in {"warning", "flagging"} => ~session[t].mine.warned

\* A step that sends nothing: no month's count can fall short afterwards if
\* the flag is kept or set, or a later period is opened.
LEMMA QuietStep ==
  ASSUME OneAtATime, IInv, WarnInv, NEW t \in Threads, NEW label, NEW s,
         Move(t, label, s), pc[t] # "flagging" \/ account'.warned,
         label # "flagging", label = "warning" => ~s.mine.warned,
         account' \in AccountRow,
         \/ account'.cycle = account.cycle /\ (account.warned => account'.warned)
         \/ account'.cycle > account.cycle,
         UNCHANGED <<mails, restarts, raised>>
  PROVE  WarnInv'
<1>1. \A q \in Threads : q = t /\ pc'[q] = label /\ session'[q] = s
  BY DEF OneAtATime, Move, IInv, TypeOK
<1>2. /\ \A m \in Months : m \in Nat /\ mails[m] \in Nat
      /\ account.cycle \in Nat /\ account'.cycle \in Nat
      /\ restarts \in Nat /\ raised \in Nat
  BY DEF IInv, TypeOK, AccountRow, Months
<1>3. WarnedAtMostOnce'
  BY DEF WarnInv, WarnedAtMostOnce
<1>4. \A m \in Months : m > account'.cycle => mails'[m] = 0
  BY <1>2 DEF WarnInv
<1>5. ~account'.warned => \A m \in Months : m = account'.cycle => mails'[m] <= restarts' + raised'
  <2>1. ASSUME account'.cycle = account.cycle, ~account'.warned
        PROVE  \A m \in Months : m = account'.cycle => mails'[m] <= restarts' + raised'
    <3>1. ~account.warned
      BY <1>2, <2>1
    <3>2. \A q \in Threads : pc[q] # "flagging"
      BY <1>1, <2>1
    <3>3. QED
      BY <2>1, <3>1, <3>2 DEF WarnInv
  <2>2. CASE account'.cycle > account.cycle
    BY <1>2, <2>2 DEF WarnInv
  <2>3. QED
    BY <2>1, <2>2
<1>6. QED
  BY <1>1, <1>3, <1>4, <1>5 DEF WarnInv

LEMMA WarnStep ==
  ASSUME OneAtATime, IInv, IInv', SerialInv, WarnInv, [Next]_vars
  PROVE  WarnInv'
<1>1. /\ \A m \in Months : m \in Nat /\ mails[m] \in Nat
      /\ account \in AccountRow /\ account' \in AccountRow
      /\ account.cycle \in Nat /\ account'.cycle \in Nat
      /\ today \in Nat /\ restarts \in Nat /\ raised \in Nat
  <2>1. account \in AccountRow /\ account' \in AccountRow
    BY DEF IInv, TypeOK
  <2>2. account.cycle \in Nat /\ account'.cycle \in Nat
    BY <2>1 DEF AccountRow
  <2>3. today \in Nat /\ \A m \in Months : m \in Nat
    BY DEF IInv, TypeOK, Months
  <2>4. restarts \in Nat /\ raised \in Nat /\ \A m \in Months : mails[m] \in Nat
    BY DEF IInv, TypeOK
  <2>5. QED
    BY <2>1, <2>2, <2>3, <2>4
<1>2. ASSUME NEW t \in Threads, Roll(t) PROVE WarnInv'
  <2>1. account'.cycle > account.cycle
    BY <1>1, <1>2, SerialRoll
  <2>2. QED
    BY <1>1, <1>2, <2>1, QuietStep DEF Roll, Return
<1>3. ASSUME NEW t \in Threads, Record(t) PROVE WarnInv'
  <2>1. PICK next : /\ next = RecordUsage(session[t].mine)
                    /\ \/ Move(t, "idle", None)
                       \/ Move(t, "warning", Clean(next)) /\ ~next.warned
    BY <1>3 DEF Record, Return
  <2>2. Clean(next).mine.warned = next.warned
    BY DEF Clean
  <2>3. account'.cycle = account.cycle /\ account'.warned = account.warned
    BY <1>3, SerialRecord
  <2>4. pc[t] # "flagging" /\ UNCHANGED <<mails, restarts, raised>>
    BY <1>3 DEF Record
  <2>5. QED
    BY <1>1, <2>1, <2>2, <2>3, <2>4, QuietStep
<1>4. ASSUME NEW t \in Threads, FlagWarned(t) PROVE WarnInv'
  <2>1. account'.cycle = account.cycle /\ account'.warned
    BY <1>4, SerialFlag
  <2>2. Move(t, "idle", None) /\ UNCHANGED <<mails, restarts, raised>>
    BY <1>4 DEF FlagWarned, Return
  <2>3. QED
    BY <1>1, <2>1, <2>2, QuietStep
<1>5. ASSUME NEW t \in Threads, ConfirmCommit(t) PROVE WarnInv'
  <2>1. account'.cycle = today /\ account'.warned = account.warned
    BY <1>5, SerialConfirm
  <2>2. account'.cycle = account.cycle \/ account'.cycle > account.cycle
    BY <1>1, <2>1 DEF SerialInv
  <2>3. /\ Move(t, "idle", None) /\ pc[t] # "flagging"
        /\ UNCHANGED <<mails, restarts, raised>>
    BY <1>5 DEF ConfirmCommit, Return
  <2>4. QED
    BY <1>1, <2>1, <2>2, <2>3, QuietStep
<1>6. ASSUME NEW t \in Threads,
             Submit(t) \/ ConfirmBegin(t) \/ Abandon(t) \/ SkipWarning(t)
      PROVE  WarnInv'
  <2>1. /\ account' = account /\ pc[t] # "flagging"
        /\ UNCHANGED <<mails, restarts, raised>>
        /\ \E label \in {"idle", "rolling", "verifying", "confirming"} :
             \E s : Move(t, label, s)
    BY <1>6 DEF Submit, ConfirmBegin, Abandon, SkipWarning, Return
  <2>2. PICK label \in {"idle", "rolling", "verifying", "confirming"} :
          \E s : Move(t, label, s)
    BY <2>1
  <2>3. PICK s : Move(t, label, s)
    BY <2>2
  <2>4. QED
    BY <1>1, <2>1, <2>3, QuietStep
<1>7. ASSUME NEW t \in Threads, SendWarning(t) PROVE WarnInv'
  <2>1. /\ pc[t] = "warning" /\ account' = account
        /\ restarts' = restarts /\ raised' = raised
        /\ mails' = [mails EXCEPT ![session[t].mine.cycle] = @ + 1]
        /\ \A q \in Threads : q = t /\ pc'[q] = "flagging" /\ session'[q] = session[q]
    BY <1>7 DEF SendWarning, Move, OneAtATime, IInv, TypeOK
  <2>2. session[t].mine.cycle = account.cycle /\ ~account.warned /\ ~session[t].mine.warned
    BY <2>1 DEF SerialInv, SessionSerial, Agrees, WarnInv
  <2>3. \A m \in Months : mails'[m] = IF m = account.cycle THEN mails[m] + 1 ELSE mails[m]
    BY <2>1, <2>2 DEF IInv, TypeOK
  <2>4. \A m \in Months : m = account.cycle => mails[m] <= restarts + raised
    <3>1. \A q \in Threads : pc[q] # "flagging"
      BY <2>1
    <3>2. QED
      BY <2>2, <3>1 DEF WarnInv
  <2>5. WarnedAtMostOnce'
    BY <1>1, <2>1, <2>3, <2>4 DEF WarnInv, WarnedAtMostOnce
  <2>6. \A m \in Months : m > account'.cycle => mails'[m] = 0
    BY <1>1, <2>1, <2>3 DEF WarnInv
  <2>7. ~(\A q \in Threads : pc'[q] # "flagging")
    BY <2>1
  <2>8. \A q \in Threads : ~session'[q].mine.warned
    BY <2>1, <2>2
  <2>9. QED
    BY <2>5, <2>6, <2>7, <2>8 DEF WarnInv
<1>8. ASSUME NEW t \in Threads, WarningRaised(t) PROVE WarnInv'
  <2>1. /\ pc[t] = "warning" /\ account' = account
        /\ restarts' = restarts /\ raised' = raised + 1
        /\ mails' = [mails EXCEPT ![session[t].mine.cycle] = @ + 1]
        /\ \A q \in Threads : q = t /\ pc'[q] = "idle"
    BY <1>8 DEF WarningRaised, Return, Move, OneAtATime, IInv, TypeOK
  <2>2. session[t].mine.cycle = account.cycle /\ ~account.warned
    BY <2>1 DEF SerialInv, SessionSerial, Agrees, WarnInv
  <2>3. \A m \in Months : mails'[m] = IF m = account.cycle THEN mails[m] + 1 ELSE mails[m]
    BY <2>1, <2>2 DEF IInv, TypeOK
  <2>4. \A m \in Months : m = account.cycle => mails[m] <= restarts + raised
    <3>1. \A q \in Threads : pc[q] # "flagging"
      BY <2>1
    <3>2. QED
      BY <2>2, <3>1 DEF WarnInv
  <2>5. WarnedAtMostOnce'
    BY <1>1, <2>1, <2>3, <2>4 DEF WarnInv, WarnedAtMostOnce
  <2>6. \A m \in Months : m > account'.cycle => mails'[m] = 0
    BY <1>1, <2>1, <2>3 DEF WarnInv
  <2>7. \A m \in Months : m = account'.cycle => mails'[m] <= restarts' + raised'
    BY <1>1, <2>1, <2>3, <2>4
  <2>8. QED
    BY <2>1, <2>5, <2>6, <2>7 DEF WarnInv
<1>9. CASE AdminSetStatus
  <2>1. account'.cycle = account.cycle /\ account'.warned = account.warned
    BY <1>1, <1>9 DEF AdminSetStatus, AccountRow
  <2>2. QED
    BY <1>9, <2>1 DEF AdminSetStatus, WarnInv, WarnedAtMostOnce
<1>10. CASE NextMonth
  BY <1>10 DEF NextMonth, WarnInv, WarnedAtMostOnce
<1>11. CASE WorkerRestart
  <2>1. /\ restarts' = restarts + 1 /\ UNCHANGED <<account, mails, raised>>
        /\ \A t \in Threads : pc'[t] = "idle"
    BY <1>11 DEF WorkerRestart
  <2>2. \A m \in Months : /\ mails'[m] <= restarts' + raised'
                          /\ mails'[m] <= 1 + restarts' + raised'
    BY <1>1, <2>1 DEF WarnInv, WarnedAtMostOnce
  <2>3. QED
    BY <2>1, <2>2 DEF WarnInv, WarnedAtMostOnce
<1>12. CASE UNCHANGED vars
  BY <1>12 DEF vars, WarnInv, WarnedAtMostOnce
<1>13. QED
  BY <1>2, <1>3, <1>4, <1>5, <1>6, <1>7, <1>8, <1>9, <1>10, <1>11, <1>12
     DEF Next, Proceed

\* Served one request at a time, a period's warning is sent once, and once
\* more at most for each restart between the mail and its flag and for each
\* send that raised when the server had taken the mail.
THEOREM WarnedOnceInSeries ==
  ASSUME OneAtATime
  PROVE  Spec => []WarnedAtMostOnce
<1>1. Init => WarnInv
  BY DEF Init, WarnInv, WarnedAtMostOnce
<1>2. IInv /\ IInv' /\ SerialInv /\ WarnInv /\ [Next]_vars => WarnInv'
  BY WarnStep
<1>3. WarnInv => WarnedAtMostOnce
  BY DEF WarnInv
<1>4. QED
  BY <1>1, <1>2, <1>3, Invariance, SerialInvariance, PTL DEF Spec

-----------------------------------------------------------------------------
(* How often the counter of a period is set to zero.  Of the roll-overs    *)
(* under way those of an older month leave the row behind the period, and  *)
(* while it is behind any thread may load it and roll it again; one of the *)
(* period's own month resets the counter and leaves the row up to date.    *)

\* Roll-overs under way to a month before the period.
Behind == {t \in Threads : pc[t] = "rolling" /\ session[t].mine.cycle < period}

\* Threads that may reset the counter before another older month is written.
Wiping == {t \in Threads : \/ account.cycle # period
                           \/ pc[t] = "rolling" /\ session[t].mine.cycle <= period}

Many == Cardinality(Threads)

RollsAhead(behind, wiping) == Many * Cardinality(behind) + Cardinality(wiping)

Ahead == RollsAhead(Behind, Wiping)

LEMMA Multiples ==
  /\ \A n, a, b \in Nat : a <= b => n * a <= n * b
  /\ \A n, a, b \in Nat : a + 1 <= b => n * a + n <= n * b
  /\ \A n, a \in Nat : n * a \in Nat /\ a * n = n * a
  /\ \A n, a \in Nat : n * (a + 1) = n * a + n
<1>1. \A n, a \in Nat : n * (a + 1) = n * a + n
  OBVIOUS
<1>2. \A n, a \in Nat : n * a \in Nat /\ a * n = n * a
  OBVIOUS
<1>3. \A n, a, b \in Nat : a <= b => n * a <= n * b
  <2>1. SUFFICES ASSUME NEW n \in Nat, NEW a \in Nat, NEW b \in Nat, a <= b
                 PROVE  n * a <= n * b
    OBVIOUS
  <2>2. PICK d \in Nat : b = a + d
    <3>1. b - a \in Nat /\ b = a + (b - a)
      BY <2>1
    <3>2. QED
      BY <3>1
  <2>3. n * d \in Nat /\ n * a \in Nat /\ n * (a + d) = n * a + n * d
    BY <1>2
  <2>4. QED
    BY <2>2, <2>3
<1>4. \A n, a, b \in Nat : a + 1 <= b => n * a + n <= n * b
  BY <1>1, <1>3
<1>5. QED
  BY <1>1, <1>2, <1>3, <1>4

LEMMA SubsetOfThreads ==
  ASSUME NEW S \in SUBSET Threads
  PROVE  /\ IsFiniteSet(S) /\ Cardinality(S) \in Nat /\ Many \in Nat /\ Cardinality(S) <= Many
         /\ \A t \in Threads : t \notin S => Cardinality(S) + 1 <= Many
         /\ \A t, u \in Threads : t \notin S /\ u \notin S /\ t # u =>
              Cardinality(S) + 2 <= Many
<1>1. IsFiniteSet(S) /\ Cardinality(S) \in Nat /\ Many \in Nat /\ Cardinality(S) <= Many
  BY MeteringAssumption, FS_Subset, FS_CardinalityType DEF Many
<1>2. ASSUME NEW t \in Threads, t \notin S
      PROVE  /\ Cardinality(S \cup {t}) = Cardinality(S) + 1
             /\ Cardinality(S \cup {t}) <= Many /\ IsFiniteSet(S \cup {t})
  <2>1. S \cup {t} \in SUBSET Threads
    OBVIOUS
  <2>2. QED
    BY <1>1, <1>2, <2>1, MeteringAssumption, FS_AddElement, FS_Subset DEF Many
<1>3. ASSUME NEW t \in Threads, NEW u \in Threads, t \notin S, u \notin S, t # u
      PROVE  Cardinality(S) + 2 <= Many
  <2> DEFINE T == S \cup {t}
  <2>1. T \cup {u} \in SUBSET Threads /\ u \notin T
    BY <1>3
  <2>2. Cardinality(T) = Cardinality(S) + 1 /\ IsFiniteSet(T)
    BY <1>2, <1>3
  <2> HIDE DEF T
  <2>3. Cardinality(T \cup {u}) = Cardinality(T) + 1
    BY <2>1, <2>2, FS_AddElement
  <2>4. Cardinality(T \cup {u}) <= Many
    BY <2>1, MeteringAssumption, FS_Subset DEF Many
  <2>5. QED
    BY <1>1, <2>2, <2>3, <2>4
<1>4. QED
  BY <1>1, <1>2, <1>3

LEMMA SmallerSubset ==
  ASSUME NEW S \in SUBSET Threads, NEW T \in SUBSET S
  PROVE  /\ Cardinality(T) <= Cardinality(S)
         /\ \A t \in S : t \notin T => Cardinality(T) + 1 <= Cardinality(S)
<1>1. /\ IsFiniteSet(S) /\ IsFiniteSet(T)
      /\ Cardinality(S) \in Nat /\ Cardinality(T) \in Nat
      /\ Cardinality(T) <= Cardinality(S)
      /\ Cardinality(S) = Cardinality(T) => S = T
  BY SubsetOfThreads, FS_Subset, FS_CardinalityType
<1>2. QED
  BY <1>1

LEMMA AheadType ==
  ASSUME NEW B \in SUBSET Threads, NEW W \in SUBSET Threads
  PROVE  RollsAhead(B, W) \in Nat
BY SubsetOfThreads, Multiples DEF RollsAhead

LEMMA AheadShrinks ==
  ASSUME NEW B \in SUBSET Threads, NEW W \in SUBSET Threads,
         NEW C \in SUBSET B, NEW V \in SUBSET W
  PROVE  RollsAhead(C, V) <= RollsAhead(B, W)
<1>1. /\ Cardinality(C) <= Cardinality(B) /\ Cardinality(V) <= Cardinality(W)
      /\ Cardinality(C) \in Nat /\ Cardinality(B) \in Nat /\ Many \in Nat
      /\ Cardinality(V) \in Nat /\ Cardinality(W) \in Nat
  BY SmallerSubset, SubsetOfThreads
<1>2. Many * Cardinality(C) <= Many * Cardinality(B)
      /\ Many * Cardinality(C) \in Nat /\ Many * Cardinality(B) \in Nat
  BY <1>1, Multiples
<1>3. QED
  BY <1>1, <1>2 DEF RollsAhead

\* A thread is through with the period's own roll-over.
LEMMA AheadWiped ==
  ASSUME NEW B \in SUBSET Threads, NEW W \in SUBSET Threads,
         NEW C \in SUBSET B, NEW V \in SUBSET W, NEW t \in W, t \notin V
  PROVE  RollsAhead(C, V) + 1 <= RollsAhead(B, W)
<1>1. /\ Cardinality(C) <= Cardinality(B) /\ Cardinality(V) + 1 <= Cardinality(W)
      /\ Cardinality(C) \in Nat /\ Cardinality(B) \in Nat /\ Many \in Nat
      /\ Cardinality(V) \in Nat /\ Cardinality(W) \in Nat
  BY SmallerSubset, SubsetOfThreads
<1>2. Many * Cardinality(C) <= Many * Cardinality(B)
      /\ Many * Cardinality(C) \in Nat /\ Many * Cardinality(B) \in Nat
  BY <1>1, Multiples
<1>3. QED
  BY <1>1, <1>2 DEF RollsAhead

\* A thread is through with the roll-over of an older month.
LEMMA AheadWritten ==
  ASSUME NEW B \in SUBSET Threads, NEW W \in SUBSET Threads,
         NEW C \in SUBSET B, NEW V \in SUBSET Threads, NEW t \in B, t \notin C, t \in W
  PROVE  RollsAhead(C, V) + 1 <= RollsAhead(B, W)
<1>1. /\ Cardinality(C) + 1 <= Cardinality(B) /\ Cardinality(V) <= Many
      /\ Cardinality(C) \in Nat /\ Cardinality(B) \in Nat /\ Many \in Nat
      /\ Cardinality(V) \in Nat /\ Cardinality(W) \in Nat
  BY SmallerSubset, SubsetOfThreads
<1>2. Cardinality(W) >= 1
  <2>1. {} \in SUBSET W /\ t \notin {}
    OBVIOUS
  <2>2. Cardinality({}) + 1 <= Cardinality(W) /\ Cardinality({}) = 0
    BY <2>1, SmallerSubset, FS_EmptySet
  <2>3. QED
    BY <2>2, <1>1
<1>3. Many * Cardinality(C) + Many <= Many * Cardinality(B)
      /\ Many * Cardinality(C) \in Nat /\ Many * Cardinality(B) \in Nat
  BY <1>1, Multiples
<1>4. QED
  BY <1>1, <1>2, <1>3 DEF RollsAhead

\* When a period begins a thread is not behind it, and either that thread has
\* nothing to wipe or another one is not behind.
LEMMA AheadAtFirst ==
  ASSUME NEW C \in SUBSET Threads, NEW V \in SUBSET Threads, NEW t \in Threads, t \notin C,
         t \notin V \/ \E u \in Threads \ {t} : u \notin C
  PROVE  RollsAhead(C, V) + 1 <= Many * Many
<1>1. /\ Cardinality(C) + 1 <= Many /\ Cardinality(V) <= Many
      /\ Cardinality(C) \in Nat /\ Cardinality(V) \in Nat /\ Many \in Nat
      /\ Many * Cardinality(C) \in Nat /\ Many * Many \in Nat
  BY SubsetOfThreads, Multiples
<1>2. CASE t \notin V
  <2>1. Cardinality(V) + 1 <= Many
    BY <1>2, SubsetOfThreads
  <2>2. Many * Cardinality(C) + Many <= Many * Many
    BY <1>1, Multiples
  <2>3. QED
    BY <1>1, <2>1, <2>2 DEF RollsAhead
<1>3. CASE \E u \in Threads \ {t} : u \notin C
  <2>1. Cardinality(C) + 2 <= Many
    BY <1>3, SubsetOfThreads
  <2>2. Cardinality(C) + 1 \in Nat /\ Many * (Cardinality(C) + 1) = Many * Cardinality(C) + Many
    BY <1>1, Multiples
  <2>3. Many * (Cardinality(C) + 1) + Many <= Many * Many
    BY <1>1, <2>1, <2>2, Multiples
  <2>4. QED
    BY <1>1, <2>1, <2>2, <2>3 DEF RollsAhead
<1>4. QED
  BY <1>2, <1>3

-----------------------------------------------------------------------------
(* The months of the row and of the copies.                                *)

\* Only a roll-over or an activation gives a copy another month than was loaded,
\* and what a roll-over gives it is another.
CycleSession(label, s, began, now) ==
  /\ s.loaded.cycle <= began
  /\ label = "rolling" => s.mine.cycle # s.loaded.cycle /\ s.mine.cycle <= now
  /\ label # "rolling" => s.mine.cycle = s.loaded.cycle

\* An activation that will not write the month found it written, or found its
\* own roll-over or another's out of the way.
CycleInv ==
  /\ account.cycle <= period /\ period <= today
  /\ \A t \in Threads : pc[t] # "idle" => CycleSession(pc[t], session[t], period, today)
  /\ \A t \in Threads : pc[t] = "confirming" /\ session[t].loaded.cycle = period =>
       account.cycle = period \/ \E u \in Threads \ {t} : u \notin Behind

LEMMA FlushCycle ==
  ASSUME NEW stored \in AccountRow, NEW loaded \in AccountRow, NEW mine \in AccountRow
  PROVE  Flush(stored, loaded, mine).cycle =
           IF mine.cycle = loaded.cycle THEN stored.cycle ELSE mine.cycle
BY DEF Flush, AccountRow

\* A step of thread t, which is not behind after it.
LEMMA CycleMove ==
  ASSUME IInv, IInv', CycleInv, NEW t \in Threads, NEW label, NEW s, Move(t, label, s),
         today' = today, period <= period', period' <= today', account'.cycle <= period',
         label # "idle" => CycleSession(label, s, period', today),
         label = "rolling" => period' <= s.mine.cycle,
         label = "confirming" => s.loaded.cycle = account'.cycle
  PROVE  CycleInv'
<1> USE DEF IInv, TypeOK
<1>1. /\ pc'[t] = label /\ session'[t] = s
      /\ \A q \in Threads \ {t} : pc'[q] = pc[q] /\ session'[q] = session[q]
  BY DEF Move
<1>2. period \in Nat /\ period' \in Nat /\ today \in Nat /\ account'.cycle \in Nat
  BY DEF Months, AccountRow
<1>3. \A q \in Threads : pc[q] # "idle" => session[q].loaded.cycle \in Nat
  BY DEF Session, AccountRow
<1>4. pc'[t] = "rolling" => session'[t].mine.cycle \in Nat
  <2>1. pc'[t] # "idle" => session'[t] \in Session
    OBVIOUS
  <2>2. QED
    BY <2>1 DEF Session, AccountRow
<1>5. t \notin Behind'
  BY <1>1, <1>2, <1>4 DEF Behind
<1>6. ASSUME NEW q \in Threads, pc'[q] # "idle"
      PROVE  CycleSession(pc'[q], session'[q], period', today')
  <2>1. CASE q = t
    BY <1>1, <1>6, <2>1
  <2>2. CASE q # t
    <3>1. CycleSession(pc[q], session[q], period, today) /\ pc[q] # "idle"
      BY <1>1, <1>6, <2>2 DEF CycleInv
    <3>2. QED
      BY <1>1, <1>2, <1>3, <2>2, <3>1 DEF CycleSession
  <2>3. QED
    BY <2>1, <2>2
<1>7. ASSUME NEW q \in Threads, pc'[q] = "confirming", session'[q].loaded.cycle = period'
      PROVE  account'.cycle = period' \/ \E u \in Threads \ {q} : u \notin Behind'
  <2>1. CASE q = t
    BY <1>1, <1>7, <2>1
  <2>2. CASE q # t
    BY <1>5, <2>2
  <2>3. QED
    BY <2>1, <2>2
<1>8. QED
  BY <1>6, <1>7 DEF CycleInv, CycleSession

\* What a commit does to the month.
LEMMA CommitCycle ==
  ASSUME IInv, CycleInv, NEW t \in Threads, pc[t] # "idle",
         NEW next \in AccountRow, Commit(t, next)
  PROVE  account'.cycle = IF next.cycle = session[t].loaded.cycle THEN account.cycle
                                                                 ELSE next.cycle
<1>1. account \in AccountRow /\ session[t].loaded \in AccountRow
  BY DEF IInv, TypeOK, Session
<1>2. account' = Flush(account, session[t].loaded, next)
  BY DEF Commit
<1>3. QED
  BY <1>1, <1>2, FlushCycle

LEMMA RollCycle ==
  ASSUME IInv, CycleInv, NEW t \in Threads, Roll(t)
  PROVE  /\ pc[t] = "rolling" /\ session[t].mine \in AccountRow
         /\ account'.cycle = session[t].mine.cycle
         /\ session[t].mine.cycle <= today /\ session[t].mine.cycle \in Nat
<1>1. pc[t] = "rolling" /\ session[t].mine \in AccountRow /\ Commit(t, session[t].mine)
  BY DEF Roll, IInv, TypeOK, Session
<1>2. /\ session[t].mine.cycle # session[t].loaded.cycle
      /\ session[t].mine.cycle <= today /\ session[t].mine.cycle \in Nat
  BY <1>1 DEF CycleInv, CycleSession, AccountRow
<1>3. QED
  BY <1>1, <1>2, CommitCycle

LEMMA ConfirmCycle ==
  ASSUME IInv, CycleInv, NEW t \in Threads, ConfirmCommit(t)
  PROVE  /\ pc[t] = "confirming"
         /\ account'.cycle = IF today = session[t].loaded.cycle THEN account.cycle ELSE today
<1>1. PICK plan \in Plans : Commit(t, Activate(session[t].mine, plan, today))
  BY DEF ConfirmCommit
<1> DEFINE next == Activate(session[t].mine, plan, today)
<1>2. pc[t] = "confirming" /\ session[t].mine \in AccountRow /\ today \in Nat
  BY DEF ConfirmCommit, IInv, TypeOK, Session, Months
<1>3. next \in AccountRow /\ next.cycle = today
  BY <1>2 DEF Activate, AccountRow, MfiStatus
<1> HIDE DEF next
<1>4. QED
  BY <1>1, <1>2, <1>3, CommitCycle DEF next

\* The other commits of a verification leave the month.
LEMMA VerifyingCycle ==
  ASSUME IInv, CycleInv, NEW t \in Threads, Record(t) \/ FlagWarned(t)
  PROVE  account'.cycle = account.cycle
<1>1. /\ pc[t] \in {"verifying", "flagging"} /\ session[t].mine \in AccountRow
      /\ session[t].mine.cycle = session[t].loaded.cycle
  BY DEF Record, FlagWarned, IInv, TypeOK, Session, CycleInv, CycleSession
<1>2. CASE Record(t)
  <2>1. RecordUsage(session[t].mine) \in AccountRow
        /\ RecordUsage(session[t].mine).cycle = session[t].mine.cycle
    BY <1>1 DEF RecordUsage, AccountRow
  <2>2. QED
    BY <1>1, <1>2, <2>1, CommitCycle DEF Record
<1>3. CASE FlagWarned(t)
  <2>1. [session[t].mine EXCEPT !.warned = TRUE] \in AccountRow
        /\ [session[t].mine EXCEPT !.warned = TRUE].cycle = session[t].mine.cycle
    BY <1>1 DEF AccountRow
  <2>2. QED
    BY <1>1, <1>3, <2>1, CommitCycle DEF FlagWarned
<1>4. QED
  BY <1>2, <1>3

LEMMA CycleInvariance == Spec => []CycleInv
<1>1. Init => CycleInv
  BY DEF Init, CycleInv, SignedUp, NoCycle
<1>2. IInv /\ IInv' /\ CycleInv /\ [Next]_vars => CycleInv'
  <2> SUFFICES ASSUME IInv, IInv', CycleInv, [Next]_vars PROVE CycleInv'
    OBVIOUS
  <2>0. /\ account.cycle \in Nat /\ period \in Nat /\ today \in Nat
        /\ account.cycle <= period /\ period <= today
    BY DEF IInv, TypeOK, AccountRow, Months, CycleInv
  <2>1. ASSUME NEW t \in Threads, Submit(t) PROVE CycleInv'
    <3>1. UNCHANGED <<account, today, period>>
      BY <2>1 DEF Submit
    <3>2. CASE NeedsRoll(account, today)
      <4>1. RollPeriod(account, today).cycle = today
        BY <3>2 DEF RollPeriod, IInv, TypeOK, AccountRow
      <4>2. QED
        BY <2>0, <2>1, <3>1, <3>2, <4>1, CycleMove DEF Submit, CycleSession, NeedsRoll
    <3>3. CASE ~NeedsRoll(account, today)
      BY <2>0, <2>1, <3>1, <3>3, CycleMove DEF Submit, CycleSession, Clean
    <3>4. QED
      BY <3>2, <3>3
  <2>2. ASSUME NEW t \in Threads, ConfirmBegin(t) PROVE CycleInv'
    BY <2>0, <2>2, CycleMove DEF ConfirmBegin, CycleSession, Clean
  <2>3. ASSUME NEW t \in Threads, Roll(t) PROVE CycleInv'
    <3>1. /\ account'.cycle = session[t].mine.cycle /\ session[t].mine.cycle <= today
          /\ session[t].mine.cycle \in Nat
          /\ period' = IF session[t].mine.cycle > period THEN session[t].mine.cycle
                                                        ELSE period
          /\ today' = today
      BY <2>3, RollCycle DEF Roll
    <3>2. period <= period' /\ period' <= today' /\ account'.cycle <= period'
      BY <2>0, <3>1
    <3>3. CASE Return(t)
      BY <3>1, <3>2, <3>3, CycleMove DEF Return
    <3>4. CASE Move(t, "verifying", Clean(session[t].mine))
      BY <3>1, <3>2, <3>4, CycleMove DEF CycleSession, Clean
    <3>5. QED
      BY <2>3, <3>3, <3>4 DEF Roll
  <2>4. ASSUME NEW t \in Threads, Record(t) PROVE CycleInv'
    <3>1. account'.cycle = account.cycle /\ UNCHANGED <<today, period>>
      BY <2>4, VerifyingCycle DEF Record
    <3>2. CycleSession("verifying", session[t], period, today) /\ session[t].mine \in AccountRow
      BY <2>4 DEF Record, CycleInv, IInv, TypeOK, Session
    <3>3. RecordUsage(session[t].mine).cycle = session[t].mine.cycle
      BY <3>2 DEF RecordUsage, AccountRow
    <3>4. CASE Return(t)
      BY <2>0, <3>1, <3>4, CycleMove DEF Return
    <3>5. CASE Move(t, "warning", Clean(RecordUsage(session[t].mine)))
      BY <2>0, <3>1, <3>2, <3>3, <3>5, CycleMove DEF CycleSession, Clean
    <3>6. QED
      BY <2>4, <3>4, <3>5 DEF Record
  <2>5. ASSUME NEW t \in Threads, SendWarning(t) PROVE CycleInv'
    <3>1. CycleSession("warning", session[t], period, today)
      BY <2>5 DEF SendWarning, CycleInv
    <3>2. QED
      BY <2>0, <2>5, <3>1, CycleMove DEF SendWarning, CycleSession
  <2>6. ASSUME NEW t \in Threads, Abandon(t) \/ WarningRaised(t) \/ SkipWarning(t)
        PROVE  CycleInv'
    BY <2>0, <2>6, CycleMove DEF Abandon, WarningRaised, SkipWarning, Return
  <2>7. ASSUME NEW t \in Threads, FlagWarned(t) PROVE CycleInv'
    <3>1. account'.cycle = account.cycle
      BY <2>7, VerifyingCycle
    <3>2. QED
      BY <2>0, <2>7, <3>1, CycleMove DEF FlagWarned, Return
  <2>8. ASSUME NEW t \in Threads, ConfirmCommit(t) PROVE CycleInv'
    <3>1. account'.cycle \in {account.cycle, today}
      BY <2>8, ConfirmCycle
    <3>2. QED
      BY <2>0, <2>8, <3>1, CycleMove DEF ConfirmCommit, Return
  <2>9. CASE AdminSetStatus \/ NextMonth \/ UNCHANGED vars
    <3>1. /\ UNCHANGED <<pc, session, period>> /\ account'.cycle = account.cycle
          /\ today' \in Nat /\ today <= today'
      BY <2>0, <2>9 DEF AdminSetStatus, NextMonth, vars, IInv, TypeOK, AccountRow
    <3>2. \A t \in Threads : pc[t] = "rolling" => session[t].mine.cycle \in Nat
      BY DEF IInv, TypeOK, Session, AccountRow
    <3>3. Behind' = Behind
      BY <3>1 DEF Behind
    <3>4. QED
      BY <2>0, <3>1, <3>2, <3>3 DEF CycleInv, CycleSession
  <2>10. CASE WorkerRestart
    BY <2>0, <2>10 DEF WorkerRestart, CycleInv
  <2>11. QED
    BY <2>1, <2>2, <2>3, <2>4, <2>5, <2>6, <2>7, <2>8, <2>9, <2>10 DEF Next, Proceed
<1>3. QED
  BY <1>1, <1>2, Invariance, PTL DEF Spec

-----------------------------------------------------------------------------
(* How much more than its allowance an account can be served.  A request   *)
(* counts from its copy of the row, so recording one after a more recent   *)
(* copy sets the counter back; the argument is that of StaleCounter, with  *)
(* what each thread has seen of the counter, from one reset of the counter *)
(* to the next.                                                            *)

\* The counter as the thread sees it: its copy may be behind, never ahead.
Sees(label, s, used) ==
  IF label = "verifying" /\ s.mine.usage < used THEN s.mine.usage ELSE used

Seen == [t \in Threads |-> Sees(pc[t], session[t], account.usage)]

MostGenerous(top) == top \in Nat /\ \A plan \in Plans : Quota[plan] <= top

\* Only a roll-over or an activation changes the usage of a copy and keeps it.
UsageUntouched ==
  \A t \in Threads :
    pc[t] \in {"verifying", "warning", "flagging"} =>
      session[t].loaded.usage = session[t].mine.usage

Room(top) == Cardinality(Profiles(Threads, top)) - 1

\* Since the period's counter was last set to zero count verifications were
\* recorded, in each of the rolls earlier stretches Room at most.
Reckoned(top, count, rolls) ==
  /\ Paid(Threads, top, count, Seen)
  /\ Served <= count + rolls * Room(top)
  /\ rolls + Ahead + 1 <= Many * Many

OverrunInv(top) ==
  /\ opened <= recorded
  /\ UsageUntouched
  /\ \E count, rolls \in Nat : Reckoned(top, count, rolls)

LEMMA FlushUsage ==
  ASSUME NEW stored \in AccountRow, NEW loaded \in AccountRow, NEW mine \in AccountRow
  PROVE  Flush(stored, loaded, mine).usage =
           IF mine.usage = loaded.usage THEN stored.usage ELSE mine.usage
BY DEF Flush, AccountRow

\* What the threads see is within the largest allowance.
LEMMA SeenWithin ==
  ASSUME NEW top, MostGenerous(top), NEW row \in AccountRow, NEW n, Covered(row, n),
         NEW label, NEW s,
         \A t \in Threads : label[t] = "verifying" =>
           s[t] \in Session /\ SessionCovered("verifying", s[t], n)
  PROVE  [t \in Threads |-> Sees(label[t], s[t], row.usage)] \in [Threads -> 0..top]
<1>1. row.usage \in 0..top
  <2>1. PICK plan \in Plans : row.usage <= Quota[plan]
    BY DEF Covered
  <2>2. row.usage \in Nat /\ Quota[plan] \in Nat /\ Quota[plan] <= top /\ top \in Nat
    BY QuotaAssumption DEF MostGenerous, AccountRow
  <2>3. QED
    BY <2>1, <2>2
<1>2. ASSUME NEW t \in Threads PROVE Sees(label[t], s[t], row.usage) \in 0..top
  <2>1. label[t] = "verifying" => s[t].mine.usage \in Nat
    BY DEF Session, AccountRow
  <2>2. QED
    BY <1>1, <2>1 DEF Sees, MostGenerous
<1>3. QED
  BY <1>2

LEMMA SeenNow ==
  ASSUME NEW top, MostGenerous(top), IInv
  PROVE  Seen \in [Threads -> 0..top]
<1>1. /\ account \in AccountRow /\ Covered(account, recorded)
      /\ \A t \in Threads : pc[t] = "verifying" =>
           session[t] \in Session /\ SessionCovered("verifying", session[t], recorded)
  BY DEF IInv, TypeOK
<1>2. QED
  BY <1>1, SeenWithin DEF Seen

LEMMA SeenNext ==
  ASSUME NEW top, MostGenerous(top), IInv'
  PROVE  Seen' \in [Threads -> 0..top]
<1>1. /\ account' \in AccountRow /\ Covered(account', recorded')
      /\ \A t \in Threads : pc'[t] = "verifying" =>
           session'[t] \in Session /\ SessionCovered("verifying", session'[t], recorded')
  BY DEF IInv, TypeOK, Covered, SessionCovered
<1>2. [t \in Threads |-> Sees(pc'[t], session'[t], account'.usage)] \in [Threads -> 0..top]
  BY <1>1, SeenWithin
<1>3. QED
  BY <1>2 DEF Seen, Sees

LEMMA PaidLeavesRoom ==
  ASSUME NEW top \in Nat, NEW count \in Nat, NEW seen, Paid(Threads, top, count, seen)
  PROVE  Room(top) \in Nat /\ count <= Room(top)
<1>1. Cardinality(Profiles(Threads, top)) \in Nat
  BY MeteringAssumption, ProfilesFinite, FS_CardinalityType
<1>2. count < Cardinality(Profiles(Threads, top))
  BY MeteringAssumption, FewerThanProfiles
<1>3. QED
  BY <1>1, <1>2 DEF Room

LEMMA AheadBounds ==
  /\ Behind \in SUBSET Threads /\ Wiping \in SUBSET Threads
  /\ Ahead \in Nat /\ Many \in Nat /\ Many * Many \in Nat
<1>1. Behind \in SUBSET Threads /\ Wiping \in SUBSET Threads /\ {} \in SUBSET Threads
  BY DEF Behind, Wiping
<1>2. Ahead \in Nat
  BY <1>1, AheadType DEF Ahead
<1>3. Many \in Nat /\ Many * Many \in Nat
  BY <1>1, SubsetOfThreads, Multiples
<1>4. QED
  BY <1>1, <1>2, <1>3

LEMMA AheadBoundsNext ==
  Behind' \in SUBSET Threads /\ Wiping' \in SUBSET Threads /\ Ahead' \in Nat
<1>1. Behind' \in SUBSET Threads /\ Wiping' \in SUBSET Threads
  BY DEF Behind, Wiping
<1>2. Ahead' \in Nat
  BY <1>1, AheadType DEF Ahead, RollsAhead
<1>3. QED
  BY <1>1, <1>2

\* A step after which no other thread may reset the counter.
LEMMA AheadKept ==
  ASSUME Behind' \subseteq Behind, Wiping' \subseteq Wiping
  PROVE  Ahead' <= Ahead
<1>1. RollsAhead(Behind', Wiping') <= RollsAhead(Behind, Wiping)
  BY AheadBounds, AheadBoundsNext, AheadShrinks
<1>2. QED
  BY <1>1 DEF Ahead, RollsAhead

\* A step of thread t that leaves the months and begins no roll-over, unless of
\* a row that is behind.
LEMMA AheadMove ==
  ASSUME IInv, IInv', NEW t \in Threads, NEW label, NEW s, Move(t, label, s),
         account'.cycle = account.cycle, period' = period,
         label = "rolling" => account.cycle # period /\ period <= s.mine.cycle
  PROVE  Ahead' <= Ahead
<1> USE DEF IInv, TypeOK
<1>1. /\ pc'[t] = label /\ session'[t] = s
      /\ \A q \in Threads \ {t} : pc'[q] = pc[q] /\ session'[q] = session[q]
  BY DEF Move
<1>2. period \in Nat /\ (label = "rolling" => s.mine.cycle \in Nat)
  <2>1. label # "idle" => s \in Session
    BY <1>1
  <2>2. QED
    BY <2>1 DEF Session, AccountRow
<1>3. \A q \in Threads : q \in Behind' => q \in Behind
  BY <1>1, <1>2 DEF Behind
<1>4. \A q \in Threads : q \in Wiping' => q \in Wiping
  BY <1>1, <1>2 DEF Wiping
<1>5. QED
  BY <1>3, <1>4, AheadBoundsNext, AheadKept

LEMMA AheadSameSessions ==
  ASSUME account'.cycle = account.cycle, UNCHANGED <<pc, session, period>>
  PROVE  Ahead' <= Ahead
<1>1. Behind' = Behind /\ Wiping' = Wiping
  BY DEF Behind, Wiping
<1>2. QED
  BY <1>1, AheadKept

\* A roll-over of the period's month, or of one before it, is spent.
LEMMA StaleRoll ==
  ASSUME IInv, CycleInv, NEW t \in Threads, Roll(t), session[t].mine.cycle <= period
  PROVE  Ahead' + 1 <= Ahead
<1> DEFINE month == session[t].mine.cycle
<1>1. /\ pc[t] = "rolling" /\ account'.cycle = month /\ month \in Nat
      /\ period \in Nat /\ period' = period
  BY RollCycle DEF Roll, IInv, TypeOK
<1>2. /\ pc'[t] # "rolling"
      /\ \A q \in Threads \ {t} : pc'[q] = pc[q] /\ session'[q] = session[q]
  BY DEF Roll, Move, Return, IInv, TypeOK
<1>3. t \in Wiping /\ t \notin Behind'
  BY <1>1, <1>2 DEF Wiping, Behind
<1>4. \A q \in Threads : q \in Behind' => q \in Behind
  BY <1>1, <1>2 DEF Behind
<1>5. Behind' \in SUBSET Behind
  BY <1>4, AheadBoundsNext
<1>6. RollsAhead(Behind', Wiping') + 1 <= RollsAhead(Behind, Wiping)
  <2>1. CASE month = period
    <3>1. t \notin Wiping' /\ \A q \in Threads : q \in Wiping' => q \in Wiping
      BY <1>1, <1>2, <2>1 DEF Wiping
    <3>2. Wiping' \in SUBSET Wiping
      BY <3>1, AheadBoundsNext
    <3>3. QED
      BY <1>3, <1>5, <3>1, <3>2, AheadBounds, AheadWiped
  <2>2. CASE month < period
    <3>1. t \in Behind
      BY <1>1, <2>2 DEF Behind
    <3>2. QED
      BY <1>3, <1>5, <3>1, AheadBounds, AheadBoundsNext, AheadWritten
  <2>3. QED
    BY <1>1, <2>1, <2>2
<1>7. QED
  BY <1>6 DEF Ahead, RollsAhead

\* When a period begins there is room for the roll-overs that may follow.
LEMMA AheadOpens ==
  ASSUME IInv, CycleInv, NEW t \in Threads,
         \/ Roll(t) /\ session[t].mine.cycle > period
         \/ ConfirmCommit(t)
  PROVE  Ahead' + 1 <= Many * Many
<1>1. pc'[t] = "verifying" \/ pc'[t] = "idle"
  BY DEF Roll, ConfirmCommit, Move, Return, IInv, TypeOK
<1>2. t \notin Behind'
  BY <1>1 DEF Behind
<1>3. t \notin Wiping' \/ \E u \in Threads \ {t} : u \notin Behind'
  <2>1. CASE account'.cycle = period'
    BY <1>1, <2>1 DEF Wiping
  <2>2. CASE account'.cycle # period'
    <3>1. ConfirmCommit(t)
      BY <2>2, RollCycle DEF Roll
    <3>2. /\ pc[t] = "confirming" /\ session[t].loaded.cycle = today
          /\ account'.cycle = account.cycle /\ period' = today
      BY <2>2, <3>1, ConfirmCycle DEF ConfirmCommit
    <3>3. period = today
      BY <3>2 DEF CycleInv, CycleSession, IInv, TypeOK, Months
    <3>4. PICK u \in Threads \ {t} : u \notin Behind
      BY <2>2, <3>2, <3>3 DEF CycleInv
    <3>5. pc'[u] = pc[u] /\ session'[u] = session[u]
      BY <3>1, <3>4 DEF ConfirmCommit, Move, Return, IInv, TypeOK
    <3>6. u \notin Behind'
      BY <3>2, <3>3, <3>4, <3>5 DEF Behind
    <3>7. QED
      BY <3>4, <3>6
  <2>3. QED
    BY <2>1, <2>2
<1>4. RollsAhead(Behind', Wiping') + 1 <= Many * Many
  BY <1>2, <1>3, AheadBoundsNext, AheadAtFirst
<1>5. QED
  BY <1>4 DEF Ahead, RollsAhead

LEMMA Sums ==
  ASSUME NEW served \in Int, NEW ahead \in Nat, NEW ahead2 \in Nat, NEW count \in Nat,
         NEW rolls \in Nat, NEW past \in Nat, NEW room \in Nat, NEW square \in Nat,
         served <= count + past, rolls + ahead + 1 <= square
  PROVE  /\ ahead2 <= ahead => rolls + ahead2 + 1 <= square
         /\ ahead2 + 1 <= ahead => (rolls + 1) + ahead2 + 1 <= square
         /\ served + 1 <= (count + 1) + past
         /\ count <= room => served <= 0 + (past + room)
OBVIOUS

\* The arithmetic of the steps: one that records nothing, one that records, and
\* one that sets the counter to zero once more.
LEMMA Reckoning ==
  ASSUME NEW top \in Nat, NEW count \in Nat, NEW rolls \in Nat, Reckoned(top, count, rolls),
         IInv, IInv', opened <= recorded
  PROVE  /\ opened' = opened /\ recorded' = recorded /\ Ahead' <= Ahead =>
              (Paid(Threads, top, count, Seen') => Reckoned(top, count, rolls)')
         /\ opened' = opened /\ recorded' = recorded + 1 /\ Ahead' <= Ahead =>
              (Paid(Threads, top, count + 1, Seen') => Reckoned(top, count + 1, rolls)')
         /\ opened' = opened /\ recorded' = recorded /\ Ahead' + 1 <= Ahead =>
              (Paid(Threads, top, 0, Seen') => Reckoned(top, 0, rolls + 1)')
<1> DEFINE room == Room(top)
           past == rolls * room
           square == Many * Many
<1>1. /\ opened \in Nat /\ recorded \in Nat /\ opened' \in Nat /\ recorded' \in Nat
      /\ Ahead \in Nat /\ Ahead' \in Nat /\ square \in Nat
      /\ recorded - opened <= count + past /\ rolls + Ahead + 1 <= square
  BY AheadBounds, AheadBoundsNext DEF IInv, TypeOK, Reckoned, Served
<1>2. room \in Nat /\ count <= room
  BY PaidLeavesRoom DEF Reckoned
<1>3. past \in Nat /\ (rolls + 1) * room = past + room
  <2> HIDE DEF room
  <2>1. rolls * room \in Nat /\ rolls * room = room * rolls
        /\ room * (rolls + 1) = room * rolls + room
        /\ (rolls + 1) * room = room * (rolls + 1)
    BY <1>2, Multiples
  <2>2. QED
    BY <2>1
<1> HIDE DEF room, past, square
<1> DEFINE served == recorded - opened
           served2 == recorded' - opened'
<1>4. served \in Int
  BY <1>1
<1>5. ASSUME opened' = opened, recorded' = recorded, Ahead' <= Ahead
      PROVE  served2 <= count + past /\ rolls + Ahead' + 1 <= square
  <2>1. served2 = served
    BY <1>1, <1>5
  <2> HIDE DEF served, served2
  <2>2. QED
    BY <1>1, <1>3, <1>4, <1>5, <2>1, Sums DEF served
<1>6. ASSUME opened' = opened, recorded' = recorded + 1, Ahead' <= Ahead
      PROVE  served2 <= (count + 1) + past /\ rolls + Ahead' + 1 <= square
  <2>1. served2 = served + 1
    BY <1>1, <1>6
  <2> HIDE DEF served, served2
  <2>2. QED
    BY <1>1, <1>3, <1>4, <1>6, <2>1, Sums DEF served
<1>7. ASSUME opened' = opened, recorded' = recorded, Ahead' + 1 <= Ahead
      PROVE  /\ served2 <= 0 + (rolls + 1) * room
             /\ (rolls + 1) + Ahead' + 1 <= square
  <2>1. served2 = served
    BY <1>1, <1>7
  <2> HIDE DEF served, served2
  <2>2. served <= 0 + (past + room) /\ (rolls + 1) + Ahead' + 1 <= square
    BY <1>1, <1>2, <1>3, <1>4, <1>7, Sums DEF served
  <2>3. QED
    BY <1>3, <2>1, <2>2
<1>8. QED
  BY <1>5, <1>6, <1>7 DEF Reckoned, Served, Room, Many, room, past, square

\* A step that records nothing and leaves the counter: a thread sees what it
\* saw, or the counter as it is.
LEMMA SameCounter ==
  ASSUME NEW top, MostGenerous(top), IInv, IInv', OverrunInv(top), UsageUntouched',
         account'.usage = account.usage, UNCHANGED <<recorded, opened>>, Ahead' <= Ahead,
         \A t \in Threads : pc'[t] = "verifying" =>
           \/ pc[t] = "verifying" /\ session'[t] = session[t]
           \/ session'[t].mine.usage = account.usage
  PROVE  OverrunInv(top)'
<1> DEFINE e == Seen
           f == Seen'
<1>1. \A t \in Threads : e[t] = Sees(pc[t], session[t], account.usage)
                        /\ f[t] = Sees(pc'[t], session'[t], account.usage)
  BY DEF Seen, Sees
<1>2. account.usage \in Nat
      /\ \A t \in Threads : pc[t] = "verifying" => session[t].mine.usage \in Nat
  BY DEF IInv, TypeOK, Session, AccountRow
<1>3. e \in [Threads -> 0..top] /\ f \in [Threads -> 0..top]
  BY SeenNow, SeenNext
<1>4. IsFiniteSet(Threads) /\ top \in Nat /\ opened <= recorded
  BY MeteringAssumption DEF MostGenerous, OverrunInv
<1>5. PICK count \in Nat, rolls \in Nat : Reckoned(top, count, rolls)
  BY DEF OverrunInv
<1>6. Paid(Threads, top, count, e)
  BY <1>5 DEF Reckoned
<1> HIDE DEF e, f
<1>7. \A t \in Threads : e[t] <= f[t]
  BY <1>1, <1>2 DEF Sees
<1>8. Paid(Threads, top, count, f)
  BY <1>3, <1>4, <1>6, <1>7, RaisedPays
<1>9. Reckoned(top, count, rolls)'
  BY <1>4, <1>5, <1>8, Reckoning DEF f
<1>10. QED
  BY <1>4, <1>9 DEF OverrunInv

\* A step that opens a period.
LEMMA PeriodOpens ==
  ASSUME NEW top, MostGenerous(top), IInv', UsageUntouched', opened' = recorded',
         Ahead' + 1 <= Many * Many
  PROVE  OverrunInv(top)'
<1>1. opened' \in Int /\ recorded' \in Int /\ opened' = recorded' /\ top \in Nat
  BY DEF IInv, TypeOK, MostGenerous
<1>2. opened' <= recorded' /\ Ahead' \in Nat
  BY <1>1, AheadBoundsNext
<1>3. recorded' - opened' = 0
  <2>1. \A m, n \in Int : m = n => m - n = 0
    OBVIOUS
  <2>2. QED
    BY <1>1, <2>1
<1>4. Paid(Threads, top, 0, Seen')
  BY SeenNext, NothingToPay, MeteringAssumption DEF MostGenerous
<1>5. Room(top) \in Nat
  BY <1>1, <1>4, PaidLeavesRoom
<1>6. 0 * Room(top) = 0 /\ 0 + Ahead' + 1 <= Many * Many
  <2>1. \A n \in Nat : 0 * n = 0
    OBVIOUS
  <2>2. QED
    BY <1>2, <1>5, <2>1
<1>7. Reckoned(top, 0, 0)'
  BY <1>3, <1>4, <1>6 DEF Reckoned, Served, Room, Many
<1>8. QED
  BY <1>2, <1>7 DEF OverrunInv

\* A step that sets the counter to zero in the middle of a period.
LEMMA CounterRestarts ==
  ASSUME NEW top, MostGenerous(top), IInv, IInv', OverrunInv(top), UsageUntouched',
         UNCHANGED <<recorded, opened>>, Ahead' + 1 <= Ahead
  PROVE  OverrunInv(top)'
<1>1. top \in Nat /\ opened <= recorded
  BY DEF MostGenerous, OverrunInv
<1>2. PICK count \in Nat, rolls \in Nat : Reckoned(top, count, rolls)
  BY DEF OverrunInv
<1>3. Paid(Threads, top, 0, Seen')
  BY SeenNext, NothingToPay, MeteringAssumption DEF MostGenerous
<1>4. Reckoned(top, 0, rolls + 1)'
  BY <1>1, <1>2, <1>3, Reckoning
<1>5. QED
  BY <1>1, <1>4 DEF OverrunInv

\* A recorded verification is counted from the thread's copy.
LEMMA RecordPays ==
  ASSUME NEW top, MostGenerous(top), IInv, IInv', OverrunInv(top), UsageUntouched',
         NEW t \in Threads, Record(t), Ahead' <= Ahead
  PROVE  OverrunInv(top)'
<1> DEFINE mine == session[t].mine
           next == RecordUsage(mine)
           h == mine.usage
           c == account.usage
           e == Seen
           f == Seen'
<1>1. /\ pc[t] = "verifying" /\ Commit(t, next)
      /\ recorded' = recorded + 1 /\ opened' = opened
      /\ pc'[t] # "verifying"
      /\ \A q \in Threads \ {t} : pc'[q] = pc[q] /\ session'[q] = session[q]
  BY DEF Record, Move, Return, IInv, TypeOK
<1>2. /\ session[t].loaded \in AccountRow /\ mine \in AccountRow /\ account \in AccountRow
      /\ session[t].loaded.usage = h
  BY <1>1 DEF IInv, TypeOK, Session, OverrunInv, UsageUntouched
<1>3. h \in Nat /\ c \in Nat
      /\ \A q \in Threads : pc[q] = "verifying" => session[q].mine.usage \in Nat
  BY <1>2 DEF IInv, TypeOK, Session, AccountRow
<1>4. next \in AccountRow /\ next.usage = h + 1
  BY <1>2 DEF RecordUsage, AccountRow
<1>5. account'.usage = h + 1
  <2>1. account' = Flush(account, session[t].loaded, next)
    BY <1>1 DEF Commit
  <2> HIDE DEF next, mine, h
  <2>2. QED
    BY <2>1, <1>2, <1>3, <1>4, FlushUsage
<1>6. /\ e \in [Threads -> 0..top]
      /\ e[t] = IF h < c THEN h ELSE c
      /\ \A q \in Threads \ {t} : e[q] = Sees(pc[q], session[q], c)
  BY <1>1, SeenNow DEF Seen, Sees
<1>7. /\ f \in [Threads -> 0..top]
      /\ f[t] = h + 1
      /\ \A q \in Threads \ {t} : f[q] = Sees(pc[q], session[q], h + 1)
  <2>1. f \in [Threads -> 0..top]
    BY SeenNext
  <2>2. \A q \in Threads : f[q] = Sees(pc[q]', session[q]', h + 1)
    BY <1>5 DEF Seen, Sees
  <2>3. QED
    BY <1>1, <2>1, <2>2 DEF Sees
<1>8. /\ IsFiniteSet(Threads) /\ top \in Nat /\ opened <= recorded /\ opened' <= recorded'
  BY <1>1, MeteringAssumption DEF MostGenerous, IInv, TypeOK, OverrunInv
<1>r. PICK count \in Nat, rolls \in Nat : Reckoned(top, count, rolls)
  BY DEF OverrunInv
<1>p. Paid(Threads, top, count, e)
  BY <1>r DEF Reckoned
<1> HIDE DEF e, f, h, c
<1>9. e[t] < f[t] /\ \A q \in Threads : e[q] < e[t] \/ f[q] <= e[t] => f[q] = e[q]
  <2>1. e[t] < f[t] /\ e[t] <= h /\ e[t] <= c
    BY <1>3, <1>6, <1>7
  <2>2. ASSUME NEW q \in Threads \ {t}, e[q] < e[t] \/ f[q] <= e[t] PROVE f[q] = e[q]
    BY <1>3, <1>6, <1>7, <2>1, <2>2 DEF Sees
  <2>3. QED
    BY <1>3, <1>6, <1>7, <2>1, <2>2
<1>10. Paid(Threads, top, count + 1, f)
  BY <1>6, <1>7, <1>8, <1>9, <1>p, IncrementPays
<1>11. Reckoned(top, count + 1, rolls)'
  BY <1>1, <1>8, <1>r, <1>10, Reckoning DEF f
<1>12. QED
  BY <1>8, <1>11 DEF OverrunInv

LEMMA UsageStaysUntouched ==
  ASSUME IInv, UsageUntouched, [Next]_vars
  PROVE  UsageUntouched'
<1>1. ASSUME NEW t \in Threads, NEW label, NEW s, Move(t, label, s),
             label \in {"verifying", "warning", "flagging"} => s.loaded.usage = s.mine.usage
      PROVE  UsageUntouched'
  BY <1>1 DEF Move, UsageUntouched, IInv, TypeOK
<1>2. \A row : Clean(row).loaded.usage = Clean(row).mine.usage
  BY DEF Clean
<1>3. ASSUME NEW t \in Threads, Submit(t) PROVE UsageUntouched'
  BY <1>1, <1>2, <1>3 DEF Submit
<1>4. ASSUME NEW t \in Threads, ConfirmBegin(t) PROVE UsageUntouched'
  BY <1>1, <1>4 DEF ConfirmBegin
<1>5. ASSUME NEW t \in Threads, Proceed(t) PROVE UsageUntouched'
  <2>1. CASE Roll(t)
    BY <1>1, <1>2, <2>1 DEF Roll, Return
  <2>2. CASE Record(t)
    BY <1>1, <1>2, <2>2 DEF Record, Return
  <2>3. CASE SendWarning(t)
    BY <1>1, <2>3 DEF SendWarning, UsageUntouched
  <2>4. CASE \/ Abandon(t) \/ WarningRaised(t) \/ SkipWarning(t)
             \/ FlagWarned(t) \/ ConfirmCommit(t)
    BY <1>1, <2>4 DEF Abandon, WarningRaised, SkipWarning, FlagWarned, ConfirmCommit, Return
  <2>5. QED
    BY <1>5, <2>1, <2>2, <2>3, <2>4 DEF Proceed
<1>6. CASE AdminSetStatus \/ NextMonth \/ UNCHANGED vars
  BY <1>6 DEF AdminSetStatus, NextMonth, vars, UsageUntouched
<1>7. CASE WorkerRestart
  BY <1>7 DEF WorkerRestart, UsageUntouched
<1>8. QED
  BY <1>3, <1>4, <1>5, <1>6, <1>7 DEF Next

LEMMA NextOverrun ==
  ASSUME NEW top, MostGenerous(top), IInv, IInv', CycleInv, OverrunInv(top), [Next]_vars
  PROVE  OverrunInv(top)'
<1>u. UsageUntouched'
  BY UsageStaysUntouched DEF OverrunInv
<1>m. account.cycle <= period /\ period <= today
  BY DEF CycleInv
<1>1. ASSUME NEW t \in Threads, NEW label, NEW s, Move(t, label, s),
             account'.usage = account.usage, account'.cycle = account.cycle,
             UNCHANGED <<recorded, opened, period>>,
             label = "verifying" => s.mine.usage = account.usage,
             label = "rolling" => account.cycle # period /\ period <= s.mine.cycle
      PROVE  OverrunInv(top)'
  <2>1. \A q \in Threads : pc'[q] = "verifying" =>
          \/ pc[q] = "verifying" /\ session'[q] = session[q]
          \/ session'[q].mine.usage = account.usage
    BY <1>1 DEF Move, IInv, TypeOK
  <2>2. Ahead' <= Ahead
    BY <1>1, AheadMove
  <2>3. QED
    BY <1>u, <1>1, <2>1, <2>2, SameCounter
<1>2. ASSUME NEW t \in Threads, Submit(t) \/ ConfirmBegin(t) PROVE OverrunInv(top)'
  <2>1. UNCHANGED <<account, recorded, opened, period>> /\ Clean(account).mine = account
    BY <1>2 DEF Submit, ConfirmBegin, Clean
  <2>2. CASE Move(t, "rolling", [loaded |-> account, mine |-> RollPeriod(account, today)])
             /\ NeedsRoll(account, today)
    <3>1. RollPeriod(account, today).cycle = today
      BY <2>2 DEF RollPeriod, IInv, TypeOK, AccountRow
    <3>2. Ahead' <= Ahead
      <4>1. CASE account.cycle # period
        BY <1>m, <2>1, <2>2, <3>1, <4>1, AheadMove
      <4>2. CASE account.cycle = period
        <5>1. period < today /\ period \in Nat
          BY <1>m, <2>2, <4>2 DEF NeedsRoll, IInv, TypeOK, AccountRow, Months
        <5>2. /\ session'[t].mine.cycle = today
              /\ \A q \in Threads \ {t} : pc'[q] = pc[q] /\ session'[q] = session[q]
          BY <2>2, <3>1 DEF Move, IInv, TypeOK
        <5>3. today \in Nat
          BY DEF IInv, TypeOK, Months
        <5>4. \A q \in Threads : (q \in Behind' => q \in Behind)
                               /\ (q \in Wiping' => q \in Wiping)
          BY <2>1, <4>2, <5>1, <5>2, <5>3 DEF Behind, Wiping
        <5>5. QED
          BY <5>4, AheadBoundsNext, AheadKept
      <4>3. QED
        BY <4>1, <4>2
    <3>3. \A q \in Threads : pc'[q] = "verifying" =>
            pc[q] = "verifying" /\ session'[q] = session[q]
      BY <2>2 DEF Move, IInv, TypeOK
    <3>4. QED
      BY <1>u, <2>1, <3>2, <3>3, SameCounter
  <2>3. CASE Move(t, "verifying", Clean(account)) \/ Move(t, "confirming", Clean(account))
    BY <1>1, <2>1, <2>3
  <2>4. QED
    BY <1>2, <2>2, <2>3 DEF Submit, ConfirmBegin
<1>3. ASSUME NEW t \in Threads,
             Abandon(t) \/ SendWarning(t) \/ WarningRaised(t) \/ SkipWarning(t)
      PROVE  OverrunInv(top)'
  BY <1>1, <1>3 DEF Abandon, SendWarning, WarningRaised, SkipWarning, Return
<1>4. ASSUME NEW t \in Threads, Roll(t) \/ ConfirmCommit(t) PROVE OverrunInv(top)'
  <2>1. CASE (Roll(t) /\ session[t].mine.cycle > period) \/ ConfirmCommit(t)
    <3>1. opened' = recorded'
      BY <2>1 DEF Roll, ConfirmCommit
    <3>2. QED
      BY <1>u, <2>1, <3>1, AheadOpens, PeriodOpens
  <2>2. CASE Roll(t) /\ ~(session[t].mine.cycle > period)
    <3>1. session[t].mine.cycle \in Nat /\ period \in Nat
      BY <2>2, RollCycle DEF IInv, TypeOK
    <3>2. UNCHANGED <<recorded, opened>> /\ session[t].mine.cycle <= period
      BY <2>2, <3>1 DEF Roll
    <3>3. QED
      BY <1>u, <2>2, <3>2, StaleRoll, CounterRestarts
  <2>3. QED
    BY <1>4, <2>1, <2>2
<1>5. ASSUME NEW t \in Threads, Record(t) PROVE OverrunInv(top)'
  <2>1. account'.cycle = account.cycle /\ period' = period
    BY <1>5, VerifyingCycle DEF Record
  <2>2. CASE Return(t)
    BY <1>u, <1>5, <2>1, <2>2, AheadMove, RecordPays DEF Return
  <2>3. CASE Move(t, "warning", Clean(RecordUsage(session[t].mine)))
    BY <1>u, <1>5, <2>1, <2>3, AheadMove, RecordPays
  <2>4. QED
    BY <1>5, <2>2, <2>3 DEF Record
<1>6. ASSUME NEW t \in Threads, FlagWarned(t) PROVE OverrunInv(top)'
  <2> DEFINE mine == session[t].mine
             next == [mine EXCEPT !.warned = TRUE]
  <2>1. /\ session[t].loaded \in AccountRow /\ mine \in AccountRow /\ account \in AccountRow
        /\ session[t].loaded.usage = mine.usage
        /\ account' = Flush(account, session[t].loaded, next)
        /\ Return(t) /\ UNCHANGED <<recorded, opened, period>>
    BY <1>6 DEF FlagWarned, Commit, IInv, TypeOK, Session, OverrunInv, UsageUntouched
  <2>2. next \in AccountRow /\ next.usage = mine.usage
    BY <2>1 DEF AccountRow
  <2> HIDE DEF next
  <2>3. account'.usage = account.usage
    BY <2>1, <2>2, FlushUsage
  <2>4. account'.cycle = account.cycle
    BY <1>6, VerifyingCycle
  <2>5. QED
    BY <1>1, <2>1, <2>3, <2>4 DEF Return
<1>7. CASE AdminSetStatus \/ NextMonth \/ UNCHANGED vars
  <2>1. /\ UNCHANGED <<pc, session, recorded, opened, period>>
        /\ account'.usage = account.usage /\ account'.cycle = account.cycle
    BY <1>7 DEF AdminSetStatus, NextMonth, vars, IInv, TypeOK, AccountRow
  <2>2. Ahead' <= Ahead
    BY <2>1, AheadSameSessions
  <2>3. QED
    BY <1>u, <2>1, <2>2, SameCounter
<1>8. CASE WorkerRestart
  <2>1. \A q \in Threads : (q \in Behind' => q \in Behind) /\ (q \in Wiping' => q \in Wiping)
    BY <1>8 DEF WorkerRestart, Behind, Wiping
  <2>2. Ahead' <= Ahead
    BY <2>1, AheadBoundsNext, AheadKept
  <2>3. QED
    BY <1>u, <1>8, <2>2, SameCounter DEF WorkerRestart
<1>9. QED
  BY <1>2, <1>3, <1>4, <1>5, <1>6, <1>7, <1>8 DEF Next, Proceed

LEMMA InitOverrun ==
  ASSUME NEW top, MostGenerous(top), Init
  PROVE  OverrunInv(top)
<1>1. IInv /\ Served = 0 /\ opened <= recorded /\ top \in Nat
  BY InitIInv DEF Init, Served, MostGenerous
<1>2. UsageUntouched
  BY DEF Init, UsageUntouched
<1>3. Paid(Threads, top, 0, Seen)
  BY <1>1, SeenNow, NothingToPay, MeteringAssumption DEF MostGenerous
<1>4. Behind = {} /\ Wiping = {}
  BY DEF Init, Behind, Wiping, SignedUp, NoCycle
<1>5. Ahead + 1 <= Many * Many
  <2>1. PICK t \in Threads : TRUE
    BY MeteringAssumption
  <2>2. QED
    BY <1>4, <2>1, AheadBounds, AheadAtFirst DEF Ahead
<1>6. Room(top) \in Nat
  BY <1>1, <1>3, PaidLeavesRoom
<1>7. Reckoned(top, 0, 0)
  <2>1. \A n \in Nat : 0 * n = 0
    OBVIOUS
  <2>2. QED
    BY <1>1, <1>3, <1>5, <1>6, <2>1, AheadBounds DEF Reckoned
<1>8. QED
  BY <1>1, <1>2, <1>7 DEF OverrunInv

\* In a period an account is served no more verifications than there are resets
\* of its counter times what fits between two of them, although requests that
\* overlap write the counter, and reset it, from copies that are behind.
THEOREM OverrunBounded == Spec => []OverrunIsBounded
<1>1. CASE \E plan \in Plans : MostGenerous(Quota[plan])
  <2>1. PICK best \in Plans : MostGenerous(Quota[best])
    BY <1>1
  <2> DEFINE top == Quota[best]
  <2>2. \A plan \in Plans :
          (\A other \in Plans : Quota[other] <= Quota[plan]) => Quota[plan] = top
    BY <2>1, QuotaAssumption DEF MostGenerous
  <2>3. \A plan \in Plans : Quota[plan] = top => BetweenResets[plan] = Room(top)
    BY DEF BetweenResets, Room
  <2>4. MostGenerous(top)
    BY <2>1
  <2> HIDE DEF top
  <2>5. Init => OverrunInv(top)
    BY <2>4, InitOverrun
  <2>6. IInv /\ IInv' /\ CycleInv /\ OverrunInv(top) /\ [Next]_vars => OverrunInv(top)'
    BY <2>4, NextOverrun
  <2>7. IInv /\ OverrunInv(top) /\ UsageWithinSomeQuota => OverrunIsBounded
    <3>1. SUFFICES ASSUME IInv, OverrunInv(top), UsageWithinSomeQuota
                   PROVE  OverrunIsBounded
      OBVIOUS
    <3>2. PICK count \in Nat, rolls \in Nat : Reckoned(top, count, rolls)
      BY <3>1 DEF OverrunInv
    <3>3. top \in Nat /\ Room(top) \in Nat /\ count <= Room(top)
      BY <2>4, <3>2, PaidLeavesRoom DEF MostGenerous, Reckoned
    <3>4. rolls + 1 <= ResetsPerPeriod /\ ResetsPerPeriod \in Nat
      BY <3>2, AheadBounds DEF Reckoned, ResetsPerPeriod, Many
    <3>5. /\ rolls * Room(top) + Room(top) = Room(top) * rolls + Room(top)
          /\ Room(top) * rolls + Room(top) <= Room(top) * ResetsPerPeriod
          /\ Room(top) * ResetsPerPeriod = ResetsPerPeriod * Room(top)
          /\ rolls * Room(top) \in Nat /\ ResetsPerPeriod * Room(top) \in Nat
      BY <3>3, <3>4, Multiples
    <3>6. Served <= count + rolls * Room(top) /\ Served \in Int
      BY <3>1, <3>2 DEF Reckoned, Served, IInv, TypeOK
    <3>7. Served <= ResetsPerPeriod * Room(top)
      BY <3>3, <3>5, <3>6
    <3>8. QED
      BY <2>2, <2>3, <3>1, <3>7 DEF OverrunIsBounded
  <2>8. QED
    BY <2>5, <2>6, <2>7, Invariance, CycleInvariance, CounterIsBounded, PTL DEF Spec
<1>2. CASE ~ \E plan \in Plans : MostGenerous(Quota[plan])
  <2>1. UsageWithinSomeQuota => OverrunIsBounded
    BY <1>2, QuotaAssumption DEF MostGenerous, OverrunIsBounded
  <2>2. QED
    BY <2>1, CounterIsBounded, PTL
<1>3. QED
  BY <1>1, <1>2

=============================================================================
