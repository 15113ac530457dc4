--------------------------- MODULE PaymentsProofs ---------------------------
(***************************************************************************)
(* Proofs about Payments for any number of checkouts, threads, workers and *)
(* plans.                                                                  *)
(*                                                                         *)
(* AgreesWithProvider is not inductive: whether a settlement writes the    *)
(* truth depends on what the request carries, and that on the callbacks    *)
(* still under way.  InFlightIsTrue is the strengthening; with TypeOK the  *)
(* three make the inductive invariant, and the action properties follow    *)
(* from one step of it.                                                    *)
(***************************************************************************)
EXTENDS Payments, FiniteSetTheorems, TLAPS

IInv == TypeOK /\ AgreesWithProvider /\ InFlightIsTrue

-----------------------------------------------------------------------------
(* What the session's flush does to the two kinds of rows.                 *)

\* A flushed payment row is a payment row; its status is the session's if the
\* session changed it and the stored one if it did not.
LEMMA FlushPayment ==
  ASSUME NEW stored \in PaymentRow, NEW loaded \in PaymentRow,
         NEW mine \in PaymentRow
  PROVE  /\ Flush(stored, loaded, mine) \in PaymentRow
         /\ Flush(stored, loaded, mine).status =
              IF mine.status = loaded.status THEN stored.status ELSE mine.status
<1> DEFINE f == Flush(stored, loaded, mine)
<1>1. DOMAIN stored = {"status", "completed"}
  BY DEF PaymentRow
<1>2. f = [c \in {"status", "completed"} |->
             IF mine[c] = loaded[c] THEN stored[c] ELSE mine[c]]
  BY <1>1 DEF Flush
<1>3. f = [status |-> IF mine.status = loaded.status
                        THEN stored.status ELSE mine.status,
           completed |-> IF mine.completed = loaded.completed
                           THEN stored.completed ELSE mine.completed]
  BY <1>2
<1>4. QED
  BY <1>3 DEF PaymentRow, PaymentStatus

\* A flushed account row is an account row.
LEMMA FlushAccount ==
  ASSUME NEW stored \in AccountRow, NEW loaded \in AccountRow,
         NEW mine \in AccountRow
  PROVE  Flush(stored, loaded, mine) \in AccountRow
<1> DEFINE f == Flush(stored, loaded, mine)
           pick(c) == IF mine[c] = loaded[c] THEN stored[c] ELSE mine[c]
<1>1. DOMAIN stored = {"status", "plan", "usage", "cycle", "warned"}
  BY DEF AccountRow
<1>2. f = [c \in {"status", "plan", "usage", "cycle", "warned"} |-> pick(c)]
  BY <1>1 DEF Flush
<1>3. f = [status |-> pick("status"), plan |-> pick("plan"),
           usage |-> pick("usage"), cycle |-> pick("cycle"),
           warned |-> pick("warned")]
  BY <1>2
<1>4. /\ pick("status") \in MfiStatus
      /\ pick("plan") \in Plans
      /\ pick("usage") \in Nat
      /\ pick("cycle") \in Nat
      /\ pick("warned") \in BOOLEAN
  BY DEF AccountRow
<1>5. QED
  BY <1>3, <1>4 DEF AccountRow

\* The pure updates of the account keep it an account row.
LEMMA AccountUpdates ==
  ASSUME NEW a \in AccountRow, NEW plan \in Plans
  PROVE  /\ Activate(a, plan, Today) \in AccountRow
         /\ RecordUsage(RollPeriod(a, Today)) \in AccountRow
         /\ \A s \in MfiStatus : [a EXCEPT !.status = s] \in AccountRow
<1>1. Today \in Nat
  BY PaymentsAssumption DEF Month
<1>2. Activate(a, plan, Today) \in AccountRow
  BY <1>1 DEF Activate, AccountRow, MfiStatus
<1>3. RollPeriod(a, Today) \in AccountRow
  BY <1>1 DEF RollPeriod, AccountRow
<1>4. RecordUsage(RollPeriod(a, Today)) \in AccountRow
  BY <1>3 DEF RecordUsage, AccountRow
<1>5. \A s \in MfiStatus : [a EXCEPT !.status = s] \in AccountRow
  BY DEF AccountRow
<1>6. QED
  BY <1>2, <1>4, <1>5

-----------------------------------------------------------------------------
(* The inductive invariant, one lemma per group of actions.                *)

\* The start satisfies it.
LEMMA InitIInv == Init => IInv
<1> SUFFICES ASSUME Init PROVE IInv
  OBVIOUS
<1>1. account \in AccountRow
  BY PaymentsAssumption DEF Init, SignedUp, NoCycle, AccountRow, MfiStatus
<1>2. TypeOK
  BY <1>1 DEF Init, TypeOK, Callback
<1>3. AgreesWithProvider /\ InFlightIsTrue
  BY DEF Init, AgreesWithProvider, InFlightIsTrue
<1>4. QED
  BY <1>2, <1>3 DEF IInv

\* The provider decides a collection once, so what was true of it stays true.
LEMMA ProviderSteps ==
  ASSUME IInv, NEW p \in Payments, Provider(p)
  PROVE  IInv'
<1> USE DEF IInv, TypeOK, AgreesWithProvider, InFlightIsTrue, TrueOf
<1>1. CASE CampayCollect(p)
  BY <1>1 DEF CampayCollect, Context, Callback
<1>2. CASE CampayResolve(p)
  BY <1>2 DEF CampayResolve, Context, Callback
<1>3. CASE CampayCallback(p)
  <2>1. ProviderStatus(p) \in PaymentStatus /\ TrueOf(ProviderStatus(p), p)
    BY DEF ProviderStatus, PaymentStatus
  <2>2. QED
    BY <1>3, <2>1 DEF CampayCallback, Context, Callback
<1>4. QED
  BY <1>1, <1>2, <1>3 DEF Provider

\* A checkout adds a PENDING row to an existing collection, or nothing.
LEMMA SubscribeSteps ==
  ASSUME IInv, NEW p \in Payments, Subscribe(p)
  PROVE  IInv'
<1> USE DEF IInv, TypeOK, AgreesWithProvider, InFlightIsTrue, TrueOf
<1>1. CASE SubscribeBegin(p)
  BY <1>1 DEF SubscribeBegin, external, Context
<1>2. CASE SubscribeCommit(p)
  <2>1. NewPayment \in PaymentRow /\ NewPayment.status = "PENDING"
    BY DEF NewPayment, PaymentRow, PaymentStatus
  <2>2. TypeOK'
    BY <1>2, <2>1 DEF SubscribeCommit, external
  <2>3. AgreesWithProvider'
    BY <1>2, <2>1 DEF SubscribeCommit, external
  <2>4. payments[p] = None
    BY <1>2 DEF SubscribeCommit
  <2>5. InFlightIsTrue'
    BY <1>2, <2>1, <2>4 DEF SubscribeCommit, external, Context
  <2>6. QED
    BY <2>2, <2>3, <2>5
<1>3. CASE SubscribeFail(p)
  BY <1>3 DEF SubscribeFail, external, Context
<1>4. QED
  BY <1>1, <1>2, <1>3 DEF Subscribe

\* A step that only moves request r keeps the invariant if what r then carries
\* is in order; a request that returns carries nothing.
Label == {"authed", "asking", "loading", "settling"}

InOrder(label, c) ==
  /\ c \in Context
  /\ payments[c.payment] # None
  /\ TrueOf(c.status, c.payment)
  /\ label # "authed" => c.row # None /\ c.row.status = "PENDING"
  /\ label \in {"authed", "asking"} => c.account # None
  /\ label = "settling" /\ c.status = "SUCCESSFUL" => c.account # None

LEMMA EnterStep ==
  ASSUME IInv, NEW r \in Requests, NEW label \in Label, NEW c,
         Enter(r, label, c), InOrder(label, c),
         UNCHANGED <<payments, account, trail, adminLog, checkout, external>>
  PROVE  IInv'
<1> USE DEF IInv, TypeOK
<1>1. /\ pc' = [pc EXCEPT ![r] = label]
      /\ ctx' = [ctx EXCEPT ![r] = c]
      /\ c \in Context
  BY DEF Enter, InOrder
<1>2. TypeOK'
  BY <1>1 DEF Label, external
<1>3. AgreesWithProvider'
  BY DEF AgreesWithProvider, TrueOf, external
<1>4. InFlightIsTrue'
  <2>1. ASSUME NEW q \in Requests, pc'[q] # "idle"
        PROVE  InOrder(pc'[q], ctx'[q])
    BY <1>1, <2>1 DEF InOrder, InFlightIsTrue
  <2>2. QED
    BY <2>1 DEF InOrder, InFlightIsTrue, TrueOf, external
<1>5. QED
  BY <1>2, <1>3, <1>4

LEMMA ReturnStep ==
  ASSUME IInv, NEW r \in Requests, Return(r),
         UNCHANGED <<payments, account, trail, adminLog, checkout, external>>
  PROVE  IInv'
<1> USE DEF IInv, TypeOK
<1>1. /\ pc' = [pc EXCEPT ![r] = "idle"]
      /\ ctx' = [ctx EXCEPT ![r] = None]
  BY DEF Return, Enter
<1>2. TypeOK'
  BY <1>1 DEF external
<1>3. AgreesWithProvider'
  BY DEF AgreesWithProvider, TrueOf, external
<1>4. InFlightIsTrue'
  BY <1>1 DEF InFlightIsTrue, TrueOf, external
<1>5. QED
  BY <1>2, <1>3, <1>4

\* Before it settles, a request only reads: what it takes along is true.
LEMMA ReadingSteps ==
  ASSUME IInv, NEW r \in Requests,
         \/ \E p \in Payments : PollBegin(r, p)
         \/ PollRead(r) \/ PollAnswer(r) \/ PollError(r)
         \/ \E m \in callbacks : HookRead(r, m)
         \/ HookLoad(r)
  PROVE  IInv'
<1> USE DEF IInv, TypeOK
<1>1. CASE \E p \in Payments : PollBegin(r, p)
  <2>1. PICK p \in Payments : PollBegin(r, p)
    BY <1>1
  <2> DEFINE c == [payment |-> p, row |-> None, account |-> account,
                   status |-> "PENDING"]
  <2>2. InOrder("authed", c)
    BY <2>1, NoneAssumption DEF PollBegin, InOrder, Context, TrueOf, PaymentStatus
  <2>3. QED
    BY <2>1, <2>2, EnterStep DEF PollBegin, Label
<1>2. CASE PollRead(r)
  <2> DEFINE row == payments[ctx[r].payment]
             c == [ctx[r] EXCEPT !.row = row]
  <2>1. ctx[r] \in Context /\ row \in PaymentRow
    BY <1>2 DEF PollRead, InFlightIsTrue, Context
  <2>2. CASE row.status # "PENDING"
    BY <1>2, <2>2, ReturnStep DEF PollRead
  <2>3. CASE row.status = "PENDING"
    <3>1. InOrder("asking", c)
      BY <1>2, <2>1, <2>3, NoneAssumption
         DEF PollRead, InOrder, InFlightIsTrue, Context, TrueOf
    <3>2. QED
      BY <1>2, <2>3, <3>1, EnterStep DEF PollRead, Label
  <2>4. QED
    BY <2>2, <2>3
<1>3. CASE PollAnswer(r)
  <2> DEFINE status == ProviderStatus(ctx[r].payment)
             c == [ctx[r] EXCEPT !.status = status]
  <2>1. ctx[r] \in Context /\ status \in PaymentStatus
    BY <1>3 DEF PollAnswer, ProviderStatus, PaymentStatus
  <2>2. CASE status = "PENDING"
    BY <1>3, <2>2, ReturnStep DEF PollAnswer
  <2>3. CASE status # "PENDING"
    <3>1. TrueOf(status, ctx[r].payment)
      BY DEF TrueOf, ProviderStatus
    <3>2. InOrder("settling", c)
      BY <1>3, <2>1, <3>1 DEF PollAnswer, InOrder, InFlightIsTrue, Context
    <3>3. QED
      BY <1>3, <2>3, <3>2, EnterStep DEF PollAnswer, Label
  <2>4. QED
    BY <2>2, <2>3
<1>4. CASE PollError(r)
  BY <1>4, ReturnStep DEF PollError
<1>5. CASE \E m \in callbacks : HookRead(r, m)
  <2>1. PICK m \in callbacks : HookRead(r, m)
    BY <1>5
  <2> DEFINE c == [payment |-> m.payment, row |-> payments[m.payment],
                   account |-> None, status |-> m.status]
             label == IF m.status = "SUCCESSFUL" THEN "loading" ELSE "settling"
  <2>2. m.payment \in Payments /\ m.status \in PaymentStatus
    BY DEF Callback
  <2>3. InOrder(label, c)
    BY <2>1, <2>2, NoneAssumption
       DEF HookRead, InOrder, InFlightIsTrue, Context, TrueOf
  <2>4. QED
    BY <2>1, <2>3, EnterStep DEF HookRead, Label
<1>6. CASE HookLoad(r)
  <2> DEFINE c == [ctx[r] EXCEPT !.account = account]
  <2>1. InOrder("settling", c)
    BY <1>6, NoneAssumption DEF HookLoad, InOrder, InFlightIsTrue, Context, TrueOf
  <2>2. QED
    BY <1>6, <2>1, EnterStep DEF HookLoad, Label
<1>7. QED
  BY <1>1, <1>2, <1>3, <1>4, <1>5, <1>6

\* The commit of a settlement writes what the request carries.
LEMMA SettleStep ==
  ASSUME IInv, NEW r \in Requests, Settle(r)
  PROVE  IInv'
<1> USE DEF IInv, TypeOK
<1> DEFINE c == ctx[r]
           p == c.payment
           mine == [status |-> c.status, completed |-> TRUE]
           row == Flush(payments[p], c.row, mine)
<1>1. /\ c \in Context /\ p \in Payments
      /\ payments[p] \in PaymentRow /\ c.row \in PaymentRow
      /\ c.row.status = "PENDING"
      /\ c.status \in PaymentStatus /\ TrueOf(c.status, p)
  BY DEF Settle, Context, InFlightIsTrue
<1>2. mine \in PaymentRow /\ mine.status = c.status
  BY <1>1 DEF PaymentRow
<1>3. /\ row \in PaymentRow
      /\ row.status \in {payments[p].status, c.status}
  BY <1>1, <1>2, FlushPayment
<1>4. /\ payments' = [payments EXCEPT ![p] = row]
      /\ pc' = [pc EXCEPT ![r] = "idle"]
      /\ ctx' = [ctx EXCEPT ![r] = None]
      /\ UNCHANGED <<adminLog, checkout, collection, callbacks>>
  BY DEF Settle, Return, Enter, external
<1>5. account' \in AccountRow
  <2>1. CASE c.status = "SUCCESSFUL"
    <3>1. c.account \in AccountRow
      BY <1>1, <2>1 DEF Settle, InFlightIsTrue, Context
    <3>2. Activate(c.account, PlanOf[p], Today) \in AccountRow
      BY <1>1, <3>1, AccountUpdates, PaymentsAssumption
    <3>3. QED
      BY <2>1, <3>1, <3>2, FlushAccount DEF Settle
  <2>2. CASE c.status # "SUCCESSFUL"
    BY <2>2 DEF Settle
  <2>3. QED
    BY <2>1, <2>2
<1>6. trail' \in [Payments -> [initiated: Nat, succeeded: Nat, failed: Nat]]
  BY <1>1 DEF Settle
<1>7. TypeOK'
  <2>1. payments' \in [Payments -> PaymentRow \cup {None}]
    BY <1>3, <1>4
  <2>2. /\ pc' \in [Requests -> {"idle"} \cup Label]
        /\ ctx' \in [Requests -> Context \cup {None}]
        /\ \A q \in Requests : pc'[q] # "idle" => ctx'[q] \in Context
    BY <1>4 DEF Label
  <2>3. QED
    BY <1>4, <1>5, <1>6, <2>1, <2>2 DEF Label
<1>8. AgreesWithProvider'
  <2>1. ASSUME NEW q \in Payments, payments'[q] # None
        PROVE  TrueOf(payments[q].status, q)'
    <3>1. CASE q = p
      <4>1. payments'[q] = row
        BY <1>1, <1>4, <3>1
      <4>2. TrueOf(row.status, p)
        BY <1>1, <1>3, NoneAssumption DEF AgreesWithProvider
      <4>3. QED
        BY <1>4, <3>1, <4>1, <4>2 DEF TrueOf
    <3>2. CASE q # p
      <4>1. payments'[q] = payments[q]
        BY <1>4, <3>2
      <4>2. QED
        BY <1>4, <2>1, <4>1 DEF AgreesWithProvider, TrueOf
    <3>3. QED
      BY <3>1, <3>2
  <2>2. QED
    BY <2>1 DEF AgreesWithProvider
<1>9. InFlightIsTrue'
  <2>1. \A q \in Payments : payments'[q] # None <=> payments[q] # None
    BY <1>1, <1>3, <1>4, NoneAssumption
  <2>2. ASSUME NEW q \in Requests, pc'[q] # "idle"
        PROVE  /\ pc[q] # "idle" /\ pc'[q] = pc[q] /\ ctx'[q] = ctx[q]
               /\ ctx[q].payment \in Payments
    BY <1>4, <2>2 DEF Context
  <2>3. \A q \in Payments :
           payments'[q] # None => checkout'[q] = "over" /\ collection'[q] # "none"
    BY <1>4, <2>1 DEF InFlightIsTrue
  <2>4. \A m \in callbacks' : TrueOf(m.status, m.payment)'
    BY <1>4 DEF InFlightIsTrue, TrueOf
  <2>5. ASSUME NEW q \in Requests, pc'[q] # "idle"
        PROVE  InOrder(pc[q], ctx[q])'
    <3>1. InOrder(pc[q], ctx[q])
      BY <2>2, <2>5 DEF InOrder, InFlightIsTrue
    <3>2. payments'[ctx[q].payment] # None
      BY <2>1, <2>2, <2>5, <3>1 DEF InOrder
    <3>3. QED
      BY <1>4, <2>2, <2>5, <3>1, <3>2 DEF InOrder, TrueOf
  <2>6. QED
    BY <2>3, <2>4, <2>5 DEF InFlightIsTrue, InOrder
<1>10. QED
  BY <1>7, <1>8, <1>9

\* The other writers of the account, and a restart, touch no payment.
LEMMA OtherSteps ==
  ASSUME IInv, AdminSetStatus \/ MeteredUse \/ WorkerRestart
  PROVE  IInv'
<1> USE DEF IInv, TypeOK, AgreesWithProvider, InFlightIsTrue, TrueOf, external
<1>1. CASE AdminSetStatus
  <2>1. account' \in AccountRow
    <3>1. PICK s \in {"ACTIVE", "SUSPENDED"} :
            account' = [account EXCEPT !.status = s]
      BY <1>1 DEF AdminSetStatus
    <3>2. s \in MfiStatus
      BY DEF MfiStatus
    <3>3. QED
      BY <3>1, <3>2, AccountUpdates, PaymentsAssumption
  <2>2. adminLog' \subseteq {"mfi.suspended", "mfi.reactivated"}
    BY <1>1 DEF AdminSetStatus
  <2>3. QED
    BY <1>1, <2>1, <2>2 DEF AdminSetStatus
<1>2. CASE MeteredUse
  <2>1. account' \in AccountRow
    BY <1>2, AccountUpdates, PaymentsAssumption DEF MeteredUse
  <2>2. QED
    BY <1>2, <2>1 DEF MeteredUse
<1>3. CASE WorkerRestart
  BY <1>3 DEF WorkerRestart
<1>4. QED
  BY <1>1, <1>2, <1>3

\* Every step keeps the inductive invariant.
LEMMA NextIInv == IInv /\ [Next]_vars => IInv'
<1> SUFFICES ASSUME IInv, [Next]_vars PROVE IInv'
  OBVIOUS
<1>1. ASSUME NEW p \in Payments, Provider(p) \/ Subscribe(p) PROVE IInv'
  BY <1>1, ProviderSteps, SubscribeSteps
<1>2. ASSUME NEW r \in Polls, Poll(r) PROVE IInv'
  BY <1>2, ReadingSteps, SettleStep DEF Poll, Requests
<1>3. ASSUME NEW h \in Hooks, Webhook(h) PROVE IInv'
  BY <1>3, ReadingSteps, SettleStep DEF Webhook, Requests
<1>4. CASE AdminSetStatus \/ MeteredUse \/ WorkerRestart
  BY <1>4, OtherSteps
<1>5. CASE UNCHANGED vars
  BY <1>5 DEF vars, IInv, TypeOK, AgreesWithProvider, InFlightIsTrue, TrueOf
<1>6. QED
  BY <1>1, <1>2, <1>3, <1>4, <1>5 DEF Next


-----------------------------------------------------------------------------
(* The theorems.                                                           *)

LEMMA Invariance == Spec => []IInv
<1>1. QED
  BY InitIInv, NextIInv, PTL DEF Spec

\* Every variable keeps its type: no interleaving of checkouts, polls,
\* callbacks, admin actions and restarts leaves an ill-formed row behind.
THEOREM TypeCorrect == Spec => []TypeOK
<1>1. IInv => TypeOK
  BY DEF IInv
<1>2. QED
  BY Invariance, <1>1, PTL

\* A payment is recorded SUCCESSFUL only if the provider collected the money
\* and FAILED only if it was declined, for any number of concurrent requests.
THEOREM RecordsAgreeWithProvider == Spec => []AgreesWithProvider
<1>1. IInv => AgreesWithProvider
  BY DEF IInv
<1>2. QED
  BY Invariance, <1>1, PTL

\* One step changes a payment row in two ways only: a checkout's commit makes
\* the PENDING row, a settlement moves a PENDING row to the status for the
\* provider's outcome or leaves the status as it is.
LEMMA PaymentRowSteps ==
  ASSUME IInv, IInv', [Next]_vars, NEW p \in Payments,
         payments'[p] # payments[p]
  PROVE  \/ /\ payments[p] = None
            /\ payments'[p] = NewPayment
         \/ /\ payments[p] # None /\ payments'[p] # None
            /\ \/ payments'[p].status = payments[p].status
               \/ /\ payments[p].status = "PENDING"
                  /\ payments'[p].status \in Terminal
<1> USE DEF IInv, TypeOK
<1>1. ASSUME NEW q \in Payments, SubscribeCommit(q)
      PROVE  payments[p] = None /\ payments'[p] = NewPayment
  BY <1>1 DEF SubscribeCommit, InFlightIsTrue
<1>2. ASSUME NEW r \in Requests, Settle(r)
      PROVE  /\ payments[p] # None /\ payments'[p] # None
             /\ \/ payments'[p].status = payments[p].status
                \/ /\ payments[p].status = "PENDING"
                   /\ payments'[p].status \in Terminal
  <2> DEFINE c == ctx[r]
             mine == [status |-> c.status, completed |-> TRUE]
             row == Flush(payments[p], c.row, mine)
  <2>1. /\ c \in Context
        /\ payments' = [payments EXCEPT ![c.payment] =
              Flush(payments[c.payment], c.row, mine)]
    BY <1>2 DEF Settle
  <2>2. p = c.payment
    BY <2>1 DEF Context
  <2>3. /\ payments[p] \in PaymentRow /\ c.row \in PaymentRow
        /\ c.row.status = "PENDING"
        /\ c.status \in PaymentStatus /\ TrueOf(c.status, p)
        /\ TrueOf(payments[p].status, p)
    BY <1>2, <2>1, <2>2
       DEF Settle, Context, InFlightIsTrue, AgreesWithProvider
  <2>4. mine \in PaymentRow /\ mine.status = c.status
    BY <2>3 DEF PaymentRow
  <2>5. /\ row \in PaymentRow
        /\ row.status = IF c.status = "PENDING"
                          THEN payments[p].status ELSE c.status
    BY <2>3, <2>4, FlushPayment
  <2>6. payments'[p] = row
    BY <2>1, <2>2
  <2>7. c.status # "PENDING" /\ payments[p].status # "PENDING"
          => c.status = payments[p].status
    BY <2>3 DEF TrueOf, PaymentRow, PaymentStatus
  <2>8. QED
    BY <2>3, <2>5, <2>6, <2>7, NoneAssumption DEF PaymentStatus, Terminal
<1>3. CASE UNCHANGED payments
  BY <1>3
<1>4. (\E q \in Payments : SubscribeCommit(q))
        \/ (\E r \in Requests : Settle(r)) \/ UNCHANGED payments
  BY DEF Next, Provider, Subscribe, Poll, Webhook, CampayCollect, CampayResolve,
         CampayCallback, SubscribeBegin, SubscribeFail, PollBegin, PollRead,
         PollAnswer, PollError, HookRead, HookLoad, AdminSetStatus, MeteredUse,
         WorkerRestart, vars, Requests
<1>5. QED
  BY <1>1, <1>2, <1>3, <1>4

\* A SUCCESSFUL or FAILED payment never changes status again.
THEOREM SettledIsFinal == Spec => TerminalIsFinal
<1> DEFINE Final == \A p \in Payments :
             payments[p] # None /\ payments[p].status \in Terminal =>
               payments'[p] # None /\ payments'[p].status = payments[p].status
<1>1. IInv /\ IInv' /\ [Next]_vars => [Final]_vars
  <2> SUFFICES ASSUME IInv, IInv', [Next]_vars, NEW p \in Payments,
                      payments[p] # None, payments[p].status \in Terminal
               PROVE  /\ payments'[p] # None
                      /\ payments'[p].status = payments[p].status
    OBVIOUS
  <2>1. QED
    BY PaymentRowSteps DEF Terminal
<1>2. QED
  BY <1>1, Invariance, PTL DEF Spec, TerminalIsFinal

\* What p's row reads as in the ledger, and the outcome of p's collection.
Entry(p) == IF payments[p] = None THEN "absent" ELSE payments[p].status

Outcome(p) ==
  IF collection[p] \in {"none", "open"} THEN "undecided" ELSE collection[p]

LedgerOf == [p \in Payments |-> Entry(p)]
OutcomeOf == [p \in Payments |-> Outcome(p)]

\* A settlement that changes the ledger concludes the payment for the outcome
\* of its collection, and a commit that adds a row records it.
LEMMA RowStepIsLedgerStep ==
  ASSUME IInv, IInv', [Next]_vars, NEW p \in Payments,
         payments' = [payments EXCEPT ![p] = payments'[p]],
         collection' = collection
  PROVE  [Ledger!Next]_(Ledger!vars)
<1> USE DEF IInv, TypeOK
<1>1. \A q \in Payments : q # p => Entry(q)' = Entry(q)
  BY DEF Entry
<1>2. OutcomeOf' = OutcomeOf
  BY DEF OutcomeOf, Outcome
<1>3. CASE payments'[p] = payments[p]
  <2>1. LedgerOf' = LedgerOf
    BY <1>1, <1>3 DEF LedgerOf, Entry
  <2>2. QED
    BY <1>2, <2>1 DEF Ledger!vars, LedgerOf, OutcomeOf, Entry, Outcome
<1>4. CASE payments'[p] # payments[p]
  <2>1. LedgerOf' = [LedgerOf EXCEPT ![p] = Entry(p)']
    BY <1>1 DEF LedgerOf
  <2>2. \/ Entry(p)' = Entry(p)
        \/ Entry(p) = "absent" /\ Entry(p)' = "PENDING"
        \/ Entry(p) = "PENDING" /\ Entry(p)' \in Terminal
    BY <1>4, PaymentRowSteps DEF Entry, NewPayment
  <2>3. CASE Entry(p)' = Entry(p)
    <3>1. LedgerOf' = LedgerOf
      BY <1>1, <2>3 DEF LedgerOf
    <3>2. QED
      BY <1>2, <3>1 DEF Ledger!vars, LedgerOf, OutcomeOf, Entry, Outcome
  <2>4. CASE Entry(p) = "absent" /\ Entry(p)' = "PENDING"
    <3>1. Ledger!Record(p)
      BY <1>2, <2>1, <2>4
         DEF Ledger!Record, LedgerOf, OutcomeOf, Entry, Outcome
    <3>2. QED
      BY <3>1 DEF Ledger!Next
  <2>5. CASE Entry(p) = "PENDING" /\ Entry(p)' \in Terminal
    <3>1. payments'[p] # None /\ payments'[p].status = Entry(p)'
      BY <2>5 DEF Entry, Terminal
    <3>2. TrueOf(Entry(p), p)'
      BY <3>1 DEF AgreesWithProvider, Entry
    <3>3. /\ Outcome(p) # "undecided"
          /\ Entry(p)' = Ledger!StatusFor[Outcome(p)]
      BY <2>5, <3>2 DEF TrueOf, Terminal, Ledger!StatusFor, Outcome
    <3>4. Ledger!Conclude(p)
      BY <1>2, <2>1, <2>5, <3>3
         DEF Ledger!Conclude, LedgerOf, OutcomeOf, Entry, Outcome
    <3>5. QED
      BY <3>4 DEF Ledger!Next
  <2>6. QED
    BY <2>2, <2>3, <2>4, <2>5
<1>5. QED
  BY <1>3, <1>4

\* The provider's answer to a collection is the ledger's decision.
LEMMA ProviderStepIsLedgerStep ==
  ASSUME IInv, NEW p \in Payments, Provider(p)
  PROVE  [Ledger!Next]_(Ledger!vars)
<1> USE DEF IInv, TypeOK
<1>1. LedgerOf' = LedgerOf
  BY DEF Provider, CampayCollect, CampayResolve, CampayCallback, LedgerOf, Entry
<1>2. CASE OutcomeOf' = OutcomeOf
  BY <1>1, <1>2 DEF Ledger!vars, LedgerOf, OutcomeOf, Entry, Outcome
<1>3. CASE CampayResolve(p)
  <2>1. PICK o \in {"collected", "declined"} :
          collection[p] = "open" /\ collection' = [collection EXCEPT ![p] = o]
    BY <1>3 DEF CampayResolve
  <2>2. OutcomeOf[p] = "undecided" /\ OutcomeOf' = [OutcomeOf EXCEPT ![p] = o]
    BY <2>1 DEF OutcomeOf, Outcome
  <2>3. Ledger!Decide(p)
    BY <1>1, <2>1, <2>2
       DEF Ledger!Decide, LedgerOf, OutcomeOf, Entry, Outcome
  <2>4. QED
    BY <2>3 DEF Ledger!Next
<1>4. CASE CampayCollect(p) \/ CampayCallback(p)
  <2>1. OutcomeOf' = OutcomeOf
    BY <1>4 DEF CampayCollect, CampayCallback, OutcomeOf, Outcome
  <2>2. QED
    BY <1>2, <2>1
<1>5. QED
  BY <1>3, <1>4 DEF Provider

\* The payment rows, with the provider's collections, implement the ledger:
\* one row per checkout, concluded at most once, for the provider's outcome.
THEOREM LedgerRefinement == Spec => RefinesLedger
<1>1. Init => Ledger!Init
  BY DEF Init, Ledger!Init
<1>2. IInv /\ IInv' /\ [Next]_vars => [Ledger!Next]_(Ledger!vars)
  <2> SUFFICES ASSUME IInv, IInv', [Next]_vars
               PROVE  [Ledger!Next]_(Ledger!vars)
    OBVIOUS
  <2>1. ASSUME NEW p \in Payments, Provider(p)
        PROVE  [Ledger!Next]_(Ledger!vars)
    BY <2>1, ProviderStepIsLedgerStep
  <2>2. ASSUME NEW p \in Payments, SubscribeCommit(p)
        PROVE  [Ledger!Next]_(Ledger!vars)
    <3>1. /\ payments' = [payments EXCEPT ![p] = payments'[p]]
          /\ collection' = collection
      BY <2>2 DEF SubscribeCommit, external, IInv, TypeOK
    <3>2. QED
      BY <3>1, RowStepIsLedgerStep
  <2>3. ASSUME NEW r \in Requests, Settle(r)
        PROVE  [Ledger!Next]_(Ledger!vars)
    <3>1. /\ ctx[r].payment \in Payments
          /\ payments' = [payments EXCEPT
               ![ctx[r].payment] = payments'[ctx[r].payment]]
          /\ collection' = collection
      BY <2>3 DEF Settle, external, IInv, TypeOK, Context
    <3>2. QED
      BY <3>1, RowStepIsLedgerStep
  <2>4. CASE UNCHANGED <<payments, collection>>
    BY <2>4 DEF Ledger!vars
  <2>5. \/ \E p \in Payments : Provider(p) \/ SubscribeCommit(p)
        \/ \E r \in Requests : Settle(r)
        \/ UNCHANGED <<payments, collection>>
    BY DEF Next, Subscribe, Poll, Webhook, SubscribeBegin, SubscribeFail,
           PollBegin, PollRead, PollAnswer, PollError, HookRead, HookLoad,
           AdminSetStatus, MeteredUse, WorkerRestart, vars, Requests, external
  <2>6. QED
    BY <2>1, <2>2, <2>3, <2>4, <2>5
<1>3. QED
  BY <1>1, <1>2, Invariance, PTL DEF Spec, RefinesLedger, Ledger!Spec

\* What is on its way stays true: callbacks, and what requests under way carry.
THEOREM CarriedStaysTrue == Spec => []InFlightIsTrue
<1>1. IInv => InFlightIsTrue
  BY DEF IInv
<1>2. QED
  BY Invariance, <1>1, PTL

-----------------------------------------------------------------------------
(* PENDING callbacks.  One stamps and audits a row it leaves PENDING, so    *)
(* what the log and the stamp say holds but for them: a request that is    *)
(* about to settle for PENDING got that from a callback still on record.   *)

CarriedIsTold ==
  \A r \in Requests :
    pc[r] \in {"loading", "settling"} /\ ctx[r].status = "PENDING" =>
      CalledBackEarly(ctx[r].payment)

LEMMA CarriedToldStep ==
  ASSUME IInv, CarriedIsTold, [Next]_vars
  PROVE  CarriedIsTold'
<1> USE DEF CarriedIsTold, CalledBackEarly
<1>1. /\ pc \in [Requests -> {"idle", "authed", "asking", "loading", "settling"}]
      /\ ctx \in [Requests -> Context \cup {None}]
      /\ \A q \in Requests : pc[q] # "idle" => ctx[q] \in Context
  BY DEF IInv, TypeOK
<1>2. ASSUME NEW r \in Requests, NEW label, NEW c, Enter(r, label, c),
             label \in {"loading", "settling"} /\ c.status = "PENDING"
               => CalledBackEarly(c.payment),
             callbacks' = callbacks
      PROVE  CarriedIsTold'
  BY <1>1, <1>2 DEF Enter
<1>3. ASSUME NEW p \in Payments, CampayCallback(p) PROVE CarriedIsTold'
  BY <1>3 DEF CampayCallback
<1>4. ASSUME NEW r \in Requests, NEW p \in Payments, PollBegin(r, p)
      PROVE  CarriedIsTold'
  BY <1>2, <1>4 DEF PollBegin, external
<1>5. ASSUME NEW r \in Requests, PollRead(r) \/ PollError(r) \/ Settle(r)
      PROVE  CarriedIsTold'
  BY <1>2, <1>5 DEF PollRead, PollError, Settle, Return, external
<1>6. ASSUME NEW r \in Requests, PollAnswer(r) PROVE CarriedIsTold'
  <2>1. ctx[r] \in Context
    BY <1>1, <1>6 DEF PollAnswer
  <2>2. \A x : [ctx[r] EXCEPT !.status = x].status = x
    BY <2>1 DEF Context
  <2>3. QED
    BY <1>2, <1>6, <2>2 DEF PollAnswer, Return, external
<1>7. ASSUME NEW r \in Requests, NEW m \in callbacks, HookRead(r, m)
      PROVE  CarriedIsTold'
  <2> DEFINE c == [payment |-> m.payment, row |-> payments[m.payment],
                   account |-> None, status |-> m.status]
  <2>1. m = [payment |-> m.payment, status |-> m.status]
    BY DEF IInv, TypeOK, Callback
  <2>2. c.status = "PENDING" => CalledBackEarly(c.payment)
    BY <2>1
  <2>3. QED
    BY <1>2, <1>7, <2>2 DEF HookRead, external
<1>8. ASSUME NEW r \in Requests, HookLoad(r) PROVE CarriedIsTold'
  <2>1. ctx[r] \in Context
        /\ (ctx[r].status = "PENDING" => CalledBackEarly(ctx[r].payment))
    BY <1>1, <1>8 DEF HookLoad
  <2>2. /\ [ctx[r] EXCEPT !.account = account].status = ctx[r].status
        /\ [ctx[r] EXCEPT !.account = account].payment = ctx[r].payment
    BY <2>1 DEF Context
  <2>3. QED
    BY <1>2, <1>8, <2>1, <2>2 DEF HookLoad, external
<1>9. CASE UNCHANGED <<pc, ctx, callbacks>>
  BY <1>9
<1>10. CASE WorkerRestart
  BY <1>10 DEF WorkerRestart, external
<1>11. \/ \E p \in Payments : CampayCallback(p)
       \/ \E q \in Requests : \/ \E p \in Payments : PollBegin(q, p)
                              \/ PollRead(q) \/ PollError(q) \/ Settle(q)
                              \/ PollAnswer(q) \/ HookLoad(q)
                              \/ \E m \in callbacks : HookRead(q, m)
       \/ WorkerRestart \/ UNCHANGED <<pc, ctx, callbacks>>
  BY DEF Next, Provider, Subscribe, Poll, Webhook, CampayCollect, CampayResolve,
         SubscribeBegin, SubscribeCommit, SubscribeFail, AdminSetStatus,
         MeteredUse, vars, Requests, external
<1>12. QED
  BY <1>3, <1>4, <1>5, <1>6, <1>7, <1>8, <1>9, <1>10, <1>11

\* A callback once sent may arrive at any later time: none is forgotten.
LEMMA CallbacksStay ==
  ASSUME [Next]_vars
  PROVE  callbacks \subseteq callbacks'
BY DEF Next, Provider, Subscribe, Poll, Webhook, CampayCollect, CampayResolve,
       CampayCallback, SubscribeBegin, SubscribeCommit, SubscribeFail,
       PollBegin, PollRead, PollAnswer, PollError, HookRead, HookLoad, Settle,
       AdminSetStatus, MeteredUse, WorkerRestart, vars, external

-----------------------------------------------------------------------------
(* The audit trail.                                                        *)

\* What the commit of a settlement leaves in the payment row and the trail.
LEMMA SettleWrites ==
  ASSUME IInv, NEW r \in Requests, Settle(r)
  PROVE  /\ ctx[r] \in Context /\ ctx[r].payment \in Payments
         /\ payments[ctx[r].payment] \in PaymentRow
         /\ TrueOf(ctx[r].status, ctx[r].payment)
         /\ payments'[ctx[r].payment] \in PaymentRow
         /\ payments'[ctx[r].payment].status =
              IF ctx[r].status = "PENDING"
                THEN payments[ctx[r].payment].status ELSE ctx[r].status
         /\ \A p \in Payments :
              p # ctx[r].payment => payments'[p] = payments[p]
         /\ trail' = IF ctx[r].status = "SUCCESSFUL"
                       THEN [trail EXCEPT ![ctx[r].payment].succeeded = @ + 1]
                       ELSE [trail EXCEPT ![ctx[r].payment].failed = @ + 1]
         /\ ctx[r].row.status = "PENDING"
<1> USE DEF IInv, TypeOK
<1> DEFINE c == ctx[r]
           mine == [status |-> c.status, completed |-> TRUE]
<1>1. /\ c \in Context /\ c.payment \in Payments
      /\ payments[c.payment] \in PaymentRow /\ c.row \in PaymentRow
      /\ c.row.status = "PENDING"
      /\ c.status \in PaymentStatus /\ TrueOf(c.status, c.payment)
  BY DEF Settle, Context, InFlightIsTrue
<1>2. mine \in PaymentRow /\ mine.status = c.status /\ mine.completed
  BY <1>1 DEF PaymentRow
<1>3. /\ payments' = [payments EXCEPT ![c.payment] =
                        Flush(payments[c.payment], c.row, mine)]
      /\ trail' = IF c.status = "SUCCESSFUL"
                    THEN [trail EXCEPT ![c.payment].succeeded = @ + 1]
                    ELSE [trail EXCEPT ![c.payment].failed = @ + 1]
  BY DEF Settle
<1>4. payments'[c.payment] = Flush(payments[c.payment], c.row, mine)
  BY <1>1, <1>3
<1>5. \A p \in Payments : p # c.payment => payments'[p] = payments[p]
  BY <1>3
<1> HIDE DEF mine
<1>6. QED
  BY <1>1, <1>2, <1>3, <1>4, <1>5, FlushPayment

\* Only a settlement adds a success or a failure to the trail, and only it and
\* a checkout's commit change payment rows.
LEMMA RowAndTrailSteps ==
  ASSUME [Next]_vars
  PROVE  \/ \E p \in Payments : SubscribeCommit(p)
         \/ \E r \in Requests : Settle(r)
         \/ UNCHANGED <<payments, trail>>
BY DEF Next, Provider, Subscribe, Poll, Webhook, CampayCollect, CampayResolve,
       CampayCallback, SubscribeBegin, SubscribeFail, PollBegin, PollRead,
       PollAnswer, PollError, HookRead, HookLoad, AdminSetStatus, MeteredUse,
       WorkerRestart, vars, Requests

\* So a payment's row is as it was, or just made, or just settled.
LEMMA RowSteps ==
  ASSUME IInv, [Next]_vars, NEW p \in Payments
  PROVE  \/ payments'[p] = payments[p]
         \/ \E q \in Payments : SubscribeCommit(q) /\ q = p
         \/ \E r \in Requests : Settle(r) /\ p = ctx[r].payment
<1>1. ASSUME NEW q \in Payments, SubscribeCommit(q), q # p
      PROVE  payments'[p] = payments[p]
  BY <1>1 DEF SubscribeCommit, IInv, TypeOK
<1>2. QED
  BY <1>1, RowAndTrailSteps, SettleWrites

LEMMA AuditStep ==
  ASSUME IInv, CarriedIsTold, AuditExplainsStatus, [Next]_vars
  PROVE  AuditExplainsStatus'
<1>0. \A q \in Payments : CalledBackEarly(q) => CalledBackEarly(q)'
  BY CallbacksStay DEF CalledBackEarly
<1>1. ASSUME NEW p \in Payments, SubscribeCommit(p) PROVE AuditExplainsStatus'
  <2>1. payments[p] = None
    BY <1>1 DEF SubscribeCommit, IInv, InFlightIsTrue
  <2>2. NewPayment \in PaymentRow /\ NewPayment.status = "PENDING"
    BY DEF NewPayment, PaymentRow, PaymentStatus
  <2>3. \A q \in Payments : /\ trail'[q].succeeded = trail[q].succeeded
                            /\ trail'[q].failed = trail[q].failed
    BY <1>1 DEF SubscribeCommit, IInv, TypeOK
  <2>4. /\ payments'[p] = NewPayment
        /\ \A q \in Payments : q # p => payments'[q] = payments[q]
    BY <1>1 DEF SubscribeCommit, IInv, TypeOK
  <2>5. QED
    BY <1>0, <2>1, <2>2, <2>3, <2>4 DEF AuditExplainsStatus
<1>2. ASSUME NEW r \in Requests, Settle(r) PROVE AuditExplainsStatus'
  <2> DEFINE c == ctx[r]
             p == c.payment
  <2>1. /\ c \in Context /\ p \in Payments
        /\ payments[p] \in PaymentRow /\ TrueOf(c.status, p)
        /\ payments'[p] \in PaymentRow
        /\ payments'[p].status = IF c.status = "PENDING"
                                   THEN payments[p].status ELSE c.status
        /\ \A q \in Payments : q # p => payments'[q] = payments[q]
        /\ trail' = IF c.status = "SUCCESSFUL"
                      THEN [trail EXCEPT ![p].succeeded = @ + 1]
                      ELSE [trail EXCEPT ![p].failed = @ + 1]
    BY <1>2, SettleWrites
  <2>2. /\ payments[p] # None /\ payments'[p] # None
        /\ payments[p].status \in PaymentStatus /\ c.status \in PaymentStatus
    BY <2>1, NoneAssumption DEF PaymentRow, Context
  <2>3. /\ trail \in [Payments -> [initiated: Nat, succeeded: Nat, failed: Nat]]
        /\ \A q \in Payments : trail[q].succeeded \in Nat /\ trail[q].failed \in Nat
    BY DEF IInv, TypeOK
  <2>4. \A q \in Payments : q # p => trail'[q] = trail[q]
    BY <2>1, <2>3
  <2>5. /\ trail'[p].succeeded = trail[p].succeeded
                                   + (IF c.status = "SUCCESSFUL" THEN 1 ELSE 0)
        /\ trail'[p].failed = trail[p].failed
                                + (IF c.status = "SUCCESSFUL" THEN 0 ELSE 1)
    BY <2>1, <2>3
  <2>6. c.status = "FAILED" => payments[p].status # "SUCCESSFUL"
    BY <2>1, <2>2 DEF IInv, AgreesWithProvider, TrueOf
  <2>7. c.status = "PENDING" => [payment |-> p, status |-> "PENDING"] \in callbacks'
    BY <1>2, CallbacksStay DEF CarriedIsTold, CalledBackEarly, Settle
  <2> HIDE DEF c, p
  <2>8. /\ trail'[p].succeeded > 0 <=> payments'[p].status = "SUCCESSFUL"
        /\ payments'[p].status = "FAILED" => trail'[p].failed > 0
    BY <2>1, <2>2, <2>3, <2>5, <2>6 DEF AuditExplainsStatus, PaymentStatus
  <2>9. trail'[p].failed > 0 =>
          \/ payments'[p].status = "FAILED"
          \/ [payment |-> p, status |-> "PENDING"] \in callbacks'
    <3>1. CASE c.status = "SUCCESSFUL"
      <4>1. payments[p].status # "FAILED"
        BY <2>1, <2>2, <3>1 DEF IInv, AgreesWithProvider, TrueOf
      <4>2. QED
        BY CallbacksStay, <2>1, <2>3, <2>5, <3>1, <4>1
           DEF AuditExplainsStatus, CalledBackEarly
    <3>2. CASE c.status # "SUCCESSFUL"
      BY <2>1, <2>2, <2>7, <3>2 DEF PaymentStatus
    <3>3. QED
      BY <3>1, <3>2
  <2>10. QED
    BY <1>0, <2>1, <2>2, <2>4, <2>8, <2>9 DEF AuditExplainsStatus, CalledBackEarly
<1>3. CASE UNCHANGED <<payments, trail>>
  BY <1>0, <1>3 DEF AuditExplainsStatus
<1>4. QED
  BY <1>1, <1>2, <1>3, RowAndTrailSteps

\* The audit log has a success for a payment exactly when its row says
\* SUCCESSFUL, and a failure when it says FAILED and otherwise only if the
\* provider called back PENDING, although overlapping polls and callbacks may
\* each add an entry of their own.
THEOREM AuditTellsTheStory == Spec => []AuditExplainsStatus
<1>1. Init => CarriedIsTold /\ AuditExplainsStatus
  BY DEF Init, CarriedIsTold, AuditExplainsStatus
<1>2. IInv /\ CarriedIsTold /\ AuditExplainsStatus /\ [Next]_vars
        => CarriedIsTold' /\ AuditExplainsStatus'
  BY CarriedToldStep, AuditStep
<1>3. QED
  BY <1>1, <1>2, Invariance, PTL DEF Spec

-----------------------------------------------------------------------------
(* completed_at.  A copy read after an early stamp does not write the stamp *)
(* again, so that a settled row has one rests on its never being taken away.*)

ReadingRow == {"asking", "loading", "settling"}

StampsStay ==
  \A r \in Requests :
    pc[r] \in ReadingRow /\ ctx[r].row.completed => payments[ctx[r].payment].completed

\* The row a request holds after a step is the one it held, or the one stored.
LEMMA RowsAreRead ==
  ASSUME IInv, [Next]_vars, NEW r \in Requests, pc'[r] \in ReadingRow
  PROVE  /\ ctx'[r].payment \in Payments
         /\ payments[ctx'[r].payment] # None
         /\ \/ ctx'[r].row = payments[ctx'[r].payment]
            \/ /\ pc[r] \in ReadingRow
               /\ ctx'[r].row = ctx[r].row /\ ctx'[r].payment = ctx[r].payment
<1> DEFINE Read(x, c) ==
      /\ c.payment \in Payments
      /\ payments[c.payment] # None
      /\ \/ c.row = payments[c.payment]
         \/ pc[x] \in ReadingRow /\ c.row = ctx[x].row /\ c.payment = ctx[x].payment
<1>1. /\ pc \in [Requests -> {"idle", "authed", "asking", "loading", "settling"}]
      /\ ctx \in [Requests -> Context \cup {None}]
      /\ \A q \in Requests : pc[q] # "idle" =>
           ctx[q] \in Context /\ payments[ctx[q].payment] # None
  BY DEF IInv, TypeOK, InFlightIsTrue
<1>2. ASSUME NEW q \in Requests, NEW label, NEW c, Enter(q, label, c),
             label \in ReadingRow => Read(q, c)
      PROVE  Read(r, ctx'[r])
  BY <1>1, <1>2 DEF Enter, ReadingRow, Context
<1>3. ASSUME NEW q \in Requests, Return(q) PROVE Read(r, ctx'[r])
  BY <1>2, <1>3 DEF Return, ReadingRow
<1>4. ASSUME NEW q \in Requests, NEW p \in Payments, PollBegin(q, p)
      PROVE  Read(r, ctx'[r])
  BY <1>2, <1>4 DEF PollBegin, ReadingRow
<1>5. ASSUME NEW q \in Requests, PollRead(q) PROVE Read(r, ctx'[r])
  <2>1. ctx[q] \in Context /\ payments[ctx[q].payment] # None
    BY <1>1, <1>5 DEF PollRead
  <2>2. \A x : /\ [ctx[q] EXCEPT !.row = x].payment = ctx[q].payment
               /\ [ctx[q] EXCEPT !.row = x].row = x
    BY <2>1 DEF Context
  <2>3. ctx[q].payment \in Payments
    BY <2>1 DEF Context
  <2>4. QED
    BY <1>2, <1>3, <1>5, <2>1, <2>2, <2>3 DEF PollRead
<1>6. ASSUME NEW q \in Requests, PollAnswer(q) PROVE Read(r, ctx'[r])
  <2>1. ctx[q] \in Context /\ payments[ctx[q].payment] # None
    BY <1>1, <1>6 DEF PollAnswer
  <2>2. \A x : /\ [ctx[q] EXCEPT !.status = x].payment = ctx[q].payment
               /\ [ctx[q] EXCEPT !.status = x].row = ctx[q].row
    BY <2>1 DEF Context
  <2>3. ctx[q].payment \in Payments /\ pc[q] \in ReadingRow
    BY <2>1, <1>6 DEF Context, PollAnswer, ReadingRow
  <2>4. QED
    BY <1>2, <1>3, <1>6, <2>1, <2>2, <2>3 DEF PollAnswer
<1>7. ASSUME NEW q \in Requests, PollError(q) \/ Settle(q)
      PROVE  Read(r, ctx'[r])
  BY <1>3, <1>7 DEF PollError, Settle
<1>8. ASSUME NEW q \in Requests, NEW m \in callbacks, HookRead(q, m)
      PROVE  Read(r, ctx'[r])
  <2>1. m.payment \in Payments
    BY DEF IInv, TypeOK, Callback
  <2>2. QED
    BY <1>2, <1>8, <2>1 DEF HookRead
<1>9. ASSUME NEW q \in Requests, HookLoad(q) PROVE Read(r, ctx'[r])
  <2>1. ctx[q] \in Context /\ payments[ctx[q].payment] # None
    BY <1>1, <1>9 DEF HookLoad
  <2>2. \A x : /\ [ctx[q] EXCEPT !.account = x].payment = ctx[q].payment
               /\ [ctx[q] EXCEPT !.account = x].row = ctx[q].row
    BY <2>1 DEF Context
  <2>3. ctx[q].payment \in Payments /\ pc[q] \in ReadingRow
    BY <2>1, <1>9 DEF Context, HookLoad, ReadingRow
  <2>4. QED
    BY <1>2, <1>9, <2>1, <2>2, <2>3 DEF HookLoad
<1>10. CASE UNCHANGED <<pc, ctx>>
  BY <1>1, <1>10 DEF ReadingRow, Context
<1>11. CASE WorkerRestart
  BY <1>11 DEF WorkerRestart, ReadingRow
<1>12. \/ \E q \in Requests : \/ \E p \in Payments : PollBegin(q, p)
                              \/ PollRead(q) \/ PollAnswer(q) \/ PollError(q)
                              \/ \E m \in callbacks : HookRead(q, m)
                              \/ HookLoad(q) \/ Settle(q)
       \/ WorkerRestart \/ UNCHANGED <<pc, ctx>>
  BY DEF Next, Provider, Subscribe, Poll, Webhook, CampayCollect, CampayResolve,
         CampayCallback, SubscribeBegin, SubscribeCommit, SubscribeFail,
         AdminSetStatus, MeteredUse, vars, Requests
<1>13. QED
  BY <1>4, <1>5, <1>6, <1>7, <1>8, <1>9, <1>10, <1>11, <1>12

\* What the commit of a settlement leaves in completed_at.
LEMMA SettleCompletes ==
  ASSUME IInv, StampsStay, NEW r \in Requests, Settle(r)
  PROVE  payments'[ctx[r].payment].completed
<1>1. PICK p \in Payments : p = ctx[r].payment
  BY DEF Settle, Context, IInv, TypeOK
<1>2. PICK loaded \in PaymentRow : loaded = ctx[r].row
  BY DEF Settle, Context, IInv, TypeOK, InFlightIsTrue
<1>3. PICK mine : mine = [status |-> ctx[r].status, completed |-> TRUE]
  OBVIOUS
<1>4. /\ payments[p] \in PaymentRow
      /\ loaded.completed => payments[p].completed
  BY <1>1, <1>2
     DEF Settle, Context, IInv, TypeOK, InFlightIsTrue, StampsStay, ReadingRow
<1>5. payments'[p] = Flush(payments[p], loaded, mine)
  BY <1>1, <1>2, <1>3 DEF Settle, IInv, TypeOK
<1>6. /\ mine.completed = TRUE
      /\ payments[p].completed \in BOOLEAN /\ loaded.completed \in BOOLEAN
  BY <1>3, <1>4 DEF PaymentRow
<1>7. Flush(payments[p], loaded, mine).completed =
        IF mine.completed = loaded.completed
          THEN payments[p].completed ELSE mine.completed
  BY <1>4 DEF Flush, PaymentRow
<1>8. CASE loaded.completed = TRUE
  BY <1>1, <1>4, <1>5, <1>6, <1>7, <1>8, Zenon
<1>9. CASE loaded.completed = FALSE
  BY <1>1, <1>5, <1>6, <1>7, <1>9, Zenon
<1>10. QED
  BY <1>6, <1>8, <1>9, Zenon

\* A row that has its stamp keeps it.
LEMMA StampedForGood ==
  ASSUME IInv, IInv', StampsStay, [Next]_vars, NEW p \in Payments,
         payments[p] # None, payments[p].completed
  PROVE  payments'[p] # None /\ payments'[p].completed
<1>1. ASSUME NEW q \in Payments, SubscribeCommit(q), q = p PROVE FALSE
  BY <1>1 DEF SubscribeCommit, IInv, InFlightIsTrue
<1>2. ASSUME NEW r \in Requests, Settle(r), p = ctx[r].payment
      PROVE  payments'[p] # None /\ payments'[p].completed
  BY <1>2, SettleWrites, SettleCompletes, NoneAssumption
<1>3. \/ payments'[p] = payments[p]
      \/ \E q \in Payments : SubscribeCommit(q) /\ q = p
      \/ \E r \in Requests : Settle(r) /\ p = ctx[r].payment
  BY RowSteps
<1>4. QED
  BY <1>1, <1>2, <1>3

LEMMA StampsStayStep ==
  ASSUME IInv, IInv', StampsStay, [Next]_vars
  PROVE  StampsStay'
<1> SUFFICES ASSUME NEW r \in Requests, pc'[r] \in ReadingRow, ctx'[r].row.completed
             PROVE  payments'[ctx'[r].payment].completed
  BY DEF StampsStay
<1>1. /\ ctx'[r].payment \in Payments
      /\ payments[ctx'[r].payment] # None
      /\ payments[ctx'[r].payment].completed
  BY RowsAreRead DEF StampsStay
<1>2. QED
  BY <1>1, StampedForGood

LEMMA ExplainedStep ==
  ASSUME IInv, IInv', CarriedIsTold, StampsStay, CompletedIsExplained, [Next]_vars
  PROVE  CompletedIsExplained'
<1> SUFFICES ASSUME NEW p \in Payments, payments'[p] # None
             PROVE  /\ payments'[p].status \in Terminal => payments'[p].completed
                    /\ payments'[p].completed =>
                         \/ payments'[p].status \in Terminal
                         \/ CalledBackEarly(p)' /\ trail'[p].failed > 0
  BY DEF CompletedIsExplained
<1>1. CalledBackEarly(p) => CalledBackEarly(p)'
  BY CallbacksStay DEF CalledBackEarly
<1>2. ASSUME NEW q \in Payments, SubscribeCommit(q)
      PROVE  /\ trail'[p].failed = trail[p].failed
             /\ q = p => payments'[p] = NewPayment
             /\ q # p => payments'[p] = payments[p]
  BY <1>2 DEF SubscribeCommit, IInv, TypeOK
<1>3. CASE payments'[p] = payments[p] /\ trail'[p].failed = trail[p].failed
  BY <1>1, <1>3 DEF CompletedIsExplained
<1>4. CASE payments'[p] = NewPayment
  BY <1>4 DEF NewPayment, Terminal
<1>5. ASSUME NEW r \in Requests, Settle(r), p = ctx[r].payment
      PROVE  /\ payments'[p].status \in Terminal => payments'[p].completed
             /\ payments'[p].completed =>
                  \/ payments'[p].status \in Terminal
                  \/ CalledBackEarly(p)' /\ trail'[p].failed > 0
  <2>1. payments'[p].completed
    BY <1>5, SettleCompletes
  <2>2. CASE ctx[r].status \in Terminal
    BY <1>5, <2>1, <2>2, SettleWrites DEF Terminal
  <2>3. CASE ctx[r].status = "PENDING"
    <3>1. CalledBackEarly(p)'
      BY <1>1, <1>5, <2>3 DEF CarriedIsTold, Settle
    <3>2. trail \in [Payments -> [initiated: Nat, succeeded: Nat, failed: Nat]]
      BY DEF IInv, TypeOK
    <3>3. trail' = [trail EXCEPT ![p].failed = @ + 1]
      BY <1>5, <2>3, SettleWrites
    <3>4. trail'[p].failed = trail[p].failed + 1 /\ trail[p].failed \in Nat
      BY <3>2, <3>3
    <3>5. trail'[p].failed > 0
      BY <3>4
    <3>6. QED
      BY <2>1, <3>1, <3>5
  <2>4. QED
    BY <1>5, <2>2, <2>3, SettleWrites DEF Context, PaymentStatus, Terminal
<1>6. ASSUME NEW r \in Requests, Settle(r), p # ctx[r].payment
      PROVE  payments'[p] = payments[p] /\ trail'[p].failed = trail[p].failed
  <2>1. trail \in [Payments -> [initiated: Nat, succeeded: Nat, failed: Nat]]
    BY DEF IInv, TypeOK
  <2>2. QED
    BY <1>6, <2>1, SettleWrites
<1>7. QED
  BY <1>2, <1>3, <1>4, <1>5, <1>6, RowAndTrailSteps

\* A settled row has its completed_at, and a row that has it while PENDING got
\* it from a PENDING callback, for any number of requests and callbacks.
THEOREM CompletedIsAccountedFor == Spec => []CompletedIsExplained
<1> DEFINE CInv == CarriedIsTold /\ StampsStay /\ CompletedIsExplained
<1>1. Init => CInv
  BY DEF Init, CarriedIsTold, StampsStay, ReadingRow, CompletedIsExplained
<1>2. IInv /\ IInv' /\ CInv /\ [Next]_vars => CInv'
  BY CarriedToldStep, StampsStayStep, ExplainedStep
<1>3. QED
  BY <1>1, <1>2, Invariance, PTL DEF Spec

-----------------------------------------------------------------------------
(* Entitlement.  A settlement writes the account from a copy it may have   *)
(* read long ago, so the copies must be entitled too; they stay so because *)
(* what was paid stays paid.                                               *)

Paid == {p \in Payments : payments[p] # None /\ payments[p].status = "SUCCESSFUL"}

\* Account row a is paid for by the payments in paid, or reactivated by log.
EntitledBy(a, paid, log) ==
  /\ a.status = "ACTIVE" => paid # {} \/ "mfi.reactivated" \in log
  /\ a.plan # SignupPlan => \E p \in paid : PlanOf[p] = a.plan

CopiesEntitled ==
  \A r \in Requests : pc[r] # "idle" /\ ctx[r].account # None =>
    EntitledBy(ctx[r].account, Paid, adminLog)

LEMMA EntitledStays ==
  ASSUME NEW a, NEW paid, NEW log, NEW more \in SUBSET Payments, NEW longer,
         paid \subseteq more, log \subseteq longer, EntitledBy(a, paid, log)
  PROVE  EntitledBy(a, more, longer)
BY DEF EntitledBy

\* A flush takes status and plan each from the stored row or the session's.
LEMMA FlushEntitled ==
  ASSUME NEW stored \in AccountRow, NEW loaded \in AccountRow,
         NEW mine \in AccountRow, NEW paid, NEW log,
         EntitledBy(stored, paid, log), EntitledBy(mine, paid, log)
  PROVE  EntitledBy(Flush(stored, loaded, mine), paid, log)
<1>1. /\ Flush(stored, loaded, mine).status \in {stored.status, mine.status}
      /\ Flush(stored, loaded, mine).plan \in {stored.plan, mine.plan}
  BY DEF Flush, AccountRow
<1>2. QED
  BY <1>1 DEF EntitledBy

\* What was paid stays paid, and the audit log only grows.
LEMMA PaidStays ==
  ASSUME IInv, IInv', [Next]_vars
  PROVE  Paid \subseteq Paid' /\ adminLog \subseteq adminLog'
<1>1. Paid \subseteq Paid'
  <2>1. ASSUME NEW p \in Payments, payments[p] # None,
               payments[p].status = "SUCCESSFUL"
        PROVE  payments'[p] # None /\ payments'[p].status = "SUCCESSFUL"
    BY <2>1, PaymentRowSteps
  <2>2. QED
    BY <2>1 DEF Paid
<1>2. adminLog \subseteq adminLog'
  BY DEF Next, Provider, Subscribe, Poll, Webhook, CampayCollect, CampayResolve,
         CampayCallback, SubscribeBegin, SubscribeCommit, SubscribeFail,
         PollBegin, PollRead, PollAnswer, PollError, HookRead, HookLoad, Settle,
         AdminSetStatus, MeteredUse, WorkerRestart, vars
<1>3. QED
  BY <1>1, <1>2

\* The copy a request holds after a step is the one it held, or the row.
LEMMA CopiesAreRead ==
  ASSUME IInv, IInv', [Next]_vars, NEW r \in Requests,
         pc'[r] # "idle", ctx'[r].account # None
  PROVE  \/ ctx'[r].account = account
         \/ pc[r] # "idle" /\ ctx'[r].account = ctx[r].account
<1>1. /\ pc \in [Requests -> {"idle", "authed", "asking", "loading", "settling"}]
      /\ ctx \in [Requests -> Context \cup {None}]
      /\ \A q \in Requests : pc[q] # "idle" => ctx[q] \in Context
  BY DEF IInv, TypeOK
<1>2. ASSUME NEW q \in Requests, NEW label, NEW c, Enter(q, label, c),
             label # "idle" => \/ c.account \in {account, None}
                               \/ pc[q] # "idle" /\ c.account = ctx[q].account
      PROVE  \/ ctx'[r].account = account
             \/ pc[r] # "idle" /\ ctx'[r].account = ctx[r].account
  BY <1>1, <1>2 DEF Enter
<1>3. ASSUME NEW q \in Requests, Return(q)
      PROVE  \/ ctx'[r].account = account
             \/ pc[r] # "idle" /\ ctx'[r].account = ctx[r].account
  BY <1>2, <1>3 DEF Return
<1>4. ASSUME NEW q \in Requests, NEW p \in Payments, PollBegin(q, p)
      PROVE  \/ ctx'[r].account = account
             \/ pc[r] # "idle" /\ ctx'[r].account = ctx[r].account
  BY <1>2, <1>4 DEF PollBegin
<1>5. ASSUME NEW q \in Requests, PollRead(q) \/ PollAnswer(q)
      PROVE  \/ ctx'[r].account = account
             \/ pc[r] # "idle" /\ ctx'[r].account = ctx[r].account
  <2>1. pc[q] # "idle" /\ ctx[q] \in Context
    BY <1>1, <1>5 DEF PollRead, PollAnswer
  <2>2. \A x : /\ [ctx[q] EXCEPT !.row = x].account = ctx[q].account
               /\ [ctx[q] EXCEPT !.status = x].account = ctx[q].account
    BY <2>1 DEF Context
  <2>3. QED
    BY <1>2, <1>3, <1>5, <2>1, <2>2 DEF PollRead, PollAnswer
<1>6. ASSUME NEW q \in Requests, PollError(q) \/ Settle(q)
      PROVE  \/ ctx'[r].account = account
             \/ pc[r] # "idle" /\ ctx'[r].account = ctx[r].account
  BY <1>3, <1>6 DEF PollError, Settle
<1>7. ASSUME NEW q \in Requests, NEW m \in callbacks, HookRead(q, m)
      PROVE  \/ ctx'[r].account = account
             \/ pc[r] # "idle" /\ ctx'[r].account = ctx[r].account
  BY <1>2, <1>7 DEF HookRead
<1>8. ASSUME NEW q \in Requests, HookLoad(q)
      PROVE  \/ ctx'[r].account = account
             \/ pc[r] # "idle" /\ ctx'[r].account = ctx[r].account
  <2>1. [ctx[q] EXCEPT !.account = account].account = account
    BY <1>1, <1>8 DEF HookLoad, Context
  <2>2. QED
    BY <1>2, <1>8, <2>1 DEF HookLoad
<1>9. CASE UNCHANGED <<pc, ctx>>
  BY <1>9
<1>10. CASE WorkerRestart
  BY <1>10 DEF WorkerRestart
<1>11. \/ \E q \in Requests : \/ \E p \in Payments : PollBegin(q, p)
                              \/ PollRead(q) \/ PollAnswer(q) \/ PollError(q)
                              \/ \E m \in callbacks : HookRead(q, m)
                              \/ HookLoad(q) \/ Settle(q)
       \/ WorkerRestart \/ UNCHANGED <<pc, ctx>>
  BY DEF Next, Provider, Subscribe, Poll, Webhook, CampayCollect, CampayResolve,
         CampayCallback, SubscribeBegin, SubscribeCommit, SubscribeFail,
         AdminSetStatus, MeteredUse, vars, Requests
<1>12. QED
  BY <1>4, <1>5, <1>6, <1>7, <1>8, <1>9, <1>10, <1>11

\* The row after a step is entitled: a settlement's plan is paid for by the
\* payment it settles, whatever copy of the row it started from.
LEMMA AccountStaysEntitled ==
  ASSUME IInv, IInv', [Next]_vars, CopiesEntitled,
         EntitledBy(account, Paid, adminLog)
  PROVE  EntitledBy(account', Paid', adminLog')
<1>1. /\ Paid' \in SUBSET Payments
      /\ Paid \subseteq Paid' /\ adminLog \subseteq adminLog'
  BY PaidStays DEF Paid
<1>2. EntitledBy(account, Paid', adminLog')
  BY <1>1, EntitledStays
<1>3. account \in AccountRow
  BY DEF IInv, TypeOK
<1>4. ASSUME NEW r \in Requests, Settle(r), ctx[r].status = "SUCCESSFUL"
      PROVE  EntitledBy(account', Paid', adminLog')
  <2>1. ctx[r].account \in AccountRow /\ ctx[r].payment \in Payments
    BY <1>4, SettleWrites DEF Settle, IInv, InFlightIsTrue, Context
  <2>2. PICK p \in Payments : p = ctx[r].payment
    BY <2>1
  <2>3. PICK mine : mine = Activate(ctx[r].account, PlanOf[p], Today)
    OBVIOUS
  <2>4. mine \in AccountRow /\ mine.plan = PlanOf[p]
    BY <2>1, <2>3, AccountUpdates, PaymentsAssumption DEF Activate, AccountRow
  <2>5. p \in Paid'
    <3>1. payments'[p] \in PaymentRow /\ payments'[p].status = "SUCCESSFUL"
      BY <1>4, <2>2, SettleWrites
    <3>2. QED
      BY <3>1, NoneAssumption DEF Paid
  <2>6. EntitledBy(mine, Paid', adminLog')
    BY <2>4, <2>5 DEF EntitledBy
  <2>7. account' = Flush(account, ctx[r].account, mine)
    BY <1>4, <2>2, <2>3 DEF Settle
  <2>8. QED
    BY <1>2, <1>3, <2>1, <2>4, <2>6, <2>7, FlushEntitled
<1>5. CASE AdminSetStatus
  <2>1. PICK s \in {"ACTIVE", "SUSPENDED"} :
          /\ account' = [account EXCEPT !.status = s]
          /\ adminLog' = adminLog \cup
               {IF s = "SUSPENDED" THEN "mfi.suspended" ELSE "mfi.reactivated"}
    BY <1>5 DEF AdminSetStatus
  <2>2. account'.plan = account.plan /\ account'.status = s
    BY <1>3, <2>1 DEF AccountRow
  <2>3. QED
    BY <1>2, <2>1, <2>2 DEF EntitledBy
<1>6. CASE MeteredUse
  <2>1. account'.plan = account.plan /\ account'.status = account.status
    BY <1>3, <1>6 DEF MeteredUse, RecordUsage, RollPeriod, AccountRow
  <2>2. QED
    BY <1>2, <2>1 DEF EntitledBy
<1>7. CASE UNCHANGED account
  BY <1>2, <1>7
<1>8. \/ \E r \in Requests : Settle(r) /\ ctx[r].status = "SUCCESSFUL"
      \/ AdminSetStatus \/ MeteredUse \/ UNCHANGED account
  BY DEF Next, Provider, Subscribe, Poll, Webhook, CampayCollect, CampayResolve,
         CampayCallback, SubscribeBegin, SubscribeCommit, SubscribeFail,
         PollBegin, PollRead, PollAnswer, PollError, HookRead, HookLoad, Settle,
         WorkerRestart, vars, Requests
<1>9. QED
  BY <1>4, <1>5, <1>6, <1>7, <1>8

\* So do the copies.
LEMMA CopiesStayEntitled ==
  ASSUME IInv, IInv', [Next]_vars, CopiesEntitled,
         EntitledBy(account, Paid, adminLog)
  PROVE  CopiesEntitled'
<1>1. /\ Paid' \in SUBSET Payments
      /\ Paid \subseteq Paid' /\ adminLog \subseteq adminLog'
  BY PaidStays DEF Paid
<1>2. ASSUME NEW r \in Requests, pc'[r] # "idle", ctx'[r].account # None
      PROVE  EntitledBy(ctx'[r].account, Paid', adminLog')
  <2>1. EntitledBy(ctx'[r].account, Paid, adminLog)
    BY <1>2, CopiesAreRead DEF CopiesEntitled
  <2>2. QED
    BY <1>1, <2>1, EntitledStays
<1>3. QED
  BY <1>2 DEF CopiesEntitled

\* An account is ACTIVE only after a successful payment or an admin's
\* reactivation, and on a plan it did not sign up for only after a successful
\* payment for that plan, whatever stale copies settlements write back.
THEOREM EntitlementIsEarned == Spec => []EntitlementIsPaidFor
<1> DEFINE EInv == EntitledBy(account, Paid, adminLog) /\ CopiesEntitled
<1>1. Init => EInv
  BY DEF Init, SignedUp, EntitledBy, CopiesEntitled
<1>2. IInv /\ IInv' /\ EInv /\ [Next]_vars => EInv'
  BY AccountStaysEntitled, CopiesStayEntitled
<1>3. EInv => EntitlementIsPaidFor
  BY DEF EntitledBy, EntitlementIsPaidFor, Paid
<1> HIDE DEF EInv
<1>4. QED
  BY <1>1, <1>2, <1>3, Invariance, PTL DEF Spec

-----------------------------------------------------------------------------
(* How often a payment is settled.  A request that settles read the row    *)
(* while it was PENDING; once a settlement is committed nobody reads it so *)
(* again.  So the entries a payment collects are bounded by the requests   *)
(* served at once, if callbacks tell final outcomes only.                  *)

FinalCallbacks == "PENDING" \notin CallbackStatuses

Entries(p) == trail[p].succeeded + trail[p].failed

\* The requests under way that read p's row while it was PENDING.
Carrying(p) ==
  {r \in Requests : pc[r] \in {"asking", "loading", "settling"}
                      /\ ctx[r].payment = p}

\* Only final outcomes are on their way to a settlement.
CallbacksAreFinal == \A m \in callbacks : m.status # "PENDING"

CarriedIsFinal ==
  \A r \in Requests :
    pc[r] \in {"loading", "settling"} => ctx[r].status # "PENDING"

IsSettled(p) == payments[p] # None /\ payments[p].status \in Terminal

SettledInTime ==
  \A p \in Payments : Entries(p) > 0 =>
    /\ IsSettled(p)
    /\ Entries(p) + Cardinality(Carrying(p)) <= Cardinality(Requests)

LEMMA CarriedAreFinal ==
  CallbacksAreFinal /\ CarriedIsTold => CarriedIsFinal
BY DEF CallbacksAreFinal, CarriedIsTold, CarriedIsFinal, CalledBackEarly

LEMMA CallbacksFinalStep ==
  ASSUME FinalCallbacks, CallbacksAreFinal, [Next]_vars
  PROVE  CallbacksAreFinal'
<1>1. ASSUME NEW p \in Payments, CampayCallback(p) PROVE CallbacksAreFinal'
  BY <1>1 DEF CampayCallback, FinalCallbacks, CallbacksAreFinal
<1>2. CASE UNCHANGED callbacks
  BY <1>2 DEF CallbacksAreFinal
<1>3. (\E p \in Payments : CampayCallback(p)) \/ UNCHANGED callbacks
  BY DEF Next, Provider, Subscribe, Poll, Webhook, CampayCollect, CampayResolve,
         SubscribeBegin, SubscribeCommit, SubscribeFail, PollBegin, PollRead,
         PollAnswer, PollError, HookRead, HookLoad, Settle, AdminSetStatus,
         MeteredUse, WorkerRestart, vars, external
<1>4. QED
  BY <1>1, <1>2, <1>3

\* Nobody starts to settle a payment that is settled.
LEMMA CarryingShrinks ==
  ASSUME IInv, [Next]_vars, NEW p \in Payments, IsSettled(p)
  PROVE  Carrying(p)' \subseteq Carrying(p)
<1> USE DEF Carrying
<1>1. /\ pc \in [Requests -> {"idle", "authed", "asking", "loading", "settling"}]
      /\ ctx \in [Requests -> Context \cup {None}]
      /\ \A q \in Requests : pc[q] # "idle" => ctx[q] \in Context
  BY DEF IInv, TypeOK
<1>2. ASSUME NEW r \in Requests, NEW label, NEW c, Enter(r, label, c),
             label \in {"asking", "loading", "settling"} /\ c.payment = p
               => r \in Carrying(p)
      PROVE  Carrying(p)' \subseteq Carrying(p)
  BY <1>1, <1>2 DEF Enter
<1>3. ASSUME NEW r \in Requests, Return(r)
      PROVE  Carrying(p)' \subseteq Carrying(p)
  BY <1>2, <1>3 DEF Return
<1>4. ASSUME NEW r \in Requests, NEW q \in Payments, PollBegin(r, q)
      PROVE  Carrying(p)' \subseteq Carrying(p)
  BY <1>2, <1>4 DEF PollBegin
<1>5. ASSUME NEW r \in Requests, PollRead(r)
      PROVE  Carrying(p)' \subseteq Carrying(p)
  <2>1. ctx[r] \in Context
    BY <1>1, <1>5 DEF PollRead
  <2>2. \A x : [ctx[r] EXCEPT !.row = x].payment = ctx[r].payment
    BY <2>1 DEF Context
  <2>3. payments[p].status # "PENDING"
    BY DEF IsSettled, Terminal
  <2>4. QED
    BY <1>2, <1>3, <1>5, <2>2, <2>3 DEF PollRead
<1>6. ASSUME NEW r \in Requests, PollAnswer(r)
      PROVE  Carrying(p)' \subseteq Carrying(p)
  <2>1. ctx[r] \in Context
    BY <1>1, <1>6 DEF PollAnswer
  <2>2. \A x : [ctx[r] EXCEPT !.status = x].payment = ctx[r].payment
    BY <2>1 DEF Context
  <2>3. QED
    BY <1>2, <1>3, <1>6, <2>2 DEF PollAnswer
<1>7. ASSUME NEW r \in Requests, PollError(r) \/ Settle(r)
      PROVE  Carrying(p)' \subseteq Carrying(p)
  BY <1>3, <1>7 DEF PollError, Settle
<1>8. ASSUME NEW r \in Requests, NEW m \in callbacks, HookRead(r, m)
      PROVE  Carrying(p)' \subseteq Carrying(p)
  <2>1. m.payment # p
    BY <1>8 DEF HookRead, IsSettled, Terminal
  <2>2. QED
    BY <1>2, <1>8, <2>1 DEF HookRead
<1>9. ASSUME NEW r \in Requests, HookLoad(r)
      PROVE  Carrying(p)' \subseteq Carrying(p)
  <2>1. ctx[r] \in Context
    BY <1>1, <1>9 DEF HookLoad
  <2>2. \A x : [ctx[r] EXCEPT !.account = x].payment = ctx[r].payment
    BY <2>1 DEF Context
  <2>3. QED
    BY <1>2, <1>9, <2>2 DEF HookLoad
<1>10. CASE WorkerRestart
  BY <1>10 DEF WorkerRestart
<1>11. CASE UNCHANGED <<pc, ctx>>
  BY <1>11
<1>12. \/ \E q \in Requests : \/ \E k \in Payments : PollBegin(q, k)
                              \/ PollRead(q) \/ PollError(q) \/ Settle(q)
                              \/ PollAnswer(q) \/ HookLoad(q)
                              \/ \E m \in callbacks : HookRead(q, m)
       \/ WorkerRestart \/ UNCHANGED <<pc, ctx>>
  BY DEF Next, Provider, Subscribe, Poll, Webhook, CampayCollect, CampayResolve,
         CampayCallback, SubscribeBegin, SubscribeCommit, SubscribeFail,
         AdminSetStatus, MeteredUse, vars, Requests
<1>13. QED
  BY <1>4, <1>5, <1>6, <1>7, <1>8, <1>9, <1>10, <1>11, <1>12

\* A settlement adds one entry and takes one request off those that carry p.
LEMMA SettleAddsOne ==
  ASSUME IsFiniteSet(Requests), IInv, CarriedIsFinal, SettledInTime,
         NEW r \in Requests, Settle(r), NEW p \in Payments, p = ctx[r].payment
  PROVE  /\ IsSettled(p)'
         /\ Entries(p)' + Cardinality(Carrying(p)') <= Cardinality(Requests)
<1>1. ctx[r] \in Context /\ ctx[r].status \in Terminal
  <2>1. ctx[r] \in Context /\ pc[r] = "settling"
    BY SettleWrites DEF Settle
  <2>2. QED
    BY <2>1 DEF CarriedIsFinal, Context, PaymentStatus, Terminal
<1>2. IsSettled(p)'
  <2>1. payments'[p] \in PaymentRow /\ payments'[p].status = ctx[r].status
    BY <1>1, SettleWrites DEF Terminal
  <2>2. QED
    BY <1>1, <2>1, NoneAssumption DEF IsSettled
<1>3. Entries(p) \in Nat /\ Entries(p)' = Entries(p) + 1
  <2>1. trail \in [Payments -> [initiated: Nat, succeeded: Nat, failed: Nat]]
    BY DEF IInv, TypeOK
  <2>2. trail' = IF ctx[r].status = "SUCCESSFUL"
                   THEN [trail EXCEPT ![p].succeeded = @ + 1]
                   ELSE [trail EXCEPT ![p].failed = @ + 1]
    BY SettleWrites
  <2>3. QED
    BY <2>1, <2>2 DEF Entries
<1>4. r \in Carrying(p) /\ Carrying(p)' \subseteq Carrying(p) \ {r}
  <2>1. /\ pc \in [Requests -> {"idle", "authed", "asking", "loading", "settling"}]
        /\ ctx \in [Requests -> Context \cup {None}]
    BY DEF IInv, TypeOK
  <2>2. QED
    BY <2>1 DEF Carrying, Settle, Return, Enter
<1>5. /\ IsFiniteSet(Carrying(p)) /\ Cardinality(Carrying(p)) \in Nat
      /\ Cardinality(Requests) \in Nat
      /\ Cardinality(Carrying(p)) <= Cardinality(Requests)
  BY FS_Subset, FS_CardinalityType DEF Carrying
<1>6. /\ IsFiniteSet(Carrying(p) \ {r})
      /\ Cardinality(Carrying(p) \ {r}) = Cardinality(Carrying(p)) - 1
  BY <1>4, <1>5, FS_RemoveElement
<1>7. /\ Cardinality(Carrying(p)') \in Nat
      /\ Cardinality(Carrying(p)') <= Cardinality(Carrying(p)) - 1
  BY <1>4, <1>5, <1>6, FS_Subset, FS_CardinalityType
<1>8. Entries(p) > 0 =>
        Entries(p) + Cardinality(Carrying(p)) <= Cardinality(Requests)
  BY DEF SettledInTime
<1>9. Entries(p)' + Cardinality(Carrying(p)') <= Cardinality(Requests)
  BY <1>3, <1>5, <1>7, <1>8
<1>10. QED
  BY <1>2, <1>9

LEMMA SettledInTimeStep ==
  ASSUME IsFiniteSet(Requests), IInv, IInv', CarriedIsFinal, SettledInTime,
         [Next]_vars
  PROVE  SettledInTime'
<1> SUFFICES ASSUME NEW p \in Payments, Entries(p)' > 0
             PROVE  /\ IsSettled(p)'
                    /\ Entries(p)' + Cardinality(Carrying(p)')
                         <= Cardinality(Requests)
  BY DEF SettledInTime
<1>1. CASE \E r \in Requests : Settle(r) /\ p = ctx[r].payment
  BY <1>1, SettleAddsOne
<1>2. CASE Entries(p)' = Entries(p)
  <2>1. IsSettled(p)
    BY <1>2 DEF SettledInTime
  <2>2. Entries(p) + Cardinality(Carrying(p)) <= Cardinality(Requests)
    BY <1>2 DEF SettledInTime
  <2>3. IsSettled(p)'
    BY <2>1, PaymentRowSteps DEF IsSettled, Terminal
  <2>4. Carrying(p)' \subseteq Carrying(p)
    BY <2>1, CarryingShrinks
  <2>5. IsFiniteSet(Carrying(p))
    BY FS_Subset DEF Carrying
  <2>6. /\ Cardinality(Carrying(p)) \in Nat /\ Cardinality(Carrying(p)') \in Nat
        /\ Cardinality(Requests) \in Nat
        /\ Cardinality(Carrying(p)') <= Cardinality(Carrying(p))
    BY <2>4, <2>5, FS_Subset, FS_CardinalityType
  <2>7. Entries(p) \in Nat
    BY DEF IInv, TypeOK, Entries
  <2>8. QED
    BY <1>2, <2>2, <2>3, <2>6, <2>7
<1>3. Entries(p)' = Entries(p) \/ \E r \in Requests : Settle(r) /\ p = ctx[r].payment
  <2>1. trail \in [Payments -> [initiated: Nat, succeeded: Nat, failed: Nat]]
    BY DEF IInv, TypeOK
  <2>2. ASSUME NEW q \in Payments, SubscribeCommit(q) PROVE Entries(p)' = Entries(p)
    BY <2>1, <2>2 DEF SubscribeCommit, Entries
  <2>3. ASSUME NEW r \in Requests, Settle(r), p # ctx[r].payment
        PROVE  Entries(p)' = Entries(p)
    BY <2>1, <2>3, SettleWrites DEF Entries
  <2>4. CASE UNCHANGED trail
    BY <2>4 DEF Entries
  <2>5. QED
    BY <2>2, <2>3, <2>4, RowAndTrailSteps
<1>4. QED
  BY <1>1, <1>2, <1>3

\* A payment collects at most as many settlement entries as the server serves
\* requests at once, when the provider calls back with final outcomes only.
SettlementsBounded ==
  \A p \in Payments : Entries(p) <= Cardinality(Requests)

THEOREM SettledOncePerRequest ==
  ASSUME IsFiniteSet(Requests), FinalCallbacks
  PROVE  Spec => []SettlementsBounded
<1> DEFINE Final == CallbacksAreFinal /\ CarriedIsTold
<1>1. Init => Final /\ SettledInTime
  BY DEF Init, CallbacksAreFinal, CarriedIsTold, SettledInTime, Entries
<1>2. IInv /\ IInv' /\ Final /\ SettledInTime /\ [Next]_vars
        => Final' /\ SettledInTime'
  BY CallbacksFinalStep, CarriedToldStep, CarriedAreFinal, SettledInTimeStep
<1>3. IInv /\ SettledInTime => SettlementsBounded
  <2> SUFFICES ASSUME IInv, SettledInTime, NEW p \in Payments
               PROVE  Entries(p) <= Cardinality(Requests)
    BY DEF SettlementsBounded
  <2>1. Entries(p) \in Nat
    BY DEF IInv, TypeOK, Entries
  <2>2. /\ Cardinality(Carrying(p)) \in Nat /\ Cardinality(Requests) \in Nat
    BY FS_Subset, FS_CardinalityType DEF Carrying
  <2>3. QED
    BY <2>1, <2>2 DEF SettledInTime
<1>4. QED
  BY <1>1, <1>2, <1>3, Invariance, PTL DEF Spec

\* So a server that handles one request at a time settles a payment once.
THEOREM SettlesOnceInSeries ==
  ASSUME IsFiniteSet(Requests), Cardinality(Requests) = 1, FinalCallbacks
  PROVE  Spec => []SettlesExactlyOnce
<1>1. SettlementsBounded => SettlesExactlyOnce
  BY DEF SettlementsBounded, SettlesExactlyOnce, Entries
<1>2. QED
  BY <1>1, SettledOncePerRequest, PTL

=============================================================================
