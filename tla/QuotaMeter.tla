----------------------------- MODULE QuotaMeter -----------------------------
(***************************************************************************)
(* What a subscription promises: within one billing period no more         *)
(* verifications are served than the plan allows, and the count starts     *)
(* again with a new calendar month or with a paid (re)activation, never    *)
(* otherwise.                                                              *)
(***************************************************************************)
EXTENDS Naturals

CONSTANTS Plans, Quota, NoCycle

VARIABLES
  today,     \* the month
  plan,
  period,    \* the month the billing period belongs to
  served     \* verifications served in it

vars == <<today, plan, period, served>>

Init == today = 1 /\ plan \in Plans /\ period = NoCycle /\ served = 0

NextMonth == today' = today + 1 /\ UNCHANGED <<plan, period, served>>

\* Each month opens one period at most; its opening may run over midnight.
NewPeriod ==
  /\ period' \in (period + 1)..today
  /\ served' = 0
  /\ UNCHANGED <<today, plan>>

Serve ==
  /\ served < Quota[plan]
  /\ served' = served + 1
  /\ UNCHANGED <<today, plan, period>>

Activate ==
  /\ plan' \in Plans
  /\ period' = today
  /\ served' = 0
  /\ UNCHANGED today

Next == NextMonth \/ NewPeriod \/ Serve \/ Activate

Spec == Init /\ [][Next]_vars

=============================================================================
